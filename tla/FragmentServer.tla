--------------------------- MODULE FragmentServer ---------------------------
(***************************************************************************)
(* ngx_http_mp4frag_handler: one request, from its method and path to its  *)
(* response.  The handler maps the index and walks it field by field,      *)
(* checking before each read that the field is inside the mapping; then it *)
(* maps the source file and builds the fragment in a buffer of the size    *)
(* the index gives.                                                        *)
(*                                                                         *)
(* The world a request meets is an input: any prefix of an index (one that *)
(* is being written, or whose writer failed), of any version, and source   *)
(* files that may be gone or shorter than when the index was made.         *)
(* nginx is external: its header and output filters may fail, ngx_pcalloc   *)
(* and ngx_http_discard_request_body are taken to succeed.                  *)
(***************************************************************************)
EXTENDS IndexFormat

CONSTANTS
  Worlds,      (* What is on disk: see IsWorld.                    *)
  Requests     (* What can be asked: see IsRequest.                *)

(* A whole index: `full` bytes of cells that describe medialist, but that  *)
(* the signature and the version may be others.                            *)
IsIndex(ix) ==
  /\ ix.medialist \in Seq(Media)
  /\ \A i \in 1..Len(ix.medialist) : Writable(ix.medialist[i])
  /\ ix.full \in Nat
  /\ DOMAIN ix.cells \subseteq Nat
  /\ HasCell(ix.cells, ix.full, 0, Cell(7, ix.cells[0].value))
  /\ HasCell(ix.cells, ix.full, 7, Cell(1, ix.cells[7].value)) /\ ix.cells[7].value \in Nat
  /\ DescribesSources(ix.cells, ix.full, ix.medialist)

(* A file that make_mapping can meet; an empty file cannot be mapped. *)
FileStates == {"missing", "denied", "present"}

(* The index on disk is the first `length` bytes of a whole one; the source *)
(* files are given by name.  The size of a sample is a number of 32 bits.    *)
IsWorld(w) ==
  /\ IsIndex(w.whole)
  /\ w.state \in FileStates
  /\ w.length \in 0..w.whole.full
  /\ \A i \in 1..Len(w.whole.medialist) :
       LET f == w.files[w.whole.medialist[i].name.id] IN
       f.state \in FileStates /\ f.length \in Nat
  /\ \A i \in 1..Len(w.whole.medialist) :
       LET frs == w.whole.medialist[i].fragments IN
       \A k \in 1..Len(frs) : \A j \in 1..Len(frs[k]) :
         frs[k][j].size < U32

(* path: whether the last component of the path starts with "Seg1-Frag".   *)
(* The two numbers are what atoi makes of the path, as unsigned.           *)
IsRequest(r) ==
  /\ r.method \in {"GET", "HEAD", "POST"} /\ r.path \in BOOLEAN
  /\ r.medianum \in Nat /\ r.fragnum \in Nat

ASSUME InputsAssumption ==
  /\ \A w \in Worlds : IsWorld(w)
  /\ \A r \in Requests : IsRequest(r)

VARIABLES
  world, request,  (* Inputs, never assigned.                                      *)
  pc,              (* The part of the handler to run next.                         *)
  indexptr,        (* Position in the index.                                       *)
  got,             (* What has been read from the index: the handler's locals.     *)
  resp_body,       (* Bytes of the response written so far.                        *)
  body,            (* The FLV packets written so far.                              *)
  mapped,          (* The mappings that exist: a subset of {"index", "media"}.     *)
  response,        (* NoResponse, then the status.                                 *)
  sent,            (* The packets given to nginx for the client.                   *)
  reads,           (* History: the <<position, bytes>> read from the index.        *)
  unmapped         (* History: number of times each mapping was released.          *)

inputs == <<world, request>>
history == <<reads, unmapped>>
vars == <<inputs, pc, indexptr, got, resp_body, body, mapped, response, sent, history>>

NoResponse == 0
OK == 200
NotFound == 404
NotAllowed == 405
InternalError == 500
NGX_ERROR == -1
Killed == -2        (* Not a status: the process died at an access outside its memory. *)

cells == world.whole.cells
NoLocals ==
  [version |-> 0, nmedia |-> 0, name |-> "none", video |-> <<>>, audio |-> <<>>,
   nfragments |-> 0, nsamples |-> 0, totalsize |-> 0]
-----------------------------------------------------------------------------
CHECKMAP_Inclusive(nbytes) == indexptr + nbytes <= world.length

(* CHECKMAP: the nbytes at indexptr, and one more, are inside the mapping. *)
CHECKMAP(nbytes) == indexptr + nbytes < world.length

(* get16, get32 and the like, on a field that starts at p. *)
Get(p) == IF p \in DOMAIN cells THEN cells[p].value ELSE 0

Reads(fields) == reads' = reads \cup fields

MakeMapping_Errno(f) ==
  CASE f.state = "missing" -> 2
    [] f.state = "denied" \/ (f.state = "present" /\ f.length = 0) -> InternalError
    [] OTHER -> OK

(* make_mapping: what it returns for a file; mmap refuses an empty one. *)
MakeMapping(f) ==
  CASE f.state = "missing" -> NotFound
    [] f.state = "denied" \/ (f.state = "present" /\ f.length = 0) -> InternalError
    [] OTHER -> OK

(* free_mapping on both mappings: those that were made are unmapped. *)
FreeMappings ==
  /\ unmapped' = [f \in {"index", "media"} |->
                    unmapped[f] + (IF f \in mapped THEN 1 ELSE 0)]
  /\ mapped' = {}

Return(status) ==
  /\ response' = status
  /\ pc' = "done"

Refuse_KeepsMappings(status) ==
  /\ Return(status)
  /\ UNCHANGED <<indexptr, got, resp_body, body, mapped, unmapped, sent>>

(* The labels GENERAL_ERROR and NOT_FOUND. *)
Refuse(status) ==
  /\ FreeMappings
  /\ Return(status)
  /\ UNCHANGED <<indexptr, got, resp_body, body, sent>>

(* An access outside the memory of the process may end it, and its mappings. *)
Crash ==
  /\ mapped' = {}
  /\ Return(Killed)
  /\ UNCHANGED <<indexptr, got, resp_body, body, unmapped, sent>>

Continue(next) == pc' = next /\ UNCHANGED <<resp_body, body, mapped, unmapped, response, sent>>
-----------------------------------------------------------------------------
Init ==
  /\ world \in Worlds
  /\ request \in Requests
  /\ pc = "request"
  /\ indexptr = 0
  /\ got = NoLocals
  /\ resp_body = 0
  /\ body = <<>>
  /\ mapped = {}
  /\ response = NoResponse
  /\ sent = <<>>
  /\ reads = {}
  /\ unmapped = [f \in {"index", "media"} |-> 0]

(* Method, path, then the mapping of the index. *)
OpenIndex ==
  /\ pc = "request"
  /\ UNCHANGED <<inputs, indexptr, got, resp_body, body, sent, history>>
  /\ \/ /\ request.method = "POST"
        /\ Return(NotAllowed) /\ UNCHANGED mapped
     \/ /\ request.method # "POST" /\ ~request.path
        /\ Return(NotFound) /\ UNCHANGED mapped
     \/ /\ request.method # "POST" /\ request.path /\ MakeMapping(world) # OK
        /\ Return(MakeMapping(world)) /\ UNCHANGED mapped
     \/ /\ request.method # "POST" /\ request.path /\ MakeMapping(world) = OK
        /\ mapped' = mapped \cup {"index"}
        /\ pc' = "header" /\ UNCHANGED response

KnownFormat == Get(0) = "mp4frag" /\ Get(7) <= 3

(* Signature and version.  A foreign index is released before the jump to   *)
(* the label that releases it again.                                        *)
ReadHeader ==
  /\ pc = "header"
  /\ UNCHANGED inputs
  /\ \/ ~CHECKMAP(10) /\ Refuse(InternalError) /\ UNCHANGED reads
     \/ /\ CHECKMAP(10) /\ ~KnownFormat
        /\ Reads({<<0, 7>>, <<7, 1>>})
        /\ unmapped' = [unmapped EXCEPT !["index"] = @ + 2] /\ mapped' = {}
        /\ Return(InternalError)
        /\ UNCHANGED <<indexptr, got, resp_body, body, sent>>
     \/ /\ CHECKMAP(10) /\ KnownFormat
        /\ Reads({<<0, 7>>, <<7, 1>>, <<8, 2>>})
        /\ got' = [got EXCEPT !.version = Get(7), !.nmedia = Get(8)]
        /\ indexptr' = 8 + 2
        /\ Continue("directory")

(* Find the block of the source among the nmedia of the index. *)
SeekMedia ==
  LET mediaoffset == Get(indexptr + request.medianum * 4) IN
  /\ pc = "directory"
  /\ UNCHANGED inputs
  /\ \/ /\ request.medianum >= got.nmedia \/ ~CHECKMAP(got.nmedia * 4)
        /\ Refuse(InternalError) /\ UNCHANGED reads
     \/ /\ request.medianum < got.nmedia /\ CHECKMAP(got.nmedia * 4)
        /\ Reads({<<indexptr + request.medianum * 4, 4>>})
        /\ \/ mediaoffset >= world.length /\ Refuse(InternalError)
           \/ /\ mediaoffset < world.length
              /\ indexptr' = mediaoffset
              /\ Continue("name") /\ UNCHANGED got

(* The name of the source file.  Version 1 has no terminator, versions 2    *)
(* and 3 have; the three are abstracted to the file they name.              *)
ReadName ==
  LET len == Get(indexptr) IN
  /\ pc = "name"
  /\ UNCHANGED inputs
  /\ \/ ~CHECKMAP(2) /\ Refuse(InternalError) /\ UNCHANGED reads
     \/ /\ CHECKMAP(2) /\ ~(CHECKMAP(2 + len) /\ got.version \in 1..3)
        /\ Refuse(InternalError) /\ Reads({<<indexptr, 2>>})
     \/ /\ CHECKMAP(2) /\ CHECKMAP(2 + len) /\ got.version \in 1..3
        /\ Reads({<<indexptr, 2>>, <<indexptr + 2, len>>})
        /\ got' = [got EXCEPT !.name = Get(indexptr + 2)]
        /\ indexptr' = indexptr + 2 + len
        /\ Continue("video")

(* A 16-bit length and so many bytes of codec data. *)
CodecData(p, len) == [size |-> len, id |-> IF len = 0 THEN "none" ELSE Get(p + 2)]

CodecReads(p, len) == {<<p, 2>>} \cup (IF len = 0 THEN {} ELSE {<<p + 2, len>>})

ReadCodecData(track, locals, next) ==
  LET len == Get(indexptr) IN
  /\ pc = track
  /\ UNCHANGED inputs
  /\ \/ ~CHECKMAP(2) /\ Refuse(InternalError) /\ UNCHANGED reads
     \/ /\ CHECKMAP(2) /\ ~CHECKMAP(2 + len)
        /\ Refuse(InternalError) /\ Reads({<<indexptr, 2>>})
     \/ /\ CHECKMAP(2) /\ CHECKMAP(2 + len)
        /\ Reads(CodecReads(indexptr, len))
        /\ got' = locals
        /\ indexptr' = indexptr + 2 + len
        /\ Continue(next)

ReadVideo ==
  ReadCodecData("video", [got EXCEPT !.video = CodecData(indexptr, Get(indexptr))], "audio")

ReadAudio ==
  ReadCodecData("audio", [got EXCEPT !.audio = CodecData(indexptr, Get(indexptr))], "table")

(* Fragments are numbered from 1. *)
KnownFragment(fragnum, nfragments) == fragnum <= nfragments /\ fragnum >= 1

(* The number of fragments, and the position of the one asked for. *)
ReadTable ==
  LET nfragments == Get(indexptr)
      entry == indexptr + 2 + (request.fragnum - 1) * 4 IN
  /\ pc = "table"
  /\ UNCHANGED inputs
  /\ \/ ~CHECKMAP(2) /\ Refuse(InternalError) /\ UNCHANGED reads
     \/ /\ CHECKMAP(2) /\ ~KnownFragment(request.fragnum, nfragments)
        /\ Refuse(NotFound) /\ Reads({<<indexptr, 2>>})
     \/ /\ CHECKMAP(2) /\ KnownFragment(request.fragnum, nfragments)
        /\ ~CHECKMAP(2 + nfragments * 4)
        /\ Refuse(InternalError) /\ Reads({<<indexptr, 2>>})
     \/ /\ CHECKMAP(2) /\ KnownFragment(request.fragnum, nfragments)
        /\ CHECKMAP(2 + nfragments * 4)
        /\ Reads({<<indexptr, 2>>, <<entry, 4>>})
        /\ \/ Get(entry) >= world.length /\ Refuse(InternalError)
           \/ /\ Get(entry) < world.length
              /\ indexptr' = Get(entry)
              /\ Continue("fragment") /\ UNCHANGED got

(* The head of the fragment; the response buffer is allocated. *)
ReadFragment ==
  /\ pc = "fragment"
  /\ UNCHANGED inputs
  /\ \/ ~CHECKMAP(6) /\ Refuse(InternalError) /\ UNCHANGED reads
     \/ /\ CHECKMAP(6) /\ Get(indexptr) < 1
        /\ Refuse(InternalError) /\ Reads({<<indexptr, 2>>})
     \/ /\ CHECKMAP(6) /\ Get(indexptr) >= 1
        /\ Reads({<<indexptr, 2>>, <<indexptr + 2, 4>>})
        /\ got' = [got EXCEPT !.nsamples = Get(indexptr), !.totalsize = Get(indexptr + 2)]
        /\ indexptr' = indexptr + 6
        /\ Continue("media")

source == world.files[got.name]

(* Map the source file; whatever prevents it is an internal error. *)
OpenMedia ==
  /\ pc = "media"
  /\ UNCHANGED <<inputs, reads>>
  /\ \/ MakeMapping(source) # OK /\ Refuse(InternalError)
     \/ /\ MakeMapping(source) = OK
        /\ mapped' = mapped \cup {"media"}
        /\ pc' = "prefix"
        /\ UNCHANGED <<indexptr, got, resp_body, body, unmapped, response, sent>>

Packet(video, header, key, timestamp, payload) ==
  [video |-> video, header |-> header, key |-> key, timestamp |-> timestamp,
   payload |-> payload]

(* Bytes of a codec data blob, or of the source file from an offset. *)
Bytes(id, offset, size) == [id |-> id, offset |-> offset, size |-> size]
CodecBytes(blob) == Bytes(IF blob.size = 0 THEN "none" ELSE blob.id, 0, blob.size)

(* CHECK_RESP_ROOM: the sum is one of pointers, and does not wrap. *)
CHECK_RESP_ROOM(size) == resp_body + size <= got.totalsize

HeadersBytes == 8 + PacketSize(TRUE, got.video.size) + PacketSize(FALSE, got.audio.size)

(* The box header, then a packet of codec data for each track.  A size that *)
(* wrapped may leave room for what is checked and not for what is written:   *)
(* the rest is written over what follows the buffer.                         *)
WritePrefix ==
  /\ pc = "prefix"
  /\ UNCHANGED inputs
  /\ \/ /\ \/ ~CHECK_RESP_ROOM(8 + got.video.size + got.audio.size)
           \/ ~CHECKMAP(16 * got.nsamples - 1)
        /\ Refuse(InternalError) /\ UNCHANGED reads
     \/ /\ CHECK_RESP_ROOM(8 + got.video.size + got.audio.size)
        /\ CHECKMAP(16 * got.nsamples - 1)
        /\ ~CHECK_RESP_ROOM(HeadersBytes)
        /\ Crash /\ Reads({<<indexptr, 16>>})
     \/ /\ CHECK_RESP_ROOM(8 + got.video.size + got.audio.size)
        /\ CHECKMAP(16 * got.nsamples - 1)
        /\ LET ts == Get(indexptr).timestamp IN
           body' = <<Packet(TRUE, TRUE, TRUE, ts, CodecBytes(got.video)),
                     Packet(FALSE, TRUE, FALSE, ts, CodecBytes(got.audio))>>
        /\ resp_body' = HeadersBytes
        /\ Reads({<<indexptr, 16>>})
        /\ pc' = "samples"
        /\ UNCHANGED <<indexptr, got, mapped, unmapped, response, sent>>

(* What is checked of a sample, with a sum of two uint32_t, and what it is *)
(* meant to ensure.                                                        *)
InSource(se) == (se.offset + se.size) % U32 <= source.length
Inside(se) == se.offset + se.size <= source.length

(* The loop over the samples; two packets of the body are headers.  A sum  *)
(* that wrapped passes the check though the sample is not in the mapping:   *)
(* the process dies, or copies what other memory holds.                     *)
WriteSample ==
  LET se == Get(indexptr)
      video == se.flags # 0
      room == CHECK_RESP_ROOM(PacketSize(video, se.size)) IN
  /\ pc = "samples" /\ Len(body) - 2 < got.nsamples
  /\ UNCHANGED inputs
  /\ Reads({<<indexptr, 16>>})
  /\ \/ ~(InSource(se) /\ room) /\ Refuse(InternalError)
     \/ InSource(se) /\ room /\ ~Inside(se) /\ Crash
     \/ /\ InSource(se) /\ room
        /\ body' = Append(body, Packet(video, FALSE, (se.flags \div 2) % 2 = 1, se.timestamp,
                                       Bytes(IF Inside(se) THEN got.name ELSE "outside",
                                             se.offset, se.size)))
        /\ resp_body' = resp_body + PacketSize(video, se.size)
        /\ indexptr' = indexptr + 16
        /\ UNCHANGED <<pc, got, mapped, unmapped, response, sent>>

(* ngx_http_send_header, then the body unless only the header is asked for. *)
(* Either may fail: what they return is what the handler returns.            *)
Send ==
  \/ Return(NGX_ERROR) /\ UNCHANGED sent
  \/ Return(OK) /\ sent' = IF request.method = "HEAD" THEN <<>> ELSE body

Finish_Unchecked ==
  /\ pc = "samples" /\ Len(body) - 2 = got.nsamples
  /\ FreeMappings
  /\ Send
  /\ UNCHANGED <<inputs, indexptr, got, resp_body, body, reads>>

(* Both mappings are released and the response is sent if it is complete. *)
Finish ==
  /\ pc = "samples" /\ Len(body) - 2 = got.nsamples
  /\ FreeMappings
  /\ \/ resp_body # got.totalsize /\ Return(InternalError) /\ UNCHANGED sent
     \/ resp_body = got.totalsize /\ Send
  /\ UNCHANGED <<inputs, indexptr, got, resp_body, body, reads>>

Next ==
  \/ OpenIndex \/ ReadHeader \/ SeekMedia \/ ReadName \/ ReadVideo \/ ReadAudio
  \/ ReadTable \/ ReadFragment \/ OpenMedia \/ WritePrefix \/ WriteSample \/ Finish

Spec == Init /\ [][Next]_vars /\ WF_vars(Next)
-----------------------------------------------------------------------------
(* Types; what a request fixes is a position, a count, a set of mappings.  *)
TypeOK ==
  /\ pc \in {"request", "header", "directory", "name", "video", "audio", "table",
             "fragment", "media", "prefix", "samples", "done"}
  /\ indexptr \in Nat
  /\ resp_body \in Nat
  /\ mapped \subseteq {"index", "media"}
  /\ response \in {NoResponse, OK, NotFound, NotAllowed, InternalError, NGX_ERROR, Killed}
  /\ reads \subseteq Nat \X Nat
  /\ unmapped \in [{"index", "media"} -> Nat]

(* Wherever the index is cut, each read of it is of one whole field, inside *)
(* the mapping: no field is read where none starts, and none beyond the end. *)
AlignedReads ==
  \A r \in reads :
    /\ r[1] + r[2] <= world.length
    /\ r[1] \in DOMAIN cells /\ cells[r[1]].width = r[2]

(* The bytes of the fragment that is asked for. *)
AskedBytes ==
  LET media == world.whole.medialist[request.medianum + 1]
  IN TotalBytes(media, media.fragments[request.fragnum])

(* The packets written never exceed the buffer allocated from the size the  *)
(* index gives, although the room for the two codec headers is checked      *)
(* without their 37 bytes of framing: whatever is served, unless the        *)
(* fragment is of 4 GiB or more, so that the size wrapped.                  *)
NeverOverrun == resp_body > 0 /\ AskedBytes < U32 => resp_body <= got.totalsize

(* When the handler returns, on every path, no mapping is left, and none    *)
(* was released twice but a foreign index: at its second release the        *)
(* handler has made no other mapping that could be lost to it.              *)
ReleasedOnce ==
  pc = "done" =>
    /\ mapped = {}
    /\ unmapped["media"] <= 1
    /\ \/ unmapped["index"] <= 1
       \/ ~KnownFormat /\ unmapped["index"] = 2 /\ unmapped["media"] = 0

(* mod_nginx/README:40 numbers the fragments from 0: with a whole index and *)
(* its sources in place, each of them would be found.                       *)
ReadmeNumbering ==
  pc = "done" /\ request.method = "GET" /\ request.path /\ world.state = "present"
    /\ world.length = world.whole.full /\ KnownFormat /\ Get(7) = Version
    /\ request.medianum < Len(world.whole.medialist) =>
    LET media == world.whole.medialist[request.medianum + 1] IN
    /\ request.fragnum < Len(media.fragments)
    /\ Len(media.fragments) < U16
    /\ \A i \in 1..Len(media.fragments) : Len(media.fragments[i]) \in 1..(U16 - 1)
    /\ MakeMapping(world.files[media.name.id]) = OK
    => response # NotFound

Service == INSTANCE FragmentService WITH
  answer <- IF pc = "done" THEN <<response, sent>> ELSE <<>>

(* The handler implements the service: a 200 carries exactly the packets of *)
(* the fragment asked for, however much of the index exists (none for a     *)
(* HEAD); a request for a fragment that a whole index holds is not refused; *)
(* memory outside the source is read only for a sample that reaches 4 GiB;  *)
(* and a request is always answered.                                        *)
ImplementsService == Service!Spec
=============================================================================
