-------------------------------- MODULE Ytfs --------------------------------
(***************************************************************************)
(* ytfs, the music file system: libfuse's workers run its handlers at the  *)
(* same time, beside the thread that reloads the metadata every second.    *)
(* They share MetadataJson, the file metadata.json, the download cache in  *)
(* ~/.ytfs, and /tmp/tmp.mp3 with its flag is_writing, all without a lock. *)
(* mediafs, the Android port, is the read-only variant that loads once.    *)
(*                                                                         *)
(* mode: "foreground" is ytfs -d or -f; "daemon" is ytfs without them and  *)
(* not root: fuse_main forks, the updater stays behind, and the working    *)
(* directory becomes /, where metadata.json cannot be created; "mediafs".  *)
(*                                                                         *)
(* The server keeps songs by id = 1, 2, ...; a file is a sequence of       *)
(* chunks; curl's answers are short enough for one write.                  *)
(***************************************************************************)
EXTENDS YtfsTree, FiniteSets

CONSTANTS
  Workers,      \* libfuse's worker threads
  Updater,      \* the thread main starts (mediafs: main itself)
  OldSong,      \* the song the server has at the start
  Songs,        \* the local files that are copied in, once each
  NumChunks,    \* the length of a song
  MaxFail,      \* how many curls fail (bound)
  Modes,        \* the modes to explore
  Workloads     \* what clients do at the same time: the kinds of requests, and
                \* how many songs they copy in and read at once (bounds)

Titles == Songs \cup {OldSong}
Untitled == "untitled"

ASSUME ServerAssumption ==
  /\ NumChunks \in Nat \ {0} /\ MaxFail \in Nat
  /\ OldSong \notin Songs /\ Updater \notin Workers
  /\ NoId \notin Nat /\ Untitled \notin Titles
  /\ Modes \subseteq {"foreground", "daemon", "mediafs"}

VARIABLES
  mode, up,       \* how it runs; FALSE once the process has died
  workload,       \* the requests its clients make
  server, gone,   \* the songs uploaded so far, the ids deleted since
  meta,           \* MetadataJson: a set of ids
  mfile,          \* metadata.json
  cache,          \* ~/.ytfs/<id>.mp3, for each id that has one
  tmp, isWriting, \* /tmp/tmp.mp3 and is_writing
  pc, loc,        \* where each thread is, and its locals
  copied,         \* chunks each copier has written; NumChunks + 1 once it closed
  failures,       \* curls that failed
  disturbed,      \* history: songs whose copy met another write or flush
  overlapped,     \* history: reloads that met another reload
  spoiled         \* history: ids whose download was cut or met another

vars == <<mode, workload, up, server, gone, meta, mfile, cache, tmp, isWriting, pc, loc,
          copied, failures, disturbed, overlapped, spoiled>>
files == <<cache, tmp, isWriting>>
history == <<disturbed, overlapped, spoiled>>
world == <<mode, workload, server, gone>>

Threads == Workers \cup {Updater}
Chunk(s, k) == <<s, k>>
Content(s) == [k \in 1 .. NumChunks |-> Chunk(s, k)]
Hole == Chunk("hole", 0)            \* what is read where nothing was written
NotFound == Chunk("not found", 0)   \* the body of the server's error page
EOF == Chunk("eof", 0)

Ids == 1 .. Len(server)
Library == Ids \ gone

\* metadata.json of these ids, in their order, one folder in every grouping.
SongOf(id) == [title |-> server[id].title, id |-> id, size |-> server[id].size]
TreeOf(ids) ==
  [g \in MusicGroupings |-> IF ids = {} THEN <<>>
     ELSE << [title |-> "all", songs |-> [id \in ids |-> SongOf(id)]] >>]
PathOf(title) == << Plain("Genres"), Plain("all"), Mp3(title) >>

NoLoc == [kind |-> "reload", song |-> Untitled, off |-> 0, id |-> NoId,
          how |-> Untitled, size |-> 0, pos |-> 0, resp |-> {}, got |-> EOF, torn |-> FALSE]
Json(st, ids) == [st |-> st, ids |-> ids]
Idle(w) == pc[w] = "idle"
Goto(w, l) == pc' = [pc EXCEPT ![w] = l]
Return(w) == Goto(w, "idle") /\ loc' = [loc EXCEPT ![w] = NoLoc]

Init ==
  /\ mode \in Modes /\ workload \in Workloads /\ up = TRUE
  /\ server = << [title |-> OldSong, size |-> NumChunks, content |-> Content(OldSong),
                  by |-> OldSong, clean |-> TRUE] >>
  /\ gone = {}
  /\ meta \in IF mode = "daemon" THEN {{}, Library} ELSE {{}}
  /\ mfile = Json("absent", {})
  /\ cache = [id \in {} |-> <<>>]
  /\ tmp = <<>> /\ isWriting = FALSE
  /\ pc = [p \in Threads |-> IF p # Updater THEN "idle"
                              ELSE IF mode = "daemon" THEN "none" ELSE "sleep"]
  /\ loc = [p \in Threads |-> NoLoc]
  /\ copied = [s \in Songs |-> 0] /\ failures = 0
  /\ disturbed = {} /\ overlapped = {} /\ spoiled = {}

\* The tag that names a song is in its first chunk.
Title(content) ==
  IF content # <<>> /\ content[1] \in {Chunk(s, 1) : s \in Titles}
  THEN content[1][1] ELSE Untitled

\* mediafs loads its metadata before fuse_main serves anything.
Serving == up /\ (mode = "mediafs" => pc[Updater] = "none")
-----------------------------------------------------------------------------
(* executeAndReloadMetadata *)

Reloading(p) == pc[p] \in {"trunc", "call", "answer", "parse"}

\* The shell opens > metadata.json: it truncates it, or where it may not create
\* it, does not run curl at all.
ShellTruncate(p) ==
  /\ pc[p] = "trunc"
  /\ mfile' = IF mode = "daemon" THEN mfile ELSE Json("empty", {})
  /\ Goto(p, IF mode = "daemon" THEN "parse" ELSE "call")
  /\ overlapped' = LET others == {q \in Threads \ {p} : Reloading(q) /\ pc[q] # "trunc"}
                   IN overlapped \cup others
                      \cup (IF others # {} THEN {p} ELSE {})
  /\ UNCHANGED <<world, up, meta, files, loc, copied, failures, disturbed, spoiled>>

Answer(p, ids) == loc' = [loc EXCEPT ![p] = [NoLoc EXCEPT !.resp = ids]]

\* The server takes the song or the DELETE, or only the GET, and answers with
\* the metadata; or curl fails and nothing happens.
Upload(p) ==
  /\ loc[p].kind \in {"flush", "close"}
  /\ server' = Append(server, [title |-> loc[p].how, size |-> loc[p].size, content |-> tmp,
                               by |-> loc[p].song, clean |-> loc[p].song \in Songs \ disturbed])
  /\ gone' = gone
  /\ Answer(p, Library \cup {Len(server) + 1})
Delete(p) ==
  /\ loc[p].kind = "unlink"
  /\ gone' = gone \cup {loc[p].id} /\ server' = server
  /\ Answer(p, Library \ {loc[p].id})
Get(p) ==
  /\ loc[p].kind = "reload"
  /\ Answer(p, Library)
  /\ UNCHANGED <<server, gone>>

ServerCall(p) ==
  /\ pc[p] = "call"
  /\ Upload(p) \/ Delete(p) \/ Get(p)
  /\ Goto(p, "answer")
  /\ UNCHANGED <<mode, workload, up, meta, mfile, files, copied, failures, history>>

\* curl fails.  ytfs's execute does not see its exit status; mediafs's does.
ServerCallFails(p) ==
  /\ pc[p] = "call" /\ failures < MaxFail
  /\ failures' = failures + 1
  /\ Goto(p, IF mode = "mediafs" THEN "none" ELSE "parse")
  /\ UNCHANGED <<world, up, meta, mfile, files, loc, copied, history>>

\* Mutant: the file is read before curl has answered.
CurlRaces(p) ==
  /\ pc[p] = "answer"
  /\ mfile' = mfile
  /\ Goto(p, "parse")
  /\ UNCHANGED <<world, up, meta, files, loc, copied, failures, history>>

\* curl writes at the start of the file; a longer answer of another leaves its
\* tail behind, which json::parse does not accept.
CurlAnswers(p) ==
  /\ pc[p] = "answer"
  /\ mfile' = IF mfile.st = "bad" \/ Cardinality(mfile.ids) > Cardinality(loc[p].resp)
              THEN Json("bad", {}) ELSE Json("json", loc[p].resp)
  /\ Goto(p, "parse")
  /\ UNCHANGED <<world, up, meta, files, loc, copied, failures, history>>

\* json::parse throws on an empty or garbled file: ytfs keeps what it had,
\* mediafs dies.  A handler that walks MetadataJson meanwhile reads freed memory.
ReloadParse(p) ==
  /\ pc[p] = "parse"
  /\ LET ok == mfile.st = "json" IN
       /\ meta' = IF ok THEN mfile.ids ELSE meta
       /\ up' = (ok \/ mode # "mediafs")
       /\ loc' = [q \in Threads |-> IF q = p THEN NoLoc
                    ELSE [loc[q] EXCEPT !.torn = @ \/ (ok /\ pc[q] = "walk")]]
  /\ Goto(p, IF p # Updater THEN "idle" ELSE IF mode = "mediafs" THEN "none" ELSE "sleep")
  /\ overlapped' = overlapped \ {p}
  /\ UNCHANGED <<world, mfile, files, copied, failures, disturbed, spoiled>>

\* initData, every second.
UpdaterWakes ==
  /\ pc[Updater] = "sleep"
  /\ Goto(Updater, "trunc")
  /\ UNCHANGED <<world, up, meta, mfile, files, loc, copied, failures, history>>
-----------------------------------------------------------------------------
(* The handlers.  A worker takes a request; nothing orders two requests. *)

Copying(s) == {w \in Workers : loc[w].kind \in {"write", "flush"} /\ loc[w].song = s}
Closing == {w \in Workers : loc[w].kind = "close"}
Open(s) == copied[s] \in 1 .. NumChunks \/ Copying(s) # {}

\* History: which copies does a write or flush of f meet?
Meets(f) ==
  disturbed' = disturbed \cup {s \in Songs \ {f} : Open(s)}
    \cup (IF Closing # {} \/ \E s \in Songs \ {f} : Open(s) THEN {f} \cap Songs ELSE {})

\* The titles the kernel has just found with getattr.
Listed == {server[id].title : id \in meta}

Start(w, kind, song, off, at) ==
  /\ Serving /\ Idle(w) /\ kind \in workload.kinds
  /\ Goto(w, at)
  /\ loc' = [loc EXCEPT ![w] = [NoLoc EXCEPT !.kind = kind, !.song = song, !.off = off]]
  /\ UNCHANGED <<world, up, meta, mfile, files, failures, overlapped, spoiled>>

StartRead(w) ==
  /\ Cardinality({v \in Workers : loc[v].kind = "read"}) < workload.readers
  /\ \E t \in Listed : Start(w, "read", t, 0, "walk")
  /\ UNCHANGED <<copied, disturbed>>
\* One deletion (bound).
StartUnlink(w) ==
  /\ gone = {} /\ \A v \in Workers : loc[v].kind # "unlink"
  /\ \E t \in Listed : Start(w, "unlink", t, 0, "walk")
  /\ UNCHANGED <<copied, disturbed>>
\* cp writes chunk after chunk, then closes.
StartWrite(w) ==
  \E s \in Songs :
    /\ copied[s] < NumChunks /\ Copying(s) = {}
    /\ Cardinality({t \in Songs \ {s} : copied[t] > 0 \/ Copying(t) # {}}) < workload.copies
    /\ Start(w, "write", s, copied[s] + 1, "wopen")
    /\ Meets(s)
    /\ UNCHANGED copied
StartFlush(w) ==
  \E s \in Songs :
    /\ copied[s] = NumChunks /\ Copying(s) = {}
    /\ Start(w, "flush", s, 0, "flush")
    /\ Meets(s)
    /\ copied' = [copied EXCEPT ![s] = NumChunks + 1]
\* A file that was only read is flushed too when it is closed.
StartClose(w) ==
  /\ meta # {} /\ Start(w, "close", Untitled, 0, "flush")
  /\ Meets(Untitled)
  /\ UNCHANGED copied
-----------------------------------------------------------------------------
(* getSongId, for read and unlink *)

\* What a walk over MetadataJson finds: anything, if it was assigned meanwhile.
Found(w) ==
  IF loc[w].torn THEN Ids \cup {NoId}
  ELSE {getSongId(TreeOf(meta), PathOf(loc[w].song))}

ReadFindsId(w) ==
  /\ pc[w] = "walk" /\ loc[w].kind = "read"
  /\ \E id \in Found(w) : loc' = [loc EXCEPT ![w].id = id]
  /\ Goto(w, "open")
  /\ UNCHANGED <<world, up, meta, mfile, files, copied, failures, history>>

UnlinkFindsId(w) ==
  /\ pc[w] = "walk" /\ loc[w].kind = "unlink"
  /\ \E id \in Found(w) :
       IF id = NoId \/ mode = "mediafs"
       THEN Return(w)
       ELSE Goto(w, "trunc")
            /\ loc' = [loc EXCEPT ![w] = [NoLoc EXCEPT !.kind = "unlink", !.id = id]]
  /\ UNCHANGED <<world, up, meta, mfile, files, copied, failures, history>>

WalkCrashes(w) ==
  /\ pc[w] = "walk" /\ loc[w].torn
  /\ up' = FALSE
  /\ UNCHANGED <<world, meta, mfile, files, pc, loc, copied, failures, history>>
-----------------------------------------------------------------------------
(* read: the download cache *)

Fetching(id) == {w \in Workers : pc[w] \in {"fetch", "curl"} /\ loc[w].id = id}

CacheOpen(w) ==
  /\ pc[w] = "open"
  /\ Goto(w, IF loc[w].id \in DOMAIN cache THEN "read" ELSE "fetch")
  /\ spoiled' = IF loc[w].id \notin DOMAIN cache /\ Fetching(loc[w].id) # {}
                THEN spoiled \cup ({loc[w].id} \ {NoId}) ELSE spoiled
  /\ UNCHANGED <<world, up, meta, mfile, files, loc, copied, failures, disturbed,
                 overlapped>>

\* The shell creates or truncates the file and starts curl.
FetchTruncate(w) ==
  /\ pc[w] = "fetch"
  /\ cache' = [id \in DOMAIN cache \cup {loc[w].id} |->
                IF id = loc[w].id THEN <<>> ELSE cache[id]]
  /\ loc' = [loc EXCEPT ![w].pos = 0]
  /\ Goto(w, "curl")
  /\ UNCHANGED <<world, up, meta, mfile, tmp, isWriting, copied, failures, history>>

\* What the server sends for an id: a deleted or empty one gets its error page.
Body(id) == IF id = NoId \/ id \in gone THEN << NotFound >> ELSE server[id].content

Put(data, k, chunk) ==
  [i \in 1 .. (IF k > Len(data) THEN k ELSE Len(data)) |->
     IF i = k THEN chunk ELSE IF i <= Len(data) THEN data[i] ELSE Hole]

\* curl writes the next chunk where its own file offset is.
FetchChunk(w) ==
  LET id == loc[w].id  k == loc[w].pos + 1 IN
  /\ pc[w] = "curl" /\ k <= Len(Body(id))
  /\ cache' = [cache EXCEPT ![id] = Put(@, k, Body(id)[k])]
  /\ loc' = [loc EXCEPT ![w].pos = k]
  /\ UNCHANGED <<world, up, meta, mfile, tmp, isWriting, pc, copied, failures, history>>

FetchEnds(w) ==
  /\ pc[w] = "curl" /\ loc[w].pos >= Len(Body(loc[w].id))
  /\ Goto(w, "read") /\ loc' = [loc EXCEPT ![w].pos = 0]
  /\ UNCHANGED <<world, up, meta, mfile, files, copied, failures, history>>

\* curl fails or is cut.  mediafs gives up, with what came left in the file.
FetchFails(w) ==
  /\ pc[w] = "curl" /\ failures < MaxFail
  /\ failures' = failures + 1
  /\ spoiled' = spoiled \cup ({loc[w].id} \ {NoId})
  /\ IF mode = "mediafs" THEN Return(w) ELSE Goto(w, "read") /\ loc' = [loc EXCEPT ![w].pos = 0]
  /\ UNCHANGED <<world, up, meta, mfile, files, copied, disturbed, overlapped>>

Got(data, k) == IF Len(data) >= k THEN data[k] ELSE EOF

\* The answer, and whether another thread was downloading the same song or has
\* assigned MetadataJson during the walk.
ReadFile(w) ==
  /\ pc[w] = "read"
  /\ \E k \in 1 .. NumChunks :
       loc' = [loc EXCEPT ![w].got = Got(cache[loc[w].id], k), ![w].off = k,
                          ![w].torn = @ \/ Fetching(loc[w].id) # {}]
  /\ Goto(w, "reply")
  /\ UNCHANGED <<world, up, meta, mfile, files, copied, failures, history>>

ReadReturns(w) ==
  /\ pc[w] = "reply"
  /\ Return(w)
  /\ UNCHANGED <<world, up, meta, mfile, files, copied, failures, history>>
-----------------------------------------------------------------------------
(* write and flush: /tmp/tmp.mp3 and is_writing *)

WriteOpen(w) ==
  /\ pc[w] = "wopen" /\ mode # "mediafs"
  /\ loc' = [loc EXCEPT ![w].how = IF isWriting THEN "app" ELSE "trunc"]
  /\ tmp' = IF isWriting THEN tmp ELSE <<>>
  /\ Goto(w, "wflag")
  /\ UNCHANGED <<world, up, meta, mfile, cache, isWriting, copied, failures, history>>

WriteFlag(w) ==
  /\ pc[w] = "wflag"
  /\ isWriting' = TRUE
  /\ Goto(w, "wdata")
  /\ UNCHANGED <<world, up, meta, mfile, cache, tmp, loc, copied, failures, history>>

\* A stream opened with trunc writes at its own offset, which is still 0.
WriteData(w) ==
  /\ pc[w] = "wdata"
  /\ tmp' = Put(tmp, IF loc[w].how = "app" THEN Len(tmp) + 1 ELSE 1,
                Chunk(loc[w].song, loc[w].off))
  /\ copied' = [copied EXCEPT ![loc[w].song] = @ + 1]
  /\ Return(w)
  /\ UNCHANGED <<world, up, meta, mfile, cache, isWriting, failures, history>>

\* mediafs writes nothing and says so: cp gives up and closes.
MediaWrite(w) ==
  /\ pc[w] = "wopen" /\ mode = "mediafs"
  /\ copied' = [copied EXCEPT ![loc[w].song] = NumChunks]
  /\ Return(w)
  /\ UNCHANGED <<world, up, meta, mfile, files, failures, history>>

FlushNothing(w) ==
  /\ pc[w] = "flush" /\ ~isWriting
  /\ Return(w)
  /\ UNCHANGED <<world, up, meta, mfile, files, copied, failures, history>>

\* Mutant: is_writing is not reset.
FlushKeeping(w) ==
  /\ pc[w] = "flush" /\ isWriting
  /\ loc' = [loc EXCEPT ![w].how = Title(tmp), ![w].size = Len(tmp)]
  /\ Goto(w, "trunc")
  /\ UNCHANGED <<world, up, meta, mfile, files, copied, failures, history>>

\* The flag is reset, the tag and the size read; then tmp.mp3 is sent by
\* executeAndReloadMetadata, as it is by then.
FlushUpload(w) ==
  /\ pc[w] = "flush" /\ isWriting
  /\ isWriting' = FALSE
  /\ loc' = [loc EXCEPT ![w].how = Title(tmp), ![w].size = Len(tmp)]
  /\ Goto(w, "trunc")
  /\ UNCHANGED <<world, up, meta, mfile, cache, tmp, copied, failures, history>>
-----------------------------------------------------------------------------
Reload(p) ==
  ShellTruncate(p) \/ ServerCall(p) \/ ServerCallFails(p) \/ CurlAnswers(p) \/ ReloadParse(p)

Handler(w) ==
  \/ ReadFindsId(w) \/ UnlinkFindsId(w) \/ WalkCrashes(w)
  \/ CacheOpen(w) \/ FetchTruncate(w) \/ FetchChunk(w) \/ FetchEnds(w) \/ FetchFails(w)
  \/ ReadFile(w) \/ ReadReturns(w)
  \/ WriteOpen(w) \/ WriteFlag(w) \/ WriteData(w) \/ MediaWrite(w)
  \/ FlushNothing(w) \/ FlushUpload(w) \/ Reload(w)

Request(w) ==
  \/ StartRead(w) \/ StartUnlink(w)
  \/ StartWrite(w) \/ StartFlush(w) \/ StartClose(w)

Next ==
  /\ up
  /\ \/ \E w \in Workers : Request(w) \/ Handler(w)
     \/ UpdaterWakes \/ Reload(Updater)

Spec == Init /\ [][Next]_vars
-----------------------------------------------------------------------------
\* A copy that meets no other write and no other flush arrives whole on the
\* server, with its title and its size, whatever else goes on (main.cpp:231-291).
AloneUploadsWhole ==
  \A id \in Ids : server[id].clean =>
    /\ server[id].content = Content(server[id].by)
    /\ server[id].title = server[id].by /\ server[id].size = NumChunks

\* A read returns the chunk asked for of a song that has the title asked for:
\* never short, never a hole, never another song's, whatever is copied in or
\* reloaded meanwhile (main.cpp:52-72, 202-226).  Not so when the title is not in
\* MetadataJson any more, when that was assigned during the walk, or when the
\* download of the song was cut or met another one.
ReadWhole ==
  \A w \in Workers :
    (pc[w] = "reply" /\ ~loc[w].torn /\ loc[w].id \notin spoiled \cup gone \cup {NoId}) =>
      LET found == server[loc[w].id] IN
        /\ found.title = loc[w].song
        /\ loc[w].off > Len(found.content) \/ loc[w].got = found.content[loc[w].off]
        /\ found.clean => loc[w].got = Chunk(loc[w].song, loc[w].off)

\* A reload during which no other reload runs leaves MetadataJson exactly as the
\* server has it, the handler's own upload or deletion included; if curl fails,
\* nothing changes (main.cpp:343-360).
AloneReloadsFresh ==
  [][\A p \in Threads : (ReloadParse(p) /\ p \notin overlapped) =>
       meta' \in {meta, Library} /\ (loc[p].resp # {} => meta' = Library)]_vars

\* What readdir lists, getattr finds: directories where it says directory, files
\* where it says file, with the size of the song unless its copy met another; and
\* a listed song has an id to read or unlink.
ListingAgrees ==
  LET tree == TreeOf(meta)  dirs == {<<>>} \cup {<<Plain(g)>> : g \in MusicGroupings}
                                    \cup {<<Plain(g), Plain("all")>> : g \in MusicGroupings}
  IN \A d \in dirs : \A n \in readdir(tree, d) :
       LET path == Append(d, n)  attr == getattr(tree, path)  id == getSongId(tree, path) IN
       /\ attr.st = IF Len(d) = 2 THEN "reg" ELSE "dir"
       /\ MediaGetattr(tree, path) = attr
       /\ Len(d) = 2 =>
            /\ id \in meta /\ open(path) = "ok"
            /\ server[id].clean => attr.size = Len(server[id].content)
=============================================================================
