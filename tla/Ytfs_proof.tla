----------------------------- MODULE Ytfs_proof -----------------------------
(***************************************************************************)
(* Proofs about Ytfs, for every set of workers and of songs, every length  *)
(* of a song, every number of failing curls, and any requests at the same  *)
(* time.                                                                   *)
(*                                                                         *)
(* Where a thread is fits its request (PlaceOK), and every id it remembers *)
(* is one the server has given (IdsOK).  On that rest the three properties *)
(* of the shared files: what metadata.json holds at each place of a reload *)
(* that meets no other (ReloadOK); how much of a song is in the cache at   *)
(* each place of its one download (CacheOK); and what is in tmp.mp3 at     *)
(* each place of a copy that meets nobody (UploadOK), which needs that     *)
(* is_writing is set only while some song is under way (FlagOK).  That a   *)
(* read has the song it asked for (AskedOK) is proved on top of these.     *)
(***************************************************************************)
EXTENDS Ytfs, FiniteSetTheorems, SequenceTheorems, WellFoundedInduction, TLAPS

Kinds == {"reload", "read", "unlink", "write", "flush", "close"}
Places == {"idle", "none", "sleep", "trunc", "call", "answer", "parse", "walk", "open", "fetch",
           "curl", "read", "reply", "wopen", "wflag", "wdata", "flush"}
Names == Titles \cup {Untitled, "app", "trunc"}
ChunkSet == (Names \cup {"hole", "not found", "eof"}) \X Nat
Entries == [title : Names, size : Nat, content : Seq(ChunkSet), by : Names, clean : BOOLEAN]
Locs == [kind : Kinds, song : Names, off : Nat, id : Nat \cup {NoId}, how : Names,
         size : Nat, pos : Nat, resp : SUBSET Nat, got : ChunkSet, torn : BOOLEAN]

TypeOK ==
  /\ mode \in {"foreground", "daemon", "mediafs"}
  /\ server \in Seq(Entries)
  /\ mfile \in [st : {"absent", "empty", "json", "bad"}, ids : SUBSET Nat]
  /\ cache \in [DOMAIN cache -> Seq(ChunkSet)]
  /\ tmp \in Seq(ChunkSet) /\ isWriting \in BOOLEAN
  /\ pc \in [Threads -> Places] /\ loc \in [Threads -> Locs]
  /\ copied \in [Songs -> 0 .. NumChunks + 1]
  /\ disturbed \subseteq Songs

\* Every id anything remembers is one the server has given.
IdOK(p) ==
  /\ loc[p].id \in Ids \cup {NoId} /\ loc[p].resp \subseteq Ids
  /\ pc[p] \in {"trunc", "call"} /\ loc[p].kind = "unlink" => loc[p].id \in Ids
IdsOK ==
  /\ gone \subseteq Ids /\ meta \subseteq Ids /\ mfile.ids \subseteq Ids
  /\ DOMAIN cache \subseteq Ids \cup {NoId}
  /\ \A p \in Threads : IdOK(p)

\* Where a thread is fits the request it has.  A reload that has its answer has
\* forgotten what it was for.
SeatOK(p) ==
  /\ pc[p] \in {"idle", "none", "sleep", "answer"} => loc[p].kind = "reload"
  /\ pc[p] = "walk" => loc[p].kind \in {"read", "unlink"}
  /\ pc[p] \in {"open", "fetch", "curl", "read", "reply"} => loc[p].kind = "read"
  /\ pc[p] \in {"wopen", "wflag", "wdata"} => loc[p].kind = "write"
  /\ pc[p] = "flush" => loc[p].kind \in {"flush", "close"}
  /\ pc[p] \in {"trunc", "call", "parse"} => loc[p].kind \in {"reload", "unlink", "flush", "close"}
PlaceOK == loc[Updater].kind = "reload" /\ \A p \in Threads : SeatOK(p)

Past(p) == pc[p] \in {"call", "answer", "parse"}

\* What metadata.json holds for a reload that met no other.
AloneOK(p) ==
  /\ pc[p] = "call" => mfile = Json("empty", {})
  /\ pc[p] = "answer" => mfile = Json("empty", {}) /\ loc[p].resp = Library
  /\ pc[p] = "parse" =>
       \/ mfile = Json("json", Library) /\ loc[p].resp = Library
       \/ mfile.st # "json" /\ loc[p].resp = {}

ReloadOK ==
  /\ mode = "daemon" => mfile.st = "absent" /\ \A p \in Threads : pc[p] \notin {"call", "answer"}
  /\ \A p \in Threads : pc[p] \notin {"answer", "parse"} => loc[p].resp = {}
  /\ \A p, q \in Threads : p # q /\ Past(p) /\ Past(q) => p \in overlapped
  /\ \A p \in Threads \ overlapped : AloneOK(p)

\* The first n chunks of the song with this id.
Part(id, n) == [k \in 1 .. n |-> server[id].content[k]]

DownloadOK(id, w) ==
  /\ pc[w] = "fetch" => id \notin DOMAIN cache
  /\ pc[w] = "curl" => loc[w].pos <= Len(server[id].content)
                       /\ cache[id] = Part(id, loc[w].pos)
  /\ pc[w] = "reply" /\ ~loc[w].torn =>
       \/ loc[w].off > Len(server[id].content)
       \/ loc[w].got = server[id].content[loc[w].off]

\* A thread that downloads or reads has its file.
StoredOK == \A w \in Workers : pc[w] \in {"curl", "read"} => loc[w].id \in DOMAIN cache

\* A song that is there and was downloaded by one thread at most, without failure.
CacheAt(id) ==
  /\ \A v, w \in Fetching(id) : v = w
  /\ \A w \in Workers : loc[w].id = id => DownloadOK(id, w)
  /\ Fetching(id) = {} /\ id \in DOMAIN cache => cache[id] = server[id].content
CacheOK == \A id \in Ids \ (spoiled \cup gone) : CacheAt(id)

\* Is a song under way for which tmp.mp3 has not been sent yet?
Unsent(s) ==
  \/ copied[s] \in 1 .. NumChunks
  \/ \E w \in Copying(s) : loc[w].kind = "write" \/ pc[w] = "flush"

Copied(s, n) == [k \in 1 .. n |-> Chunk(s, k)]

\* What tmp.mp3 and is_writing are for a worker w that copies s and meets nobody.
StageOK(s, w) ==
  /\ pc[w] = "wopen" => IF copied[s] = 0 THEN ~isWriting
                        ELSE isWriting /\ tmp = Copied(s, copied[s])
  /\ pc[w] \in {"wflag", "wdata"} =>
       /\ tmp = Copied(s, copied[s])
       /\ loc[w].how = IF copied[s] = 0 THEN "trunc" ELSE "app"
  /\ pc[w] \in {"wdata", "flush"} => isWriting
  /\ pc[w] \in {"flush", "trunc", "call"} => tmp = Copied(s, NumChunks)
  /\ pc[w] \in {"trunc", "call"} => loc[w].how = s /\ loc[w].size = NumChunks

CopyOK ==
  /\ \A w \in Workers : loc[w].kind \in {"write", "flush"} => loc[w].song \in Songs
  /\ \A w \in Workers : loc[w].kind = "close" => loc[w].song = Untitled
  /\ \A v, w \in Workers : (loc[v].kind \in {"write", "flush"} /\ loc[w].kind \in {"write", "flush"}
                              /\ loc[v].song = loc[w].song) => v = w
  /\ \A w \in Workers :
       /\ loc[w].kind = "write" => copied[loc[w].song] < NumChunks
                                   /\ loc[w].off = copied[loc[w].song] + 1
       /\ loc[w].kind = "flush" => copied[loc[w].song] = NumChunks + 1

FlagOK == isWriting => \E s \in Songs : Unsent(s)

MediaOK ==
  mode = "mediafs" =>
    /\ ~isWriting
    /\ \A w \in Workers : pc[w] \notin {"trunc", "call", "answer", "parse", "wflag", "wdata"}

SoleOK(s) ==
  /\ Closing = {}
  /\ \A t \in Songs \ {s} : ~Open(t)
  /\ mode # "mediafs" =>
       /\ Copying(s) = {} => isWriting /\ tmp = Copied(s, copied[s])
       /\ \A w \in Copying(s) : StageOK(s, w)

UploadOK == \A s \in Songs \ disturbed : Open(s) => SoleOK(s)

IInv ==
  /\ TypeOK /\ IdsOK /\ PlaceOK /\ ReloadOK /\ StoredOK /\ CacheOK
  /\ CopyOK /\ FlagOK /\ MediaOK /\ UploadOK /\ AloneUploadsWhole
-----------------------------------------------------------------------------
(* Names and ids: lemmas about YtfsTree. *)

\* A song is NumChunks chunks long, each its own.
LEMMA ContentOf ==
  \A s : Len(Content(s)) = NumChunks /\ \A k \in 1 .. NumChunks : Content(s)[k] = Chunk(s, k)
BY ServerAssumption DEF Content

\* A non-empty set of numbers has a first: getSongId finds one of the songs.
LEMMA FirstIsIn ==
  ASSUME NEW places \in SUBSET Nat, places # {}
  PROVE  First(places) \in places
<1> DEFINE R == {ss \in Nat \X Nat : ss[1] < ss[2]}
<1>1. IsWellFoundedOn(R, Nat)
  BY NatLessThanWellFounded DEF OpToRel
<1>2. \A m, n \in Nat : <<m, n>> \notin R => n <= m
  OBVIOUS
<1> HIDE DEF R
<1>3. \E k \in places : \A j \in places : ~ (<<j, k>> \in R)
  BY <1>1, WFMin
<1>4. \E k \in places : \A j \in places : k <= j
  BY <1>2, <1>3
<1> QED
  BY <1>4 DEF First

\* Paths of one, two and three names.
LEMMA Appended ==
  /\ \A n : Append(<<>>, n) = <<n>>
  /\ \A a, n : Append(<<a>>, n) = <<a, n>>
  /\ \A a, b, n : Append(<<a, b>>, n) = <<a, b, n>>
<1>1. \A a, n : Append(<<a>>, n) = <<a, n>>
  <2> TAKE a, n
  <2> DEFINE s == Append(<<a>>, n)  t == <<a, n>>
  <2>1. s \in Seq({a, n}) /\ Len(s) = 2 /\ s[1] = a /\ s[2] = n
    OBVIOUS
  <2>2. t \in Seq({a, n}) /\ Len(t) = 2 /\ t[1] = a /\ t[2] = n
    OBVIOUS
  <2> HIDE DEF s, t
  <2>3. \A i \in 1 .. 2 : s[i] = t[i]
    BY <2>1, <2>2
  <2>4. s = t
    BY <2>1, <2>2, <2>3, SeqEqual
  <2> QED
    BY <2>4 DEF s, t
<1>2. \A a, b, n : Append(<<a, b>>, n) = <<a, b, n>>
  <2> TAKE a, b, n
  <2> DEFINE s == Append(<<a, b>>, n)  t == <<a, b, n>>
  <2>1. s \in Seq({a, b, n}) /\ Len(s) = 3 /\ s[1] = a /\ s[2] = b /\ s[3] = n
    OBVIOUS
  <2>2. t \in Seq({a, b, n}) /\ Len(t) = 3 /\ t[1] = a /\ t[2] = b /\ t[3] = n
    OBVIOUS
  <2> HIDE DEF s, t
  <2>3. \A i \in 1 .. 3 : s[i] = t[i]
    BY <2>1, <2>2
  <2>4. s = t
    BY <2>1, <2>2, <2>3, SeqEqual
  <2> QED
    BY <2>4 DEF s, t
<1> QED
  BY <1>1, <1>2

\* The songs among these ids that have the title a path ends with.
Having(ids, path) == {id \in ids : server[id].title = path[3].stem}

\* The folder of a library has the songs its ids name.
LEMMA FolderOfTree ==
  ASSUME NEW ids \in SUBSET Nat, ids # {}, NEW g \in MusicGroupings,
         NEW path, path[1] = Plain(g), path[2] = Plain("all")
  PROVE  /\ FoldersNamed(TreeOf(ids), path) = {1}
         /\ SongsNamed(TreeOf(ids), path, 1) = Having(ids, path)
         /\ Category(TreeOf(ids), path[1])[1].songs = [id \in ids |-> SongOf(id)]
<1> DEFINE all == [title |-> "all", songs |-> [id \in ids |-> SongOf(id)]]
<1>1. TreeOf(ids) = [h \in MusicGroupings |-> << all >>]
  BY DEF TreeOf
<1>2. Category(TreeOf(ids), path[1]) = << all >>
  <2>1. Plain(g).stem = g /\ Plain(g).ext = ""
    BY DEF Plain
  <2> QED
    BY <1>1, <2>1 DEF Category
<1>3. all.title = "all" /\ all.songs = [id \in ids |-> SongOf(id)]
  OBVIOUS
<1>4. << all >>[1] = all /\ DOMAIN << all >> = {1}
  OBVIOUS
<1> HIDE DEF all
<1>5. FoldersNamed(TreeOf(ids), path) = {1}
  BY <1>2, <1>3, <1>4 DEF FoldersNamed
<1>6. SongsNamed(TreeOf(ids), path, 1) = Having(ids, path)
  <2> DEFINE songs == [id \in ids |-> SongOf(id)]
  <2>1. DOMAIN songs = ids /\ \A id \in ids : songs[id].title = server[id].title
    BY DEF SongOf
  <2>2. Category(TreeOf(ids), path[1])[1].songs = songs
    BY <1>2, <1>3, <1>4
  <2> HIDE DEF songs
  <2>3. SongsNamed(TreeOf(ids), path, 1) = {id \in DOMAIN songs : songs[id].title = path[3].stem}
    BY <2>2 DEF SongsNamed
  <2> QED
    BY <2>1, <2>3 DEF Having
<1> QED
  BY <1>2, <1>3, <1>4, <1>5, <1>6

\* The first song with a title is the entry of the first id that has it.
LEMMA SongFound ==
  ASSUME NEW ids \in SUBSET Nat, NEW g \in MusicGroupings,
         NEW path, path[1] = Plain(g), path[2] = Plain("all"), Having(ids, path) # {}
  PROVE  /\ FirstSong(TreeOf(ids), path) = SongOf(First(Having(ids, path)))
         /\ FoldersWith(TreeOf(ids), path) = {1}
<1> DEFINE named == Having(ids, path)
<1>1. /\ FoldersNamed(TreeOf(ids), path) = {1}
      /\ SongsNamed(TreeOf(ids), path, 1) = named
      /\ Category(TreeOf(ids), path[1])[1].songs = [id \in ids |-> SongOf(id)]
  <2>1. ids # {}
    BY DEF Having
  <2> QED
    BY <2>1, FolderOfTree
<1>2. FoldersWith(TreeOf(ids), path) = {i \in {1} : SongsNamed(TreeOf(ids), path, i) # {}}
  BY <1>1 DEF FoldersWith
<1>3. FoldersWith(TreeOf(ids), path) = {1} /\ First({1}) = 1
  BY <1>1, <1>2 DEF First
<1>4. First(named) \in ids
  <2>1. named \in SUBSET Nat /\ named \subseteq ids /\ named # {}
    BY DEF Having
  <2> HIDE DEF named
  <2> QED
    BY <2>1, FirstIsIn
<1>5. FirstSong(TreeOf(ids), path)
         = Category(TreeOf(ids), path[1])[1].songs[First(SongsNamed(TreeOf(ids), path, 1))]
  BY <1>3 DEF FirstSong
<1>6. FirstSong(TreeOf(ids), path) = [id \in ids |-> SongOf(id)][First(named)]
  BY <1>1, <1>5
<1> QED
  BY <1>3, <1>4, <1>6

\* getSongId finds an id of the library, or says that there is none.
LEMMA IdFound ==
  ASSUME NEW ids \in SUBSET Nat, NEW g \in MusicGroupings,
         NEW path, path[1] = Plain(g), path[2] = Plain("all")
  PROVE  IF Having(ids, path) = {} THEN getSongId(TreeOf(ids), path) = NoId
         ELSE /\ getSongId(TreeOf(ids), path) = First(Having(ids, path))
              /\ First(Having(ids, path)) \in Having(ids, path)
<1>1. CASE Having(ids, path) = {}
  <2>1. FoldersWith(TreeOf(ids), path) = {}
    <3>1. CASE ids = {}
      <4>1. Category(TreeOf(ids), path[1]) = <<>>
        BY <3>1 DEF TreeOf, Category, Plain
      <4> QED
        BY <4>1 DEF FoldersWith, FoldersNamed
    <3>2. CASE ids # {}
      <4>1. /\ FoldersNamed(TreeOf(ids), path) = {1}
            /\ SongsNamed(TreeOf(ids), path, 1) = Having(ids, path)
        BY <3>2, FolderOfTree
      <4>2. FoldersWith(TreeOf(ids), path) = {i \in {1} : SongsNamed(TreeOf(ids), path, i) # {}}
        BY <4>1 DEF FoldersWith
      <4> QED
        BY <1>1, <4>1, <4>2
    <3> QED
      BY <3>1, <3>2
  <2> QED
    BY <1>1, <2>1 DEF getSongId
<1>2. CASE Having(ids, path) # {}
  <2>1. /\ FirstSong(TreeOf(ids), path) = SongOf(First(Having(ids, path)))
        /\ FoldersWith(TreeOf(ids), path) = {1}
    BY <1>2, SongFound
  <2>2. Having(ids, path) \in SUBSET Nat
    BY DEF Having
  <2>3. First(Having(ids, path)) \in Having(ids, path)
    BY <1>2, <2>2, FirstIsIn
  <2>4. FirstSong(TreeOf(ids), path).id = First(Having(ids, path))
    BY <2>1 DEF SongOf
  <2> QED
    BY <1>2, <2>1, <2>3, <2>4 DEF getSongId
<1> QED
  BY <1>1, <1>2
-----------------------------------------------------------------------------
(* ListingAgrees: a state of the metadata alone. *)

LEMMA Agrees ==
  ASSUME meta \in SUBSET Nat, meta \subseteq Ids, AloneUploadsWhole
  PROVE  ListingAgrees
<1> DEFINE tree == TreeOf(meta)
           all == Plain("all")
           dirs == {<<>>} \cup {<<Plain(g)>> : g \in MusicGroupings}
                          \cup {<<Plain(g), all>> : g \in MusicGroupings}
           Named(path) ==
             LET id == getSongId(tree, path) IN
               /\ id \in meta /\ open(path) = "ok"
               /\ server[id].clean => getattr(tree, path).size = Len(server[id].content)
<1> SUFFICES ASSUME NEW d \in dirs, NEW n \in readdir(tree, d)
             PROVE  /\ getattr(tree, Append(d, n)).st = IF Len(d) = 2 THEN "reg" ELSE "dir"
                    /\ MediaGetattr(tree, Append(d, n)) = getattr(tree, Append(d, n))
                    /\ Len(d) = 2 => Named(Append(d, n))
  BY DEF ListingAgrees
<1>1. CASE d = <<>>
  <2>1. PICK g \in MusicGroupings : n = Plain(g)
    BY <1>1 DEF readdir
  <2>2. Append(d, n) = <<Plain(g)>> /\ Len(d) = 0
    BY <1>1, <2>1
  <2> DEFINE path == <<Plain(g)>>
  <2>3. path # <<>> /\ Len(path) = 1 /\ path[1] = Plain(g) /\ ~IsMp3(path)
    BY DEF IsMp3, Plain
  <2> HIDE DEF path
  <2>4. getattr(tree, path) = Dir /\ MediaGetattr(tree, path) = Dir
    BY <2>3 DEF getattr, MediaGetattr
  <2> QED
    BY <2>2, <2>4 DEF Dir, path
<1>2. ASSUME NEW g \in MusicGroupings, d = <<Plain(g)>>
      PROVE  /\ getattr(tree, Append(d, n)) = Dir
             /\ MediaGetattr(tree, Append(d, n)) = Dir
             /\ Len(d) = 1
  <2>1. /\ d # <<>> /\ Len(d) = 1 /\ d[1] = Plain(g)
    BY <1>2
  <2>2. readdir(tree, d) = {Plain(f.title) : f \in Range(Category(tree, Plain(g)))}
    BY <2>1 DEF readdir
  <2>3. PICK f \in Range(Category(tree, Plain(g))) : n = Plain(f.title)
    BY <2>2
  <2>4. meta # {} /\ f.title = "all"
    <3>1. Category(tree, Plain(g)) =
            IF meta = {} THEN <<>>
            ELSE << [title |-> "all", songs |-> [id \in meta |-> SongOf(id)]] >>
      BY DEF TreeOf, Category, Plain
    <3>2. Range(<<>>) = {}
      BY DEF Range
    <3>3. meta # {}
      BY <2>3, <3>1, <3>2
    <3>4. PICK i \in DOMAIN Category(tree, Plain(g)) : f = Category(tree, Plain(g))[i]
      BY <2>3 DEF Range
    <3>5. \A x : \A j \in DOMAIN <<x>> : <<x>>[j] = x
      OBVIOUS
    <3>6. f = [title |-> "all", songs |-> [id \in meta |-> SongOf(id)]]
      BY <3>1, <3>3, <3>4, <3>5
    <3> QED
      BY <3>3, <3>6
  <2>5. n = all
    BY <2>3, <2>4
  <2> DEFINE path == <<Plain(g), all>>
  <2>6. Append(d, n) = path
    BY <1>2, <2>5, Appended
  <2>7. Len(path) = 2 /\ path # <<>> /\ path[1] = Plain(g) /\ path[2] = all
    OBVIOUS
  <2> HIDE DEF path
  <2>8. FoldersNamed(tree, path) = {1}
    BY <2>4, <2>7, FolderOfTree
  <2>9. DeepAttr(tree, path) = Dir
    BY <2>7, <2>8 DEF DeepAttr
  <2>10. getattr(tree, path) = Dir /\ MediaGetattr(tree, path) = Dir
    BY <2>7, <2>9 DEF getattr, MediaGetattr
  <2> QED
    BY <2>1, <2>6, <2>10
<1>3. ASSUME NEW g \in MusicGroupings, d = <<Plain(g), all>>
      PROVE  /\ getattr(tree, Append(d, n)).st = "reg"
             /\ MediaGetattr(tree, Append(d, n)) = getattr(tree, Append(d, n))
             /\ Len(d) = 2
             /\ Named(Append(d, n))
  <2>1. /\ d # <<>> /\ Len(d) = 2 /\ d[1] = Plain(g) /\ d[2] = all
    BY <1>3
  <2>2. FoldersNamed(tree, d) # {}
    BY <2>1 DEF readdir
  <2>3. meta # {}
    <3>1. SUFFICES ASSUME meta = {}
                   PROVE  FALSE
      OBVIOUS
    <3>2. Category(tree, d[1]) = <<>>
      BY <3>1, <2>1 DEF TreeOf, Category, Plain
    <3> QED
      BY <3>2, <2>2 DEF FoldersNamed
  <2>4. /\ FoldersNamed(tree, d) = {1}
        /\ Category(tree, d[1])[1].songs = [id \in meta |-> SongOf(id)]
    BY <2>1, <2>3, FolderOfTree
  <2>5. First({1}) = 1
    BY DEF First
  <2>6. readdir(tree, d) = {Mp3(s.title) : s \in Range([id \in meta |-> SongOf(id)])}
    BY <2>1, <2>2, <2>4, <2>5 DEF readdir
  <2>7. PICK s \in Range([id \in meta |-> SongOf(id)]) : n = Mp3(s.title)
    BY <2>6
  <2>8. PICK i \in meta : s = SongOf(i)
    BY <2>7 DEF Range
  <2>9. n = Mp3(server[i].title)
    BY <2>7, <2>8 DEF SongOf
  <2> DEFINE path == <<Plain(g), all, n>>
             named == Having(meta, path)
  <2>10. Append(d, n) = path
    BY <1>3, Appended
  <2>11. /\ Len(path) = 3 /\ path # <<>>
         /\ path[1] = Plain(g) /\ path[2] = all /\ path[3] = n
    OBVIOUS
  <2>12. n.stem = server[i].title /\ n.ext = ".mp3"
    BY <2>9 DEF Mp3
  <2> HIDE DEF path
  <2>13. i \in named
    BY <2>11, <2>12 DEF Having
  <2>14. named \subseteq meta
    BY DEF Having
  <2>15. /\ FirstSong(tree, path) = SongOf(First(named))
         /\ FoldersWith(tree, path) = {1}
    BY <2>11, <2>13, SongFound
  <2>16. getSongId(tree, path) = First(named) /\ First(named) \in named
    BY <2>11, <2>13, IdFound
  <2> HIDE DEF named
  <2>17. getSongId(tree, path) \in meta
    BY <2>14, <2>16
  <2>18. DeepAttr(tree, path).st = "reg"
    BY <2>11, <2>15 DEF DeepAttr, Reg
  <2>19. getattr(tree, path) = DeepAttr(tree, path) /\ MediaGetattr(tree, path) = DeepAttr(tree, path)
    BY <2>11 DEF getattr, MediaGetattr
  <2>20. open(path) = "ok"
    BY <2>11, <2>12 DEF open, IsMp3
  <2> DEFINE id == First(named)
  <2>21. DeepAttr(tree, path).size = server[id].size
    BY <2>11, <2>15 DEF DeepAttr, Reg, SongOf
  <2>22. server[id].clean => server[id].size = Len(server[id].content)
    BY <2>16, <2>17, ContentOf DEF AloneUploadsWhole
  <2>23. Named(path)
    BY <2>16, <2>17, <2>19, <2>20, <2>21, <2>22
  <2> QED
    BY <2>1, <2>10, <2>18, <2>19, <2>23
<1>4. CASE \E g \in MusicGroupings : d = <<Plain(g)>>
  BY <1>2, <1>4 DEF Dir
<1>5. CASE \E g \in MusicGroupings : d = <<Plain(g), all>>
  BY <1>3, <1>5
<1> QED
  BY <1>1, <1>4, <1>5
-----------------------------------------------------------------------------
(* The steps, and what their pieces are. *)

LEMMA ActionCases ==
  ASSUME Next
  PROVE  \/ \E p \in Threads : \/ ShellTruncate(p) \/ ServerCall(p) \/ ServerCallFails(p)
                               \/ CurlAnswers(p) \/ ReloadParse(p)
         \/ UpdaterWakes
         \/ \E w \in Workers :
              \/ StartRead(w) \/ StartUnlink(w) \/ StartWrite(w) \/ StartFlush(w) \/ StartClose(w)
              \/ ReadFindsId(w) \/ UnlinkFindsId(w) \/ WalkCrashes(w)
              \/ CacheOpen(w) \/ FetchTruncate(w) \/ FetchChunk(w) \/ FetchEnds(w) \/ FetchFails(w)
              \/ ReadFile(w) \/ ReadReturns(w)
              \/ WriteOpen(w) \/ WriteFlag(w) \/ WriteData(w) \/ MediaWrite(w)
              \/ FlushNothing(w) \/ FlushUpload(w)
<1>1. Updater \in Threads /\ \A w \in Workers : w \in Threads
  BY DEF Threads
<1> QED
  BY <1>1 DEF Next, Request, Handler, Reload

\* A request that has begun with nothing but its kind.
LEMMA NoLocFields ==
  /\ NoLoc \in Locs
  /\ NoLoc.kind = "reload" /\ NoLoc.resp = {} /\ NoLoc.id = NoId /\ NoLoc.pos = 0
  /\ NoLoc.song = Untitled /\ NoLoc.torn = FALSE /\ NoLoc.how = Untitled /\ NoLoc.off = 0
  /\ NoLoc.size = 0
<1>1. EOF \in ChunkSet
  BY DEF EOF, Chunk, ChunkSet
<1> QED
  BY <1>1 DEF NoLoc, Locs, Kinds, Names

\* What Start, Answer and the walks make of NoLoc.
FreshL(kind, song, off) == [NoLoc EXCEPT !.kind = kind, !.song = song, !.off = off]
FoundL(kind, id) == [NoLoc EXCEPT !.kind = kind, !.id = id]
AnswerL(ids) == [NoLoc EXCEPT !.resp = ids]

LEMMA FreshLoc ==
  ASSUME NEW kind \in Kinds, NEW song \in Names, NEW off \in Nat
  PROVE  LET l == FreshL(kind, song, off)
         IN /\ l \in Locs
            /\ l.kind = kind /\ l.song = song /\ l.off = off /\ l.how = Untitled
            /\ l.id = NoId /\ l.resp = {} /\ l.pos = 0
  BY NoLocFields DEF NoLoc, Locs, FreshL

LEMMA FoundLoc ==
  ASSUME NEW kind \in Kinds, NEW id \in Nat \cup {NoId}
  PROVE  LET l == FoundL(kind, id)
         IN /\ l \in Locs
            /\ l.kind = kind /\ l.song = Untitled /\ l.off = 0 /\ l.how = Untitled
            /\ l.id = id /\ l.resp = {} /\ l.pos = 0
  BY NoLocFields DEF NoLoc, Locs, FoundL

LEMMA AnswerLoc ==
  ASSUME NEW ids \in SUBSET Nat
  PROVE  LET l == AnswerL(ids)
         IN /\ l \in Locs
            /\ l.kind = "reload" /\ l.song = Untitled /\ l.off = 0 /\ l.how = Untitled
            /\ l.id = NoId /\ l.resp = ids /\ l.pos = 0
  BY NoLocFields DEF NoLoc, Locs, AnswerL

\* write(2) at an offset makes a file of the larger length.
LEMMA PutProperties ==
  ASSUME NEW data \in Seq(ChunkSet), NEW k \in Nat \ {0}, NEW chunk \in ChunkSet
  PROVE  /\ Put(data, k, chunk) \in Seq(ChunkSet)
         /\ Len(Put(data, k, chunk)) = IF k > Len(data) THEN k ELSE Len(data)
         /\ \A i \in 1 .. (IF k > Len(data) THEN k ELSE Len(data)) :
              Put(data, k, chunk)[i] = IF i = k THEN chunk
                                       ELSE IF i <= Len(data) THEN data[i] ELSE Hole
<1> DEFINE n == IF k > Len(data) THEN k ELSE Len(data)
           e(i) == IF i = k THEN chunk ELSE IF i <= Len(data) THEN data[i] ELSE Hole
<1>1. n \in Nat
  BY LenProperties
<1>2. Hole \in ChunkSet
  BY DEF Hole, Chunk, ChunkSet
<1>3. \A i \in 1 .. n : e(i) \in ChunkSet
  BY <1>2, ElementOfSeq, LenProperties
<1>4. Put(data, k, chunk) = [i \in 1 .. n |-> e(i)]
  BY DEF Put
<1> HIDE DEF n, e
<1>5. [i \in 1 .. n |-> e(i)] \in [1 .. n -> ChunkSet]
  BY <1>3
<1>6. [i \in 1 .. n |-> e(i)] \in Seq(ChunkSet)
  BY <1>1, <1>5, SeqDef
<1>7. Len([i \in 1 .. n |-> e(i)]) = n
  BY <1>1, <1>6, LenProperties
<1>8. \A i \in 1 .. n : [j \in 1 .. n |-> e(j)][i] = e(i)
  OBVIOUS
<1> QED
  BY <1>4, <1>6, <1>7, <1>8 DEF n, e

\* The server's songs, and what it sends for an id.
LEMMA ServerFields ==
  ASSUME TypeOK
  PROVE  /\ Len(server) \in Nat /\ Ids \subseteq Nat
         /\ \A id \in Ids : /\ server[id] \in Entries
                            /\ server[id].content \in Seq(ChunkSet)
                            /\ server[id].title \in Names
<1>1. Len(server) \in Nat
  BY LenProperties DEF TypeOK
<1>2. \A id \in Ids : server[id] \in Entries
  BY ElementOfSeq DEF TypeOK, Ids
<1> QED
  BY <1>1, <1>2 DEF Ids, Entries

LEMMA BodyIsChunks ==
  ASSUME TypeOK, NEW id \in Ids \cup {NoId}
  PROVE  Body(id) \in Seq(ChunkSet)
<1>1. NotFound \in ChunkSet
  BY DEF NotFound, Chunk, ChunkSet
<1>2. << NotFound >> \in Seq(ChunkSet)
  BY <1>1
<1> QED
  BY <1>2, ServerFields DEF Body

\* What a walk finds is an id of the server, or none.
LEMMA FoundIsId ==
  ASSUME TypeOK, IdsOK, NEW w \in Threads, NEW id \in Found(w)
  PROVE  id \in Ids \cup {NoId} /\ id \in Nat \cup {NoId}
<1>1. meta \in SUBSET Nat /\ meta \subseteq Ids /\ Ids \subseteq Nat
  BY ServerFields DEF IdsOK, IdOK
<1> DEFINE path == PathOf(loc[w].song)
<1>2. path[1] = Plain("Genres") /\ path[2] = Plain("all") /\ "Genres" \in MusicGroupings
  BY DEF PathOf, MusicGroupings
<1> HIDE DEF path
<1>3. IF Having(meta, path) = {} THEN getSongId(TreeOf(meta), path) = NoId
      ELSE /\ getSongId(TreeOf(meta), path) = First(Having(meta, path))
           /\ First(Having(meta, path)) \in Having(meta, path)
  BY <1>1, <1>2, IdFound
<1>4. Having(meta, path) \subseteq meta
  BY DEF Having
<1>5. getSongId(TreeOf(meta), path) \in meta \cup {NoId}
  BY <1>3, <1>4
<1> QED
  BY <1>1, <1>5 DEF Found, path

LEMMA TitleIsName ==
  ASSUME NEW content \in Seq(ChunkSet)
  PROVE  Title(content) \in Names
<1>1. CASE content # <<>> /\ content[1] \in {Chunk(s, 1) : s \in Titles}
  <2>1. PICK s \in Titles : content[1] = Chunk(s, 1)
    BY <1>1
  <2>2. content[1][1] = s
    BY <2>1 DEF Chunk
  <2> QED
    BY <1>1, <2>2 DEF Title, Names
<1>2. CASE ~(content # <<>> /\ content[1] \in {Chunk(s, 1) : s \in Titles})
  BY <1>2 DEF Title, Names
<1> QED
  BY <1>1, <1>2
-----------------------------------------------------------------------------
(* Types. *)

LEMMA TypeStep ==
  ASSUME ServerAssumption, IInv, Next
  PROVE  TypeOK'
<1> USE DEF vars, files, history, world
<1>1. TypeOK /\ IdsOK /\ CopyOK
  BY DEF IInv
<1>2. /\ pc \in [Threads -> Places] /\ loc \in [Threads -> Locs]
      /\ Updater \in Threads /\ \A w \in Workers : w \in Threads
  BY <1>1 DEF TypeOK, Threads
<1>3. \A w : \A l \in Places : Goto(w, l) => pc' \in [Threads -> Places]
  BY <1>2 DEF Goto
<1>4. \A w : \A l \in Locs : loc' = [loc EXCEPT ![w] = l] => loc' \in [Threads -> Locs]
  BY <1>2
<1>5. \A w : Return(w) => pc' \in [Threads -> Places] /\ loc' \in [Threads -> Locs]
  BY <1>3, <1>4, NoLocFields DEF Return, Places
<1>6. Len(server) \in Nat /\ Ids \subseteq Nat
  BY <1>1, ServerFields
<1>7. \A p \in Threads : loc[p].id \in Nat \cup {NoId} /\ loc[p].id \in Ids \cup {NoId}
  BY <1>1, <1>6 DEF IdsOK, IdOK
<1>8. \A w \in Threads : Return(w) \/ UNCHANGED loc \/ (\E l \in Locs : loc' = [loc EXCEPT ![w] = l])
        => loc' \in [Threads -> Locs]
  BY <1>2, <1>4, <1>5
<1>9. ASSUME NEW p \in Threads, ShellTruncate(p)
      PROVE  TypeOK'
  <2>1. pc' \in [Threads -> Places]
    BY <1>9, <1>3 DEF ShellTruncate, Places
  <2>2. loc' \in [Threads -> Locs]
    BY <1>9, <1>2 DEF ShellTruncate
  <2>3. mfile' \in [st : {"absent", "empty", "json", "bad"}, ids : SUBSET Nat]
    BY <1>9, <1>1 DEF ShellTruncate, TypeOK, Json
  <2> QED
    BY <1>9, <1>1, <2>1, <2>2, <2>3 DEF TypeOK, ShellTruncate
<1>10. ASSUME NEW p \in Threads, ServerCall(p)
      PROVE  TypeOK'
  <2>1. pc' \in [Threads -> Places]
    BY <1>10, <1>3 DEF ServerCall, Places
  <2>2. loc' \in [Threads -> Locs]
    <3>1. Library \in SUBSET Nat /\ Library \cup {Len(server) + 1} \in SUBSET Nat
      <4>1. (Ids \ gone) \subseteq Nat
        BY <1>6
      <4>2. Len(server) + 1 \in Nat
        BY <1>6
      <4> QED
        BY <4>1, <4>2 DEF Library
    <3>2. Library \ {loc[p].id} \in SUBSET Nat
      BY <3>1
    <3>3. \A ids \in SUBSET Nat : Answer(p, ids) => loc' \in [Threads -> Locs]
      <4>1. \A ids \in SUBSET Nat : AnswerL(ids) \in Locs
        BY AnswerLoc
      <4> QED
        BY <1>4, <4>1 DEF Answer, AnswerL
    <3> QED
      BY <1>10, <3>1, <3>2, <3>3 DEF ServerCall, Upload, Delete, Get
  <2>3. server' \in Seq(Entries)
    <3>1. loc[p].how \in Names /\ loc[p].song \in Names /\ loc[p].size \in Nat
      BY <1>2 DEF Locs
    <3>2. [title |-> loc[p].how, size |-> loc[p].size, content |-> tmp, by |-> loc[p].song,
           clean |-> loc[p].song \in Songs \ disturbed] \in Entries
      BY <1>1, <3>1 DEF Entries, TypeOK
    <3>3. server \in Seq(Entries)
      BY <1>1 DEF TypeOK
    <3> QED
      BY <1>10, <3>2, <3>3, AppendProperties DEF ServerCall, Upload, Delete, Get
  <2> QED
    BY <1>10, <1>1, <2>1, <2>2, <2>3 DEF TypeOK, ServerCall
<1>11. ASSUME NEW p \in Threads, ServerCallFails(p)
      PROVE  TypeOK'
  <2>1. pc' \in [Threads -> Places]
    <3>1. {"none", "parse"} \subseteq Places
      BY DEF Places
    <3> QED
      BY <1>11, <3>1, <1>3 DEF ServerCallFails
  <2>2. loc' \in [Threads -> Locs]
    BY <1>11, <1>2 DEF ServerCallFails
  <2> QED
    BY <1>11, <1>1, <2>1, <2>2 DEF TypeOK, ServerCallFails
<1>12. ASSUME NEW p \in Threads, CurlAnswers(p)
      PROVE  TypeOK'
  <2>1. pc' \in [Threads -> Places]
    BY <1>12, <1>3 DEF CurlAnswers, Places
  <2>2. loc' \in [Threads -> Locs]
    BY <1>12, <1>2 DEF CurlAnswers
  <2>3. mfile' \in [st : {"absent", "empty", "json", "bad"}, ids : SUBSET Nat]
    <3>1. loc[p].resp \in SUBSET Nat
      BY <1>2 DEF Locs
    <3> QED
      BY <1>12, <1>1, <3>1 DEF CurlAnswers, TypeOK, Json
  <2> QED
    BY <1>12, <1>1, <2>1, <2>2, <2>3 DEF TypeOK, CurlAnswers
<1>13. ASSUME NEW p \in Threads, ReloadParse(p)
      PROVE  TypeOK'
  <2>1. pc' \in [Threads -> Places]
    <3>1. {"idle", "none", "sleep"} \subseteq Places
      BY DEF Places
    <3> QED
      BY <1>13, <3>1, <1>3 DEF ReloadParse
  <2>2. loc' \in [Threads -> Locs]
    <3>1. loc' = [q \in Threads |-> IF q = p THEN NoLoc
             ELSE [loc[q] EXCEPT !.torn = @ \/ (mfile.st = "json" /\ pc[q] = "walk")]]
      BY <1>13 DEF ReloadParse
    <3>2. \A l \in Locs : \A b \in BOOLEAN : [l EXCEPT !.torn = b] \in Locs
      BY DEF Locs
    <3>3. \A q \in Threads : (loc[q].torn \/ (mfile.st = "json" /\ pc[q] = "walk")) \in BOOLEAN
      BY <1>2 DEF Locs
    <3>4. \A q \in Threads :
            [loc[q] EXCEPT !.torn = @ \/ (mfile.st = "json" /\ pc[q] = "walk")] \in Locs
      BY <1>2, <3>2, <3>3
    <3> QED
      BY <3>1, <3>4, NoLocFields
  <2> QED
    BY <1>13, <1>1, <2>1, <2>2 DEF TypeOK, ReloadParse
<1>14. CASE UpdaterWakes
  <2>1. pc' \in [Threads -> Places]
    BY <1>14, <1>3 DEF UpdaterWakes, Places
  <2> QED
    BY <1>14, <1>1, <2>1 DEF TypeOK, UpdaterWakes
<1>15. ASSUME NEW w \in Workers, NEW kind \in Kinds, NEW song \in Names, NEW off \in Nat,
             NEW at \in Places, Start(w, kind, song, off, at)
      PROVE  pc' \in [Threads -> Places] /\ loc' \in [Threads -> Locs]
  <2>1. FreshL(kind, song, off) \in Locs
    BY FreshLoc
  <2>2. loc' = [loc EXCEPT ![w] = FreshL(kind, song, off)]
    BY <1>15 DEF Start, FreshL
  <2> QED
    BY <1>15, <1>2, <1>3, <1>4, <2>1, <2>2 DEF Start
<1>16. Listed \subseteq Names
  BY <1>1, ServerFields DEF Listed, IdsOK, IdOK
<1>17. ASSUME NEW w \in Workers, StartRead(w)
      PROVE  TypeOK'
  <2>1. pc' \in [Threads -> Places] /\ loc' \in [Threads -> Locs]
    BY <1>17, <1>15, <1>16 DEF StartRead, Kinds, Places
  <2> QED
    BY <1>17, <1>1, <2>1 DEF TypeOK, StartRead, Start
<1>18. ASSUME NEW w \in Workers, StartUnlink(w)
      PROVE  TypeOK'
  <2>1. pc' \in [Threads -> Places] /\ loc' \in [Threads -> Locs]
    BY <1>18, <1>15, <1>16 DEF StartUnlink, Kinds, Places
  <2> QED
    BY <1>18, <1>1, <2>1 DEF TypeOK, StartUnlink, Start
<1>19. \A f : Meets(f) => disturbed' \subseteq Songs
  BY <1>1 DEF Meets, TypeOK
<1>20. ASSUME NEW w \in Workers, StartWrite(w)
      PROVE  TypeOK'
  <2>1. PICK s \in Songs : Start(w, "write", s, copied[s] + 1, "wopen") /\ Meets(s) /\ UNCHANGED copied
    BY <1>20 DEF StartWrite
  <2>2. s \in Names /\ copied[s] + 1 \in Nat
    BY <1>1 DEF TypeOK, Names, Titles
  <2>3. pc' \in [Threads -> Places] /\ loc' \in [Threads -> Locs]
    BY <1>15, <2>1, <2>2 DEF Kinds, Places
  <2>4. copied' \in [Songs -> 0 .. NumChunks + 1]
    BY <1>1, <2>1 DEF TypeOK, ServerAssumption
  <2> QED
    BY <1>1, <1>19, <2>1, <2>3, <2>4 DEF TypeOK, Start
<1>21. ASSUME NEW w \in Workers, StartFlush(w)
      PROVE  TypeOK'
  <2>1. PICK s \in Songs : copied[s] = NumChunks /\ Start(w, "flush", s, 0, "flush") /\ Meets(s) /\ copied' = [copied EXCEPT ![s] = NumChunks + 1]
    BY <1>21 DEF StartFlush
  <2>2. s \in Names /\ copied[s] + 1 \in Nat
    BY <1>1 DEF TypeOK, Names, Titles
  <2>3. pc' \in [Threads -> Places] /\ loc' \in [Threads -> Locs]
    BY <1>15, <2>1, <2>2 DEF Kinds, Places
  <2>4. copied' \in [Songs -> 0 .. NumChunks + 1]
    BY <1>1, <2>1 DEF TypeOK, ServerAssumption
  <2> QED
    BY <1>1, <1>19, <2>1, <2>3, <2>4 DEF TypeOK, Start
<1>22. ASSUME NEW w \in Workers, StartClose(w)
      PROVE  TypeOK'
  <2>1. pc' \in [Threads -> Places] /\ loc' \in [Threads -> Locs]
    BY <1>22, <1>15 DEF StartClose, Kinds, Places, Names
  <2> QED
    BY <1>22, <1>1, <1>19, <2>1 DEF TypeOK, StartClose, Start
<1>23. ASSUME NEW w \in Workers, ReadFindsId(w)
      PROVE  TypeOK'
  <2>1. pc' \in [Threads -> Places]
    BY <1>23, <1>3 DEF ReadFindsId, Places
  <2>2. loc' \in [Threads -> Locs]
    <3>1. PICK id \in Found(w) : loc' = [loc EXCEPT ![w].id = id]
      BY <1>23 DEF ReadFindsId
    <3>2. id \in Nat \cup {NoId}
      BY <1>1, <1>2, FoundIsId
    <3>3. \A l \in Locs : [l EXCEPT !.id = id] \in Locs
      BY <3>2 DEF Locs
    <3>4. loc' = [loc EXCEPT ![w] = [loc[w] EXCEPT !.id = id]]
      BY <1>2, <3>1
    <3> QED
      BY <1>2, <3>3, <3>4
  <2> QED
    BY <1>23, <1>1, <2>1, <2>2 DEF TypeOK, ReadFindsId
<1>24. ASSUME NEW w \in Workers, UnlinkFindsId(w)
      PROVE  TypeOK'
  <2>1. pc' \in [Threads -> Places]
    BY <1>24, <1>3, <1>5 DEF UnlinkFindsId, Places
  <2>2. loc' \in [Threads -> Locs]
    <3>1. \A id \in Found(w) : [NoLoc EXCEPT !.kind = "unlink", !.id = id] \in Locs
      <4>1. SUFFICES ASSUME NEW id \in Found(w)
                     PROVE  FoundL("unlink", id) \in Locs
        BY DEF FoundL
      <4>2. id \in Nat \cup {NoId} /\ "unlink" \in Kinds
        BY <1>1, <1>2, FoundIsId DEF Kinds
      <4> QED
        BY <4>2, FoundLoc
    <3> QED
      BY <1>24, <1>4, <1>5, <3>1 DEF UnlinkFindsId
  <2> QED
    BY <1>24, <1>1, <2>1, <2>2 DEF TypeOK, UnlinkFindsId
<1>25. ASSUME NEW w \in Workers, WalkCrashes(w)
      PROVE  TypeOK'
  <2>1. pc' \in [Threads -> Places]
    BY <1>25, <1>2 DEF WalkCrashes
  <2>2. loc' \in [Threads -> Locs]
    BY <1>25, <1>2 DEF WalkCrashes
  <2> QED
    BY <1>25, <1>1, <2>1, <2>2 DEF TypeOK, WalkCrashes
<1>26. ASSUME NEW w \in Workers, CacheOpen(w)
      PROVE  TypeOK'
  <2>1. pc' \in [Threads -> Places]
    <3>1. {"read", "fetch"} \subseteq Places
      BY DEF Places
    <3> QED
      BY <1>26, <3>1, <1>3 DEF CacheOpen
  <2>2. loc' \in [Threads -> Locs]
    BY <1>26, <1>2 DEF CacheOpen
  <2> QED
    BY <1>26, <1>1, <2>1, <2>2 DEF TypeOK, CacheOpen
<1>27. ASSUME NEW w \in Workers, FetchTruncate(w)
      PROVE  TypeOK'
  <2>1. pc' \in [Threads -> Places]
    BY <1>27, <1>3 DEF FetchTruncate, Places
  <2>2. loc' \in [Threads -> Locs]
    <3>1. \A l \in Locs : [l EXCEPT !.pos = 0] \in Locs
      BY <1>2 DEF Locs
    <3>2. loc' = [loc EXCEPT ![w] = [loc[w] EXCEPT !.pos = 0]]
      BY <1>27, <1>2 DEF FetchTruncate
    <3> QED
      BY <1>2, <3>1, <3>2
  <2>3. cache' \in [DOMAIN cache' -> Seq(ChunkSet)]
    BY <1>27, <1>1, EmptySeq DEF FetchTruncate, TypeOK
  <2> QED
    BY <1>27, <1>1, <2>1, <2>2, <2>3 DEF TypeOK, FetchTruncate
<1>28. ASSUME NEW w \in Workers, FetchChunk(w)
      PROVE  TypeOK'
  <2>1. pc' \in [Threads -> Places]
    BY <1>28, <1>2 DEF FetchChunk
  <2>2. loc' \in [Threads -> Locs]
    <3>1. \A l \in Locs : \A m \in Nat : [l EXCEPT !.pos = m] \in Locs
      BY DEF Locs
    <3>2. loc' = [loc EXCEPT ![w] = [loc[w] EXCEPT !.pos = loc[w].pos + 1]]
      BY <1>28, <1>2 DEF FetchChunk
    <3>3. loc[w].pos + 1 \in Nat
      BY <1>2 DEF Locs
    <3> QED
      BY <1>2, <3>1, <3>2, <3>3
  <2>3. cache' \in [DOMAIN cache' -> Seq(ChunkSet)]
    <3> DEFINE id == loc[w].id  m == loc[w].pos + 1
    <3>1. m \in Nat \ {0}
      BY <1>2 DEF Locs
    <3>2. Body(id) \in Seq(ChunkSet) /\ m <= Len(Body(id))
      BY <1>28, <1>1, <1>2, <1>7, BodyIsChunks DEF FetchChunk
    <3>3. Body(id)[m] \in ChunkSet
      BY <3>1, <3>2, ElementOfSeq, LenProperties
    <3>4. cache' = [cache EXCEPT ![id] = Put(cache[id], m, Body(id)[m])]
      BY <1>28, <1>1 DEF FetchChunk, TypeOK
    <3>5. id \in DOMAIN cache => Put(cache[id], m, Body(id)[m]) \in Seq(ChunkSet)
      BY <1>1, <3>1, <3>3, PutProperties DEF TypeOK
    <3>6. cache \in [DOMAIN cache -> Seq(ChunkSet)]
      BY <1>1 DEF TypeOK
    <3> HIDE DEF id, m
    <3> QED
      BY <3>4, <3>5, <3>6
  <2> QED
    BY <1>28, <1>1, <2>1, <2>2, <2>3 DEF TypeOK, FetchChunk
<1>29. ASSUME NEW w \in Workers, FetchEnds(w)
      PROVE  TypeOK'
  <2>1. pc' \in [Threads -> Places]
    BY <1>29, <1>3 DEF FetchEnds, Places
  <2>2. loc' \in [Threads -> Locs]
    <3>1. \A l \in Locs : [l EXCEPT !.pos = 0] \in Locs
      BY <1>2 DEF Locs
    <3>2. loc' = [loc EXCEPT ![w] = [loc[w] EXCEPT !.pos = 0]]
      BY <1>29, <1>2 DEF FetchEnds
    <3> QED
      BY <1>2, <3>1, <3>2
  <2> QED
    BY <1>29, <1>1, <2>1, <2>2 DEF TypeOK, FetchEnds
<1>30. ASSUME NEW w \in Workers, FetchFails(w)
      PROVE  TypeOK'
  <2>1. pc' \in [Threads -> Places]
    BY <1>30, <1>3, <1>5 DEF FetchFails, Places
  <2>2. loc' \in [Threads -> Locs]
    <3>1. \A l \in Locs : [l EXCEPT !.pos = 0] \in Locs
      BY DEF Locs
    <3>2. Return(w) \/ loc' = [loc EXCEPT ![w] = [loc[w] EXCEPT !.pos = 0]]
      BY <1>30, <1>2 DEF FetchFails
    <3> QED
      BY <1>2, <1>5, <3>1, <3>2
  <2> QED
    BY <1>30, <1>1, <2>1, <2>2 DEF TypeOK, FetchFails
<1>31. ASSUME NEW w \in Workers, ReadFile(w)
      PROVE  TypeOK'
  <2>1. pc' \in [Threads -> Places]
    BY <1>31, <1>3 DEF ReadFile, Places
  <2>2. loc' \in [Threads -> Locs]
    <3>1. PICK m \in 1 .. NumChunks :
            loc' = [loc EXCEPT ![w].got = Got(cache[loc[w].id], m), ![w].off = m,
                               ![w].torn = @ \/ Fetching(loc[w].id) # {}]
      BY <1>31 DEF ReadFile
    <3> DEFINE c == Got(cache[loc[w].id], m)
               b == loc[w].torn \/ Fetching(loc[w].id) # {}
    <3>2. c \in ChunkSet
      <4>1. pc[w] = "read"
        BY <1>31 DEF ReadFile
      <4>2. loc[w].id \in DOMAIN cache
        BY <1>1, <1>2, <4>1 DEF IInv, StoredOK
      <4>3. cache[loc[w].id] \in Seq(ChunkSet)
        BY <1>1, <4>2 DEF TypeOK
      <4>4. m \in Nat /\ m >= 1
        BY DEF ServerAssumption
      <4>5. EOF \in ChunkSet
        BY DEF EOF, Chunk, ChunkSet
      <4> QED
        BY <4>3, <4>4, <4>5, ElementOfSeq, LenProperties DEF Got
    <3>3. \A l \in Locs : \A t \in BOOLEAN : \A d \in ChunkSet : \A j \in Nat :
            [l EXCEPT !.got = d, !.off = j, !.torn = t] \in Locs
      BY DEF Locs
    <3>4. loc' = [loc EXCEPT ![w] = [loc[w] EXCEPT !.got = c, !.off = m, !.torn = b]]
      BY <1>2, <3>1
    <3>5. m \in Nat /\ b \in BOOLEAN
      BY <1>2 DEF ServerAssumption, Locs
    <3> HIDE DEF c, b
    <3> QED
      BY <1>2, <3>2, <3>3, <3>4, <3>5
  <2> QED
    BY <1>31, <1>1, <2>1, <2>2 DEF TypeOK, ReadFile
<1>32. ASSUME NEW w \in Workers, ReadReturns(w)
      PROVE  TypeOK'
  <2>1. pc' \in [Threads -> Places]
    BY <1>32, <1>5 DEF ReadReturns
  <2>2. loc' \in [Threads -> Locs]
    BY <1>32, <1>5 DEF ReadReturns
  <2> QED
    BY <1>32, <1>1, <2>1, <2>2 DEF TypeOK, ReadReturns
<1>33. ASSUME NEW w \in Workers, WriteOpen(w)
      PROVE  TypeOK'
  <2>1. pc' \in [Threads -> Places]
    BY <1>33, <1>3 DEF WriteOpen, Places
  <2>2. loc' \in [Threads -> Locs]
    <3>1. \A l \in Locs : \A s \in Names : [l EXCEPT !.how = s] \in Locs
      BY DEF Locs
    <3>2. loc' = [loc EXCEPT ![w] = [loc[w] EXCEPT !.how = (IF isWriting THEN "app" ELSE "trunc")]]
      BY <1>33, <1>2 DEF WriteOpen
    <3>3. (IF isWriting THEN "app" ELSE "trunc") \in Names
      BY DEF Names
    <3> QED
      BY <1>2, <3>1, <3>2, <3>3
  <2>3. tmp' \in Seq(ChunkSet)
    BY <1>33, <1>1, EmptySeq DEF WriteOpen, TypeOK
  <2> QED
    BY <1>33, <1>1, <2>1, <2>2, <2>3 DEF TypeOK, WriteOpen
<1>34. ASSUME NEW w \in Workers, WriteFlag(w)
      PROVE  TypeOK'
  <2>1. pc' \in [Threads -> Places]
    BY <1>34, <1>3 DEF WriteFlag, Places
  <2>2. loc' \in [Threads -> Locs]
    BY <1>34, <1>2 DEF WriteFlag
  <2> QED
    BY <1>34, <1>1, <2>1, <2>2 DEF TypeOK, WriteFlag
<1>35. ASSUME NEW w \in Workers, WriteData(w)
      PROVE  TypeOK'
  <2>1. pc' \in [Threads -> Places]
    BY <1>35, <1>5 DEF WriteData
  <2>2. loc' \in [Threads -> Locs]
    BY <1>35, <1>5 DEF WriteData
  <2>3. tmp' \in Seq(ChunkSet)
    <3> DEFINE m == IF loc[w].how = "app" THEN Len(tmp) + 1 ELSE 1
    <3>1. m \in Nat \ {0} /\ tmp \in Seq(ChunkSet)
      BY <1>1, LenProperties DEF TypeOK
    <3>2. Chunk(loc[w].song, loc[w].off) \in ChunkSet
      BY <1>2 DEF Chunk, ChunkSet, Locs
    <3>3. tmp' = Put(tmp, m, Chunk(loc[w].song, loc[w].off))
      BY <1>35 DEF WriteData
    <3> HIDE DEF m
    <3> QED
      BY <3>1, <3>2, <3>3, PutProperties
  <2>4. copied' \in [Songs -> 0 .. NumChunks + 1]
    <3>1. loc[w].kind = "write"
      BY <1>35, <1>2 DEF WriteData, IInv, PlaceOK, SeatOK
    <3>2. loc[w].song \in Songs /\ copied[loc[w].song] < NumChunks
      BY <1>1, <1>2, <3>1 DEF CopyOK
    <3> QED
      BY <1>35, <1>1, <3>2 DEF WriteData, TypeOK, ServerAssumption
  <2> QED
    BY <1>35, <1>1, <2>1, <2>2, <2>3, <2>4 DEF TypeOK, WriteData
<1>36. ASSUME NEW w \in Workers, MediaWrite(w)
      PROVE  TypeOK'
  <2>1. pc' \in [Threads -> Places]
    BY <1>36, <1>5 DEF MediaWrite
  <2>2. loc' \in [Threads -> Locs]
    BY <1>36, <1>5 DEF MediaWrite
  <2>3. copied' \in [Songs -> 0 .. NumChunks + 1]
    <3>1. NumChunks \in 0 .. NumChunks + 1 /\ copied \in [Songs -> 0 .. NumChunks + 1]
      BY <1>1 DEF TypeOK, ServerAssumption
    <3> QED
      BY <1>36, <3>1 DEF MediaWrite
  <2> QED
    BY <1>36, <1>1, <2>1, <2>2, <2>3 DEF TypeOK, MediaWrite
<1>37. ASSUME NEW w \in Workers, FlushNothing(w)
      PROVE  TypeOK'
  <2>1. pc' \in [Threads -> Places]
    BY <1>37, <1>5 DEF FlushNothing
  <2>2. loc' \in [Threads -> Locs]
    BY <1>37, <1>5 DEF FlushNothing
  <2> QED
    BY <1>37, <1>1, <2>1, <2>2 DEF TypeOK, FlushNothing
<1>38. ASSUME NEW w \in Workers, FlushUpload(w)
      PROVE  TypeOK'
  <2>1. pc' \in [Threads -> Places]
    BY <1>38, <1>3 DEF FlushUpload, Places
  <2>2. loc' \in [Threads -> Locs]
    <3>1. \A l \in Locs : \A s \in Names : \A n \in Nat : [l EXCEPT !.how = s, !.size = n] \in Locs
      BY DEF Locs
    <3>2. loc' = [loc EXCEPT ![w] = [loc[w] EXCEPT !.how = Title(tmp), !.size = Len(tmp)]]
      BY <1>38, <1>2 DEF FlushUpload
    <3>3. Title(tmp) \in Names /\ Len(tmp) \in Nat
      BY <1>1, TitleIsName, LenProperties DEF TypeOK
    <3> QED
      BY <1>2, <3>1, <3>2, <3>3
  <2> QED
    BY <1>38, <1>1, <2>1, <2>2 DEF TypeOK, FlushUpload
<1> QED
  BY <1>9, <1>10, <1>11, <1>12, <1>13, <1>14, <1>15, <1>16, <1>17, <1>18, <1>19, <1>20, <1>21, <1>22, <1>23, <1>24, <1>25, <1>26, <1>27, <1>28, <1>29, <1>30, <1>31, <1>32, <1>33, <1>34, <1>35, <1>36, <1>37, <1>38, ActionCases
-----------------------------------------------------------------------------
(* What each step does to the thread that takes it. *)

Others(w) == \A q \in Threads \ {w} : pc'[q] = pc[q] /\ loc'[q] = loc[q]
NoRequest(w) == pc'[w] = "idle" /\ loc'[w] = NoLoc
Keeps(w) ==
  /\ loc'[w].kind = loc[w].kind /\ loc'[w].song = loc[w].song
  /\ loc'[w].id = loc[w].id /\ loc'[w].resp = loc[w].resp

LEMMA ReturnEffect ==
  ASSUME TypeOK, NEW w \in Threads, Return(w)
  PROVE  Others(w) /\ NoRequest(w)
  BY DEF Return, Goto, TypeOK, Others, NoRequest

LEMMA StartEffect ==
  ASSUME TypeOK, NEW w \in Workers, NEW kind \in Kinds, NEW song \in Names, NEW off \in Nat,
         NEW at, Start(w, kind, song, off, at)
  PROVE  /\ pc[w] = "idle" /\ pc'[w] = at /\ Others(w)
         /\ loc'[w].kind = kind /\ loc'[w].song = song /\ loc'[w].off = off
         /\ loc'[w].id = NoId /\ loc'[w].resp = {}
<1>1. w \in Threads /\ loc \in [Threads -> Locs] /\ pc \in [Threads -> Places]
  BY DEF Threads, TypeOK
<1> DEFINE l == FreshL(kind, song, off)
<1>2. /\ l.kind = kind /\ l.song = song /\ l.off = off /\ l.id = NoId /\ l.resp = {}
  BY FreshLoc
<1>3. loc' = [loc EXCEPT ![w] = l] /\ pc' = [pc EXCEPT ![w] = at] /\ pc[w] = "idle"
  BY DEF Start, Goto, Idle, FreshL
<1> HIDE DEF l
<1> QED
  BY <1>1, <1>2, <1>3 DEF Others

LEMMA AnswerEffect ==
  ASSUME TypeOK, NEW p \in Threads, NEW ids \in SUBSET Nat, Answer(p, ids),
         pc' = [pc EXCEPT ![p] = "answer"]
  PROVE  /\ Others(p) /\ pc'[p] = "answer" /\ loc'[p].resp = ids /\ loc'[p].id = NoId
         /\ loc'[p].kind = "reload"
<1> DEFINE l == AnswerL(ids)
<1>1. l.resp = ids /\ l.id = NoId /\ l.kind = "reload"
  BY AnswerLoc
<1>2. loc' = [loc EXCEPT ![p] = l]
  BY DEF Answer, AnswerL
<1> HIDE DEF l
<1> QED
  BY <1>1, <1>2 DEF Others, TypeOK

\* What the server answers is what it has then.
LEMMA CallEffect ==
  ASSUME TypeOK, IdsOK, NEW p \in Threads, ServerCall(p)
  PROVE  /\ pc[p] = "call" /\ pc'[p] = "answer" /\ Others(p)
         /\ loc'[p].kind = "reload" /\ loc'[p].id = NoId /\ loc'[p].resp = Library'
         /\ Ids \subseteq Ids' /\ gone \subseteq gone' /\ gone' \subseteq Ids'
         /\ \A id \in Ids : server'[id] = server[id]
         /\ \/ UNCHANGED server
            \/ /\ loc[p].kind \in {"flush", "close"}
               /\ server' = Append(server, [title |-> loc[p].how, size |-> loc[p].size,
                              content |-> tmp, by |-> loc[p].song, clean |-> loc[p].song \in Songs \ disturbed])
               /\ Ids' = Ids \cup {Len(server) + 1} /\ Len(server) + 1 \notin Ids
               /\ server'[Len(server) + 1].by = loc[p].song
               /\ server'[Len(server) + 1].title = loc[p].how
               /\ server'[Len(server) + 1].size = loc[p].size
               /\ server'[Len(server) + 1].content = tmp
               /\ server'[Len(server) + 1].clean = (loc[p].song \in Songs \ disturbed)
<1>1. Len(server) \in Nat /\ Ids \subseteq Nat /\ server \in Seq(Entries) /\ gone \subseteq Ids
  BY ServerFields DEF TypeOK, IdsOK, IdOK
<1>2. pc[p] = "call" /\ pc' = [pc EXCEPT ![p] = "answer"] /\ UNCHANGED tmp
  BY DEF ServerCall, Goto, files
<1>3. Library \subseteq Nat /\ Library = Ids \ gone
  BY <1>1 DEF Library
<1>4. CASE Upload(p)
  <2> DEFINE e == [title |-> loc[p].how, size |-> loc[p].size, content |-> tmp, by |-> loc[p].song,
                   clean |-> loc[p].song \in Songs \ disturbed]
             n == Len(server) + 1
  <2>1. e \in Entries
    <3>1. loc[p].how \in Names /\ loc[p].song \in Names /\ loc[p].size \in Nat
      BY DEF TypeOK, Locs
    <3> QED
      BY <3>1 DEF Entries, TypeOK
  <2>2. /\ e.title = loc[p].how /\ e.size = loc[p].size /\ e.content = tmp /\ e.by = loc[p].song
        /\ e.clean = (loc[p].song \in Songs \ disturbed)
    OBVIOUS
  <2>3. server' = Append(server, e) /\ gone' = gone /\ loc[p].kind \in {"flush", "close"}
        /\ Answer(p, Library \cup {n})
    BY <1>4 DEF Upload
  <2> HIDE DEF e
  <2>4. Len(server') = n /\ server'[n] = e /\ \A id \in Ids : server'[id] = server[id]
    BY <1>1, <2>1, <2>3, AppendProperties DEF Ids
  <2>5. Ids' = Ids \cup {n} /\ n \notin Ids
    BY <1>1, <2>4 DEF Ids
  <2>6. Library' = Library \cup {n}
    BY <1>1, <1>3, <2>3, <2>5 DEF Library
  <2>7. Library \cup {n} \in SUBSET Nat
    <3>1. n \in Nat
      BY <1>1
    <3> QED
      BY <1>3, <3>1
  <2>8. /\ Others(p) /\ pc'[p] = "answer" /\ loc'[p].resp = Library' /\ loc'[p].id = NoId
        /\ loc'[p].kind = "reload"
    BY <1>2, <2>3, <2>6, <2>7, AnswerEffect
  <2>9. server' = Append(server, [title |-> loc[p].how, size |-> loc[p].size,
                                  content |-> tmp, by |-> loc[p].song,
                                  clean |-> loc[p].song \in Songs \ disturbed])
    BY <2>3 DEF e
  <2> QED
    BY <1>1, <1>2, <2>2, <2>3, <2>4, <2>5, <2>8, <2>9
<1>5. CASE Delete(p)
  <2>1. server' = server /\ gone' = gone \cup {loc[p].id} /\ loc[p].kind = "unlink"
        /\ Answer(p, Library \ {loc[p].id})
    BY <1>5 DEF Delete
  <2>2. Ids' = Ids /\ Library' = Library \ {loc[p].id}
    BY <1>3, <2>1 DEF Library, Ids
  <2>3. Library \ {loc[p].id} \in SUBSET Nat
    BY <1>3
  <2>4. /\ Others(p) /\ pc'[p] = "answer" /\ loc'[p].resp = Library' /\ loc'[p].id = NoId
        /\ loc'[p].kind = "reload"
    BY <1>2, <2>1, <2>2, <2>3, AnswerEffect
  <2>5. loc[p].id \in Ids
    BY <1>2, <2>1 DEF IdsOK, IdOK
  <2> QED
    BY <1>1, <1>2, <2>1, <2>2, <2>4, <2>5
<1>6. CASE Get(p)
  <2>1. server' = server /\ gone' = gone /\ Answer(p, Library)
    BY <1>6 DEF Get
  <2>2. Ids' = Ids /\ Library' = Library
    BY <1>3, <2>1 DEF Library, Ids
  <2>3. /\ Others(p) /\ pc'[p] = "answer" /\ loc'[p].resp = Library' /\ loc'[p].id = NoId
        /\ loc'[p].kind = "reload"
    BY <1>2, <1>3, <2>1, <2>2, AnswerEffect
  <2> QED
    BY <1>1, <1>2, <2>1, <2>2, <2>3
<1> QED
  BY <1>4, <1>5, <1>6 DEF ServerCall

\* The end of a reload: the other threads keep all but torn, and that too where
\* they do not walk.
LEMMA ParseEffect ==
  ASSUME TypeOK, NEW p \in Threads, ReloadParse(p)
  PROVE  /\ pc[p] = "parse" /\ pc'[p] \in {"idle", "none", "sleep"} /\ loc'[p] = NoLoc
         /\ \A q \in Threads \ {p} :
              /\ pc'[q] = pc[q]
              /\ pc[q] # "walk" => loc'[q] = loc[q]
              /\ loc'[q].kind = loc[q].kind /\ loc'[q].song = loc[q].song
              /\ loc'[q].id = loc[q].id /\ loc'[q].resp = loc[q].resp
              /\ loc'[q].off = loc[q].off
<1>1. /\ pc[p] = "parse" /\ pc' = [pc EXCEPT ![p] = IF p # Updater THEN "idle" ELSE
                                           IF mode = "mediafs" THEN "none" ELSE "sleep"]
      /\ loc' = [q \in Threads |-> IF q = p THEN NoLoc
             ELSE [loc[q] EXCEPT !.torn = @ \/ (mfile.st = "json" /\ pc[q] = "walk")]]
  BY DEF ReloadParse, Goto
<1>2. \A l \in Locs : \A b \in BOOLEAN :
        LET m == [l EXCEPT !.torn = b]
        IN m.kind = l.kind /\ m.song = l.song /\ m.id = l.id /\ m.resp = l.resp /\ m.off = l.off
  BY DEF Locs
<1>3. \A l \in Locs : [l EXCEPT !.torn = l.torn] = l
  BY DEF Locs
<1>4. ASSUME NEW q \in Threads \ {p}
      PROVE  /\ pc'[q] = pc[q]
             /\ pc[q] # "walk" => loc'[q] = loc[q]
             /\ loc'[q].kind = loc[q].kind /\ loc'[q].song = loc[q].song
             /\ loc'[q].id = loc[q].id /\ loc'[q].resp = loc[q].resp /\ loc'[q].off = loc[q].off
  <2> DEFINE b == loc[q].torn \/ (mfile.st = "json" /\ pc[q] = "walk")
  <2>1. loc[q] \in Locs /\ loc[q].torn \in BOOLEAN
    BY DEF TypeOK, Locs
  <2>2. b \in BOOLEAN /\ (pc[q] # "walk" => b = loc[q].torn)
    BY <2>1
  <2>3. loc'[q] = [loc[q] EXCEPT !.torn = b]
    BY <1>1
  <2> HIDE DEF b
  <2>4. pc'[q] = pc[q]
    BY <1>1 DEF TypeOK
  <2> QED
    BY <1>2, <1>3, <2>1, <2>2, <2>3, <2>4
<1>5. pc'[p] \in {"idle", "none", "sleep"} /\ loc'[p] = NoLoc
  BY <1>1 DEF TypeOK
<1> QED
  BY <1>1, <1>4, <1>5

LEMMA ReadFindsIdEffect ==
  ASSUME TypeOK, IdsOK, NEW w \in Workers, ReadFindsId(w)
  PROVE  /\ pc[w] = "walk" /\ pc'[w] = "open" /\ Others(w)
         /\ loc[w].kind = "read" /\ loc'[w].kind = "read" /\ loc'[w].resp = loc[w].resp
         /\ loc'[w].song = loc[w].song /\ loc'[w].torn = loc[w].torn
         /\ loc'[w].id \in Ids \cup {NoId} /\ loc'[w].id \in Found(w)
<1>1. w \in Threads /\ pc \in [Threads -> Places] /\ loc \in [Threads -> Locs]
  BY DEF TypeOK, Threads
<1>2. PICK id \in Found(w) : loc' = [loc EXCEPT ![w].id = id]
  BY DEF ReadFindsId
<1>3. id \in Ids \cup {NoId} /\ id \in Nat \cup {NoId}
  BY <1>1, FoundIsId
<1>4. \A l \in Locs :
        LET m == [l EXCEPT !.id = id]
        IN m.kind = l.kind /\ m.song = l.song /\ m.torn = l.torn /\ m.resp = l.resp /\ m.id = id
  BY DEF Locs
<1>5. loc' = [loc EXCEPT ![w] = [loc[w] EXCEPT !.id = id]] /\ pc' = [pc EXCEPT ![w] = "open"]
  BY <1>1, <1>2 DEF ReadFindsId, Goto
<1>6. Others(w) /\ pc'[w] = "open" /\ loc'[w] = [loc[w] EXCEPT !.id = id]
  BY <1>1, <1>5 DEF Others
<1>7. pc[w] = "walk" /\ loc[w].kind = "read" /\ loc[w] \in Locs
  BY <1>1 DEF ReadFindsId
<1> QED
  BY <1>2, <1>3, <1>4, <1>6, <1>7

LEMMA UnlinkFindsIdEffect ==
  ASSUME TypeOK, IdsOK, NEW w \in Workers, UnlinkFindsId(w)
  PROVE  /\ pc[w] = "walk" /\ loc[w].kind = "unlink" /\ Others(w)
         /\ \/ NoRequest(w)
            \/ /\ pc'[w] = "trunc" /\ mode # "mediafs"
               /\ loc'[w].kind = "unlink" /\ loc'[w].resp = {} /\ loc'[w].id \in Ids
<1>1. w \in Threads /\ pc \in [Threads -> Places] /\ loc \in [Threads -> Locs]
  BY DEF TypeOK, Threads
<1>2. PICK id \in Found(w) :
        IF id = NoId \/ mode = "mediafs"
        THEN Return(w)
        ELSE Goto(w, "trunc")
             /\ loc' = [loc EXCEPT ![w] = [NoLoc EXCEPT !.kind = "unlink", !.id = id]]
  BY DEF UnlinkFindsId
<1>3. id \in Ids \cup {NoId} /\ id \in Nat \cup {NoId}
  BY <1>1, FoundIsId
<1>4. CASE id = NoId \/ mode = "mediafs"
  BY <1>1, <1>2, <1>4, ReturnEffect DEF UnlinkFindsId
<1>5. CASE ~(id = NoId \/ mode = "mediafs")
  <2> DEFINE l == FoundL("unlink", id)
  <2>1. l.kind = "unlink" /\ l.resp = {} /\ l.id = id
    <3>1. "unlink" \in Kinds
      BY DEF Kinds
    <3> QED
      BY <1>3, <3>1, FoundLoc
  <2>2. loc' = [loc EXCEPT ![w] = l] /\ pc' = [pc EXCEPT ![w] = "trunc"]
    BY <1>2, <1>5 DEF Goto, FoundL
  <2> HIDE DEF l
  <2> QED
    BY <1>1, <1>3, <1>5, <2>1, <2>2 DEF UnlinkFindsId, Others
<1> QED
  BY <1>4, <1>5

LEMMA FetchTruncateEffect ==
  ASSUME TypeOK, IdsOK, NEW w \in Workers, FetchTruncate(w)
  PROVE  /\ pc[w] = "fetch" /\ pc'[w] = "curl" /\ Others(w) /\ Keeps(w) /\ loc'[w].torn = loc[w].torn /\ loc'[w].pos = 0
<1>1. w \in Threads /\ pc \in [Threads -> Places] /\ loc \in [Threads -> Locs]
  BY DEF TypeOK, Threads
<1>2. \A l \in Locs :
        LET m == [l EXCEPT !.pos = 0]
        IN m.kind = l.kind /\ m.song = l.song /\ m.id = l.id /\ m.resp = l.resp /\ m.torn = l.torn /\ m.pos = 0
  BY DEF Locs
<1>3. loc' = [loc EXCEPT ![w] = [loc[w] EXCEPT !.pos = 0]]
  BY <1>1 DEF FetchTruncate
<1> QED
  BY <1>1, <1>2, <1>3 DEF FetchTruncate, Goto, Others, Keeps

LEMMA FetchChunkEffect ==
  ASSUME TypeOK, IdsOK, NEW w \in Workers, FetchChunk(w)
  PROVE  /\ pc[w] = "curl" /\ pc' = pc /\ Others(w) /\ Keeps(w) /\ loc'[w].torn = loc[w].torn
         /\ loc'[w].pos = loc[w].pos + 1
<1>1. w \in Threads /\ pc \in [Threads -> Places] /\ loc \in [Threads -> Locs]
  BY DEF TypeOK, Threads
<1>2. \A l \in Locs : \A n \in Nat :
        LET m == [l EXCEPT !.pos = n]
        IN m.kind = l.kind /\ m.song = l.song /\ m.id = l.id /\ m.resp = l.resp /\ m.torn = l.torn /\ m.pos = n
  BY DEF Locs
<1>3. loc' = [loc EXCEPT ![w] = [loc[w] EXCEPT !.pos = loc[w].pos + 1]]
  BY <1>1 DEF FetchChunk
<1>4. loc[w].pos + 1 \in Nat
  BY <1>1 DEF Locs
<1> QED
  BY <1>1, <1>2, <1>3, <1>4 DEF FetchChunk, Others, Keeps

LEMMA FetchEndsEffect ==
  ASSUME TypeOK, IdsOK, NEW w \in Workers, FetchEnds(w)
  PROVE  /\ pc[w] = "curl" /\ pc'[w] = "read" /\ Others(w) /\ Keeps(w) /\ loc'[w].torn = loc[w].torn
<1>1. w \in Threads /\ pc \in [Threads -> Places] /\ loc \in [Threads -> Locs]
  BY DEF TypeOK, Threads
<1>2. \A l \in Locs :
        LET m == [l EXCEPT !.pos = 0]
        IN m.kind = l.kind /\ m.song = l.song /\ m.id = l.id /\ m.resp = l.resp /\ m.torn = l.torn
  BY DEF Locs
<1>3. loc' = [loc EXCEPT ![w] = [loc[w] EXCEPT !.pos = 0]]
  BY <1>1 DEF FetchEnds
<1> QED
  BY <1>1, <1>2, <1>3 DEF FetchEnds, Goto, Others, Keeps

LEMMA FetchFailsEffect ==
  ASSUME TypeOK, IdsOK, NEW w \in Workers, FetchFails(w)
  PROVE  /\ pc[w] = "curl" /\ Others(w)
         /\ \/ NoRequest(w)
            \/ pc'[w] = "read" /\ Keeps(w) /\ loc'[w].torn = loc[w].torn
<1>1. w \in Threads /\ pc \in [Threads -> Places] /\ loc \in [Threads -> Locs]
  BY DEF TypeOK, Threads
<1>2. \A l \in Locs :
        LET m == [l EXCEPT !.pos = 0]
        IN m.kind = l.kind /\ m.song = l.song /\ m.id = l.id /\ m.resp = l.resp /\ m.torn = l.torn
  BY DEF Locs
<1>3. CASE Return(w)
  <2>1. Others(w) /\ NoRequest(w)
    BY <1>1, <1>3, ReturnEffect
  <2> QED
    BY <2>1 DEF FetchFails
<1>4. CASE Goto(w, "read") /\ loc' = [loc EXCEPT ![w] = [loc[w] EXCEPT !.pos = 0]]
  BY <1>1, <1>2, <1>4 DEF FetchFails, Goto, Others, Keeps
<1>5. Return(w) \/ (Goto(w, "read") /\ loc' = [loc EXCEPT ![w] = [loc[w] EXCEPT !.pos = 0]])
  BY <1>1 DEF FetchFails
<1> QED
  BY <1>3, <1>4, <1>5

LEMMA ReadFileEffect ==
  ASSUME TypeOK, IdsOK, NEW w \in Workers, ReadFile(w)
  PROVE  /\ pc[w] = "read" /\ pc'[w] = "reply" /\ Others(w) /\ Keeps(w)
         /\ \E k \in 1 .. NumChunks : /\ loc'[w].off = k
                                      /\ loc'[w].got = Got(cache[loc[w].id], k)
                                      /\ loc'[w].torn = (loc[w].torn \/ Fetching(loc[w].id) # {})
<1>1. w \in Threads /\ pc \in [Threads -> Places] /\ loc \in [Threads -> Locs]
  BY DEF TypeOK, Threads
<1>2. PICK k \in 1 .. NumChunks :
        loc' = [loc EXCEPT ![w].got = Got(cache[loc[w].id], k), ![w].off = k,
                           ![w].torn = @ \/ Fetching(loc[w].id) # {}]
  BY DEF ReadFile
<1> DEFINE c == Got(cache[loc[w].id], k)
           b == loc[w].torn \/ Fetching(loc[w].id) # {}
<1>3. loc' = [loc EXCEPT ![w] = [loc[w] EXCEPT !.got = c, !.off = k, !.torn = b]]
  BY <1>1, <1>2
<1> HIDE DEF c, b
<1>4. \A l \in Locs :
        LET m == [l EXCEPT !.got = c, !.off = k, !.torn = b]
        IN m.kind = l.kind /\ m.song = l.song /\ m.id = l.id /\ m.resp = l.resp
           /\ m.off = k /\ m.got = c /\ m.torn = b
  BY DEF Locs
<1>5. /\ Others(w) /\ Keeps(w)
      /\ loc'[w].off = k /\ loc'[w].got = c /\ loc'[w].torn = b
      /\ pc[w] = "read" /\ pc'[w] = "reply"
  BY <1>1, <1>3, <1>4 DEF ReadFile, Goto, Others, Keeps
<1> QED
  BY <1>5 DEF c, b

LEMMA WriteOpenEffect ==
  ASSUME TypeOK, IdsOK, NEW w \in Workers, WriteOpen(w)
  PROVE  /\ pc[w] = "wopen" /\ pc'[w] = "wflag" /\ Others(w) /\ Keeps(w) /\ loc'[w].off = loc[w].off
         /\ loc'[w].how = (IF isWriting THEN "app" ELSE "trunc")
<1>1. w \in Threads /\ pc \in [Threads -> Places] /\ loc \in [Threads -> Locs]
  BY DEF TypeOK, Threads
<1> DEFINE h == (IF isWriting THEN "app" ELSE "trunc")
<1>2. \A l \in Locs :
        LET m == [l EXCEPT !.how = h]
        IN m.kind = l.kind /\ m.song = l.song /\ m.id = l.id /\ m.resp = l.resp
           /\ m.off = l.off /\ m.how = h
  BY DEF Locs
<1>3. loc' = [loc EXCEPT ![w] = [loc[w] EXCEPT !.how = h]]
  BY <1>1 DEF WriteOpen
<1> HIDE DEF h
<1>4. pc[w] = "wopen" /\ pc' = [pc EXCEPT ![w] = "wflag"]
  BY DEF WriteOpen, Goto
<1>5. loc[w] \in Locs /\ loc'[w] = [loc[w] EXCEPT !.how = h]
  BY <1>1, <1>3
<1>6. Keeps(w) /\ loc'[w].off = loc[w].off /\ loc'[w].how = h
  BY <1>2, <1>5 DEF Keeps
<1>7. Others(w) /\ pc'[w] = "wflag"
  BY <1>1, <1>3, <1>4 DEF Others
<1> QED
  BY <1>4, <1>6, <1>7 DEF h

LEMMA FlushUploadEffect ==
  ASSUME TypeOK, IdsOK, NEW w \in Workers, FlushUpload(w)
  PROVE  /\ pc[w] = "flush" /\ pc'[w] = "trunc" /\ Others(w) /\ Keeps(w) /\ loc'[w].off = loc[w].off
         /\ loc'[w].how = Title(tmp) /\ loc'[w].size = Len(tmp)
<1>1. w \in Threads /\ pc \in [Threads -> Places] /\ loc \in [Threads -> Locs]
  BY DEF TypeOK, Threads
<1> DEFINE h == Title(tmp)
           n == Len(tmp)
<1>2. \A l \in Locs :
        LET m == [l EXCEPT !.how = h, !.size = n]
        IN m.kind = l.kind /\ m.song = l.song /\ m.id = l.id /\ m.resp = l.resp
           /\ m.off = l.off /\ m.how = h /\ m.size = n
  BY DEF Locs
<1>3. loc' = [loc EXCEPT ![w] = [loc[w] EXCEPT !.how = h, !.size = n]]
  BY <1>1 DEF FlushUpload
<1> HIDE DEF h, n
<1>4. pc[w] = "flush" /\ pc' = [pc EXCEPT ![w] = "trunc"]
  BY DEF FlushUpload, Goto
<1>5. loc[w] \in Locs /\ loc'[w] = [loc[w] EXCEPT !.how = h, !.size = n]
  BY <1>1, <1>3
<1>6. Keeps(w) /\ loc'[w].off = loc[w].off /\ loc'[w].how = h /\ loc'[w].size = n
  BY <1>2, <1>5 DEF Keeps
<1>7. Others(w) /\ pc'[w] = "trunc"
  BY <1>1, <1>3, <1>4 DEF Others
<1> QED
  BY <1>4, <1>6, <1>7 DEF h, n
-----------------------------------------------------------------------------
(* Steps that leave the locals alone, or end the request, or begin one. *)

LEMMA StayEffect ==
  ASSUME TypeOK, NEW w \in Threads, UNCHANGED loc, NEW l, Goto(w, l)
  PROVE  Others(w) /\ loc'[w] = loc[w] /\ pc'[w] = l
  BY DEF Goto, TypeOK, Others

LEMMA BeginEffect ==
  ASSUME ServerAssumption, TypeOK, IdsOK, NEW w \in Workers,
         StartRead(w) \/ StartUnlink(w) \/ StartWrite(w) \/ StartFlush(w) \/ StartClose(w)
  PROVE  /\ pc[w] = "idle" /\ Others(w) /\ loc'[w].id = NoId /\ loc'[w].resp = {}
         /\ UNCHANGED <<mode, server, gone, meta, mfile, cache, tmp, isWriting, overlapped, spoiled>>
         /\ \/ StartRead(w) /\ pc'[w] = "walk" /\ loc'[w].kind = "read"
            \/ StartUnlink(w) /\ pc'[w] = "walk" /\ loc'[w].kind = "unlink"
            \/ StartWrite(w) /\ pc'[w] = "wopen" /\ loc'[w].kind = "write"
            \/ StartFlush(w) /\ pc'[w] = "flush" /\ loc'[w].kind = "flush"
            \/ StartClose(w) /\ pc'[w] = "flush" /\ loc'[w].kind = "close"
               /\ loc'[w].song = Untitled
<1>1. Listed \subseteq Names /\ Untitled \in Names
  BY ServerFields DEF Listed, IdsOK, Names
<1>2. CASE StartRead(w)
  <2>1. PICK song \in Listed : Start(w, "read", song, 0, "walk")
    BY <1>2 DEF StartRead
  <2>2. song \in Names /\ 0 \in Nat /\ "read" \in Kinds
    BY <1>1 DEF Names, Titles, Kinds, TypeOK
  <2>3. /\ pc[w] = "idle" /\ pc'[w] = "walk" /\ Others(w)
        /\ loc'[w].kind = "read" /\ loc'[w].id = NoId /\ loc'[w].resp = {}
    BY <2>1, <2>2, StartEffect
  <2> QED
    BY <1>2, <2>1, <2>3 DEF Start, world, files
<1>3. CASE StartUnlink(w)
  <2>1. PICK song \in Listed : Start(w, "unlink", song, 0, "walk")
    BY <1>3 DEF StartUnlink
  <2>2. song \in Names /\ 0 \in Nat /\ "unlink" \in Kinds
    BY <1>1 DEF Names, Titles, Kinds, TypeOK
  <2>3. /\ pc[w] = "idle" /\ pc'[w] = "walk" /\ Others(w)
        /\ loc'[w].kind = "unlink" /\ loc'[w].id = NoId /\ loc'[w].resp = {}
    BY <2>1, <2>2, StartEffect
  <2> QED
    BY <1>3, <2>1, <2>3 DEF Start, world, files
<1>4. CASE StartWrite(w)
  <2>1. PICK song \in Songs : Start(w, "write", song, copied[song] + 1, "wopen")
    BY <1>4 DEF StartWrite
  <2>2. song \in Names /\ copied[song] + 1 \in Nat /\ "write" \in Kinds
    BY <1>1 DEF Names, Titles, Kinds, TypeOK
  <2>3. /\ pc[w] = "idle" /\ pc'[w] = "wopen" /\ Others(w)
        /\ loc'[w].kind = "write" /\ loc'[w].id = NoId /\ loc'[w].resp = {}
    BY <2>1, <2>2, StartEffect
  <2> QED
    BY <1>4, <2>1, <2>3 DEF Start, world, files
<1>5. CASE StartFlush(w)
  <2>1. PICK song \in Songs : Start(w, "flush", song, 0, "flush")
    BY <1>5 DEF StartFlush
  <2>2. song \in Names /\ 0 \in Nat /\ "flush" \in Kinds
    BY <1>1 DEF Names, Titles, Kinds, TypeOK
  <2>3. /\ pc[w] = "idle" /\ pc'[w] = "flush" /\ Others(w)
        /\ loc'[w].kind = "flush" /\ loc'[w].id = NoId /\ loc'[w].resp = {}
    BY <2>1, <2>2, StartEffect
  <2> QED
    BY <1>5, <2>1, <2>3 DEF Start, world, files
<1>6. CASE StartClose(w)
  <2>1. Start(w, "close", Untitled, 0, "flush")
    BY <1>6 DEF StartClose
  <2>2. "close" \in Kinds /\ 0 \in Nat
    BY DEF Kinds
  <2>3. /\ pc[w] = "idle" /\ pc'[w] = "flush" /\ Others(w) /\ loc'[w].song = Untitled
        /\ loc'[w].kind = "close" /\ loc'[w].id = NoId /\ loc'[w].resp = {}
    BY <1>1, <2>1, <2>2, StartEffect
  <2> QED
    BY <1>6, <2>1, <2>3 DEF Start, world, files
<1> QED
  BY <1>2, <1>3, <1>4, <1>5, <1>6

LEMMA IdsStep ==
  ASSUME ServerAssumption, IInv, Next
  PROVE  IdsOK'
<1> USE DEF vars, files, history, world
<1>1. TypeOK /\ IdsOK /\ PlaceOK /\ StoredOK
  BY DEF IInv
<1>2. /\ Updater \in Threads /\ (\A w \in Workers : w \in Threads)
      /\ \A p \in Threads : IdOK(p) /\ SeatOK(p)
  BY <1>1 DEF Threads, IdsOK, PlaceOK
<1>3. ASSUME NEW w \in Threads, Others(w), Ids \subseteq Ids',
             loc'[w].id \in Ids' \cup {NoId}, loc'[w].resp \subseteq Ids',
             pc'[w] \in {"trunc", "call"} /\ loc'[w].kind = "unlink" => loc'[w].id \in Ids'
      PROVE  \A p \in Threads : IdOK(p)'
  BY <1>2, <1>3 DEF Others, IdOK
<1>4. ASSUME UNCHANGED <<server, gone, meta, mfile, cache>>, \A p \in Threads : IdOK(p)'
      PROVE  IdsOK'
  BY <1>1, <1>4 DEF IdsOK, Ids
<1>5. UNCHANGED server => Ids' = Ids
  BY DEF Ids
<1>6. ASSUME NEW w \in Threads, UNCHANGED <<server, gone, meta, mfile, cache>>, Others(w),
             Keeps(w) \/ NoRequest(w) \/ loc'[w] = loc[w],
             pc'[w] \in {"trunc", "call"} => loc[w].kind # "unlink" \/ pc[w] \in {"trunc", "call"}
                                              \/ NoRequest(w)
      PROVE  IdsOK'
  <2>1. NoLoc.id = NoId /\ NoLoc.resp = {}
    BY NoLocFields
  <2> QED
    BY <1>2, <1>3, <1>4, <1>5, <1>6, <2>1 DEF Keeps, NoRequest, IdOK
<1>7. ASSUME NEW p \in Threads, ShellTruncate(p)
      PROVE  IdsOK'
  <2>1. PICK l \in {"parse", "call"} : Goto(p, l)
    BY <1>7 DEF ShellTruncate
  <2>2. Others(p) /\ loc'[p] = loc[p] /\ pc'[p] \in {"parse", "call"} /\ pc[p] = "trunc"
    BY <1>7, <1>1, <2>1, StayEffect DEF ShellTruncate
  <2>3. mfile'.ids \subseteq Ids /\ UNCHANGED <<server, gone, meta, cache>>
    BY <1>7, <1>1 DEF ShellTruncate, Json, IdsOK
  <2>4. \A q \in Threads : IdOK(q)'
    BY <1>2, <1>3, <1>5, <2>2, <2>3 DEF IdOK
  <2> QED
    BY <1>1, <1>5, <2>3, <2>4 DEF IdsOK
<1>8. ASSUME NEW p \in Threads, ServerCall(p)
      PROVE  IdsOK'
  <2>1. /\ pc'[p] = "answer" /\ Others(p) /\ loc'[p].id = NoId /\ loc'[p].resp = Library'
        /\ Ids \subseteq Ids' /\ gone' \subseteq Ids'
    BY <1>8, <1>1, CallEffect
  <2>2. Library' \subseteq Ids'
    BY DEF Library
  <2>3. \A q \in Threads : IdOK(q)'
    BY <1>3, <2>1, <2>2
  <2>4. UNCHANGED <<meta, mfile, cache>>
    BY <1>8 DEF ServerCall
  <2> QED
    BY <1>1, <2>1, <2>3, <2>4 DEF IdsOK
<1>9. ASSUME NEW p \in Threads, ServerCallFails(p)
      PROVE  IdsOK'
  <2>1. PICK l \in {"none", "parse"} : Goto(p, l)
    BY <1>9 DEF ServerCallFails
  <2>2. Others(p) /\ loc'[p] = loc[p] /\ pc'[p] \in {"parse", "none"}
    BY <1>9, <1>1, <2>1, StayEffect DEF ServerCallFails
  <2> QED
    BY <1>9, <1>6, <2>2 DEF ServerCallFails
<1>10. ASSUME NEW p \in Threads, CurlAnswers(p)
      PROVE  IdsOK'
  <2>1. Others(p) /\ loc'[p] = loc[p] /\ pc'[p] = "parse"
    BY <1>10, <1>1, StayEffect DEF CurlAnswers
  <2>2. mfile'.ids \subseteq Ids /\ UNCHANGED <<server, gone, meta, cache>>
    BY <1>10, <1>2 DEF CurlAnswers, Json, IdOK
  <2>3. \A q \in Threads : IdOK(q)'
    BY <1>2, <1>3, <1>5, <2>1, <2>2 DEF IdOK
  <2> QED
    BY <1>1, <1>5, <2>2, <2>3 DEF IdsOK
<1>11. ASSUME NEW p \in Threads, ReloadParse(p)
      PROVE  IdsOK'
  <2>1. NoLoc.id = NoId /\ NoLoc.resp = {}
    BY NoLocFields
  <2>2. meta' \subseteq Ids /\ UNCHANGED <<server, gone, mfile, cache>>
    BY <1>11, <1>1 DEF ReloadParse, IdsOK
  <2>3. /\ pc'[p] \in {"idle", "none", "sleep"} /\ loc'[p] = NoLoc
        /\ \A q \in Threads \ {p} : /\ pc'[q] = pc[q] /\ loc'[q].kind = loc[q].kind
                                    /\ loc'[q].id = loc[q].id /\ loc'[q].resp = loc[q].resp
    BY <1>11, <1>1, ParseEffect
  <2>4. \A q \in Threads : IdOK(q)'
    BY <1>2, <1>5, <2>1, <2>2, <2>3 DEF IdOK
  <2> QED
    BY <1>1, <1>5, <2>2, <2>4 DEF IdsOK
<1>12. CASE UpdaterWakes
  <2>1. Others(Updater) /\ loc'[Updater] = loc[Updater] /\ loc[Updater].kind = "reload"
    BY <1>12, <1>1, <1>2, StayEffect DEF UpdaterWakes, PlaceOK
  <2> QED
    BY <1>12, <1>2, <1>6, <2>1 DEF UpdaterWakes
<1>13. ASSUME NEW w \in Workers,
             StartRead(w) \/ StartUnlink(w) \/ StartWrite(w) \/ StartFlush(w) \/ StartClose(w)
      PROVE  IdsOK'
  <2>1. /\ Others(w) /\ loc'[w].id = NoId /\ loc'[w].resp = {}
        /\ UNCHANGED <<server, gone, meta, mfile, cache>>
        /\ pc'[w] \notin {"trunc", "call"}
    BY <1>13, <1>1, BeginEffect
  <2>2. \A q \in Threads : IdOK(q)'
    BY <1>2, <1>3, <1>5, <2>1
  <2> QED
    BY <1>4, <2>1, <2>2
<1>14. ASSUME NEW w \in Workers, ReadFindsId(w)
      PROVE  IdsOK'
  <2>1. /\ Others(w) /\ loc'[w].resp \subseteq Ids /\ pc'[w] = "open" /\ loc'[w].id \in Ids \cup {NoId}
    BY <1>14, <1>1, <1>2, ReadFindsIdEffect DEF IdOK
  <2>2. UNCHANGED <<server, gone, meta, mfile, cache>>
    BY <1>14 DEF ReadFindsId
  <2>3. \A q \in Threads : IdOK(q)'
    BY <1>2, <1>3, <1>5, <2>1, <2>2
  <2> QED
    BY <1>4, <2>2, <2>3
<1>15. ASSUME NEW w \in Workers, UnlinkFindsId(w)
      PROVE  IdsOK'
  <2>1. UNCHANGED <<server, gone, meta, mfile, cache>>
    BY <1>15 DEF UnlinkFindsId
  <2>2. CASE Others(w) /\ NoRequest(w)
    BY <1>2, <1>6, <2>1, <2>2
  <2>3. CASE Others(w) /\ loc'[w].resp = {} /\ loc'[w].id \in Ids
    <3>1. \A q \in Threads : IdOK(q)'
      BY <1>2, <1>3, <1>5, <2>1, <2>3
    <3> QED
      BY <1>4, <2>1, <3>1
  <2> QED
    BY <1>15, <1>1, <2>2, <2>3, UnlinkFindsIdEffect
<1>16. ASSUME NEW w \in Workers, WalkCrashes(w)
      PROVE  IdsOK'
  <2>1. Others(w) /\ loc'[w] = loc[w] /\ pc'[w] = pc[w]
    BY <1>16 DEF WalkCrashes, Others
  <2> QED
    BY <1>16, <1>2, <1>6, <2>1 DEF WalkCrashes
<1>17. ASSUME NEW w \in Workers, CacheOpen(w)
      PROVE  IdsOK'
  <2>1. PICK l \in {"read", "fetch", "wdata"} : Goto(w, l)
    BY <1>17 DEF CacheOpen
  <2>2. Others(w) /\ loc'[w] = loc[w] /\ pc'[w] \notin {"trunc", "call"}
    BY <1>17, <1>1, <1>2, <2>1, StayEffect DEF CacheOpen
  <2> QED
    BY <1>17, <1>2, <1>6, <2>2 DEF CacheOpen
<1>18. ASSUME NEW w \in Workers, WriteFlag(w)
      PROVE  IdsOK'
  <2>1. PICK l \in {"read", "fetch", "wdata"} : Goto(w, l)
    BY <1>18 DEF WriteFlag
  <2>2. Others(w) /\ loc'[w] = loc[w] /\ pc'[w] \notin {"trunc", "call"}
    BY <1>18, <1>1, <1>2, <2>1, StayEffect DEF WriteFlag
  <2> QED
    BY <1>18, <1>2, <1>6, <2>2 DEF WriteFlag
<1>19. ASSUME NEW w \in Workers, ReadReturns(w)
      PROVE  IdsOK'
  <2>1. Others(w) /\ NoRequest(w)
    BY <1>19, <1>1, <1>2, ReturnEffect DEF ReadReturns
  <2> QED
    BY <1>19, <1>2, <1>6, <2>1 DEF ReadReturns
<1>20. ASSUME NEW w \in Workers, WriteData(w)
      PROVE  IdsOK'
  <2>1. Others(w) /\ NoRequest(w)
    BY <1>20, <1>1, <1>2, ReturnEffect DEF WriteData
  <2> QED
    BY <1>20, <1>2, <1>6, <2>1 DEF WriteData
<1>21. ASSUME NEW w \in Workers, MediaWrite(w)
      PROVE  IdsOK'
  <2>1. Others(w) /\ NoRequest(w)
    BY <1>21, <1>1, <1>2, ReturnEffect DEF MediaWrite
  <2> QED
    BY <1>21, <1>2, <1>6, <2>1 DEF MediaWrite
<1>22. ASSUME NEW w \in Workers, FlushNothing(w)
      PROVE  IdsOK'
  <2>1. Others(w) /\ NoRequest(w)
    BY <1>22, <1>1, <1>2, ReturnEffect DEF FlushNothing
  <2> QED
    BY <1>22, <1>2, <1>6, <2>1 DEF FlushNothing
<1>23. ASSUME NEW w \in Workers, FetchEnds(w)
      PROVE  IdsOK'
  <2>1. Others(w) /\ Keeps(w) /\ pc'[w] \notin {"trunc", "call"}
    BY <1>23, <1>1, FetchEndsEffect
  <2> QED
    BY <1>23, <1>2, <1>6, <2>1 DEF FetchEnds
<1>24. ASSUME NEW w \in Workers, ReadFile(w)
      PROVE  IdsOK'
  <2>1. Others(w) /\ Keeps(w) /\ pc'[w] \notin {"trunc", "call"}
    BY <1>24, <1>1, ReadFileEffect
  <2> QED
    BY <1>24, <1>2, <1>6, <2>1 DEF ReadFile
<1>25. ASSUME NEW w \in Workers, WriteOpen(w)
      PROVE  IdsOK'
  <2>1. Others(w) /\ Keeps(w) /\ pc'[w] \notin {"trunc", "call"}
    BY <1>25, <1>1, WriteOpenEffect
  <2> QED
    BY <1>25, <1>2, <1>6, <2>1 DEF WriteOpen
<1>26. ASSUME NEW w \in Workers, FetchFails(w)
      PROVE  IdsOK'
  <2>1. Others(w) /\ (Keeps(w) \/ NoRequest(w)) /\ pc'[w] \notin {"trunc", "call"}
    BY <1>26, <1>1, FetchFailsEffect DEF NoRequest
  <2> QED
    BY <1>26, <1>2, <1>6, <2>1 DEF FetchFails
<1>27. ASSUME NEW w \in Workers, FlushUpload(w)
      PROVE  IdsOK'
  <2>1. Others(w) /\ Keeps(w) /\ pc[w] = "flush"
    BY <1>27, <1>1, FlushUploadEffect
  <2>2. loc[w].kind # "unlink"
    BY <1>2, <2>1 DEF SeatOK
  <2> QED
    BY <1>27, <1>2, <1>6, <2>1, <2>2 DEF FlushUpload
<1>28. ASSUME NEW w \in Workers, FetchTruncate(w)
      PROVE  IdsOK'
  <2>1. Others(w) /\ Keeps(w) /\ pc'[w] \notin {"trunc", "call"}
    BY <1>28, <1>1, FetchTruncateEffect
  <2>2. UNCHANGED <<server, gone, meta, mfile>> /\ DOMAIN cache' = DOMAIN cache \cup {loc[w].id}
    BY <1>28, <1>1 DEF FetchTruncate, TypeOK
  <2>3. \A q \in Threads : IdOK(q)'
    BY <1>2, <1>3, <1>5, <2>1, <2>2 DEF Keeps, IdOK
  <2>4. DOMAIN cache' \subseteq Ids \cup {NoId}
    BY <1>1, <1>2, <2>2 DEF IdsOK, IdOK
  <2> QED
    BY <1>1, <1>5, <2>2, <2>3, <2>4 DEF IdsOK
<1>29. ASSUME NEW w \in Workers, FetchChunk(w)
      PROVE  IdsOK'
  <2>1. Others(w) /\ Keeps(w) /\ pc'[w] \notin {"trunc", "call"}
    BY <1>29, <1>1, FetchChunkEffect
  <2>2. UNCHANGED <<server, gone, meta, mfile>> /\ DOMAIN cache' = DOMAIN cache
    BY <1>29, <1>1 DEF FetchChunk, TypeOK
  <2>3. \A q \in Threads : IdOK(q)'
    BY <1>2, <1>3, <1>5, <2>1, <2>2 DEF Keeps, IdOK
  <2>4. DOMAIN cache' \subseteq Ids \cup {NoId}
    BY <1>1, <1>2, <2>2 DEF IdsOK, IdOK
  <2> QED
    BY <1>1, <1>5, <2>2, <2>3, <2>4 DEF IdsOK
<1> QED
  BY <1>7, <1>8, <1>9, <1>10, <1>11, <1>12, <1>13, <1>14, <1>15, <1>16, <1>17, <1>18, <1>19, <1>20, <1>21, <1>22, <1>23, <1>24, <1>25, <1>26, <1>27, <1>28, <1>29, ActionCases
-----------------------------------------------------------------------------
(* Places. *)

LEMMA PlaceStep ==
  ASSUME ServerAssumption, IInv, Next
  PROVE  PlaceOK'
<1> USE DEF vars, files, history, world
<1>1. TypeOK /\ IdsOK /\ PlaceOK /\ MediaOK
  BY DEF IInv
<1>2. /\ Updater \in Threads /\ (\A w \in Workers : w \in Threads /\ w # Updater)
      /\ \A p \in Threads : SeatOK(p) /\ (p # Updater => p \in Workers)
  BY <1>1 DEF Threads, PlaceOK, ServerAssumption
<1>3. ASSUME NEW w \in Threads, Others(w), SeatOK(w)', w = Updater => loc'[w].kind = "reload"
      PROVE  PlaceOK'
  BY <1>1, <1>2, <1>3 DEF Others, SeatOK, PlaceOK
<1>4. ASSUME NEW w \in Threads, Others(w), NoRequest(w)
      PROVE  PlaceOK'
  <2>1. loc'[w].kind = "reload" /\ pc'[w] = "idle"
    BY <1>4, NoLocFields DEF NoRequest
  <2>2. SeatOK(w)'
    BY <2>1 DEF SeatOK
  <2> QED
    BY <1>3, <1>4, <2>1, <2>2
<1>5. ASSUME NEW p \in Threads, ShellTruncate(p)
      PROVE  PlaceOK'
  <2>1. PICK l \in {"parse", "call"} : Goto(p, l)
    BY <1>5 DEF ShellTruncate
  <2>2. Others(p) /\ loc'[p] = loc[p] /\ pc'[p] \in {"parse", "call"} /\ pc[p] = "trunc"
    BY <1>5, <1>1, <2>1, StayEffect DEF ShellTruncate
  <2>3. SeatOK(p)'
    BY <1>2, <2>2 DEF SeatOK
  <2> QED
    BY <1>1, <1>3, <2>2, <2>3 DEF PlaceOK
<1>6. ASSUME NEW p \in Threads, ServerCall(p)
      PROVE  PlaceOK'
  <2>1. pc'[p] = "answer" /\ Others(p) /\ loc'[p].kind = "reload"
    BY <1>6, <1>1, CallEffect
  <2> QED
    BY <1>3, <2>1 DEF SeatOK
<1>7. ASSUME NEW p \in Threads, ServerCallFails(p)
      PROVE  PlaceOK'
  <2>1. PICK l \in {"none", "parse"} : Goto(p, l) /\ (l = "none" <=> mode = "mediafs")
    BY <1>7 DEF ServerCallFails
  <2>2. Others(p) /\ loc'[p] = loc[p] /\ pc'[p] = l /\ pc[p] = "call"
    BY <1>7, <1>1, <2>1, StayEffect DEF ServerCallFails
  <2>3. mode = "mediafs" => loc[p].kind = "reload"
    BY <1>1, <1>2, <2>2 DEF MediaOK, PlaceOK
  <2>4. SeatOK(p)'
    BY <1>2, <2>1, <2>2, <2>3 DEF SeatOK
  <2> QED
    BY <1>1, <1>3, <2>2, <2>4 DEF PlaceOK
<1>8. ASSUME NEW p \in Threads, CurlAnswers(p)
      PROVE  PlaceOK'
  <2>1. Others(p) /\ loc'[p] = loc[p] /\ pc'[p] = "parse" /\ pc[p] = "answer"
    BY <1>8, <1>1, StayEffect DEF CurlAnswers
  <2>2. loc'[p].kind = "reload"
    BY <1>2, <2>1 DEF SeatOK
  <2>3. SeatOK(p)'
    BY <2>1, <2>2 DEF SeatOK
  <2> QED
    BY <1>3, <2>1, <2>2, <2>3
<1>9. ASSUME NEW p \in Threads, ReloadParse(p)
      PROVE  PlaceOK'
  <2>1. /\ pc'[p] \in {"idle", "none", "sleep"} /\ loc'[p] = NoLoc
        /\ \A q \in Threads \ {p} : pc'[q] = pc[q] /\ loc'[q].kind = loc[q].kind
    BY <1>9, <1>1, ParseEffect
  <2>2. loc'[p].kind = "reload"
    BY <2>1, NoLocFields
  <2>3. \A q \in Threads : SeatOK(q)'
    BY <1>2, <2>1, <2>2 DEF SeatOK
  <2>4. loc'[Updater].kind = "reload"
    BY <1>1, <1>2, <2>1, <2>2 DEF PlaceOK
  <2> QED
    BY <2>3, <2>4 DEF PlaceOK
<1>10. CASE UpdaterWakes
  <2>1. Others(Updater) /\ loc'[Updater] = loc[Updater] /\ pc'[Updater] = "trunc"
    BY <1>10, <1>1, <1>2, StayEffect DEF UpdaterWakes
  <2>2. SeatOK(Updater)' /\ loc'[Updater].kind = "reload"
    BY <1>1, <2>1 DEF SeatOK, PlaceOK
  <2> QED
    BY <1>2, <1>3, <2>1, <2>2
<1>11. ASSUME NEW w \in Workers, StartRead(w) \/ StartUnlink(w) \/ StartWrite(w) \/ StartFlush(w) \/ StartClose(w)
      PROVE  PlaceOK'
  <2>1. /\ Others(w)
        /\ \/ pc'[w] = "walk" /\ loc'[w].kind \in {"read", "unlink"}
           \/ pc'[w] = "wopen" /\ loc'[w].kind = "write"
           \/ pc'[w] = "flush" /\ loc'[w].kind \in {"flush", "close"}
    BY <1>11, <1>1, BeginEffect
  <2>2. SeatOK(w)'
    BY <2>1 DEF SeatOK
  <2> QED
    BY <1>2, <1>3, <2>1, <2>2
<1>12. ASSUME NEW w \in Workers, ReadFindsId(w)
      PROVE  PlaceOK'
  <2>1. /\ Others(w) /\ pc'[w] = "open" /\ loc'[w].kind = "read"
    BY <1>12, <1>1, ReadFindsIdEffect
  <2>2. SeatOK(w)'
    BY <2>1 DEF SeatOK
  <2> QED
    BY <1>2, <1>3, <2>1, <2>2
<1>13. ASSUME NEW w \in Workers, UnlinkFindsId(w)
      PROVE  PlaceOK'
  <2>1. CASE Others(w) /\ NoRequest(w)
    BY <1>2, <1>4, <2>1
  <2>2. CASE Others(w) /\ pc'[w] = "trunc" /\ loc'[w].kind = "unlink"
    BY <1>2, <1>3, <2>2 DEF SeatOK
  <2> QED
    BY <1>13, <1>1, <2>1, <2>2, UnlinkFindsIdEffect
<1>14. ASSUME NEW w \in Workers, WalkCrashes(w)
      PROVE  PlaceOK'
  BY <1>14, <1>1 DEF WalkCrashes, PlaceOK, SeatOK
<1>15. ASSUME NEW w \in Workers, CacheOpen(w)
      PROVE  PlaceOK'
  <2>1. PICK l \in {"read", "fetch"} : Goto(w, l)
    BY <1>15 DEF CacheOpen
  <2>2. Others(w) /\ loc'[w] = loc[w] /\ pc'[w] \in {"read", "fetch"} /\ pc[w] = "open"
    BY <1>15, <1>1, <1>2, <2>1, StayEffect DEF CacheOpen
  <2>3. SeatOK(w)'
    BY <1>2, <2>2 DEF SeatOK
  <2> QED
    BY <1>2, <1>3, <2>2, <2>3
<1>16. ASSUME NEW w \in Workers, WriteFlag(w)
      PROVE  PlaceOK'
  <2>1. PICK l \in {"wdata"} : Goto(w, l)
    BY <1>16 DEF WriteFlag
  <2>2. Others(w) /\ loc'[w] = loc[w] /\ pc'[w] \in {"wdata"} /\ pc[w] = "wflag"
    BY <1>16, <1>1, <1>2, <2>1, StayEffect DEF WriteFlag
  <2>3. SeatOK(w)'
    BY <1>2, <2>2 DEF SeatOK
  <2> QED
    BY <1>2, <1>3, <2>2, <2>3
<1>17. ASSUME NEW w \in Workers, ReadReturns(w) \/ WriteData(w) \/ MediaWrite(w) \/ FlushNothing(w)
      PROVE  PlaceOK'
  <2>1. Others(w) /\ NoRequest(w)
    BY <1>17, <1>1, <1>2, ReturnEffect DEF ReadReturns, WriteData, MediaWrite, FlushNothing
  <2> QED
    BY <1>2, <1>4, <2>1
<1>18. ASSUME NEW w \in Workers, FetchTruncate(w)
      PROVE  PlaceOK'
  <2>1. SeatOK(w)' /\ Others(w)
    BY <1>18, <1>1, <1>2, FetchTruncateEffect DEF Keeps, SeatOK
  <2> QED
    BY <1>2, <1>3, <2>1
<1>19. ASSUME NEW w \in Workers, FetchChunk(w)
      PROVE  PlaceOK'
  <2>1. SeatOK(w)' /\ Others(w)
    BY <1>19, <1>1, <1>2, FetchChunkEffect DEF Keeps, SeatOK
  <2> QED
    BY <1>2, <1>3, <2>1
<1>20. ASSUME NEW w \in Workers, FetchEnds(w)
      PROVE  PlaceOK'
  <2>1. SeatOK(w)' /\ Others(w)
    BY <1>20, <1>1, <1>2, FetchEndsEffect DEF Keeps, SeatOK
  <2> QED
    BY <1>2, <1>3, <2>1
<1>21. ASSUME NEW w \in Workers, ReadFile(w)
      PROVE  PlaceOK'
  <2>1. SeatOK(w)' /\ Others(w)
    BY <1>21, <1>1, <1>2, ReadFileEffect DEF Keeps, SeatOK
  <2> QED
    BY <1>2, <1>3, <2>1
<1>22. ASSUME NEW w \in Workers, WriteOpen(w)
      PROVE  PlaceOK'
  <2>1. SeatOK(w)' /\ Others(w)
    BY <1>22, <1>1, <1>2, WriteOpenEffect DEF Keeps, SeatOK
  <2> QED
    BY <1>2, <1>3, <2>1
<1>23. ASSUME NEW w \in Workers, FlushUpload(w)
      PROVE  PlaceOK'
  <2>1. SeatOK(w)' /\ Others(w)
    BY <1>23, <1>1, <1>2, FlushUploadEffect DEF Keeps, SeatOK
  <2> QED
    BY <1>2, <1>3, <2>1
<1>24. ASSUME NEW w \in Workers, FetchFails(w)
      PROVE  PlaceOK'
  <2>1. CASE Others(w) /\ NoRequest(w)
    BY <1>2, <1>4, <2>1
  <2>2. CASE Others(w) /\ pc[w] = "curl" /\ pc'[w] = "read" /\ Keeps(w)
    <3>1. SeatOK(w)'
      BY <1>2, <2>2 DEF SeatOK, Keeps
    <3> QED
      BY <1>2, <1>3, <2>2, <3>1
  <2> QED
    BY <1>24, <1>1, <2>1, <2>2, FetchFailsEffect
<1> QED
  BY <1>5, <1>6, <1>7, <1>8, <1>9, <1>10, <1>11, <1>12, <1>13, <1>14, <1>15, <1>16, <1>17, <1>18, <1>19, <1>20, <1>21, <1>22, <1>23, <1>24, ActionCases

LEMMA StoredStep ==
  ASSUME ServerAssumption, IInv, Next
  PROVE  StoredOK'
<1> USE DEF vars, files, history, world
<1>1. TypeOK /\ IdsOK /\ PlaceOK /\ StoredOK
  BY DEF IInv
<1>2. /\ Updater \in Threads /\ \A w \in Workers : w \in Threads /\ w # Updater
  BY <1>1 DEF Threads, ServerAssumption
<1>3. ASSUME NEW w \in Threads, Others(w), DOMAIN cache \subseteq DOMAIN cache',
             pc'[w] \in {"curl", "read"} => loc'[w].id \in DOMAIN cache'
      PROVE  StoredOK'
  BY <1>1, <1>2, <1>3 DEF Others, StoredOK
<1>4. ASSUME NEW w \in Threads, Others(w), UNCHANGED cache, pc'[w] \notin {"curl", "read"}
      PROVE  StoredOK'
  BY <1>3, <1>4
<1>5. ASSUME NEW p \in Threads, ShellTruncate(p) \/ ServerCallFails(p) \/ CurlAnswers(p)
      PROVE  StoredOK'
  <2>1. PICK l \in {"parse", "call", "none"} : Goto(p, l)
    BY <1>5 DEF ShellTruncate, ServerCallFails, CurlAnswers
  <2>2. Others(p) /\ pc'[p] \in {"parse", "call", "none"}
    BY <1>5, <1>1, <2>1, StayEffect DEF ShellTruncate, ServerCallFails, CurlAnswers
  <2> QED
    BY <1>5, <1>4, <2>2 DEF ShellTruncate, ServerCallFails, CurlAnswers
<1>6. ASSUME NEW p \in Threads, ServerCall(p)
      PROVE  StoredOK'
  <2>1. pc'[p] = "answer" /\ Others(p)
    BY <1>6, <1>1, CallEffect
  <2> QED
    BY <1>6, <1>4, <2>1 DEF ServerCall
<1>7. ASSUME NEW p \in Threads, ReloadParse(p)
      PROVE  StoredOK'
  <2>1. /\ pc'[p] \in {"idle", "none", "sleep"}
        /\ \A q \in Threads \ {p} : pc'[q] = pc[q] /\ loc'[q].id = loc[q].id
    BY <1>7, <1>1, ParseEffect
  <2>2. UNCHANGED cache
    BY <1>7 DEF ReloadParse
  <2> QED
    BY <1>1, <1>2, <2>1, <2>2 DEF StoredOK
<1>8. CASE UpdaterWakes
  <2>1. Others(Updater) /\ pc'[Updater] = "trunc"
    BY <1>8, <1>1, <1>2, StayEffect DEF UpdaterWakes
  <2> QED
    BY <1>8, <1>2, <1>4, <2>1 DEF UpdaterWakes
<1>9. ASSUME NEW w \in Workers, StartRead(w) \/ StartUnlink(w) \/ StartWrite(w) \/ StartFlush(w) \/ StartClose(w)
      PROVE  StoredOK'
  <2>1. Others(w) /\ UNCHANGED cache /\ pc'[w] \notin {"curl", "read"}
    BY <1>9, <1>1, BeginEffect
  <2> QED
    BY <1>2, <1>4, <2>1
<1>10. ASSUME NEW w \in Workers, ReadFindsId(w) \/ UnlinkFindsId(w) \/ WriteOpen(w) \/ FlushUpload(w) \/ ReadFile(w)
      PROVE  StoredOK'
  <2>1. Others(w) /\ pc'[w] \notin {"curl", "read"}
    BY <1>10, <1>1, ReadFindsIdEffect, UnlinkFindsIdEffect, WriteOpenEffect, FlushUploadEffect, ReadFileEffect
       DEF NoRequest
  <2> QED
    BY <1>10, <1>2, <1>4, <2>1 DEF ReadFindsId, UnlinkFindsId, WriteOpen, FlushUpload, ReadFile
<1>11. ASSUME NEW w \in Workers, WalkCrashes(w)
      PROVE  StoredOK'
  BY <1>11, <1>1 DEF WalkCrashes, StoredOK
<1>12. ASSUME NEW w \in Workers, CacheOpen(w)
      PROVE  StoredOK'
  <2>1. PICK l \in {"read", "fetch"} : Goto(w, l) /\ (l = "read" => loc[w].id \in DOMAIN cache)
    BY <1>12 DEF CacheOpen
  <2>2. Others(w) /\ loc'[w] = loc[w] /\ pc'[w] = l
    BY <1>12, <1>1, <1>2, <2>1, StayEffect DEF CacheOpen
  <2> QED
    BY <1>12, <1>2, <1>3, <2>1, <2>2 DEF CacheOpen
<1>13. ASSUME NEW w \in Workers, WriteFlag(w)
      PROVE  StoredOK'
  <2>1. Others(w) /\ pc'[w] = "wdata"
    BY <1>13, <1>1, <1>2, StayEffect DEF WriteFlag
  <2> QED
    BY <1>13, <1>2, <1>4, <2>1 DEF WriteFlag
<1>14. ASSUME NEW w \in Workers, ReadReturns(w) \/ WriteData(w) \/ MediaWrite(w) \/ FlushNothing(w)
      PROVE  StoredOK'
  <2>1. Others(w) /\ NoRequest(w)
    BY <1>14, <1>1, <1>2, ReturnEffect DEF ReadReturns, WriteData, MediaWrite, FlushNothing
  <2>2. UNCHANGED cache
    BY <1>14 DEF ReadReturns, WriteData, MediaWrite, FlushNothing
  <2> QED
    BY <1>2, <1>4, <2>1, <2>2 DEF NoRequest
<1>15. ASSUME NEW w \in Workers, FetchTruncate(w)
      PROVE  StoredOK'
  <2>1. Others(w) /\ Keeps(w)
    BY <1>15, <1>1, FetchTruncateEffect
  <2>2. DOMAIN cache' = DOMAIN cache \cup {loc[w].id}
    BY <1>15 DEF FetchTruncate
  <2> QED
    BY <1>2, <1>3, <2>1, <2>2 DEF Keeps
<1>16. ASSUME NEW w \in Workers, FetchChunk(w) \/ FetchEnds(w) \/ FetchFails(w)
      PROVE  StoredOK'
  <2>1. pc[w] = "curl" /\ Others(w) /\ (NoRequest(w) \/ Keeps(w))
    BY <1>16, <1>1, FetchChunkEffect, FetchEndsEffect, FetchFailsEffect
  <2>2. DOMAIN cache' = DOMAIN cache
    BY <1>16, <1>1 DEF FetchChunk, FetchEnds, FetchFails, TypeOK
  <2> QED
    BY <1>1, <1>2, <1>3, <2>1, <2>2 DEF Keeps, NoRequest, StoredOK
<1> QED
  BY <1>5, <1>6, <1>7, <1>8, <1>9, <1>10, <1>11, <1>12, <1>13, <1>14, <1>15, <1>16, ActionCases
-----------------------------------------------------------------------------
(* Reloads. *)

\* A handler's own steps are outside every reload.
LEMMA HandlerEffect ==
  ASSUME ServerAssumption, TypeOK, IdsOK, NEW w \in Workers,
         \/ StartRead(w) \/ StartUnlink(w) \/ StartWrite(w) \/ StartFlush(w) \/ StartClose(w)
         \/ ReadFindsId(w) \/ UnlinkFindsId(w) \/ WalkCrashes(w)
         \/ CacheOpen(w) \/ FetchTruncate(w) \/ FetchChunk(w) \/ FetchEnds(w) \/ FetchFails(w)
         \/ ReadFile(w) \/ ReadReturns(w)
         \/ WriteOpen(w) \/ WriteFlag(w) \/ WriteData(w) \/ MediaWrite(w)
         \/ FlushNothing(w) \/ FlushUpload(w)
  PROVE  /\ Others(w) /\ ~Past(w) /\ ~Past(w)'
         /\ loc'[w].resp = {} \/ loc'[w].resp = loc[w].resp
         /\ UNCHANGED <<mode, server, gone, meta, mfile, overlapped>>
<1> USE DEF files, history, world
<1>1. w \in Threads
  BY DEF Threads
<1>2. CASE StartRead(w) \/ StartUnlink(w) \/ StartWrite(w) \/ StartFlush(w) \/ StartClose(w)
  BY <1>2, BeginEffect DEF Past
<1>3. CASE ReadFindsId(w) \/ UnlinkFindsId(w)
  <2>1. /\ Others(w) /\ pc[w] = "walk" /\ pc'[w] \in {"open", "trunc", "idle"}
        /\ loc'[w].resp = {} \/ loc'[w].resp = loc[w].resp
    BY <1>3, ReadFindsIdEffect, UnlinkFindsIdEffect, NoLocFields DEF NoRequest
  <2> QED
    BY <1>3, <2>1 DEF Past, ReadFindsId, UnlinkFindsId
<1>4. CASE WalkCrashes(w)
  BY <1>4 DEF WalkCrashes, Others, Past
<1>5. CASE CacheOpen(w)
  <2>1. PICK l \in {"read", "fetch"} : Goto(w, l)
    BY <1>5 DEF CacheOpen
  <2>2. Others(w) /\ loc'[w] = loc[w] /\ pc'[w] = l
    BY <1>5, <1>1, <2>1, StayEffect DEF CacheOpen
  <2> QED
    BY <1>5, <2>2 DEF CacheOpen, Past
<1>6. CASE FetchTruncate(w) \/ FetchChunk(w)
  BY <1>6, <1>1, FetchTruncateEffect, FetchChunkEffect DEF FetchTruncate, FetchChunk, Past, Keeps
<1>7. CASE FetchEnds(w)
  BY <1>7, <1>1, FetchEndsEffect DEF FetchEnds, Past, Keeps
<1>8. CASE FetchFails(w)
  <2>1. Others(w) /\ pc[w] = "curl" /\ (NoRequest(w) \/ (pc'[w] = "read" /\ Keeps(w)))
    BY <1>8, FetchFailsEffect
  <2>2. NoLoc.resp = {}
    BY NoLocFields
  <2> QED
    BY <1>8, <2>1, <2>2 DEF FetchFails, Past, NoRequest, Keeps
<1>9. CASE ReadFile(w)
  BY <1>9, <1>1, ReadFileEffect DEF ReadFile, Past, Keeps
<1>10. CASE ReadReturns(w) \/ WriteData(w) \/ MediaWrite(w) \/ FlushNothing(w)
  <2>1. Others(w) /\ NoRequest(w)
    BY <1>10, <1>1, ReturnEffect DEF ReadReturns, WriteData, MediaWrite, FlushNothing
  <2>2. NoLoc.resp = {}
    BY NoLocFields
  <2>3. pc[w] \in {"reply", "wdata", "wopen", "flush"}
    BY <1>10 DEF ReadReturns, WriteData, MediaWrite, FlushNothing
  <2> QED
    BY <1>10, <2>1, <2>2, <2>3
       DEF ReadReturns, WriteData, MediaWrite, FlushNothing, Past, NoRequest
<1>11. CASE WriteOpen(w)
  BY <1>11, WriteOpenEffect DEF WriteOpen, Past, Keeps
<1>12. CASE WriteFlag(w)
  <2>1. Others(w) /\ loc'[w] = loc[w] /\ pc'[w] = "wdata" /\ pc[w] = "wflag"
    BY <1>12, <1>1, StayEffect DEF WriteFlag
  <2> QED
    BY <1>12, <2>1 DEF WriteFlag, Past
<1>13. CASE FlushUpload(w)
  BY <1>13, FlushUploadEffect DEF FlushUpload, Past, Keeps
<1> QED
  BY <1>2, <1>3, <1>4, <1>5, <1>6, <1>7, <1>8, <1>9, <1>10, <1>11, <1>12, <1>13

LEMMA ReloadStep ==
  ASSUME ServerAssumption, IInv, Next
  PROVE  ReloadOK'
<1> USE DEF files, history, world
<1>1. TypeOK /\ IdsOK /\ PlaceOK /\ ReloadOK
  BY DEF IInv
<1>2. Updater \in Threads /\ \A w \in Workers : w \in Threads
  BY DEF Threads
<1>3. /\ mode = "daemon" => mfile.st = "absent" /\ \A p \in Threads : pc[p] \notin {"call", "answer"}
      /\ \A p \in Threads : pc[p] \notin {"answer", "parse"} => loc[p].resp = {}
      /\ \A p, q \in Threads : p # q /\ Past(p) /\ Past(q) => p \in overlapped
      /\ \A p \in Threads \ overlapped : AloneOK(p)
  BY <1>1 DEF ReloadOK
\* A step outside every reload.
<1>4. ASSUME NEW w \in Threads, Others(w), ~Past(w), ~Past(w)',
             loc'[w].resp = {} \/ loc'[w].resp = loc[w].resp,
             UNCHANGED <<mode, server, gone, mfile, overlapped>>
      PROVE  ReloadOK'
  <2>1. loc[w].resp = {}
    BY <1>3, <1>4 DEF Past
  <2>2. Library' = Library
    BY <1>4 DEF Library, Ids
  <2>3. \A p \in Threads : Past(p)' <=> Past(p) /\ p # w
    BY <1>4 DEF Past, Others
  <2>4. \A p \in Threads \ overlapped' : AloneOK(p)'
    <3>1. AloneOK(w)'
      BY <1>4 DEF AloneOK, Past
    <3>2. ASSUME NEW p \in Threads \ {w}, AloneOK(p)
          PROVE  AloneOK(p)'
      BY <1>4, <2>2, <3>2 DEF AloneOK, Others
    <3> QED
      BY <1>3, <1>4, <3>1, <3>2
  <2>5. \A p \in Threads : pc'[p] \notin {"answer", "parse"} => loc'[p].resp = {}
    BY <1>3, <1>4, <2>1 DEF Others
  <2>6. mode' = "daemon" => mfile'.st = "absent" /\ \A p \in Threads : pc'[p] \notin {"call", "answer"}
    BY <1>3, <1>4 DEF Others, Past
  <2>7. \A p, q \in Threads : p # q /\ Past(p)' /\ Past(q)' => p \in overlapped'
    BY <1>3, <1>4, <2>3
  <2> QED
    BY <2>4, <2>5, <2>6, <2>7 DEF ReloadOK
\* A step of a reload: one that is alone finds no other past its first.
<1>5. ASSUME NEW p \in Threads, Others(p), Past(p),
             UNCHANGED <<mode, overlapped>>,
             pc'[p] \notin {"answer", "parse"} => loc'[p].resp = {},
             mode = "daemon" => mfile'.st = "absent" /\ pc'[p] \notin {"call", "answer"},
             p \notin overlapped => AloneOK(p)'
      PROVE  ReloadOK'
  <2>1. \A q \in Threads : Past(q)' => Past(q)
    BY <1>5 DEF Past, Others
  <2>2. \A q \in Threads \ overlapped' : AloneOK(q)'
    <3>1. ASSUME NEW q \in Threads \ overlapped', q # p
          PROVE  ~Past(q)'
      BY <1>3, <1>5, <2>1, <3>1
    <3> QED
      BY <1>5, <3>1 DEF AloneOK, Past
  <2>3. \A q \in Threads : pc'[q] \notin {"answer", "parse"} => loc'[q].resp = {}
    BY <1>3, <1>5 DEF Others
  <2>4. mode' = "daemon" => mfile'.st = "absent" /\ \A q \in Threads : pc'[q] \notin {"call", "answer"}
    BY <1>3, <1>5 DEF Others
  <2>5. \A q, r \in Threads : q # r /\ Past(q)' /\ Past(r)' => q \in overlapped'
    BY <1>3, <1>5, <2>1
  <2> QED
    BY <2>2, <2>3, <2>4, <2>5 DEF ReloadOK
<1>6. ASSUME NEW p \in Threads, ShellTruncate(p)
      PROVE  ReloadOK'
  <2> DEFINE others == {q \in Threads \ {p} : Past(q)}
  <2>1. PICK l \in {"parse", "call"} : Goto(p, l) /\ (l = "parse" <=> mode = "daemon")
    BY <1>6 DEF ShellTruncate
  <2>2. Others(p) /\ loc'[p] = loc[p] /\ pc'[p] = l /\ pc[p] = "trunc"
    BY <1>6, <1>1, <2>1, StayEffect DEF ShellTruncate
  <2>3. mode' = mode /\ mfile' = IF mode = "daemon" THEN mfile ELSE Json("empty", {})
    BY <1>6 DEF ShellTruncate
  <2>4. {q \in Threads \ {p} : Reloading(q) /\ pc[q] # "trunc"} = others
    BY DEF Reloading, Past
  <2>5. overlapped' = overlapped \cup others \cup (IF others # {} THEN {p} ELSE {})
    BY <1>6, <2>4 DEF ShellTruncate
  <2>6. \A q \in Threads \ {p} : Past(q)' <=> Past(q)
    BY <2>2 DEF Others, Past
  <2>7. \A q, r \in Threads : q # r /\ Past(q)' /\ Past(r)' => q \in overlapped'
    BY <1>3, <2>5, <2>6
  <2>8. loc[p].resp = {}
    BY <1>3, <2>2
  <2>9. \A q \in Threads \ overlapped' : AloneOK(q)'
    <3>1. AloneOK(p)'
      BY <1>3, <2>1, <2>2, <2>3, <2>8 DEF AloneOK, Json
    <3>2. \A q \in Threads \ overlapped' : q # p => ~Past(q)'
      BY <2>5, <2>6
    <3> QED
      BY <3>1, <3>2 DEF AloneOK, Past
  <2>10. \A q \in Threads : pc'[q] \notin {"answer", "parse"} => loc'[q].resp = {}
    BY <1>3, <2>2, <2>8 DEF Others
  <2>11. mode' = "daemon" => mfile'.st = "absent" /\ \A q \in Threads : pc'[q] \notin {"call", "answer"}
    BY <1>3, <2>1, <2>2, <2>3 DEF Others
  <2> QED
    BY <2>7, <2>9, <2>10, <2>11 DEF ReloadOK
<1>7. ASSUME NEW p \in Threads, ServerCall(p)
      PROVE  ReloadOK'
  <2>1. pc[p] = "call" /\ pc'[p] = "answer" /\ Others(p) /\ loc'[p].resp = Library'
    BY <1>7, <1>1, CallEffect
  <2>2. UNCHANGED <<mode, overlapped, mfile>>
    BY <1>7 DEF ServerCall
  <2>3. mode # "daemon"
    BY <1>3, <2>1
  <2>4. p \notin overlapped => AloneOK(p)'
    BY <1>3, <2>1, <2>2 DEF AloneOK
  <2> QED
    BY <1>5, <2>1, <2>2, <2>3, <2>4 DEF Past
<1>8. ASSUME NEW p \in Threads, ServerCallFails(p)
      PROVE  ReloadOK'
  <2>1. PICK l \in {"none", "parse"} : Goto(p, l)
    BY <1>8 DEF ServerCallFails
  <2>2. Others(p) /\ loc'[p] = loc[p] /\ pc'[p] = l /\ pc[p] = "call"
    BY <1>8, <1>1, <2>1, StayEffect DEF ServerCallFails
  <2>3. UNCHANGED <<mode, overlapped, mfile>>
    BY <1>8 DEF ServerCallFails
  <2>4. mode # "daemon" /\ loc[p].resp = {}
    BY <1>3, <2>2
  <2>5. p \notin overlapped => AloneOK(p)'
    BY <1>3, <2>1, <2>2, <2>3, <2>4 DEF AloneOK, Json
  <2> QED
    BY <1>5, <2>1, <2>2, <2>3, <2>4, <2>5 DEF Past
<1>9. ASSUME NEW p \in Threads, CurlAnswers(p)
      PROVE  ReloadOK'
  <2>1. Others(p) /\ loc'[p] = loc[p] /\ pc'[p] = "parse" /\ pc[p] = "answer"
    BY <1>9, <1>1, StayEffect DEF CurlAnswers
  <2>2. UNCHANGED <<mode, overlapped, server, gone>>
    BY <1>9 DEF CurlAnswers
  <2>3. mode # "daemon"
    BY <1>3, <2>1
  <2>4. Cardinality(loc[p].resp) >= Cardinality({}) /\ Cardinality({}) = 0 /\ Cardinality(loc[p].resp) \in Nat
    <3>1. IsFiniteSet(Ids)
      BY <1>1, ServerFields, FS_Interval DEF Ids
    <3>2. loc[p].resp \subseteq Ids
      BY <1>1 DEF IdsOK, IdOK
    <3>3. IsFiniteSet(loc[p].resp)
      BY <3>1, <3>2, FS_Subset
    <3> QED
      BY <3>3, FS_EmptySet, FS_CardinalityType
  <2>5. p \notin overlapped => AloneOK(p)'
    <3> SUFFICES ASSUME p \notin overlapped
                 PROVE  AloneOK(p)'
      OBVIOUS
    <3>1. mfile = Json("empty", {}) /\ loc[p].resp = Library
      BY <1>3, <2>1 DEF AloneOK
    <3>2. mfile.st = "empty" /\ mfile.ids = {}
      BY <3>1 DEF Json
    <3>3. mfile' = Json("json", loc[p].resp)
      BY <1>9, <2>4, <3>2 DEF CurlAnswers
    <3>4. Library' = Library
      BY <2>2 DEF Library, Ids
    <3> QED
      BY <2>1, <3>1, <3>3, <3>4 DEF AloneOK
  <2> QED
    BY <1>5, <2>1, <2>2, <2>3, <2>5 DEF Past
<1>10. ASSUME NEW p \in Threads, ReloadParse(p)
      PROVE  ReloadOK'
  <2>1. /\ pc[p] = "parse" /\ pc'[p] \in {"idle", "none", "sleep"} /\ loc'[p] = NoLoc
        /\ \A q \in Threads \ {p} : pc'[q] = pc[q] /\ loc'[q].resp = loc[q].resp
    BY <1>10, <1>1, ParseEffect
  <2>2. UNCHANGED <<mode, server, gone, mfile>> /\ overlapped' = overlapped \ {p}
    BY <1>10 DEF ReloadParse
  <2>3. loc'[p].resp = {}
    BY <2>1, NoLocFields
  <2>4. Library' = Library
    BY <2>2 DEF Library, Ids
  <2>5. ~Past(p)' /\ \A q \in Threads \ {p} : Past(q)' <=> Past(q)
    BY <2>1 DEF Past
  <2>6. \A q \in Threads \ overlapped' : AloneOK(q)'
    <3>1. AloneOK(p)'
      BY <2>5 DEF AloneOK, Past
    <3>2. ASSUME NEW q \in Threads \ {p}, AloneOK(q)
          PROVE  AloneOK(q)'
      BY <2>1, <2>2, <2>4, <3>2 DEF AloneOK
    <3> QED
      BY <1>3, <2>2, <3>1, <3>2
  <2>7. \A q \in Threads : pc'[q] \notin {"answer", "parse"} => loc'[q].resp = {}
    BY <1>3, <2>1, <2>3
  <2>8. mode' = "daemon" => mfile'.st = "absent" /\ \A q \in Threads : pc'[q] \notin {"call", "answer"}
    BY <1>3, <2>1, <2>2
  <2>9. \A q, r \in Threads : q # r /\ Past(q)' /\ Past(r)' => q \in overlapped'
    BY <1>3, <2>2, <2>5
  <2> QED
    BY <2>6, <2>7, <2>8, <2>9 DEF ReloadOK
<1>11. CASE UpdaterWakes
  <2>1. Others(Updater) /\ loc'[Updater] = loc[Updater] /\ pc'[Updater] = "trunc" /\ pc[Updater] = "sleep"
    BY <1>11, <1>1, <1>2, StayEffect DEF UpdaterWakes
  <2> QED
    BY <1>11, <1>2, <1>4, <2>1 DEF UpdaterWakes, Past
<1>12. ASSUME NEW w \in Workers,
              \/ StartRead(w) \/ StartUnlink(w) \/ StartWrite(w) \/ StartFlush(w) \/ StartClose(w)
              \/ ReadFindsId(w) \/ UnlinkFindsId(w) \/ WalkCrashes(w)
              \/ CacheOpen(w) \/ FetchTruncate(w) \/ FetchChunk(w) \/ FetchEnds(w) \/ FetchFails(w)
              \/ ReadFile(w) \/ ReadReturns(w)
              \/ WriteOpen(w) \/ WriteFlag(w) \/ WriteData(w) \/ MediaWrite(w)
              \/ FlushNothing(w) \/ FlushUpload(w)
       PROVE  ReloadOK'
  <2>1. /\ Others(w) /\ ~Past(w) /\ ~Past(w)'
        /\ loc'[w].resp = {} \/ loc'[w].resp = loc[w].resp
        /\ UNCHANGED <<mode, server, gone, meta, mfile, overlapped>>
    BY <1>1, <1>12, HandlerEffect
  <2> QED
    BY <1>2, <1>4, <2>1
<1> QED
  BY <1>6, <1>7, <1>8, <1>9, <1>10, <1>11, <1>12, ActionCases

\* The action property from the invariant.
LEMMA FreshStep ==
  ASSUME ReloadOK, NEW p \in Threads, ReloadParse(p), p \notin overlapped
  PROVE  meta' \in {meta, Library} /\ (loc[p].resp # {} => meta' = Library)
<1>1. AloneOK(p) /\ pc[p] = "parse"
  BY DEF ReloadOK, ReloadParse
<1>2. meta' = IF mfile.st = "json" THEN mfile.ids ELSE meta
  BY DEF ReloadParse
<1>3. CASE mfile = Json("json", Library)
  BY <1>2, <1>3 DEF Json
<1>4. CASE mfile.st # "json" /\ loc[p].resp = {}
  BY <1>2, <1>4
<1> QED
  BY <1>1, <1>3, <1>4 DEF AloneOK
-----------------------------------------------------------------------------
(* The download cache. *)

LEMMA Partly ==
  ASSUME TypeOK, NEW id \in Ids
  PROVE  /\ Part(id, 0) = <<>>
         /\ Part(id, Len(server[id].content)) = server[id].content
         /\ \A k \in 1 .. Len(server[id].content) :
              Put(Part(id, k - 1), k, server[id].content[k]) = Part(id, k)
<1> DEFINE s == server[id].content
<1>1. s \in Seq(ChunkSet)
  BY ServerFields
<1>2. \A n \in 0 .. Len(s) : Part(id, n) = [k \in 1 .. n |-> s[k]]
  BY DEF Part
<1> HIDE DEF s
<1>3. Len(s) \in Nat /\ s = [k \in 1 .. Len(s) |-> s[k]] /\ \A k \in 1 .. Len(s) : s[k] \in ChunkSet
  BY <1>1, LenProperties, ElementOfSeq
<1>4. ASSUME NEW n \in 0 .. Len(s)
      PROVE  /\ [k \in 1 .. n |-> s[k]] \in Seq(ChunkSet) /\ Len([k \in 1 .. n |-> s[k]]) = n
  <2>1. n \in Nat /\ [k \in 1 .. n |-> s[k]] \in [1 .. n -> ChunkSet]
    BY <1>3
  <2>2. [k \in 1 .. n |-> s[k]] \in Seq(ChunkSet)
    BY <2>1, SeqDef
  <2> QED
    BY <2>1, <2>2, LenProperties
<1>5. Part(id, 0) = <<>>
  <2>1. 0 \in 0 .. Len(s)
    BY <1>3
  <2>2. Len([k \in 1 .. 0 |-> s[k]]) = 0 /\ [k \in 1 .. 0 |-> s[k]] \in Seq(ChunkSet)
    BY <1>4, <2>1
  <2>3. [k \in 1 .. 0 |-> s[k]] = <<>>
    BY <2>2, EmptySeq
  <2> QED
    BY <1>2, <2>1, <2>3
<1>6. ASSUME NEW k \in 1 .. Len(s)
      PROVE  Put(Part(id, k - 1), k, s[k]) = Part(id, k)
  <2>1. k - 1 \in 0 .. Len(s) /\ k \in 0 .. Len(s) /\ k \in Nat \ {0} /\ s[k] \in ChunkSet
    BY <1>3
  <2> DEFINE a == Part(id, k - 1)
             b == Part(id, k)
  <2>2. a \in Seq(ChunkSet) /\ Len(a) = k - 1 /\ \A i \in 1 .. k - 1 : a[i] = s[i]
    BY <1>2, <1>4, <2>1
  <2>3. b \in Seq(ChunkSet) /\ Len(b) = k /\ \A i \in 1 .. k : b[i] = s[i]
    BY <1>2, <1>4, <2>1
  <2> HIDE DEF a, b
  <2>4. /\ Put(a, k, s[k]) \in Seq(ChunkSet) /\ Len(Put(a, k, s[k])) = k
        /\ \A i \in 1 .. k : Put(a, k, s[k])[i] = IF i = k THEN s[k]
                                                  ELSE IF i <= Len(a) THEN a[i] ELSE Hole
    <3>1. k > Len(a)
      BY <2>1, <2>2
    <3> QED
      BY <2>1, <2>2, <3>1, PutProperties
  <2>5. \A i \in 1 .. k : Put(a, k, s[k])[i] = b[i]
    BY <2>1, <2>2, <2>3, <2>4
  <2>6. Put(a, k, s[k]) = b
    BY <2>3, <2>4, <2>5, SeqEqual
  <2> QED
    BY <2>6 DEF a, b
<1>7. Part(id, Len(s)) = s
  BY <1>2, <1>3
<1> QED
  BY <1>5, <1>6, <1>7 DEF s

\* A step of w leaves the songs alone that it does not work on.
LEMMA OtherSong ==
  ASSUME TypeOK, NEW w \in Workers, Others(w), NEW id \in Ids, loc[w].id # id, loc'[w].id # id,
         UNCHANGED server, id \in DOMAIN cache' <=> id \in DOMAIN cache, cache'[id] = cache[id],
         CacheAt(id)
  PROVE  CacheAt(id)'
<1>1. \A v \in Workers : v \in Threads
  BY DEF Threads
<1>2. \A v \in Workers \ {w} : pc'[v] = pc[v] /\ loc'[v] = loc[v]
  BY <1>1 DEF Others
<1>3. Fetching(id)' = Fetching(id)
  BY <1>2 DEF Fetching
<1>4. \A n : Part(id, n)' = Part(id, n)
  BY DEF Part
<1>5. ASSUME NEW v \in Workers, loc'[v].id = id
      PROVE  DownloadOK(id, v)'
  <2>1. v # w /\ DownloadOK(id, v)
    BY <1>2, <1>5 DEF CacheAt
  <2>2. pc'[v] = pc[v] /\ loc'[v] = loc[v]
    BY <1>2, <2>1
  <2>3. Part(id, loc[v].pos)' = Part(id, loc[v].pos)
    BY <2>2 DEF Part
  <2> QED
    BY <2>1, <2>2, <2>3 DEF DownloadOK
<1> QED
  BY <1>3, <1>5 DEF CacheAt

\* A step that downloads nothing and reads nothing; the server may get a song.
LEMMA CacheAside ==
  ASSUME ServerAssumption, TypeOK, IdsOK, CacheOK,
         UNCHANGED cache, spoiled \subseteq spoiled', gone \subseteq gone',
         Ids' \subseteq Ids \cup {Len(server) + 1}, \A id \in Ids : server'[id] = server[id],
         \A v \in Workers : pc[v] \in {"fetch", "curl"} \/ pc'[v] \in {"fetch", "curl", "reply"}
                              => pc'[v] = pc[v] /\ loc'[v] = loc[v]
  PROVE  CacheOK'
<1>1. \A v \in Workers : v \in Threads /\ loc[v].id \in Ids \cup {NoId}
  BY DEF Threads, IdsOK, IdOK
<1>2. ASSUME NEW id \in Ids' \ (spoiled' \cup gone')
      PROVE  CacheAt(id)'
  <2>1. Fetching(id)' = Fetching(id)
    BY DEF Fetching
  <2>2. CASE id \in Ids
    <3>1. CacheAt(id)
      BY <1>2, <2>2 DEF CacheOK
    <3>2. server'[id] = server[id]
      BY <2>2
    <3>3. ASSUME NEW v \in Workers, loc'[v].id = id
          PROVE  DownloadOK(id, v)'
      <4>1. CASE pc'[v] \in {"fetch", "curl", "reply"}
        <5>1. pc'[v] = pc[v] /\ loc'[v] = loc[v]
          BY <4>1
        <5>2. DownloadOK(id, v)
          BY <3>1, <3>3, <5>1 DEF CacheAt
        <5>3. Part(id, loc[v].pos)' = Part(id, loc[v].pos)
          BY <3>2, <5>1 DEF Part
        <5> QED
          BY <3>2, <5>1, <5>2, <5>3 DEF DownloadOK
      <4>2. CASE pc'[v] \notin {"fetch", "curl", "reply"}
        BY <4>2 DEF DownloadOK
      <4> QED
        BY <4>1, <4>2
    <3> QED
      BY <2>1, <3>1, <3>2, <3>3 DEF CacheAt
  <2>3. CASE id \notin Ids
    <3>1. id \in Nat /\ id # NoId
      BY <1>2, <2>3, ServerFields DEF ServerAssumption
    <3>2. id \notin DOMAIN cache /\ \A v \in Workers : loc[v].id # id
      BY <1>1, <2>3, <3>1 DEF IdsOK
    <3>3. Fetching(id) = {}
      BY <3>2 DEF Fetching
    <3>4. \A v \in Workers : loc'[v].id = id => DownloadOK(id, v)'
      BY <3>2 DEF DownloadOK
    <3> QED
      BY <2>1, <3>2, <3>3, <3>4 DEF CacheAt
  <2> QED
    BY <2>2, <2>3
<1> QED
  BY <1>2 DEF CacheOK

LEMMA CacheStep ==
  ASSUME ServerAssumption, IInv, Next
  PROVE  CacheOK'
<1> USE DEF files, history, world
<1>1. TypeOK /\ IdsOK /\ PlaceOK /\ StoredOK /\ CacheOK
  BY DEF IInv
<1>2. /\ Updater \in Threads /\ Updater \notin Workers
      /\ \A w \in Workers : w \in Threads /\ loc[w] \in Locs /\ loc[w].id \in Ids \cup {NoId}
      /\ \A p \in Threads : SeatOK(p)
      /\ Ids \subseteq Nat /\ NoId \notin Ids
  BY <1>1, ServerFields DEF Threads, ServerAssumption, TypeOK, IdsOK, IdOK, PlaceOK
<1>3. UNCHANGED server => Ids' = Ids
  BY DEF Ids
\* A step of one thread that downloads nothing and reads nothing.
<1>4. ASSUME NEW w \in Threads, Others(w), UNCHANGED <<server, gone, cache, spoiled>>,
             w \in Workers => pc[w] \notin {"fetch", "curl"},
             pc'[w] \notin {"fetch", "curl", "reply"}
      PROVE  CacheOK'
  BY <1>1, <1>2, <1>3, <1>4, CacheAside DEF Others
<1>5. ASSUME NEW p \in Threads, ShellTruncate(p) \/ ServerCallFails(p) \/ CurlAnswers(p)
      PROVE  CacheOK'
  <2>1. PICK l \in {"parse", "call", "none"} : Goto(p, l)
    BY <1>5 DEF ShellTruncate, ServerCallFails, CurlAnswers
  <2>2. Others(p) /\ pc'[p] = l /\ pc[p] \in {"trunc", "call", "answer"}
    BY <1>5, <1>1, <2>1, StayEffect DEF ShellTruncate, ServerCallFails, CurlAnswers
  <2> QED
    BY <1>5, <1>4, <2>2 DEF ShellTruncate, ServerCallFails, CurlAnswers
<1>6. ASSUME NEW p \in Threads, ServerCall(p)
      PROVE  CacheOK'
  <2>1. /\ pc[p] = "call" /\ pc'[p] = "answer" /\ Others(p) /\ gone \subseteq gone'
        /\ \A id \in Ids : server'[id] = server[id]
        /\ UNCHANGED server \/ Ids' = Ids \cup {Len(server) + 1}
    BY <1>6, <1>1, CallEffect
  <2>2. UNCHANGED <<cache, spoiled>>
    BY <1>6 DEF ServerCall
  <2> QED
    BY <1>1, <1>2, <1>3, <2>1, <2>2, CacheAside DEF Others
<1>7. ASSUME NEW p \in Threads, ReloadParse(p)
      PROVE  CacheOK'
  <2>1. /\ pc[p] = "parse" /\ pc'[p] \in {"idle", "none", "sleep"}
        /\ \A q \in Threads \ {p} : pc'[q] = pc[q] /\ (pc[q] # "walk" => loc'[q] = loc[q])
    BY <1>7, <1>1, ParseEffect
  <2>2. UNCHANGED <<cache, spoiled, server, gone>>
    BY <1>7 DEF ReloadParse
  <2>3. \A v \in Workers : pc[v] \in {"fetch", "curl"} \/ pc'[v] \in {"fetch", "curl", "reply"}
                              => pc'[v] = pc[v] /\ loc'[v] = loc[v]
    BY <1>2, <2>1
  <2> QED
    BY <1>1, <1>3, <2>2, <2>3, CacheAside
<1>8. CASE UpdaterWakes
  <2>1. Others(Updater) /\ pc'[Updater] = "trunc"
    BY <1>8, <1>1, <1>2, StayEffect DEF UpdaterWakes
  <2> QED
    BY <1>8, <1>2, <1>4, <2>1 DEF UpdaterWakes
<1>9. ASSUME NEW w \in Workers, StartRead(w) \/ StartUnlink(w) \/ StartWrite(w) \/ StartFlush(w) \/ StartClose(w)
      PROVE  CacheOK'
  <2>1. Others(w) /\ UNCHANGED <<server, gone, cache, spoiled>> /\ pc[w] = "idle"
        /\ pc'[w] \in {"walk", "wopen", "flush"}
    BY <1>9, <1>1, BeginEffect
  <2> QED
    BY <1>2, <1>4, <2>1
<1>10. ASSUME NEW w \in Workers, ReadFindsId(w) \/ UnlinkFindsId(w) \/ WriteOpen(w) \/ FlushUpload(w)
      PROVE  CacheOK'
  <2>1. Others(w) /\ pc[w] \in {"walk", "wopen", "flush"} /\ pc'[w] \in {"open", "idle", "trunc", "wflag"}
    BY <1>10, <1>1, ReadFindsIdEffect, UnlinkFindsIdEffect, WriteOpenEffect, FlushUploadEffect
       DEF NoRequest
  <2> QED
    BY <1>10, <1>2, <1>4, <2>1 DEF ReadFindsId, UnlinkFindsId, WriteOpen, FlushUpload
<1>11. ASSUME NEW w \in Workers, WalkCrashes(w)
      PROVE  CacheOK'
  BY <1>11, <1>1, <1>3, CacheAside DEF WalkCrashes
<1>12. ASSUME NEW w \in Workers, CacheOpen(w)
      PROVE  CacheOK'
  <2>1. PICK l \in {"read", "fetch"} : Goto(w, l) /\ (l = "read" <=> loc[w].id \in DOMAIN cache)
    BY <1>12 DEF CacheOpen
  <2>2. Others(w) /\ loc'[w] = loc[w] /\ pc'[w] = l /\ pc[w] = "open" /\ UNCHANGED loc
    BY <1>12, <1>1, <1>2, <2>1, StayEffect DEF CacheOpen
  <2>3. UNCHANGED <<server, gone, cache>>
    BY <1>12 DEF CacheOpen
  <2>4. CASE l = "read"
    BY <1>12, <1>2, <1>4, <2>1, <2>2, <2>3, <2>4 DEF CacheOpen
  <2>5. CASE l = "fetch"
    <3> SUFFICES ASSUME NEW id \in Ids \ (spoiled' \cup gone)
                 PROVE  CacheAt(id)'
      BY <1>3, <2>3 DEF CacheOK
    <3>1. spoiled' = IF Fetching(loc[w].id) # {} THEN spoiled \cup ({loc[w].id} \ {NoId}) ELSE spoiled
      BY <1>12, <2>1, <2>5 DEF CacheOpen
    <3>2. CacheAt(id)
      BY <1>1, <3>1 DEF CacheOK
    <3>3. CASE loc[w].id # id
      BY <1>1, <2>2, <2>3, <3>2, <3>3, OtherSong
    <3>4. CASE loc[w].id = id
      <4>1. Fetching(id) = {}
        BY <1>2, <3>1, <3>4
      <4>2. Fetching(id)' = {w}
        BY <1>2, <2>2, <2>5, <3>4, <4>1 DEF Fetching, Others
      <4>3. \A v \in Workers : loc'[v].id = id => DownloadOK(id, v)'
        <5>1. DownloadOK(id, w)'
          BY <2>1, <2>2, <2>3, <2>5, <3>4 DEF DownloadOK
        <5>2. ASSUME NEW v \in Workers \ {w}, loc'[v].id = id
              PROVE  DownloadOK(id, v)'
          <6>1. pc'[v] = pc[v] /\ loc'[v] = loc[v] /\ DownloadOK(id, v)
            BY <1>2, <2>2, <3>2, <5>2 DEF Others, CacheAt
          <6>2. Part(id, loc[v].pos)' = Part(id, loc[v].pos)
            BY <2>3, <6>1 DEF Part
          <6> QED
            BY <2>3, <6>1, <6>2 DEF DownloadOK
        <5> QED
          BY <5>1, <5>2
      <4> QED
        BY <4>2, <4>3 DEF CacheAt
    <3> QED
      BY <3>3, <3>4
  <2> QED
    BY <2>4, <2>5
<1>13. ASSUME NEW w \in Workers, WriteFlag(w)
      PROVE  CacheOK'
  <2>1. Others(w) /\ pc'[w] = "wdata" /\ pc[w] = "wflag"
    BY <1>13, <1>1, <1>2, StayEffect DEF WriteFlag
  <2> QED
    BY <1>13, <1>2, <1>4, <2>1 DEF WriteFlag
<1>14. ASSUME NEW w \in Workers, ReadReturns(w) \/ WriteData(w) \/ MediaWrite(w) \/ FlushNothing(w)
      PROVE  CacheOK'
  <2>1. Others(w) /\ NoRequest(w)
    BY <1>14, <1>1, <1>2, ReturnEffect DEF ReadReturns, WriteData, MediaWrite, FlushNothing
  <2>2. UNCHANGED <<server, gone, cache, spoiled>> /\ pc[w] \in {"reply", "wdata", "wopen", "flush"}
    BY <1>14 DEF ReadReturns, WriteData, MediaWrite, FlushNothing
  <2> QED
    BY <1>2, <1>4, <2>1, <2>2 DEF NoRequest
<1>15. ASSUME NEW w \in Workers, FetchTruncate(w)
      PROVE  CacheOK'
  <2>1. pc[w] = "fetch" /\ pc'[w] = "curl" /\ Others(w) /\ loc'[w].id = loc[w].id /\ loc'[w].pos = 0
    BY <1>15, <1>1, FetchTruncateEffect DEF Keeps
  <2>2. UNCHANGED <<server, gone, spoiled>>
    BY <1>15 DEF FetchTruncate
  <2>3. /\ DOMAIN cache' = DOMAIN cache \cup {loc[w].id} /\ cache'[loc[w].id] = <<>>
        /\ \A id \in DOMAIN cache : id # loc[w].id => cache'[id] = cache[id]
    BY <1>15 DEF FetchTruncate
  <2>4. \A id : id # loc[w].id /\ id \notin DOMAIN cache => id \notin DOMAIN cache'
    BY <2>3
  <2> SUFFICES ASSUME NEW id \in Ids \ (spoiled \cup gone)
               PROVE  CacheAt(id)'
    BY <1>3, <2>2 DEF CacheOK
  <2>5. CacheAt(id)
    BY <1>1 DEF CacheOK
  <2>6. Fetching(id)' = Fetching(id)
    BY <1>2, <2>1 DEF Fetching, Others
  <2>7. \A v \in Workers : v # w => pc'[v] = pc[v] /\ loc'[v] = loc[v]
    BY <1>2, <2>1 DEF Others
  <2>8. CASE loc[w].id # id
    <3>1. ASSUME NEW v \in Workers, loc'[v].id = id
          PROVE  DownloadOK(id, v)'
      <4>1. pc'[v] = pc[v] /\ loc'[v] = loc[v] /\ DownloadOK(id, v)
        BY <2>1, <2>5, <2>7, <2>8, <3>1 DEF CacheAt
      <4>2. Part(id, loc[v].pos)' = Part(id, loc[v].pos)
        BY <2>2, <4>1 DEF Part
      <4>3. pc[v] = "curl" => id \in DOMAIN cache
        BY <1>1, <3>1, <4>1 DEF StoredOK
      <4> QED
        BY <2>2, <2>3, <2>4, <2>8, <4>1, <4>2, <4>3 DEF DownloadOK
    <3> QED
      BY <2>2, <2>3, <2>4, <2>5, <2>6, <2>8, <3>1 DEF CacheAt
  <2>9. CASE loc[w].id = id
    <3>1. w \in Fetching(id)
      BY <2>1, <2>9 DEF Fetching
    <3>2. Part(id, 0)' = <<>> /\ Len(server'[id].content) \in Nat
      <4>1. Part(id, 0) = <<>>
        BY <1>1, Partly
      <4>2. Part(id, 0)' = Part(id, 0)
        BY <2>2 DEF Part
      <4>3. server[id].content \in Seq(ChunkSet)
        BY <1>1, ServerFields
      <4> QED
        BY <2>2, <4>1, <4>2, <4>3, LenProperties
    <3>3. DownloadOK(id, w)'
      <4>1. Part(id, loc[w].pos)' = Part(id, 0)'
        BY <2>1 DEF Part
      <4> QED
        BY <2>1, <2>3, <2>9, <3>2, <4>1 DEF DownloadOK
    <3>4. ASSUME NEW v \in Workers, v # w, loc'[v].id = id
          PROVE  DownloadOK(id, v)'
      <4>1. pc'[v] = pc[v] /\ loc'[v] = loc[v] /\ DownloadOK(id, v) /\ v \notin Fetching(id)
        BY <2>5, <2>7, <3>1, <3>4 DEF CacheAt
      <4>2. pc[v] \notin {"fetch", "curl"}
        BY <3>4, <4>1 DEF Fetching
      <4> QED
        BY <2>2, <4>1, <4>2 DEF DownloadOK
    <3> QED
      BY <2>5, <2>6, <3>1, <3>3, <3>4 DEF CacheAt
  <2> QED
    BY <2>8, <2>9
<1>16. ASSUME NEW w \in Workers, FetchChunk(w)
      PROVE  CacheOK'
  <2> DEFINE n == loc[w].pos + 1
  <2>1. pc[w] = "curl" /\ pc' = pc /\ Others(w) /\ loc'[w].id = loc[w].id /\ loc'[w].pos = n
    BY <1>16, <1>1, FetchChunkEffect DEF Keeps
  <2>2. UNCHANGED <<server, gone, spoiled>> /\ n <= Len(Body(loc[w].id))
    BY <1>16 DEF FetchChunk
  <2>3. /\ loc[w].id \in DOMAIN cache /\ DOMAIN cache' = DOMAIN cache
        /\ cache'[loc[w].id] = Put(cache[loc[w].id], n, Body(loc[w].id)[n])
        /\ \A id \in DOMAIN cache : id # loc[w].id => cache'[id] = cache[id]
    <3>1. loc[w].id \in DOMAIN cache
      BY <1>1, <2>1 DEF StoredOK
    <3>2. cache' = [cache EXCEPT ![loc[w].id] = Put(cache[loc[w].id], n, Body(loc[w].id)[n])]
      BY <1>16 DEF FetchChunk
    <3>3. cache = [id \in DOMAIN cache |-> cache[id]]
      BY <1>1 DEF TypeOK
    <3> QED
      BY <3>1, <3>2, <3>3
  <2>4. n \in Nat \ {0}
    BY <1>2 DEF Locs
  <2> HIDE DEF n
  <2> SUFFICES ASSUME NEW id \in Ids \ (spoiled \cup gone)
               PROVE  CacheAt(id)'
    BY <1>3, <2>2 DEF CacheOK
  <2>5. CacheAt(id)
    BY <1>1 DEF CacheOK
  <2>6. Fetching(id)' = Fetching(id)
    BY <1>2, <2>1 DEF Fetching, Others
  <2>7. \A v \in Workers : v # w => pc'[v] = pc[v] /\ loc'[v] = loc[v]
    BY <1>2, <2>1 DEF Others
  <2>8. CASE loc[w].id # id
    <3>1. ASSUME NEW v \in Workers, loc'[v].id = id
          PROVE  DownloadOK(id, v)'
      <4>1. pc'[v] = pc[v] /\ loc'[v] = loc[v] /\ DownloadOK(id, v)
        BY <2>1, <2>5, <2>7, <2>8, <3>1 DEF CacheAt
      <4>2. Part(id, loc[v].pos)' = Part(id, loc[v].pos)
        BY <2>2, <4>1 DEF Part
      <4>3. pc[v] = "curl" => id \in DOMAIN cache
        BY <1>1, <3>1, <4>1 DEF StoredOK
      <4> QED
        BY <2>2, <2>3, <2>8, <4>1, <4>2, <4>3 DEF DownloadOK
    <3> QED
      BY <2>2, <2>3, <2>5, <2>6, <2>8, <3>1 DEF CacheAt
  <2>9. CASE loc[w].id = id
    <3>1. w \in Fetching(id)
      BY <2>1, <2>9 DEF Fetching
    <3>2. Body(id) = server[id].content /\ cache[id] = Part(id, loc[w].pos)
      BY <1>2, <2>1, <2>5, <2>9 DEF Body, CacheAt, DownloadOK
    <3>3. n \in 1 .. Len(server[id].content) /\ loc[w].pos = n - 1
      <4>1. server[id].content \in Seq(ChunkSet) /\ loc[w].pos \in Nat
        BY <1>1, <1>2, ServerFields DEF Locs
      <4>2. Len(server[id].content) \in Nat
        BY <4>1, LenProperties
      <4> QED
        BY <2>2, <2>4, <2>9, <3>2, <4>1, <4>2 DEF n
    <3>4. cache'[id] = Part(id, n)
      <4>1. Put(Part(id, n - 1), n, server[id].content[n]) = Part(id, n)
        BY <1>1, <3>3, Partly
      <4> QED
        BY <2>3, <2>9, <3>2, <3>3, <4>1
    <3>5. DownloadOK(id, w)'
      <4>1. Part(id, loc[w].pos)' = Part(id, n)
        BY <2>1, <2>2 DEF Part
      <4> QED
        BY <2>1, <2>2, <3>3, <3>4, <4>1 DEF DownloadOK
    <3>6. ASSUME NEW v \in Workers, v # w, loc'[v].id = id
          PROVE  DownloadOK(id, v)'
      <4>1. pc'[v] = pc[v] /\ loc'[v] = loc[v] /\ DownloadOK(id, v) /\ v \notin Fetching(id)
        BY <2>5, <2>7, <3>1, <3>6 DEF CacheAt
      <4>2. pc[v] \notin {"fetch", "curl"}
        BY <3>6, <4>1 DEF Fetching
      <4> QED
        BY <2>2, <4>1, <4>2 DEF DownloadOK
    <3> QED
      BY <2>5, <2>6, <3>1, <3>5, <3>6 DEF CacheAt
  <2> QED
    BY <2>8, <2>9
<1>17. ASSUME NEW w \in Workers, FetchEnds(w)
      PROVE  CacheOK'
  <2>1. pc[w] = "curl" /\ pc'[w] = "read" /\ Others(w) /\ loc'[w].id = loc[w].id
    BY <1>17, <1>1, FetchEndsEffect DEF Keeps
  <2>2. UNCHANGED <<server, gone, spoiled, cache>> /\ loc[w].pos >= Len(Body(loc[w].id))
    BY <1>17 DEF FetchEnds
  <2> SUFFICES ASSUME NEW id \in Ids \ (spoiled \cup gone)
               PROVE  CacheAt(id)'
    BY <1>3, <2>2 DEF CacheOK
  <2>3. CacheAt(id)
    BY <1>1 DEF CacheOK
  <2>4. \A v \in Workers : v # w => pc'[v] = pc[v] /\ loc'[v] = loc[v]
    BY <1>2, <2>1 DEF Others
  <2>5. CASE loc[w].id # id
    BY <1>1, <2>1, <2>2, <2>3, <2>5, OtherSong
  <2>6. CASE loc[w].id = id
    <3>1. w \in Fetching(id)
      BY <2>1, <2>6 DEF Fetching
    <3>2. Body(id) = server[id].content /\ cache[id] = Part(id, loc[w].pos)
          /\ loc[w].pos <= Len(server[id].content)
      BY <1>2, <2>1, <2>3, <2>6 DEF Body, CacheAt, DownloadOK
    <3>3. loc[w].pos = Len(server[id].content)
      <4>1. server[id].content \in Seq(ChunkSet) /\ loc[w].pos \in Nat
        BY <1>1, <1>2, ServerFields DEF Locs
      <4>2. Len(server[id].content) \in Nat
        BY <4>1, LenProperties
      <4> QED
        BY <2>2, <2>6, <3>2, <4>1, <4>2
    <3>4. cache[id] = server[id].content
      BY <1>1, <3>2, <3>3, Partly
    <3>5. ASSUME NEW v \in Workers, loc'[v].id = id
          PROVE  v \notin Fetching(id)' /\ DownloadOK(id, v)'
      <4>1. CASE v = w
        BY <2>1, <4>1 DEF Fetching, DownloadOK
      <4>2. CASE v # w
        <5>1. pc'[v] = pc[v] /\ loc'[v] = loc[v] /\ DownloadOK(id, v) /\ v \notin Fetching(id)
          BY <2>3, <2>4, <3>1, <3>5, <4>2 DEF CacheAt
        <5>2. pc[v] \notin {"fetch", "curl"}
          BY <3>5, <5>1 DEF Fetching
        <5> QED
          BY <2>2, <5>1, <5>2 DEF DownloadOK, Fetching
      <4> QED
        BY <4>1, <4>2
    <3>6. Fetching(id)' = {}
      BY <3>5 DEF Fetching
    <3> QED
      BY <2>2, <3>4, <3>5, <3>6 DEF CacheAt
  <2> QED
    BY <2>5, <2>6
<1>18. ASSUME NEW w \in Workers, FetchFails(w)
      PROVE  CacheOK'
  <2>1. /\ Others(w) /\ loc'[w].id \in {loc[w].id, NoId}
    <3>1. NoLoc.id = NoId
      BY NoLocFields
    <3> QED
      BY <1>18, <1>1, <3>1, FetchFailsEffect DEF Keeps, NoRequest
  <2>2. UNCHANGED <<server, gone, cache>> /\ spoiled' = spoiled \cup ({loc[w].id} \ {NoId})
    BY <1>18 DEF FetchFails
  <2> SUFFICES ASSUME NEW id \in Ids \ (spoiled' \cup gone)
               PROVE  CacheAt(id)'
    BY <1>3, <2>2 DEF CacheOK
  <2>3. CacheAt(id) /\ id # NoId /\ id # loc[w].id
    BY <1>1, <1>2, <2>2 DEF CacheOK
  <2> QED
    BY <1>1, <2>1, <2>2, <2>3, OtherSong
<1>19. ASSUME NEW w \in Workers, ReadFile(w)
      PROVE  CacheOK'
  <2>1. pc[w] = "read" /\ pc'[w] = "reply" /\ Others(w) /\ loc'[w].id = loc[w].id
    BY <1>19, <1>1, ReadFileEffect DEF Keeps
  <2>2. PICK k \in 1 .. NumChunks : /\ loc'[w].off = k
                                    /\ loc'[w].got = Got(cache[loc[w].id], k)
                                    /\ loc'[w].torn = (loc[w].torn \/ Fetching(loc[w].id) # {})
    BY <1>19, <1>1, ReadFileEffect
  <2>3. UNCHANGED <<server, gone, spoiled, cache>>
    BY <1>19 DEF ReadFile
  <2> SUFFICES ASSUME NEW id \in Ids \ (spoiled \cup gone)
               PROVE  CacheAt(id)'
    BY <1>3, <2>3 DEF CacheOK
  <2>4. CacheAt(id)
    BY <1>1 DEF CacheOK
  <2>5. \A v \in Workers : v # w => pc'[v] = pc[v] /\ loc'[v] = loc[v]
    BY <1>2, <2>1 DEF Others
  <2>6. CASE loc[w].id # id
    BY <1>1, <2>1, <2>3, <2>4, <2>6, OtherSong
  <2>7. CASE loc[w].id = id
    <3>1. Fetching(id)' = Fetching(id)
      BY <2>1, <2>5, <2>7 DEF Fetching
    <3>2. DownloadOK(id, w)'
      <4> SUFFICES ASSUME ~loc'[w].torn
                   PROVE  \/ loc'[w].off > Len(server[id].content)
                          \/ loc'[w].got = server[id].content[loc'[w].off]
        BY <2>1, <2>3 DEF DownloadOK
      <4>1. Fetching(id) = {} /\ id \in DOMAIN cache
        BY <1>1, <2>1, <2>2, <2>7 DEF StoredOK
      <4>2. cache[id] = server[id].content
        BY <2>4, <4>1 DEF CacheAt
      <4>3. server[id].content \in Seq(ChunkSet)
        BY <1>1, ServerFields
      <4>4. Len(server[id].content) \in Nat /\ k \in Nat
        BY <4>3, LenProperties DEF ServerAssumption
      <4> QED
        BY <2>2, <2>7, <4>2, <4>4 DEF Got
    <3>3. ASSUME NEW v \in Workers \ {w}, loc'[v].id = id
          PROVE  DownloadOK(id, v)'
      <4>1. pc'[v] = pc[v] /\ loc'[v] = loc[v] /\ DownloadOK(id, v)
        BY <2>4, <2>5, <3>3 DEF CacheAt
      <4>2. Part(id, loc[v].pos)' = Part(id, loc[v].pos)
        BY <2>3, <4>1 DEF Part
      <4> QED
        BY <2>3, <4>1, <4>2 DEF DownloadOK
    <3> QED
      BY <2>3, <2>4, <3>1, <3>2, <3>3 DEF CacheAt
  <2> QED
    BY <2>6, <2>7
<1> QED
  BY <1>5, <1>6, <1>7, <1>8, <1>9, <1>10, <1>11, <1>12, <1>13, <1>14, <1>15, <1>16, <1>17, <1>18, <1>19, ActionCases
-----------------------------------------------------------------------------
(* Copies: what is in tmp.mp3, and what the server gets of it. *)

CopyKinds == {"write", "flush", "close"}
UploadInv == CopyOK /\ FlagOK /\ MediaOK /\ UploadOK /\ AloneUploadsWhole

\* A step of w: the others keep their requests, and where they are with a copy.
Besides(w) ==
  \A v \in Workers \ {w} :
    /\ loc'[v].kind = loc[v].kind /\ loc'[v].song = loc[v].song
    /\ loc[v].kind \in CopyKinds => pc'[v] = pc[v] /\ loc'[v] = loc[v]
    /\ pc'[v] = pc[v]

LEMMA OthersBesides ==
  ASSUME NEW w, Others(w)
  PROVE  Besides(w)
  BY DEF Others, Besides, Threads

LEMMA CopiedParts ==
  ASSUME ServerAssumption, NEW s \in Titles
  PROVE  /\ Copied(s, 0) = <<>>
         /\ \A n \in Nat : /\ Copied(s, n) \in Seq(ChunkSet) /\ Len(Copied(s, n)) = n
                           /\ Put(Copied(s, n), n + 1, Chunk(s, n + 1)) = Copied(s, n + 1)
         /\ Copied(s, NumChunks) = Content(s)
         /\ Title(Copied(s, NumChunks)) = s
<1>1. \A k \in Nat : Chunk(s, k) \in ChunkSet
  BY DEF Chunk, ChunkSet, Names
<1>2. ASSUME NEW n \in Nat
      PROVE  /\ Copied(s, n) \in Seq(ChunkSet) /\ Len(Copied(s, n)) = n
             /\ \A i \in 1 .. n : Copied(s, n)[i] = Chunk(s, i)
  <2>1. Copied(s, n) \in [1 .. n -> ChunkSet]
    BY <1>1 DEF Copied
  <2>2. Copied(s, n) \in Seq(ChunkSet)
    BY <2>1, SeqDef
  <2> QED
    BY <2>1, <2>2, LenProperties DEF Copied
<1>3. Copied(s, 0) = <<>>
  <2>1. Copied(s, 0) \in Seq(ChunkSet) /\ Len(Copied(s, 0)) = 0
    BY <1>2
  <2> QED
    BY <2>1, EmptySeq
<1>4. ASSUME NEW n \in Nat
      PROVE  Put(Copied(s, n), n + 1, Chunk(s, n + 1)) = Copied(s, n + 1)
  <2> DEFINE a == Copied(s, n)
             b == Copied(s, n + 1)
             c == Chunk(s, n + 1)
  <2>1. /\ a \in Seq(ChunkSet) /\ Len(a) = n /\ \A i \in 1 .. n : a[i] = Chunk(s, i)
        /\ b \in Seq(ChunkSet) /\ Len(b) = n + 1 /\ \A i \in 1 .. n + 1 : b[i] = Chunk(s, i)
        /\ c \in ChunkSet /\ c = Chunk(s, n + 1)
    BY <1>1, <1>2
  <2> HIDE DEF a, b, c
  <2>2. /\ Put(a, n + 1, c) \in Seq(ChunkSet) /\ Len(Put(a, n + 1, c)) = n + 1
        /\ \A i \in 1 .. n + 1 : Put(a, n + 1, c)[i] = IF i = n + 1 THEN c
                                                       ELSE IF i <= Len(a) THEN a[i] ELSE Hole
    <3>1. n + 1 \in Nat \ {0} /\ n + 1 > Len(a)
      BY <2>1
    <3>2. \A k \in Nat \ {0} : k > Len(a) =>
            /\ Put(a, k, c) \in Seq(ChunkSet) /\ Len(Put(a, k, c)) = k
            /\ \A i \in 1 .. k : Put(a, k, c)[i] = IF i = k THEN c
                                                 ELSE IF i <= Len(a) THEN a[i] ELSE Hole
      BY <2>1, PutProperties
    <3> QED
      BY <3>1, <3>2
  <2>3. \A i \in 1 .. n + 1 : Put(a, n + 1, c)[i] = b[i]
    BY <2>1, <2>2
  <2>4. Put(a, n + 1, c) = b
    BY <2>1, <2>2, <2>3, SeqEqual
  <2> QED
    BY <2>4 DEF a, b, c
<1>5. Title(Copied(s, NumChunks)) = s
  <2>1. /\ Len(Copied(s, NumChunks)) = NumChunks /\ NumChunks > 0
        /\ Copied(s, NumChunks)[1] = Chunk(s, 1)
    BY <1>2 DEF ServerAssumption
  <2>2. Copied(s, NumChunks) # <<>>
    BY <2>1
  <2>3. Chunk(s, 1)[1] = s
    BY DEF Chunk
  <2> QED
    BY <2>1, <2>2, <2>3 DEF Title
<1>6. Copied(s, NumChunks) = Content(s)
  BY DEF Copied, Content
<1> QED
  BY <1>2, <1>3, <1>4, <1>5, <1>6

\* Where a thread is that copies or closes.
LEMMA CopierPlace ==
  ASSUME TypeOK, PlaceOK, NEW w \in Workers
  PROVE  /\ loc[w].kind = "write" => pc[w] \in {"wopen", "wflag", "wdata"}
         /\ loc[w].kind \in {"flush", "close"} => pc[w] \in {"flush", "trunc", "call", "parse"}
<1>1. w \in Threads
  BY DEF Threads
<1>2. SeatOK(w) /\ pc[w] \in Places
  BY <1>1 DEF TypeOK, PlaceOK
<1> QED
  BY <1>2 DEF SeatOK, Places

\* A song whose copy is undisturbed is the one anybody works on.
LEMMA SoleCopier ==
  ASSUME CopyOK, UploadOK, NEW w \in Workers, loc[w].kind \in CopyKinds,
         NEW u \in Songs \ disturbed, Open(u)
  PROVE  /\ loc[w].kind \in {"write", "flush"} /\ loc[w].song = u
         /\ Copying(u) = {w} /\ SoleOK(u)
<1>1. SoleOK(u)
  BY DEF UploadOK
<1>2. loc[w].kind \in {"write", "flush"}
  BY <1>1 DEF SoleOK, Closing, CopyKinds
<1>3. loc[w].song \in Songs /\ w \in Copying(loc[w].song)
  BY <1>2 DEF CopyOK, Copying
<1>4. loc[w].song = u
  BY <1>1, <1>3 DEF SoleOK, Open
<1>5. Copying(u) = {w}
  BY <1>2, <1>4 DEF CopyOK, Copying
<1> QED
  BY <1>1, <1>2, <1>4, <1>5

\* A step that has nothing to do with copies.
LEMMA CopyAside ==
  ASSUME TypeOK, UploadInv, NEW p \in Threads, Besides(p),
         UNCHANGED <<mode, server, tmp, isWriting, copied, disturbed>>,
         p \in Workers => /\ loc[p].kind \notin CopyKinds /\ loc'[p].kind \notin CopyKinds
                          /\ mode = "mediafs" => pc'[p] \notin {"trunc", "call", "answer", "parse", "wflag", "wdata"}
  PROVE  UploadInv'
<1>1. \A v \in Workers : loc[v].kind \in CopyKinds \/ loc'[v].kind \in CopyKinds
                           => v # p /\ pc'[v] = pc[v] /\ loc'[v] = loc[v]
  BY DEF Besides
<1>2. \A s : Copying(s)' = Copying(s)
  BY <1>1 DEF Copying, CopyKinds
<1>3. Closing' = Closing
  BY <1>1 DEF Closing, CopyKinds
<1>4. \A s : Open(s)' <=> Open(s)
  BY <1>2 DEF Open
<1>5. CopyOK'
  BY <1>1 DEF UploadInv, CopyOK, CopyKinds
<1>6. FlagOK'
  <2>1. \A s : Unsent(s) => Unsent(s)'
    BY <1>1, <1>2 DEF Unsent, Copying, CopyKinds
  <2> QED
    BY <2>1 DEF UploadInv, FlagOK
<1>7. MediaOK'
  BY DEF UploadInv, MediaOK, Besides
<1>8. UploadOK'
  <2> SUFFICES ASSUME NEW s \in Songs \ disturbed, Open(s)
               PROVE  SoleOK(s)'
    BY <1>4 DEF UploadOK
  <2>1. SoleOK(s)
    BY DEF UploadInv, UploadOK
  <2>2. ASSUME NEW w \in Copying(s), StageOK(s, w)
        PROVE  StageOK(s, w)'
    <3>1. pc'[w] = pc[w] /\ loc'[w] = loc[w]
      BY <1>1 DEF Copying, CopyKinds
    <3> QED
      BY <2>2, <3>1 DEF StageOK
  <2> QED
    BY <1>2, <1>3, <1>4, <2>1, <2>2 DEF SoleOK
<1>9. AloneUploadsWhole'
  BY DEF UploadInv, AloneUploadsWhole, Ids
<1> QED
  BY <1>5, <1>6, <1>7, <1>8, <1>9 DEF UploadInv

\* A step by which a thread's flush or close is over for the copies.
LEMMA CopyLeaves ==
  ASSUME TypeOK, UploadInv, NEW w \in Workers, Besides(w),
         loc[w].kind \in {"flush", "close"}, loc'[w].kind \notin CopyKinds,
         UNCHANGED <<mode, tmp, isWriting, copied, disturbed>>,
         pc[w] = "flush" => ~isWriting,
         mode = "mediafs" => pc'[w] \notin {"trunc", "call", "answer", "parse", "wflag", "wdata"}
  PROVE  CopyOK' /\ FlagOK' /\ MediaOK' /\ UploadOK'
<1>1. \A v \in Workers : loc'[v].kind \in CopyKinds
                           => v # w /\ pc'[v] = pc[v] /\ loc'[v] = loc[v]
  BY DEF Besides
<1>2. \A s : Copying(s)' = Copying(s) \ {w}
  BY DEF Copying, Besides, CopyKinds
<1>3. \A s : Open(s)' => Open(s)
  BY <1>2 DEF Open
<1>4. CopyOK'
  BY <1>1 DEF UploadInv, CopyOK, CopyKinds
<1>5. FlagOK'
  <2> SUFFICES ASSUME isWriting
               PROVE  \E s \in Songs : Unsent(s)'
    BY DEF FlagOK
  <2>1. PICK s \in Songs : Unsent(s)
    BY DEF UploadInv, FlagOK
  <2>2. ASSUME NEW v \in Copying(s), loc[v].kind = "write" \/ pc[v] = "flush"
        PROVE  v \in Copying(s)' /\ (loc'[v].kind = "write" \/ pc'[v] = "flush")
    <3>1. v # w /\ v \in Workers
      BY <2>2 DEF Copying
    <3> QED
      BY <1>2, <2>2, <3>1 DEF Besides
  <2>3. Unsent(s)'
    BY <2>1, <2>2 DEF Unsent
  <2> QED
    BY <2>3
<1>6. MediaOK'
  BY DEF UploadInv, MediaOK, Besides
<1>7. ASSUME NEW u \in Songs \ disturbed, Open(u)'
      PROVE  FALSE
  <2>1. Open(u) /\ CopyOK /\ UploadOK
    BY <1>3, <1>7 DEF UploadInv
  <2>2. loc[w].kind = "flush" /\ loc[w].song = u /\ Copying(u) = {w}
    BY <2>1, SoleCopier DEF CopyKinds
  <2>3. copied[u] = NumChunks + 1
    BY <2>1, <2>2 DEF CopyOK
  <2>4. Copying(u)' = {}
    BY <1>2, <2>2
  <2>5. copied'[u] \notin 1 .. NumChunks
    BY <2>3, ServerAssumption DEF ServerAssumption
  <2> QED
    BY <1>7, <2>4, <2>5 DEF Open
<1>8. UploadOK'
  BY <1>7 DEF UploadOK
<1> QED
  BY <1>4, <1>5, <1>6, <1>8

\* A step of a copier within its request, which works on its own song alone.
LEMMA CopyGoesOn ==
  ASSUME TypeOK, UploadInv, NEW w \in Workers, Besides(w), loc[w].kind \in CopyKinds,
         loc'[w].kind = loc[w].kind, loc'[w].song = loc[w].song, loc'[w].off = loc[w].off,
         UNCHANGED <<mode, server, copied, disturbed>>, mode # "mediafs",
         isWriting' => isWriting \/ loc[w].kind = "write",
         isWriting' /\ pc[w] = "flush" => pc'[w] = "flush",
         ASSUME loc[w].kind \in {"write", "flush"}, loc[w].song \in Songs \ disturbed,
                StageOK(loc[w].song, w)
         PROVE  StageOK(loc[w].song, w)'
  PROVE  UploadInv'
<1>1. \A v \in Workers : v # w /\ loc[v].kind \in CopyKinds => pc'[v] = pc[v] /\ loc'[v] = loc[v]
  BY DEF Besides
<1>2. \A v \in Workers : loc'[v].kind = loc[v].kind /\ loc'[v].song = loc[v].song
  BY DEF Besides
<1>3. (\A s : Copying(s)' = Copying(s)) /\ Closing' = Closing
  BY <1>2 DEF Copying, Closing
<1>4. \A s : Open(s)' <=> Open(s)
  BY <1>3 DEF Open
<1>5. CopyOK'
  <2>1. \A v \in Workers : loc[v].kind \in CopyKinds => loc'[v].off = loc[v].off
    BY <1>1
  <2> QED
    BY <1>2, <2>1 DEF UploadInv, CopyOK, CopyKinds
<1>6. FlagOK'
  <2> SUFFICES ASSUME isWriting'
               PROVE  \E s \in Songs : Unsent(s)'
    BY DEF FlagOK
  <2>1. CASE loc[w].kind = "write"
    <3>1. loc[w].song \in Songs
      BY <2>1 DEF UploadInv, CopyOK
    <3>2. w \in Copying(loc[w].song)
      BY <2>1 DEF Copying
    <3>3. \A s : s = loc[w].song => Unsent(s)'
      BY <1>2, <1>3, <2>1, <3>2 DEF Unsent
    <3> QED
      BY <3>1, <3>3
  <2>2. CASE loc[w].kind # "write"
    <3>1. PICK s \in Songs : Unsent(s)
      BY <2>2 DEF UploadInv, FlagOK
    <3>2. ASSUME NEW v \in Copying(s), loc[v].kind = "write" \/ pc[v] = "flush"
          PROVE  loc'[v].kind = "write" \/ pc'[v] = "flush"
      BY <1>1, <1>2, <3>2 DEF Copying, CopyKinds
    <3> QED
      BY <1>3, <3>1, <3>2 DEF Unsent
  <2> QED
    BY <2>1, <2>2
<1>7. MediaOK'
  BY DEF MediaOK
<1>8. UploadOK'
  <2> SUFFICES ASSUME NEW u \in Songs \ disturbed, Open(u)
               PROVE  SoleOK(u)'
    BY <1>4 DEF UploadOK
  <2>1. /\ loc[w].kind \in {"write", "flush"} /\ loc[w].song = u
        /\ Copying(u) = {w} /\ SoleOK(u)
    BY SoleCopier DEF UploadInv
  <2>2. StageOK(u, w)
    BY <2>1 DEF SoleOK
  <2>3. StageOK(loc[w].song, w)
    BY <2>1, <2>2
  <2>4. StageOK(loc[w].song, w)'
    BY <2>1, <2>3
  <2>5. StageOK(u, w)'
    BY <2>1, <2>4 DEF StageOK
  <2> QED
    BY <1>3, <1>4, <2>1, <2>5 DEF SoleOK
<1>9. AloneUploadsWhole'
  BY DEF UploadInv, AloneUploadsWhole, Ids
<1> QED
  BY <1>5, <1>6, <1>7, <1>8, <1>9 DEF UploadInv

\* The history after a write or flush of f, or a close, has begun: if f itself
\* is undisturbed then nobody else is at it.
LEMMA MeetsAlone ==
  ASSUME NEW f, Meets(f), disturbed \subseteq Songs
  PROVE  /\ disturbed \subseteq disturbed' /\ disturbed' \subseteq Songs
         /\ \A u \in Songs \ disturbed' : u # f => ~Open(u)
         /\ f \in Songs \ disturbed' => Closing = {} /\ \A u \in Songs \ {f} : ~Open(u)
  BY DEF Meets

LEMMA WriteBegins ==
  ASSUME TypeOK, PlaceOK, UploadInv, NEW w \in Workers, StartWrite(w)
  PROVE  UploadInv'
<1> USE DEF files, history, world
<1>1. PICK s \in Songs : /\ copied[s] < NumChunks /\ Copying(s) = {}
                         /\ Start(w, "write", s, copied[s] + 1, "wopen")
                         /\ Meets(s) /\ UNCHANGED copied
  BY DEF StartWrite
<1>2. /\ pc[w] = "idle" /\ pc'[w] = "wopen" /\ Others(w) /\ loc'[w].kind = "write"
      /\ loc'[w].song = s /\ loc'[w].off = copied[s] + 1
  <2>1. "write" \in Kinds /\ s \in Names /\ copied[s] + 1 \in Nat
    BY DEF Kinds, Names, Titles, TypeOK
  <2> QED
    BY <1>1, <2>1, StartEffect
<1>3. loc[w].kind = "reload" /\ Besides(w)
  BY <1>2, OthersBesides DEF PlaceOK, SeatOK, Threads
<1>4. UNCHANGED <<mode, server, tmp, isWriting, copied>>
  BY <1>1 DEF Start
<1>5. \A v \in Workers : loc[v].kind \in CopyKinds => v # w /\ pc'[v] = pc[v] /\ loc'[v] = loc[v]
  BY <1>3 DEF Besides, CopyKinds
<1>6. /\ \A t : t # s => Copying(t)' = Copying(t)
      /\ Copying(s)' = {w} /\ Closing' = Closing
  <2>1. \A v \in Workers : v # w => loc'[v].kind = loc[v].kind /\ loc'[v].song = loc[v].song
    BY <1>3 DEF Besides
  <2> QED
    BY <1>1, <1>2, <1>3, <2>1 DEF Copying, Closing
<1>7. \A t : t # s => (Open(t)' <=> Open(t))
  BY <1>4, <1>6 DEF Open
<1>8. CopyOK'
  <2>1. \A v \in Workers : v # w /\ loc'[v].kind \in CopyKinds => loc[v].kind \in CopyKinds
    BY <1>3 DEF Besides
  <2>2. \A v \in Workers : v # w /\ loc'[v].kind \in {"write", "flush"} => loc'[v].song # s
    BY <1>1, <1>5, <2>1 DEF Copying, CopyKinds
  <2> QED
    BY <1>1, <1>2, <1>4, <1>5, <2>1, <2>2 DEF UploadInv, CopyOK, CopyKinds
<1>9. FlagOK'
  <2>1. ASSUME NEW t \in Songs, Unsent(t)
        PROVE  Unsent(t)'
    <3>1. CASE t = s
      <4>1. copied[t] \in 1 .. NumChunks
        BY <1>1, <2>1, <3>1 DEF Unsent
      <4> QED
        BY <1>4, <4>1 DEF Unsent
    <3>2. CASE t # s
      <4>1. Copying(t)' = Copying(t)
        BY <1>6, <3>2
      <4>2. \A v \in Copying(t) : loc'[v] = loc[v] /\ pc'[v] = pc[v]
        BY <1>5 DEF Copying, CopyKinds
      <4> QED
        BY <1>4, <2>1, <4>1, <4>2 DEF Unsent
    <3> QED
      BY <3>1, <3>2
  <2> QED
    BY <1>4, <2>1 DEF UploadInv, FlagOK
<1>10. MediaOK'
  BY <1>2, <1>3, <1>4 DEF UploadInv, MediaOK, Besides
<1>11. /\ disturbed \subseteq disturbed' /\ \A u \in Songs \ disturbed' : u # s => ~Open(u)
       /\ s \notin disturbed' => Closing = {} /\ \A u \in Songs \ {s} : ~Open(u)
  BY <1>1, MeetsAlone DEF TypeOK
<1>12. UploadOK'
  <2> SUFFICES ASSUME NEW u \in Songs \ disturbed', Open(u)'
               PROVE  SoleOK(u)'
    BY DEF UploadOK
  <2>1. u = s
    BY <1>7, <1>11
  <2>2. Closing' = {} /\ \A t \in Songs \ {s} : ~Open(t)'
    BY <1>6, <1>7, <1>11, <2>1
  <2>3. mode # "mediafs" => StageOK(s, w)'
    <3>1. CASE copied[s] = 0
      <4>1. ~isWriting
        <5> SUFFICES ASSUME isWriting
                     PROVE  FALSE
          OBVIOUS
        <5>1. PICK t \in Songs : Unsent(t)
          BY DEF UploadInv, FlagOK
        <5>2. Open(t)
          BY <5>1 DEF Unsent, Open
        <5>3. t = s
          BY <1>11, <2>1, <5>2
        <5> QED
          BY <1>1, <3>1, <5>1, <5>3 DEF Unsent
      <4> QED
        BY <1>2, <1>4, <3>1, <4>1 DEF StageOK
    <3>2. CASE copied[s] # 0
      <4>1. copied[s] \in 1 .. NumChunks
        BY <1>1, <3>2, ServerAssumption DEF TypeOK
      <4>2. Open(s)
        BY <4>1 DEF Open
      <4>3. s \in Songs \ disturbed
        BY <1>11, <2>1
      <4>4. SoleOK(s)
        BY <4>2, <4>3 DEF UploadInv, UploadOK
      <4>5. mode # "mediafs" => isWriting /\ tmp = Copied(s, copied[s])
        BY <1>1, <4>4 DEF SoleOK
      <4> QED
        BY <1>2, <1>4, <3>2, <4>5 DEF StageOK, Copied
    <3> QED
      BY <3>1, <3>2
  <2> QED
    BY <1>4, <1>6, <2>1, <2>2, <2>3 DEF SoleOK
<1>13. AloneUploadsWhole'
  BY <1>4 DEF UploadInv, AloneUploadsWhole, Ids
<1> QED
  BY <1>8, <1>9, <1>10, <1>12, <1>13 DEF UploadInv

LEMMA FlushBegins ==
  ASSUME TypeOK, PlaceOK, UploadInv, NEW w \in Workers, StartFlush(w)
  PROVE  UploadInv'
<1> USE DEF files, history, world
<1>1. PICK s \in Songs : /\ copied[s] = NumChunks /\ Copying(s) = {}
                         /\ Start(w, "flush", s, 0, "flush")
                         /\ Meets(s) /\ copied' = [copied EXCEPT ![s] = NumChunks + 1]
  BY DEF StartFlush
<1>2. /\ pc[w] = "idle" /\ pc'[w] = "flush" /\ Others(w) /\ loc'[w].kind = "flush"
      /\ loc'[w].song = s
  <2>1. "flush" \in Kinds /\ s \in Names /\ 0 \in Nat
    BY DEF Kinds, Names, Titles
  <2> QED
    BY <1>1, <2>1, StartEffect
<1>3. loc[w].kind = "reload" /\ Besides(w)
  BY <1>2, OthersBesides DEF PlaceOK, SeatOK, Threads
<1>4. UNCHANGED <<mode, server, tmp, isWriting>> /\ copied'[s] = NumChunks + 1
      /\ \A t \in Songs : t # s => copied'[t] = copied[t]
  BY <1>1 DEF Start, TypeOK
<1>5. \A v \in Workers : loc[v].kind \in CopyKinds => v # w /\ pc'[v] = pc[v] /\ loc'[v] = loc[v]
  BY <1>3 DEF Besides, CopyKinds
<1>6. /\ \A t : t # s => Copying(t)' = Copying(t)
      /\ Copying(s)' = {w} /\ Closing' = Closing
  <2>1. \A v \in Workers : v # w => loc'[v].kind = loc[v].kind /\ loc'[v].song = loc[v].song
    BY <1>3 DEF Besides
  <2> QED
    BY <1>1, <1>2, <1>3, <2>1 DEF Copying, Closing
<1>7. \A t \in Songs : t # s => (Open(t)' <=> Open(t))
  BY <1>4, <1>6 DEF Open
<1>8. CopyOK'
  <2>1. \A v \in Workers : v # w /\ loc'[v].kind \in CopyKinds => loc[v].kind \in CopyKinds
    BY <1>3 DEF Besides
  <2>2. \A v \in Workers : v # w /\ loc'[v].kind \in {"write", "flush"} => loc'[v].song # s
    BY <1>1, <1>5, <2>1 DEF Copying, CopyKinds
  <2> QED
    BY <1>1, <1>2, <1>4, <1>5, <2>1, <2>2 DEF UploadInv, CopyOK, CopyKinds
<1>9. FlagOK'
  <2>1. ASSUME NEW t \in Songs, Unsent(t)
        PROVE  Unsent(t)'
    <3>1. CASE t = s
      BY <1>2, <1>6, <3>1 DEF Unsent
    <3>2. CASE t # s
      <4>1. Copying(t)' = Copying(t)
        BY <1>6, <3>2
      <4>2. \A v \in Copying(t) : loc'[v] = loc[v] /\ pc'[v] = pc[v]
        BY <1>5 DEF Copying, CopyKinds
      <4> QED
        BY <1>4, <2>1, <3>2, <4>1, <4>2 DEF Unsent
    <3> QED
      BY <3>1, <3>2
  <2> QED
    BY <1>4, <2>1 DEF UploadInv, FlagOK
<1>10. MediaOK'
  BY <1>2, <1>3, <1>4 DEF UploadInv, MediaOK, Besides
<1>11. /\ disturbed \subseteq disturbed' /\ \A u \in Songs \ disturbed' : u # s => ~Open(u)
       /\ s \notin disturbed' => Closing = {} /\ \A u \in Songs \ {s} : ~Open(u)
  BY <1>1, MeetsAlone DEF TypeOK
<1>12. UploadOK'
  <2> SUFFICES ASSUME NEW u \in Songs \ disturbed', Open(u)'
               PROVE  SoleOK(u)'
    BY DEF UploadOK
  <2>1. u = s
    BY <1>7, <1>11
  <2>2. Closing' = {} /\ \A t \in Songs \ {s} : ~Open(t)'
    BY <1>6, <1>7, <1>11, <2>1
  <2>3. mode # "mediafs" => StageOK(s, w)'
    <3>1. Open(s)
      BY <1>1, ServerAssumption DEF Open
    <3>2. s \in Songs \ disturbed
      BY <1>11, <2>1
    <3>3. SoleOK(s)
      BY <3>1, <3>2 DEF UploadInv, UploadOK
    <3>4. mode # "mediafs" => isWriting /\ tmp = Copied(s, copied[s])
      BY <1>1, <3>3 DEF SoleOK
    <3>5. mode # "mediafs" => isWriting /\ tmp = Copied(s, NumChunks)
      BY <1>1, <3>4
    <3>6. Copied(s, NumChunks)' = Copied(s, NumChunks)
      BY DEF Copied
    <3> QED
      BY <1>2, <1>4, <3>5, <3>6 DEF StageOK
  <2> QED
    BY <1>4, <1>6, <2>1, <2>2, <2>3 DEF SoleOK
<1>13. AloneUploadsWhole'
  BY <1>4 DEF UploadInv, AloneUploadsWhole, Ids
<1> QED
  BY <1>8, <1>9, <1>10, <1>12, <1>13 DEF UploadInv

LEMMA CloseBegins ==
  ASSUME TypeOK, PlaceOK, UploadInv, NEW w \in Workers, StartClose(w)
  PROVE  UploadInv'
<1> USE DEF files, history, world
<1>1. Start(w, "close", Untitled, 0, "flush") /\ Meets(Untitled) /\ UNCHANGED copied
  BY DEF StartClose
<1>2. /\ pc[w] = "idle" /\ pc'[w] = "flush" /\ Others(w) /\ loc'[w].kind = "close"
      /\ loc'[w].song = Untitled
  <2>1. "close" \in Kinds /\ Untitled \in Names /\ 0 \in Nat
    BY DEF Kinds, Names
  <2> QED
    BY <1>1, <2>1, StartEffect
<1>3. loc[w].kind = "reload" /\ Besides(w)
  BY <1>2, OthersBesides DEF PlaceOK, SeatOK, Threads
<1>4. UNCHANGED <<mode, server, tmp, isWriting, copied>>
  BY <1>1 DEF Start
<1>5. \A v \in Workers : loc[v].kind \in CopyKinds => v # w /\ pc'[v] = pc[v] /\ loc'[v] = loc[v]
  BY <1>3 DEF Besides, CopyKinds
<1>6. \A t : Copying(t)' = Copying(t)
  <2>1. \A v \in Workers : v # w => loc'[v].kind = loc[v].kind /\ loc'[v].song = loc[v].song
    BY <1>3 DEF Besides
  <2> QED
    BY <1>2, <1>3, <2>1 DEF Copying
<1>7. \A t : Open(t)' <=> Open(t)
  BY <1>4, <1>6 DEF Open
<1>8. CopyOK'
  <2>1. \A v \in Workers : v # w /\ loc'[v].kind \in CopyKinds => loc[v].kind \in CopyKinds
    BY <1>3 DEF Besides
  <2> QED
    BY <1>2, <1>4, <1>5, <2>1 DEF UploadInv, CopyOK, CopyKinds
<1>9. FlagOK'
  <2>1. ASSUME NEW t \in Songs, Unsent(t)
        PROVE  Unsent(t)'
    <3>1. \A v \in Copying(t) : loc'[v] = loc[v] /\ pc'[v] = pc[v]
      BY <1>5 DEF Copying, CopyKinds
    <3> QED
      BY <1>4, <1>6, <2>1, <3>1 DEF Unsent
  <2> QED
    BY <1>4, <2>1 DEF UploadInv, FlagOK
<1>10. MediaOK'
  BY <1>2, <1>3, <1>4 DEF UploadInv, MediaOK, Besides
<1>11. UploadOK'
  <2>1. \A u \in Songs \ disturbed' : ~Open(u)
    <3>1. Untitled \notin Songs
      BY ServerAssumption DEF Titles
    <3> QED
      BY <1>1, <3>1, MeetsAlone DEF TypeOK
  <2> QED
    BY <1>7, <2>1 DEF UploadOK
<1>12. AloneUploadsWhole'
  BY <1>4 DEF UploadInv, AloneUploadsWhole, Ids
<1> QED
  BY <1>8, <1>9, <1>10, <1>11, <1>12 DEF UploadInv

LEMMA DataWritten ==
  ASSUME TypeOK, PlaceOK, UploadInv, NEW w \in Workers, WriteData(w)
  PROVE  UploadInv'
<1> USE DEF files, history, world
<1>1. w \in Threads /\ loc[w] \in Locs /\ pc[w] = "wdata" /\ loc[w].kind = "write"
  BY DEF Threads, TypeOK, PlaceOK, SeatOK, WriteData
<1>2. PICK s \in Songs : s = loc[w].song
  BY <1>1 DEF UploadInv, CopyOK
<1>3. PICK n \in Nat : n = copied[s]
  BY ServerAssumption DEF TypeOK
<1>4. n < NumChunks /\ loc[w].off = n + 1
  BY <1>1, <1>2, <1>3 DEF UploadInv, CopyOK
<1>5. Others(w) /\ pc'[w] = "idle" /\ loc'[w].kind = "reload"
  BY <1>1, ReturnEffect, NoLocFields DEF WriteData, NoRequest
<1>6. Besides(w)
  BY <1>5, OthersBesides
<1>7. /\ UNCHANGED <<mode, server, isWriting, disturbed>>
      /\ copied'[s] = n + 1 /\ \A t \in Songs : t # s => copied'[t] = copied[t]
      /\ tmp' = Put(tmp, IF loc[w].how = "app" THEN Len(tmp) + 1 ELSE 1, Chunk(s, n + 1))
  BY <1>4, <1>2, <1>3 DEF WriteData, TypeOK
<1>8. w \in Copying(s)
  BY <1>1, <1>2 DEF Copying
<1>9. \A v \in Workers : loc'[v].kind \in CopyKinds => v # w /\ pc'[v] = pc[v] /\ loc'[v] = loc[v]
  BY <1>5, <1>6 DEF Besides, CopyKinds
<1>10. (\A t : Copying(t)' = Copying(t) \ {w}) /\ Closing' \subseteq Closing
  BY <1>5, <1>9, <1>6 DEF Copying, Closing, CopyKinds, Besides
<1>11. CopyOK'
  <2>1. \A v \in Workers : v # w /\ loc[v].kind \in {"write", "flush"} => loc[v].song \in Songs \ {s}
    BY <1>8 DEF UploadInv, CopyOK, Copying
  <2> QED
    BY <1>7, <1>9, <2>1 DEF UploadInv, CopyOK, CopyKinds
<1>12. FlagOK'
  <2>1. copied'[s] \in 1 .. NumChunks
    BY <1>4, <1>7, ServerAssumption
  <2>2. Unsent(s)'
    BY <2>1 DEF Unsent
  <2> QED
    BY <1>4, <2>2 DEF FlagOK
<1>13. MediaOK'
  BY <1>5, <1>6, <1>7 DEF UploadInv, MediaOK, Besides
<1>14. \A t \in Songs : Open(t)' => Open(t)
  <2>1. Open(s)
    BY <1>8 DEF Open
  <2> QED
    BY <1>7, <1>10, <2>1 DEF Open
<1>15. UploadOK'
  <2> SUFFICES ASSUME NEW u \in Songs \ disturbed, Open(u)'
               PROVE  SoleOK(u)'
    BY <1>7 DEF UploadOK
  <2>1. u = s /\ Copying(s) = {w} /\ SoleOK(s)
    BY <1>1, <1>14, <1>2, SoleCopier DEF UploadInv, CopyKinds
  <2>2. Closing' = {} /\ \A t \in Songs \ {s} : ~Open(t)'
    BY <1>10, <1>14, <2>1 DEF SoleOK
  <2>3. Copying(s)' = {}
    BY <1>10, <2>1
  <2>4. ASSUME mode # "mediafs"
        PROVE  isWriting /\ tmp' = Copied(s, n + 1)
    <3>1. StageOK(s, w)
      BY <2>1, <2>4 DEF SoleOK
    <3>2. isWriting /\ tmp = Copied(s, n) /\ loc[w].how = IF n = 0 THEN "trunc" ELSE "app"
      BY <1>1, <1>3, <3>1 DEF StageOK
    <3>3. Len(tmp) = n /\ Put(Copied(s, n), n + 1, Chunk(s, n + 1)) = Copied(s, n + 1)
      BY <1>4, <3>2, CopiedParts, ServerAssumption DEF Titles
    <3>4. (IF loc[w].how = "app" THEN Len(tmp) + 1 ELSE 1) = n + 1
      BY <1>4, <3>2, <3>3
    <3> QED
      BY <1>7, <3>2, <3>3, <3>4
  <2>5. mode' # "mediafs" => isWriting' /\ tmp' = Copied(s, copied'[s])
    BY <1>7, <2>4
  <2>6. s = u /\ (Copied(u, copied[u])' = Copied(u, copied'[u]))
    BY <2>1 DEF Copied
  <2> QED
    BY <2>1, <2>2, <2>3, <2>5, <2>6 DEF SoleOK
<1>16. AloneUploadsWhole'
  BY <1>7 DEF UploadInv, AloneUploadsWhole, Ids
<1> QED
  BY <1>11, <1>12, <1>13, <1>15, <1>16 DEF UploadInv

LEMMA NothingWritten ==
  ASSUME TypeOK, PlaceOK, UploadInv, NEW w \in Workers, MediaWrite(w)
  PROVE  UploadInv'
<1> USE DEF files, history, world
<1>1. w \in Threads /\ loc[w] \in Locs /\ pc[w] = "wopen" /\ loc[w].kind = "write" /\ mode = "mediafs"
  BY DEF Threads, TypeOK, PlaceOK, SeatOK, MediaWrite
<1>2. PICK s \in Songs : s = loc[w].song
  BY <1>1 DEF UploadInv, CopyOK
<1>3. Others(w) /\ pc'[w] = "idle" /\ loc'[w].kind = "reload"
  BY <1>1, ReturnEffect, NoLocFields DEF MediaWrite, NoRequest
<1>4. Besides(w)
  BY <1>3, OthersBesides
<1>5. /\ UNCHANGED <<mode, server, tmp, isWriting, disturbed>>
      /\ copied'[s] = NumChunks /\ \A t \in Songs : t # s => copied'[t] = copied[t]
  BY <1>2 DEF MediaWrite, TypeOK
<1>6. w \in Copying(s)
  BY <1>1, <1>2 DEF Copying
<1>7. \A v \in Workers : loc'[v].kind \in CopyKinds => v # w /\ pc'[v] = pc[v] /\ loc'[v] = loc[v]
  BY <1>3, <1>4 DEF Besides, CopyKinds
<1>8. (\A t : Copying(t)' = Copying(t) \ {w}) /\ Closing' \subseteq Closing
  BY <1>3, <1>7, <1>4 DEF Copying, Closing, CopyKinds, Besides
<1>9. CopyOK'
  <2>1. \A v \in Workers : v # w /\ loc[v].kind \in {"write", "flush"} => loc[v].song \in Songs \ {s}
    BY <1>6 DEF UploadInv, CopyOK, Copying
  <2> QED
    BY <1>5, <1>7, <2>1 DEF UploadInv, CopyOK, CopyKinds
<1>10. FlagOK'
  BY <1>1, <1>5 DEF UploadInv, MediaOK, FlagOK
<1>11. MediaOK'
  BY <1>3, <1>4, <1>5 DEF UploadInv, MediaOK, Besides
<1>12. \A t \in Songs : Open(t)' => Open(t)
  <2>1. Open(s)
    BY <1>6 DEF Open
  <2> QED
    BY <1>5, <1>8, <2>1 DEF Open
<1>13. UploadOK'
  <2> SUFFICES ASSUME NEW u \in Songs \ disturbed, Open(u)'
               PROVE  SoleOK(u)'
    BY <1>5 DEF UploadOK
  <2>1. u = s /\ Copying(s) = {w} /\ SoleOK(s)
    BY <1>1, <1>12, <1>2, SoleCopier DEF UploadInv, CopyKinds
  <2>2. Closing' = {} /\ \A t \in Songs \ {s} : ~Open(t)'
    BY <1>8, <1>12, <2>1 DEF SoleOK
  <2> QED
    BY <1>1, <1>5, <2>1, <2>2 DEF SoleOK
<1>14. AloneUploadsWhole'
  BY <1>5 DEF UploadInv, AloneUploadsWhole, Ids
<1> QED
  BY <1>9, <1>10, <1>11, <1>13, <1>14 DEF UploadInv

\* The upload: what the server gets is the whole of a copy that met nobody.
LEMMA Uploaded ==
  ASSUME TypeOK, IdsOK, PlaceOK, UploadInv, NEW w \in Workers, ServerCall(w),
         loc[w].kind \in {"flush", "close"}
  PROVE  UploadInv'
<1> USE DEF files, history, world
<1>1. w \in Threads
  BY DEF Threads
<1>2. /\ pc[w] = "call" /\ pc'[w] = "answer" /\ Others(w) /\ loc'[w].kind = "reload"
      /\ \A id \in Ids : server'[id] = server[id]
      /\ \/ UNCHANGED server
         \/ /\ Ids' = Ids \cup {Len(server) + 1} /\ Len(server) + 1 \notin Ids
            /\ server'[Len(server) + 1].by = loc[w].song
            /\ server'[Len(server) + 1].title = loc[w].how
            /\ server'[Len(server) + 1].size = loc[w].size
            /\ server'[Len(server) + 1].content = tmp
            /\ server'[Len(server) + 1].clean = (loc[w].song \in Songs \ disturbed)
  BY <1>1, CallEffect
<1>3. UNCHANGED <<mode, tmp, isWriting, copied, disturbed>>
  BY DEF ServerCall
<1>4. mode # "mediafs"
  BY <1>2 DEF UploadInv, MediaOK
<1>5. CopyOK' /\ FlagOK' /\ MediaOK' /\ UploadOK'
  BY <1>2, <1>3, <1>4, CopyLeaves, OthersBesides DEF CopyKinds
<1>6. ASSUME loc[w].song \in Songs \ disturbed
      PROVE  tmp = Content(loc[w].song) /\ loc[w].how = loc[w].song /\ loc[w].size = NumChunks
  <2> DEFINE s == loc[w].song
  <2>1. loc[w].kind = "flush"
    BY <1>6, ServerAssumption DEF UploadInv, CopyOK, Titles
  <2>2. w \in Copying(s)
    BY <2>1 DEF Copying
  <2>3. Open(s)
    BY <2>2 DEF Open
  <2>4. StageOK(s, w)
    BY <1>4, <1>6, <2>2, <2>3 DEF UploadInv, UploadOK, SoleOK
  <2>5. tmp = Copied(s, NumChunks) /\ loc[w].how = s /\ loc[w].size = NumChunks
    BY <1>2, <2>4 DEF StageOK
  <2>6. Copied(s, NumChunks) = Content(s)
    BY <1>6, CopiedParts, ServerAssumption DEF Titles
  <2> QED
    BY <2>5, <2>6
<1>7. AloneUploadsWhole'
  <2>1. CASE UNCHANGED server
    BY <2>1 DEF UploadInv, AloneUploadsWhole, Ids
  <2>2. CASE /\ Ids' = Ids \cup {Len(server) + 1} /\ Len(server) + 1 \notin Ids
             /\ server'[Len(server) + 1].by = loc[w].song
             /\ server'[Len(server) + 1].title = loc[w].how
             /\ server'[Len(server) + 1].size = loc[w].size
             /\ server'[Len(server) + 1].content = tmp
             /\ server'[Len(server) + 1].clean = (loc[w].song \in Songs \ disturbed)
    <3> SUFFICES ASSUME NEW id \in Ids', server'[id].clean
                 PROVE  /\ server'[id].content = Content(server'[id].by)
                        /\ server'[id].title = server'[id].by /\ server'[id].size = NumChunks
      BY DEF AloneUploadsWhole, Content
    <3>1. CASE id \in Ids
      BY <1>2, <3>1 DEF UploadInv, AloneUploadsWhole
    <3>2. CASE id = Len(server) + 1
      BY <1>6, <2>2, <3>2
    <3> QED
      BY <2>2, <3>1, <3>2
  <2> QED
    BY <1>2, <2>1, <2>2
<1> QED
  BY <1>5, <1>7 DEF UploadInv

LEMMA UploadStep ==
  ASSUME ServerAssumption, IInv, Next
  PROVE  UploadInv'
<1> USE DEF files, history, world
<1>1. TypeOK /\ IdsOK /\ PlaceOK /\ UploadInv
  BY DEF IInv, UploadInv
<1>2. /\ Updater \in Threads /\ Updater \notin Workers
      /\ \A w \in Workers : w \in Threads
      /\ \A p \in Threads : SeatOK(p)
      /\ \A p \in Threads : p \in Workers \/ (p = Updater /\ loc[p].kind = "reload")
  BY <1>1 DEF Threads, ServerAssumption, PlaceOK
<1>3. \A w \in Workers : mode = "mediafs" => pc[w] \notin {"trunc", "call", "answer", "parse", "wflag", "wdata"}
  BY <1>1 DEF UploadInv, MediaOK
<1>4. ASSUME NEW p \in Threads, Others(p),
             UNCHANGED <<mode, server, tmp, isWriting, copied, disturbed>>,
             p \in Workers => /\ loc[p].kind \notin CopyKinds /\ loc'[p].kind \notin CopyKinds
                              /\ mode = "mediafs" => pc'[p] \notin {"trunc", "call", "answer", "parse", "wflag", "wdata"}
      PROVE  UploadInv'
  BY <1>1, <1>4, CopyAside, OthersBesides
<1>5. ASSUME NEW p \in Threads, ShellTruncate(p) \/ ServerCallFails(p) \/ CurlAnswers(p)
      PROVE  UploadInv'
  <2>1. PICK l \in {"parse", "call", "none"} : Goto(p, l)
    BY <1>5 DEF ShellTruncate, ServerCallFails, CurlAnswers
  <2>2. Others(p) /\ pc'[p] = l /\ pc[p] \in {"trunc", "call", "answer"} /\ loc'[p] = loc[p]
    BY <1>5, <1>1, <2>1, StayEffect DEF ShellTruncate, ServerCallFails, CurlAnswers
  <2>3. UNCHANGED <<mode, server, tmp, isWriting, copied, disturbed>>
    BY <1>5 DEF ShellTruncate, ServerCallFails, CurlAnswers
  <2>4. CASE p \in Workers /\ loc[p].kind \in CopyKinds
    <3>1. loc[p].kind \in {"flush", "close"} /\ mode # "mediafs"
      BY <1>2, <1>3, <2>2, <2>4 DEF SeatOK, CopyKinds
    <3>2. pc[p] \in {"trunc", "call"}
      BY <1>2, <2>2, <3>1 DEF SeatOK
    <3>3. StageOK(loc[p].song, p) => StageOK(loc[p].song, p)'
      BY <2>2, <2>3, <3>2 DEF StageOK, Copied
    <3> QED
      BY <1>1, <2>2, <2>3, <2>4, <3>1, <3>2, <3>3, CopyGoesOn, OthersBesides
  <2>5. CASE p \in Workers => loc[p].kind \notin CopyKinds
    BY <1>2, <1>3, <1>4, <2>2, <2>3, <2>5
  <2> QED
    BY <2>4, <2>5
<1>6. ASSUME NEW p \in Threads, ServerCall(p)
      PROVE  UploadInv'
  <2>1. CASE loc[p].kind \in {"flush", "close"}
    BY <1>1, <1>2, <1>6, <2>1, Uploaded
  <2>2. CASE loc[p].kind \notin {"flush", "close"}
    <3>1. /\ pc[p] = "call" /\ Others(p) /\ loc'[p].kind = "reload" /\ UNCHANGED server
      BY <1>6, <1>1, <2>2, CallEffect
    <3>2. UNCHANGED <<mode, tmp, isWriting, copied, disturbed>>
      BY <1>6 DEF ServerCall
    <3>3. loc[p].kind \notin CopyKinds
      BY <1>2, <2>2, <3>1 DEF SeatOK, CopyKinds
    <3>4. p \in Workers => mode # "mediafs"
      BY <1>3, <3>1
    <3> QED
      BY <1>4, <3>1, <3>2, <3>3, <3>4 DEF CopyKinds
  <2> QED
    BY <2>1, <2>2
<1>7. ASSUME NEW p \in Threads, ReloadParse(p)
      PROVE  UploadInv'
  <2>1. /\ pc[p] = "parse" /\ pc'[p] \in {"idle", "none", "sleep"} /\ loc'[p] = NoLoc
        /\ \A q \in Threads \ {p} :
             /\ pc'[q] = pc[q] /\ (pc[q] # "walk" => loc'[q] = loc[q])
             /\ loc'[q].kind = loc[q].kind /\ loc'[q].song = loc[q].song
    BY <1>7, <1>1, ParseEffect
  <2>2. UNCHANGED <<mode, server, tmp, isWriting, copied, disturbed>>
    BY <1>7 DEF ReloadParse
  <2>3. loc'[p].kind = "reload" /\ "reload" \notin CopyKinds
    BY <2>1, NoLocFields DEF CopyKinds
  <2>4. \A v \in Workers : loc[v].kind \in CopyKinds => pc[v] # "walk"
    BY <1>2 DEF SeatOK, CopyKinds
  <2>5. Besides(p)
    BY <1>2, <2>1, <2>4 DEF Besides
  <2>6. CASE p \in Workers /\ loc[p].kind \in CopyKinds
    <3>1. loc[p].kind \in {"flush", "close"}
      BY <1>2, <2>1, <2>6 DEF SeatOK, CopyKinds
    <3>2. CopyOK' /\ FlagOK' /\ MediaOK' /\ UploadOK'
      BY <1>1, <2>1, <2>2, <2>3, <2>5, <2>6, <3>1, CopyLeaves
    <3>3. AloneUploadsWhole'
      BY <1>1, <2>2 DEF UploadInv, AloneUploadsWhole, Ids
    <3> QED
      BY <3>2, <3>3 DEF UploadInv
  <2>7. CASE p \in Workers => loc[p].kind \notin CopyKinds
    BY <1>1, <2>1, <2>2, <2>3, <2>5, <2>7, CopyAside
  <2> QED
    BY <2>6, <2>7
<1>8. CASE UpdaterWakes
  <2>1. Others(Updater)
    BY <1>8, <1>1, <1>2, StayEffect DEF UpdaterWakes
  <2> QED
    BY <1>8, <1>2, <1>4, <2>1 DEF UpdaterWakes
<1>9. ASSUME NEW w \in Workers, StartRead(w) \/ StartUnlink(w)
      PROVE  UploadInv'
  <2>1. /\ Others(w) /\ UNCHANGED <<mode, server, tmp, isWriting>> /\ pc[w] = "idle"
        /\ pc'[w] \in {"walk", "wopen", "flush"}
    BY <1>9, <1>1, BeginEffect
  <2>2. loc'[w].kind \in {"read", "unlink"}
    <3>1. Listed \subseteq Names
      BY <1>1, ServerFields DEF Listed, IdsOK
    <3>2. PICK k \in {"read", "unlink"} : \E t \in Listed : Start(w, k, t, 0, "walk")
      BY <1>9 DEF StartRead, StartUnlink
    <3>3. PICK t \in Listed : Start(w, k, t, 0, "walk")
      BY <3>2
    <3>4. t \in Names /\ 0 \in Nat /\ k \in Kinds
      BY <3>1 DEF Kinds
    <3> QED
      BY <1>1, <3>3, <3>4, StartEffect
  <2>3. UNCHANGED <<copied, disturbed>>
    BY <1>9 DEF StartRead, StartUnlink
  <2>4. loc[w].kind = "reload"
    BY <1>2, <2>1 DEF SeatOK
  <2> QED
    BY <1>2, <1>4, <2>1, <2>2, <2>3, <2>4 DEF CopyKinds
<1>10. ASSUME NEW w \in Workers, ReadFindsId(w) \/ UnlinkFindsId(w)
      PROVE  UploadInv'
  <2>1. /\ Others(w) /\ loc[w].kind \in {"read", "unlink"} /\ loc'[w].kind \in {"read", "unlink", "reload"}
        /\ pc'[w] \in {"open", "idle"} \/ (pc'[w] = "trunc" /\ mode # "mediafs")
    BY <1>10, <1>1, ReadFindsIdEffect, UnlinkFindsIdEffect, NoLocFields DEF NoRequest
  <2> QED
    BY <1>10, <1>2, <1>4, <2>1 DEF ReadFindsId, UnlinkFindsId, CopyKinds
<1>11. ASSUME NEW w \in Workers, WalkCrashes(w)
      PROVE  UploadInv'
  <2>1. Others(w) /\ loc'[w] = loc[w] /\ pc'[w] = "walk" /\ pc[w] = "walk"
    BY <1>11 DEF WalkCrashes, Others
  <2>2. loc[w].kind \notin CopyKinds
    BY <1>2, <2>1 DEF SeatOK, CopyKinds
  <2> QED
    BY <1>11, <1>2, <1>4, <2>1, <2>2 DEF WalkCrashes
<1>12. ASSUME NEW w \in Workers,
              CacheOpen(w) \/ FetchTruncate(w) \/ FetchChunk(w) \/ FetchEnds(w) \/ FetchFails(w)
              \/ ReadFile(w) \/ ReadReturns(w)
      PROVE  UploadInv'
  <2>1. pc[w] \in {"open", "fetch", "curl", "read", "reply"}
    BY <1>12 DEF CacheOpen, FetchTruncate, FetchChunk, FetchEnds, FetchFails, ReadFile, ReadReturns
  <2>2. loc[w].kind = "read"
    BY <1>2, <2>1 DEF SeatOK
  <2>3. Others(w) /\ loc'[w].kind \in {"read", "reload"}
        /\ pc'[w] \in {"fetch", "curl", "read", "reply", "idle"}
    <3>1. CASE CacheOpen(w)
      <4>1. PICK l \in {"read", "fetch"} : Goto(w, l)
        BY <3>1 DEF CacheOpen
      <4> QED
        BY <1>1, <1>2, <2>2, <3>1, <4>1, StayEffect DEF CacheOpen
    <3>2. CASE ReadReturns(w)
      BY <1>1, <1>2, <3>2, ReturnEffect, NoLocFields DEF ReadReturns, NoRequest
    <3>3. CASE FetchTruncate(w)
      BY <1>1, <2>2, <3>3, FetchTruncateEffect DEF Keeps
    <3>4. CASE FetchChunk(w)
      BY <1>1, <2>2, <3>4, FetchChunkEffect DEF Keeps
    <3>5. CASE FetchEnds(w)
      BY <1>1, <2>2, <3>5, FetchEndsEffect DEF Keeps
    <3>6. CASE FetchFails(w)
      BY <1>1, <2>2, <3>6, FetchFailsEffect, NoLocFields DEF Keeps, NoRequest
    <3>7. CASE ReadFile(w)
      BY <1>1, <2>2, <3>7, ReadFileEffect DEF Keeps
    <3> QED
      BY <1>12, <3>1, <3>2, <3>3, <3>4, <3>5, <3>6, <3>7
  <2>4. UNCHANGED <<mode, server, tmp, isWriting, copied, disturbed>>
    BY <1>12 DEF CacheOpen, FetchTruncate, FetchChunk, FetchEnds, FetchFails, ReadFile, ReadReturns
  <2> QED
    BY <1>2, <1>4, <2>2, <2>3, <2>4 DEF CopyKinds
<1>13. ASSUME NEW w \in Workers, WriteOpen(w)
      PROVE  UploadInv'
  <2>1. pc[w] = "wopen" /\ pc'[w] = "wflag" /\ Others(w) /\ Keeps(w) /\ loc'[w].off = loc[w].off
        /\ loc'[w].how = (IF isWriting THEN "app" ELSE "trunc")
    BY <1>1, <1>13, WriteOpenEffect
  <2>2. UNCHANGED <<mode, server, isWriting, copied, disturbed>> /\ mode # "mediafs"
        /\ tmp' = IF isWriting THEN tmp ELSE <<>>
    BY <1>13 DEF WriteOpen
  <2>3. loc[w].kind = "write"
    BY <1>2, <2>1 DEF SeatOK
  <2>4. ASSUME loc[w].song \in Songs, StageOK(loc[w].song, w)
        PROVE  StageOK(loc[w].song, w)'
    <3> DEFINE s == loc[w].song
    <3>1. Copied(s, 0) = <<>>
      BY <2>4, CopiedParts, ServerAssumption DEF Titles
    <3>2. IF copied[s] = 0 THEN ~isWriting ELSE isWriting /\ tmp = Copied(s, copied[s])
      BY <2>1, <2>4 DEF StageOK
    <3>3. /\ tmp' = Copied(s, copied[s])
          /\ loc'[w].how = IF copied[s] = 0 THEN "trunc" ELSE "app"
      BY <2>1, <2>2, <3>1, <3>2
    <3>4. loc'[w].song = s /\ copied' = copied
      BY <2>1, <2>2 DEF Keeps
    <3>5. Copied(s, copied[s])' = Copied(loc'[w].song, copied'[loc'[w].song])
      BY DEF Copied
    <3> QED
      BY <2>1, <2>2, <3>3, <3>4, <3>5 DEF StageOK
  <2> QED
    BY <1>1, <2>1, <2>2, <2>3, <2>4, CopyGoesOn, OthersBesides DEF Keeps, CopyKinds
<1>14. ASSUME NEW w \in Workers, WriteFlag(w)
      PROVE  UploadInv'
  <2>1. Others(w) /\ pc'[w] = "wdata" /\ pc[w] = "wflag" /\ loc'[w] = loc[w]
    BY <1>14, <1>1, <1>2, StayEffect DEF WriteFlag
  <2>2. UNCHANGED <<mode, server, tmp, copied, disturbed>> /\ mode # "mediafs" /\ isWriting'
    BY <1>3, <1>14, <2>1 DEF WriteFlag
  <2>3. loc[w].kind = "write"
    BY <1>2, <2>1 DEF SeatOK
  <2>4. StageOK(loc[w].song, w) => StageOK(loc[w].song, w)'
    BY <2>1, <2>2 DEF StageOK, Copied
  <2> QED
    BY <1>1, <2>1, <2>2, <2>3, <2>4, CopyGoesOn, OthersBesides DEF CopyKinds
<1>15. ASSUME NEW w \in Workers, FlushNothing(w)
      PROVE  UploadInv'
  <2>1. Others(w) /\ pc[w] = "flush" /\ pc'[w] = "idle" /\ loc'[w].kind = "reload"
    BY <1>15, <1>1, <1>2, ReturnEffect, NoLocFields DEF FlushNothing, NoRequest
  <2>2. UNCHANGED <<mode, server, tmp, isWriting, copied, disturbed>> /\ ~isWriting
    BY <1>15 DEF FlushNothing
  <2>3. loc[w].kind \in {"flush", "close"}
    BY <1>2, <2>1 DEF SeatOK
  <2>4. CopyOK' /\ FlagOK' /\ MediaOK' /\ UploadOK'
    BY <1>1, <2>1, <2>2, <2>3, CopyLeaves, OthersBesides DEF CopyKinds
  <2>5. AloneUploadsWhole'
    BY <1>1, <2>2 DEF UploadInv, AloneUploadsWhole, Ids
  <2> QED
    BY <2>4, <2>5 DEF UploadInv
<1>16. ASSUME NEW w \in Workers, FlushUpload(w)
      PROVE  UploadInv'
  <2>1. pc[w] = "flush" /\ pc'[w] = "trunc" /\ Others(w) /\ Keeps(w) /\ loc'[w].off = loc[w].off
        /\ loc'[w].how = Title(tmp) /\ loc'[w].size = Len(tmp)
    BY <1>1, <1>16, FlushUploadEffect
  <2>2. UNCHANGED <<mode, server, tmp, copied, disturbed>> /\ isWriting /\ ~isWriting'
    BY <1>16 DEF FlushUpload
  <2>3. loc[w].kind \in {"flush", "close"} /\ mode # "mediafs"
    BY <1>1, <1>2, <2>1, <2>2 DEF SeatOK, UploadInv, MediaOK
  <2>4. ASSUME loc[w].song \in Songs, StageOK(loc[w].song, w)
        PROVE  StageOK(loc[w].song, w)'
    <3> DEFINE s == loc[w].song
    <3>1. Title(Copied(s, NumChunks)) = s /\ Len(Copied(s, NumChunks)) = NumChunks
      BY <2>4, CopiedParts, ServerAssumption DEF Titles
    <3>2. tmp = Copied(s, NumChunks)
      BY <2>1, <2>4 DEF StageOK
    <3>3. loc'[w].song = s
      BY <2>1 DEF Keeps
    <3>4. Copied(s, NumChunks)' = Copied(loc'[w].song, NumChunks)
      BY DEF Copied
    <3>5. /\ tmp' = Copied(loc'[w].song, NumChunks) /\ loc'[w].how = loc'[w].song
          /\ loc'[w].size = NumChunks
      BY <2>1, <2>2, <3>1, <3>2, <3>3
    <3> QED
      BY <2>1, <3>4, <3>5 DEF StageOK
  <2> QED
    BY <1>1, <2>1, <2>2, <2>3, <2>4, CopyGoesOn, OthersBesides DEF Keeps, CopyKinds
<1>17. ASSUME NEW w \in Workers, StartWrite(w) \/ StartFlush(w) \/ StartClose(w)
      PROVE  UploadInv'
  BY <1>1, <1>17, WriteBegins, FlushBegins, CloseBegins
<1>18. ASSUME NEW w \in Workers, WriteData(w) \/ MediaWrite(w)
      PROVE  UploadInv'
  BY <1>1, <1>18, DataWritten, NothingWritten
<1> QED
  BY <1>5, <1>6, <1>7, <1>8, <1>9, <1>10, <1>11, <1>12, <1>13, <1>14, <1>15, <1>16, <1>17, <1>18, ActionCases
-----------------------------------------------------------------------------
(* The title asked for. *)

\* A read whose walk met no reload has the id of a song with the title it asked
\* for, and keeps it as long as the server has the song.
Asks(w) ==
  /\ pc[w] \in {"open", "fetch", "curl", "read", "reply"} /\ ~loc[w].torn /\ loc[w].id # NoId
       => server[loc[w].id].title = loc[w].song
  /\ pc[w] = "reply" => loc[w].off \in 1 .. NumChunks
AskedOK == \A w \in Workers : Asks(w)

\* What a walk finds that met no reload has the title.
LEMMA FoundHasTitle ==
  ASSUME TypeOK, IdsOK, NEW w \in Threads, ~loc[w].torn, NEW id \in Found(w), id # NoId
  PROVE  server[id].title = loc[w].song
<1>1. meta \in SUBSET Nat
  BY ServerFields DEF IdsOK
<1> DEFINE path == PathOf(loc[w].song)
<1>2. /\ path[1] = Plain("Genres") /\ path[2] = Plain("all") /\ "Genres" \in MusicGroupings
      /\ path[3].stem = loc[w].song
  BY DEF PathOf, Mp3, MusicGroupings
<1>3. id = getSongId(TreeOf(meta), path)
  BY DEF Found
<1> HIDE DEF path
<1>4. IF Having(meta, path) = {} THEN getSongId(TreeOf(meta), path) = NoId
      ELSE /\ getSongId(TreeOf(meta), path) = First(Having(meta, path))
           /\ First(Having(meta, path)) \in Having(meta, path)
  BY <1>1, <1>2, IdFound
<1>5. id \in Having(meta, path)
  BY <1>3, <1>4
<1> QED
  BY <1>2, <1>5 DEF Having

LEMMA AskedStep ==
  ASSUME ServerAssumption, IInv, AskedOK, Next
  PROVE  AskedOK'
<1> USE DEF files, history, world
<1>1. TypeOK /\ IdsOK
  BY DEF IInv
<1>2. /\ \A w \in Workers : w \in Threads /\ Asks(w)
      /\ \A p \in Threads : loc[p].id \in Ids \cup {NoId}
  BY <1>1 DEF Threads, AskedOK, IdsOK, IdOK
<1> DEFINE Keep == \A id \in Ids : server'[id] = server[id]
           Reads == {"open", "fetch", "curl", "read", "reply"}
<1>3. ASSUME NEW w \in Threads, Others(w), Keep, w \in Workers => Asks(w)'
      PROVE  AskedOK'
  <2> SUFFICES ASSUME NEW v \in Workers \ {w}
               PROVE  Asks(v)'
    BY <1>3 DEF AskedOK
  <2>1. pc'[v] = pc[v] /\ loc'[v] = loc[v]
    BY <1>2, <1>3 DEF Others
  <2>2. loc[v].id # NoId => server'[loc[v].id] = server[loc[v].id]
    BY <1>2, <1>3
  <2> QED
    BY <1>2, <2>1, <2>2 DEF Asks
<1>4. ASSUME NEW w \in Threads, Others(w), Keep, pc'[w] \notin Reads
      PROVE  AskedOK'
  BY <1>3, <1>4 DEF Asks
<1>5. ASSUME NEW w \in Workers, Others(w), Keep, pc[w] \in Reads,
             loc'[w].id = loc[w].id, loc'[w].song = loc[w].song, loc[w].torn => loc'[w].torn,
             pc'[w] = "reply" => loc'[w].off \in 1 .. NumChunks
      PROVE  AskedOK'
  <2>1. loc[w].id # NoId => server'[loc[w].id] = server[loc[w].id]
    BY <1>2, <1>5
  <2>2. Asks(w)'
    BY <1>2, <1>5, <2>1 DEF Asks
  <2> QED
    BY <1>2, <1>3, <1>5, <2>2
<1>6. UNCHANGED server => Keep
  OBVIOUS
<1> HIDE DEF Keep
<1>7. ASSUME NEW p \in Threads, ShellTruncate(p) \/ ServerCallFails(p) \/ CurlAnswers(p)
      PROVE  AskedOK'
  <2>1. PICK l \in {"parse", "call", "none"} : Goto(p, l)
    BY <1>7 DEF ShellTruncate, ServerCallFails, CurlAnswers
  <2>2. Others(p) /\ pc'[p] \in {"parse", "call", "none"}
    BY <1>7, <1>1, <2>1, StayEffect DEF ShellTruncate, ServerCallFails, CurlAnswers
  <2>3. UNCHANGED server
    BY <1>7 DEF ShellTruncate, ServerCallFails, CurlAnswers
  <2> QED
    BY <1>4, <1>6, <2>2, <2>3
<1>8. ASSUME NEW p \in Threads, ServerCall(p)
      PROVE  AskedOK'
  <2>1. pc'[p] = "answer" /\ Others(p) /\ Keep
    BY <1>8, <1>1, CallEffect DEF Keep
  <2> QED
    BY <1>4, <2>1
<1>9. ASSUME NEW p \in Threads, ReloadParse(p)
      PROVE  AskedOK'
  <2>1. /\ pc'[p] \in {"idle", "none", "sleep"}
        /\ \A q \in Threads \ {p} : pc'[q] = pc[q] /\ (pc[q] # "walk" => loc'[q] = loc[q])
    BY <1>9, <1>1, ParseEffect
  <2>2. UNCHANGED server
    BY <1>9 DEF ReloadParse
  <2> SUFFICES ASSUME NEW v \in Workers
               PROVE  Asks(v)'
    BY DEF AskedOK
  <2> QED
    BY <1>2, <2>1, <2>2 DEF Asks
<1>10. CASE UpdaterWakes
  <2>1. Updater \in Threads /\ Others(Updater) /\ pc'[Updater] = "trunc"
    BY <1>10, <1>1, StayEffect DEF UpdaterWakes, Threads
  <2> QED
    BY <1>10, <1>4, <1>6, <2>1 DEF UpdaterWakes
<1>11. ASSUME NEW w \in Workers,
              StartRead(w) \/ StartUnlink(w) \/ StartWrite(w) \/ StartFlush(w) \/ StartClose(w)
       PROVE  AskedOK'
  <2>1. Others(w) /\ UNCHANGED server /\ pc'[w] \in {"walk", "wopen", "flush"}
    BY <1>11, <1>1, BeginEffect
  <2> QED
    BY <1>2, <1>4, <1>6, <2>1
<1>12. ASSUME NEW w \in Workers, ReadFindsId(w)
       PROVE  AskedOK'
  <2>1. /\ pc'[w] = "open" /\ Others(w) /\ loc'[w].song = loc[w].song
        /\ loc'[w].torn = loc[w].torn /\ loc'[w].id \in Found(w)
    BY <1>12, <1>1, ReadFindsIdEffect
  <2>2. UNCHANGED server
    BY <1>12 DEF ReadFindsId
  <2>3. ~loc'[w].torn /\ loc'[w].id # NoId => server[loc'[w].id].title = loc[w].song
    BY <1>1, <1>2, <2>1, FoundHasTitle
  <2>4. Asks(w)'
    BY <2>1, <2>2, <2>3 DEF Asks
  <2> QED
    BY <1>2, <1>3, <1>6, <2>1, <2>2, <2>4
<1>13. ASSUME NEW w \in Workers, UnlinkFindsId(w) \/ WriteOpen(w) \/ FlushUpload(w)
       PROVE  AskedOK'
  <2>1. Others(w) /\ pc'[w] \in {"idle", "trunc", "wflag"}
    BY <1>13, <1>1, UnlinkFindsIdEffect, WriteOpenEffect, FlushUploadEffect DEF NoRequest
  <2>2. UNCHANGED server
    BY <1>13 DEF UnlinkFindsId, WriteOpen, FlushUpload
  <2> QED
    BY <1>2, <1>4, <1>6, <2>1, <2>2
<1>14. ASSUME NEW w \in Workers, WalkCrashes(w)
       PROVE  AskedOK'
  BY <1>14, <1>2 DEF WalkCrashes, AskedOK, Asks
<1>15. ASSUME NEW w \in Workers, CacheOpen(w)
       PROVE  AskedOK'
  <2>1. PICK l \in {"read", "fetch"} : Goto(w, l)
    BY <1>15 DEF CacheOpen
  <2>2. Others(w) /\ loc'[w] = loc[w] /\ pc'[w] = l /\ pc[w] = "open" /\ UNCHANGED server
    BY <1>15, <1>1, <1>2, <2>1, StayEffect DEF CacheOpen
  <2> QED
    BY <1>5, <1>6, <2>2
<1>16. ASSUME NEW w \in Workers, WriteFlag(w)
       PROVE  AskedOK'
  <2>1. Others(w) /\ pc'[w] = "wdata" /\ UNCHANGED server
    BY <1>16, <1>1, <1>2, StayEffect DEF WriteFlag
  <2> QED
    BY <1>2, <1>4, <1>6, <2>1
<1>17. ASSUME NEW w \in Workers, ReadReturns(w) \/ WriteData(w) \/ MediaWrite(w) \/ FlushNothing(w)
       PROVE  AskedOK'
  <2>1. Others(w) /\ pc'[w] = "idle"
    BY <1>17, <1>1, <1>2, ReturnEffect DEF ReadReturns, WriteData, MediaWrite, FlushNothing, NoRequest
  <2>2. UNCHANGED server
    BY <1>17 DEF ReadReturns, WriteData, MediaWrite, FlushNothing
  <2> QED
    BY <1>2, <1>4, <1>6, <2>1, <2>2
<1>18. ASSUME NEW w \in Workers, FetchTruncate(w) \/ FetchChunk(w) \/ FetchEnds(w)
       PROVE  AskedOK'
  <2>1. Others(w) /\ Keeps(w) /\ loc'[w].torn = loc[w].torn
        /\ pc[w] \in {"fetch", "curl"} /\ pc'[w] \in {"curl", "read"}
    BY <1>18, <1>1, FetchTruncateEffect, FetchChunkEffect, FetchEndsEffect
  <2>2. UNCHANGED server
    BY <1>18 DEF FetchTruncate, FetchChunk, FetchEnds
  <2> QED
    BY <1>5, <1>6, <2>1, <2>2 DEF Keeps
<1>19. ASSUME NEW w \in Workers, FetchFails(w)
       PROVE  AskedOK'
  <2>1. pc[w] = "curl" /\ Others(w) /\ UNCHANGED server
    BY <1>19, <1>1, FetchFailsEffect DEF FetchFails
  <2>2. CASE NoRequest(w)
    BY <1>2, <1>4, <1>6, <2>1, <2>2 DEF NoRequest
  <2>3. CASE pc'[w] = "read" /\ Keeps(w) /\ loc'[w].torn = loc[w].torn
    BY <1>5, <1>6, <2>1, <2>3 DEF Keeps
  <2> QED
    BY <1>19, <1>1, <2>2, <2>3, FetchFailsEffect
<1>20. ASSUME NEW w \in Workers, ReadFile(w)
       PROVE  AskedOK'
  <2>1. /\ pc[w] = "read" /\ pc'[w] = "reply" /\ Others(w) /\ Keeps(w)
        /\ loc'[w].off \in 1 .. NumChunks /\ (loc[w].torn => loc'[w].torn)
    BY <1>20, <1>1, ReadFileEffect
  <2>2. UNCHANGED server
    BY <1>20 DEF ReadFile
  <2> QED
    BY <1>5, <1>6, <2>1, <2>2 DEF Keeps
<1> QED
  BY <1>7, <1>8, <1>9, <1>10, <1>11, <1>12, <1>13, <1>14, <1>15, <1>16, <1>17, <1>18, <1>19, <1>20, ActionCases

LEMMA WholeReads ==
  ASSUME IInv, AskedOK
  PROVE  ReadWhole
<1> SUFFICES ASSUME NEW w \in Workers, pc[w] = "reply", ~loc[w].torn,
                    loc[w].id \notin spoiled \cup gone \cup {NoId}
             PROVE  LET found == server[loc[w].id] IN
                      /\ found.title = loc[w].song
                      /\ loc[w].off > Len(found.content) \/ loc[w].got = found.content[loc[w].off]
                      /\ found.clean => loc[w].got = Chunk(loc[w].song, loc[w].off)
  BY DEF ReadWhole
<1> DEFINE found == server[loc[w].id]
<1>1. w \in Threads
  BY DEF Threads
<1>2. loc[w].id \in Ids \ (spoiled \cup gone)
  BY <1>1 DEF IInv, IdsOK, IdOK
<1>3. DownloadOK(loc[w].id, w)
  BY <1>2 DEF IInv, CacheOK, CacheAt
<1>4. found.title = loc[w].song /\ loc[w].off \in 1 .. NumChunks
  BY DEF AskedOK, Asks
<1>5. loc[w].off > Len(found.content) \/ loc[w].got = found.content[loc[w].off]
  BY <1>3 DEF DownloadOK
<1>6. ASSUME found.clean
      PROVE  loc[w].got = Chunk(loc[w].song, loc[w].off)
  <2>1. found.content = Content(loc[w].song)
    BY <1>2, <1>4, <1>6 DEF IInv, AloneUploadsWhole
  <2>2. Len(found.content) = NumChunks /\ found.content[loc[w].off] = Chunk(loc[w].song, loc[w].off)
    BY <1>4, <2>1, ContentOf
  <2>3. ~(loc[w].off > NumChunks)
    BY <1>4, ServerAssumption
  <2> HIDE DEF found
  <2> QED
    BY <1>5, <2>2, <2>3
<1> QED
  BY <1>4, <1>5, <1>6
-----------------------------------------------------------------------------
(* The theorems. *)

LEMMA Begins ==
  ASSUME Init
  PROVE  IInv
<1>1. /\ mode \in {"foreground", "daemon", "mediafs"}
      /\ gone = {} /\ meta \in {{}, Library} /\ mfile = Json("absent", {})
      /\ cache = [id \in {} |-> <<>>] /\ tmp = <<>> /\ isWriting = FALSE
      /\ disturbed = {} /\ copied = [s \in Songs |-> 0]
      /\ loc = [p \in Threads |-> NoLoc]
  BY ServerAssumption DEF Init
<1>2. /\ \A p \in Threads : /\ loc[p] = NoLoc /\ pc[p] \in {"idle", "none", "sleep"}
                            /\ loc[p].kind = "reload" /\ loc[p].resp = {} /\ loc[p].id = NoId
      /\ pc \in [Threads -> Places] /\ loc \in [Threads -> Locs]
  BY <1>1, NoLocFields DEF Init, Places
<1> DEFINE e == [title |-> OldSong, size |-> NumChunks, content |-> Content(OldSong),
                 by |-> OldSong, clean |-> TRUE]
<1>3. e \in Entries /\ e.content = Content(e.by) /\ e.title = e.by /\ e.size = NumChunks
  <2>1. OldSong \in Titles /\ OldSong \in Names
    BY DEF Titles, Names
  <2>2. Content(OldSong) \in Seq(ChunkSet)
    BY <2>1, CopiedParts, ServerAssumption
  <2> QED
    BY <2>1, <2>2, ServerAssumption DEF Entries
<1>4. server = << e >>
  BY DEF Init
<1> HIDE DEF e
<1>5. server \in Seq(Entries) /\ Len(server) = 1 /\ server[1] = e
  BY <1>3, <1>4
<1>6. Ids = {1} /\ Library = {1}
  BY <1>1, <1>5 DEF Ids, Library
<1>7. TypeOK
  <2>1. cache \in [DOMAIN cache -> Seq(ChunkSet)] /\ tmp \in Seq(ChunkSet)
    BY <1>1
  <2>2. mfile \in [st : {"absent", "empty", "json", "bad"}, ids : SUBSET Nat]
    BY <1>1 DEF Json
  <2>3. copied \in [Songs -> 0 .. NumChunks + 1]
    BY <1>1, ServerAssumption
  <2> QED
    BY <1>1, <1>2, <1>5, <2>1, <2>2, <2>3 DEF TypeOK
<1>8. IdsOK
  BY <1>1, <1>2, <1>6 DEF IdsOK, IdOK, Json
<1>9. PlaceOK
  BY <1>2 DEF PlaceOK, SeatOK, Threads
<1>10. ReloadOK
  BY <1>1, <1>2 DEF ReloadOK, AloneOK, Past, Json
<1>11. StoredOK
  BY <1>2 DEF StoredOK, Threads
<1>12. CacheOK
  <2>1. \A w \in Workers : pc[w] \notin {"fetch", "curl", "reply"}
    BY <1>2 DEF Threads
  <2> QED
    BY <1>1, <2>1 DEF CacheOK, CacheAt, DownloadOK, Fetching
<1>13. CopyOK /\ MediaOK /\ FlagOK
  BY <1>1, <1>2 DEF CopyOK, MediaOK, FlagOK, Threads
<1>14. UploadOK
  <2>1. \A s \in Songs : Copying(s) = {} /\ copied[s] \notin 1 .. NumChunks
    BY <1>1, <1>2 DEF Copying, Threads
  <2> QED
    BY <2>1 DEF UploadOK, Open
<1>15. AloneUploadsWhole
  BY <1>3, <1>5, <1>6 DEF AloneUploadsWhole
<1> QED
  BY <1>7, <1>8, <1>9, <1>10, <1>11, <1>12, <1>13, <1>14, <1>15 DEF IInv

\* Whatever the workers and the updater do at the same time: what each thread
\* remembers, metadata.json, the download cache, tmp.mp3 and the server's songs
\* fit together as IInv says (main.cpp).
THEOREM Invariance == Spec => []IInv
<1>1. Init => IInv
  BY Begins
<1>2. IInv /\ [Next]_vars => IInv'
  <2> SUFFICES ASSUME IInv, [Next]_vars
               PROVE  IInv'
    OBVIOUS
  <2>1. CASE Next
    <3>1. TypeOK' /\ IdsOK' /\ PlaceOK' /\ ReloadOK' /\ StoredOK' /\ CacheOK' /\ UploadInv'
      BY <2>1, ServerAssumption, TypeStep, IdsStep, PlaceStep, ReloadStep, StoredStep, CacheStep, UploadStep
    <3> QED
      BY <3>1 DEF IInv, UploadInv
  <2>2. CASE UNCHANGED vars
    <3> USE <2>2 DEF vars, files, history, world
    <3>1. TypeOK' /\ IdsOK' /\ PlaceOK' /\ StoredOK'
      BY DEF IInv, TypeOK, IdsOK, IdOK, Ids, PlaceOK, SeatOK, StoredOK
    <3>2. ReloadOK'
      BY DEF IInv, ReloadOK, AloneOK, Past, Library, Ids
    <3>3. CacheOK'
      BY DEF IInv, CacheOK, CacheAt, DownloadOK, Fetching, Part, Ids
    <3>4. CopyOK' /\ FlagOK' /\ MediaOK' /\ AloneUploadsWhole'
      BY DEF IInv, CopyOK, FlagOK, Unsent, Copying, MediaOK, AloneUploadsWhole, Ids
    <3>5. UploadOK'
      BY DEF IInv, UploadOK, Open, SoleOK, StageOK, Copying, Closing, Copied
    <3> QED
      BY <3>1, <3>2, <3>3, <3>4, <3>5 DEF IInv
  <2> QED
    BY <2>1, <2>2
<1> QED
  BY <1>1, <1>2, PTL DEF Spec

\* A copy that meets no other write, flush or close arrives on the server whole,
\* under its own title and with its size, whatever is read, downloaded, deleted or reloaded
\* meanwhile (ytfs_write and ytfs_flush, main.cpp:231-291).
THEOREM UploadsAreWhole == Spec => []AloneUploadsWhole
<1>1. IInv => AloneUploadsWhole
  BY DEF IInv
<1> QED
  BY <1>1, Invariance, PTL

\* A read of a song that one thread at most has downloaded, to the end, returns
\* the chunk asked for of a song with the title asked for, however many songs
\* are copied in and reloaded meanwhile (ytfs_read, main.cpp:202-226).
THEOREM ReadsAreWhole == Spec => []ReadWhole
<1>1. Init => AskedOK
  BY DEF Init, AskedOK, Asks, Threads
<1>2. IInv /\ AskedOK /\ [Next]_vars => AskedOK'
  <2> SUFFICES ASSUME IInv, AskedOK, [Next]_vars
               PROVE  AskedOK'
    OBVIOUS
  <2>1. CASE Next
    BY <2>1, ServerAssumption, AskedStep
  <2>2. CASE UNCHANGED vars
    BY <2>2 DEF vars, world, AskedOK, Asks
  <2> QED
    BY <2>1, <2>2
<1>3. IInv /\ AskedOK => ReadWhole
  BY WholeReads
<1> QED
  BY <1>1, <1>2, <1>3, Invariance, PTL DEF Spec

\* What readdir lists getattr finds, with the size its song has on the server
\* unless its copy met another, and read and unlink find its id, for any ids and
\* titles the server's metadata may hold (main.cpp:43-199).
THEOREM ListingsAgree == Spec => []ListingAgrees
<1>1. IInv => ListingAgrees
  <2> SUFFICES ASSUME IInv
               PROVE  ListingAgrees
    OBVIOUS
  <2>1. meta \in SUBSET Nat /\ meta \subseteq Ids /\ AloneUploadsWhole
    BY ServerFields DEF IInv, IdsOK
  <2> QED
    BY <2>1, Agrees
<1> QED
  BY <1>1, Invariance, PTL

\* A reload that meets no other leaves MetadataJson as the server has it then,
\* and one whose curl failed leaves it as it was (main.cpp:343-360).
THEOREM ReloadsAreFresh == Spec => AloneReloadsFresh
<1>1. ASSUME IInv
      PROVE  \A p \in Threads : (ReloadParse(p) /\ p \notin overlapped) =>
               meta' \in {meta, Library} /\ (loc[p].resp # {} => meta' = Library)
  BY <1>1, FreshStep DEF IInv
<1>2. IInv => [\A p \in Threads : (ReloadParse(p) /\ p \notin overlapped) =>
               meta' \in {meta, Library} /\ (loc[p].resp # {} => meta' = Library)]_vars
  BY <1>1
<1> QED
  BY <1>2, Invariance, PTL DEF AloneReloadsFresh
=============================================================================
