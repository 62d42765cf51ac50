------------------------------ MODULE YtfsTree ------------------------------
(***************************************************************************)
(* What ytfs and mediafs show of their metadata: names to directories,     *)
(* files and song ids.  The metadata maps each grouping to a sequence of   *)
(* folders [title, songs], and songs numbers entries [title, id, size] in   *)
(* their order, not necessarily 1, 2, 3.                                   *)
(* A name is [stem, ext].  A name without extension stands for one shorter *)
(* than four characters: size() - 4 wraps and substr keeps all of it.      *)
(***************************************************************************)
EXTENDS Naturals, Sequences, Functions

CONSTANT NoId     \* the empty string getSongId returns

MusicGroupings == {"Albums", "Decades", "Artists", "Genres"}

Plain(stem) == [stem |-> stem, ext |-> ""]
Mp3(stem) == [stem |-> stem, ext |-> ".mp3"]

IsMp3(path) == path # <<>> /\ path[Len(path)].ext = ".mp3"

ENOENT == [st |-> "ENOENT", size |-> 0]
Dir == [st |-> "dir", size |-> 0]
Reg(size) == [st |-> "reg", size |-> size]

\* MetadataJson[name]: operator[] makes an unknown key null, which has no items.
Category(tree, name) ==
  IF name.stem \in DOMAIN tree /\ name.ext = "" THEN tree[name.stem] ELSE <<>>

\* The places, in a category, of the folders of that name, and in one of them
\* of the songs of that name.
FoldersNamed(tree, path) ==
  {i \in DOMAIN Category(tree, path[1]) : Plain(Category(tree, path[1])[i].title) = path[2]}
SongsNamed(tree, path, i) ==
  LET songs == Category(tree, path[1])[i].songs
  IN {k \in DOMAIN songs : songs[k].title = path[3].stem}

First(places) == CHOOSE k \in places : \A j \in places : k <= j

\* The first song of that name, in the first folder that has one.
FoldersWith(tree, path) == {i \in FoldersNamed(tree, path) : SongsNamed(tree, path, i) # {}}
FirstSong(tree, path) ==
  LET i == First(FoldersWith(tree, path))
  IN Category(tree, path[1])[i].songs[First(SongsNamed(tree, path, i))]

\* Mutant: the title is not compared.
GetAnyId(tree, path) ==
  IF FoldersNamed(tree, path) = {} THEN NoId
  ELSE Category(tree, path[1])[First(FoldersNamed(tree, path))].songs[
         First(DOMAIN Category(tree, path[1])[First(FoldersNamed(tree, path))].songs)].id

getSongId(tree, path) ==
  IF FoldersWith(tree, path) = {} THEN NoId ELSE FirstSong(tree, path).id

\* Below the groupings both programs look alike.
DeepAttr(tree, path) ==
  IF Len(path) = 2 /\ FoldersNamed(tree, path) # {} THEN Dir
  ELSE IF Len(path) > 2 /\ FoldersWith(tree, path) # {} THEN Reg(FirstSong(tree, path).size)
  ELSE ENOENT

getattr(tree, path) ==
  CASE path = <<>> -> Dir
    [] Len(path) = 1 -> IF IsMp3(path) THEN Reg(0)
                        ELSE IF path[1] \in {Plain(g) : g \in MusicGroupings} THEN Dir ELSE ENOENT
    [] OTHER -> DeepAttr(tree, path)

\* mediafs: any name in the root that is no mp3 is a directory.
MediaGetattr(tree, path) ==
  CASE path = <<>> -> Dir
    [] Len(path) = 1 -> IF IsMp3(path) THEN Reg(0) ELSE Dir
    [] OTHER -> DeepAttr(tree, path)

\* Mutant: the songs are listed without their extension.
ReaddirBare(tree, path) ==
  CASE path = <<>> -> {Plain(g) : g \in MusicGroupings}
    [] Len(path) = 1 -> {Plain(f.title) : f \in Range(Category(tree, path[1]))}
    [] Len(path) = 2 /\ FoldersNamed(tree, path) # {} ->
         {Plain(s.title) : s \in Range(Category(tree, path[1])[First(FoldersNamed(tree, path))].songs)}
    [] OTHER -> {}

\* The names listed in a directory; a folder lists the songs of the first that
\* has its name.
readdir(tree, path) ==
  CASE path = <<>> -> {Plain(g) : g \in MusicGroupings}
    [] Len(path) = 1 -> {Plain(f.title) : f \in Range(Category(tree, path[1]))}
    [] Len(path) = 2 /\ FoldersNamed(tree, path) # {} ->
         {Mp3(s.title) : s \in Range(Category(tree, path[1])[First(FoldersNamed(tree, path))].songs)}
    [] OTHER -> {}

\* ytfs_open looks at the extension alone.
open(path) == IF IsMp3(path) THEN "ok" ELSE "ENOENT"
=============================================================================
