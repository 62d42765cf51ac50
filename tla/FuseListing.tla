----------------------------- MODULE FuseListing -----------------------------
(***************************************************************************)
(* A program reads a directory page by page through libfuse (fuse.c and    *)
(* fuse_lowlevel.c): struct fuse_dh keeps the whole listing, or one page,  *)
(* as the file system's filler calls leave it; the kernel takes the whole  *)
(* entries of a reply and asks again at the offset of the last of them.    *)
(***************************************************************************)
EXTENDS Naturals, Sequences, SequencesExt, FiniteSets

CONSTANTS
  Names,       \* what may be in the directory, with the length of each name
  Length,
  DirPage         \* what the kernel asks for at a time, no less than any entry

VARIABLES
  paging,      \* the file system gives offsets of its own and stops when told to
  dir,         \* the names in the directory, in order
  dh,          \* struct fuse_dh; contents holds [name, off] in the order filled
  reader       \* the kernel's offset, the names read, and what there was when it began
listingVars == <<paging, dir, dh, reader>>

\* fuse_dirent_size: a header of 24 bytes and the name, in units of 8.
DirentSize(name) == ((24 + Length[name] + 7) \div 8) * 8

ASSUME ListingAssumption ==
  /\ IsFiniteSet(Names) /\ Length \in [Names -> Nat \ {0}]
  /\ DirPage \in Nat /\ \A n \in Names : DirentSize(n) <= DirPage

Size(entries) == FoldLeft(LAMBDA sum, e : sum + DirentSize(e.name), 0, entries)
\* The first byte of the i-th entry.
Start(entries, i) == Size(SubSeq(entries, 1, i - 1))

ListingInit ==
  /\ paging \in BOOLEAN
  /\ dir \in {SetToSeq(S) : S \in SUBSET Names}
  /\ dh = [contents |-> << >>, filled |-> FALSE]
  /\ reader = [pos |-> 0, got |-> << >>, since |-> << >>, cookies |-> {}, state |-> "reads", again |-> FALSE]
-----------------------------------------------------------------------------
(* fill_dir *)

\* Without an offset an entry is kept whatever its size, and gets as offset
\* the byte after it; the contents grow as needed.
\* Mutant: the offset of the entry itself.
FillWholeAtStart(entries, name) ==
  Append(entries, [name |-> name, off |-> Size(entries)])
FillWhole(entries, name) ==
  Append(entries, [name |-> name, off |-> Size(entries) + DirentSize(name)])

\* With an offset it is kept if the page has room.
FillPage(name, off) == [name |-> name, off |-> off]
Fits(entries, needlen) == Size(entries) <= needlen

Whole(names) == FoldLeft(FillWhole, << >>, names)
\* The file system's offsets are positions; it stops when the filler says so.
PageOf(names, off) ==
  LET upTo(k) == [i \in 1..(k - off) |-> FillPage(names[off + i], off + i)]
  IN upTo(CHOOSE k \in off..Len(names) : /\ Fits(upTo(k), DirPage)
                                         /\ k < Len(names) => ~Fits(upTo(k + 1), DirPage))

\* readdir_fill: an entry with an offset takes filled back.
Filled(off) ==
  IF paging THEN [contents |-> PageOf(dir, off), filled |-> off >= Len(dir)]
  ELSE [contents |-> Whole(dir), filled |-> TRUE]
-----------------------------------------------------------------------------
(* fuse_lib_readdir and the kernel *)

\* The bytes of the listing in a reply: those from off, or the page.
DirReply(d, off) ==
  IF d.filled
  THEN [from |-> off, size |-> IF off < Size(d.contents)
                               THEN IF off + DirPage > Size(d.contents) THEN Size(d.contents) - off ELSE DirPage
                               ELSE 0]
  ELSE [from |-> 0, size |-> Size(d.contents)]

\* The whole entries of a reply, which must begin where an entry begins.
Aligned(d, r) == \E i \in 1..Len(d.contents) : Start(d.contents, i) = r.from
Complete(d, r) ==
  {i \in 1..Len(d.contents) : /\ Start(d.contents, i) >= r.from
                             /\ Start(d.contents, i) + DirentSize(d.contents[i].name) <= r.from + r.size}
Parsed(d, r) ==
  IF Complete(d, r) = {} THEN << >> ELSE SubSeq(d.contents, Min(Complete(d, r)), Max(Complete(d, r)))

Took(d, r) ==
  LET got == Parsed(d, r)
  IN CASE r.size = 0 -> [reader EXCEPT !.state = "end"]
       [] r.size # 0 /\ (~Aligned(d, r) \/ got = << >>) -> [reader EXCEPT !.state = "torn"]
       [] OTHER -> [reader EXCEPT !.pos = Last(got).off, !.got = @ \o [i \in DOMAIN got |-> got[i].name],
                                  !.cookies = @ \cup {[pos |-> Last(got).off,
                                                       got |-> reader.got \o [i \in DOMAIN got |-> got[i].name]]}]

\* A read at the start looks at the directory afresh, for rewinddir.
Read ==
  /\ reader.state = "reads"
  /\ LET fresh == reader.pos = 0 \/ ~dh.filled
         d == IF fresh THEN Filled(reader.pos) ELSE dh
     IN /\ dh' = d
        /\ reader' = [Took(d, DirReply(d, reader.pos))
                        EXCEPT !.since = IF reader.pos = 0 THEN dir ELSE reader.since]
  /\ UNCHANGED <<paging, dir>>

\* The file system fails, or memory is short: the reader gets the error.
ReadFails ==
  /\ reader.state = "reads" /\ (reader.pos = 0 \/ ~dh.filled)
  /\ dh' = [dh EXCEPT !.contents = << >>, !.filled = FALSE]
  /\ UNCHANGED <<paging, dir, reader>>

\* rewinddir, after which the offsets of telldir are worth nothing.
Rewind ==
  /\ reader.pos # 0
  /\ reader' = [reader EXCEPT !.pos = 0, !.got = << >>, !.cookies = {}, !.state = "reads", !.again = FALSE]
  /\ UNCHANGED <<paging, dir, dh>>

\* seekdir.  The page at the end of a paged listing is empty and counts as filled.
Seek(c) ==
  /\ reader' = [reader EXCEPT !.pos = c.pos, !.got = c.got, !.state = "reads",
                              !.again = @ \/ (paging /\ reader.state = "end")]
  /\ UNCHANGED <<paging, dir, dh>>

\* The directory changes while it is read.  What offsets mean then is the
\* file system's matter if they are its own.
Change(names) ==
  /\ ~paging
  /\ dir' = names
  /\ UNCHANGED <<paging, dh, reader>>

ListingNext ==
  \/ Read \/ ReadFails \/ Rewind
  \/ \E c \in reader.cookies : Seek(c)
  \/ \E S \in SUBSET Names : Change(SetToSeq(S))

ListingSpec == ListingInit /\ [][ListingNext]_listingVars
-----------------------------------------------------------------------------
\* A reader that comes to the end has every name that was in the directory
\* when it began, once and in order, however the entries fall on the pages,
\* and no page begins inside an entry (fill_dir, readdir_fill,
\* fuse_lib_readdir).  Excepted is a reader of a paged listing that came to the
\* end and went back with seekdir: filled is still set from the empty page, so
\* it is told at once that it is at the end.
ListedOnce ==
  /\ reader.state # "torn"
  /\ reader.state = "end" /\ ~reader.again => reader.got = reader.since
=============================================================================
