------------------------------ MODULE FileLibrary ------------------------------
(***************************************************************************)
(* frame.file: lua_libraries/file.c over one directory of littlefs (lfs.c).*)
(* The directory is a list of entries, sorted by name; a file is known by  *)
(* its place in it, its id.  Each change is a commit: a list of attributes *)
(* that insert, delete or fill entries, written at once, after which every *)
(* open file has its id corrected.                                         *)
(*                                                                         *)
(* Names are numbers, in the order of the names.  A file holds characters  *)
(* "x" and "nl", and a handle holds a copy of them, as it does for files   *)
(* that fit into the directory (a larger one that another handle rewrites  *)
(* may find its blocks in use for something else).  A commit is written as *)
(* a whole or not at all.                                                  *)
(***************************************************************************)
EXTENDS Naturals, SequencesExt

CONSTANTS
  Names,       \* the names of files, numbers
  Handles,     \* the file handles that scripts hold
  Strings,     \* what scripts write
  MaxFile,     \* lfs_config.file_max
  BufferSize   \* LUAL_BUFFERSIZE

Newline == "nl"
Char    == {"x", Newline}

ASSUME FileAssumption ==
  /\ Names \subseteq Nat \ {0} /\ Strings \subseteq Seq(Char)
  /\ MaxFile \in Nat /\ BufferSize \in Nat \ {0}

Closed  == [mode |-> "closed"]
Modes   == {"r", "w", "a"}

VARIABLES
  dir,      \* the entries of the directory on the flash: name and data
  handles,  \* for each handle Closed, or: mode, id, null (it lost its pair), data
            \* (what it would read), dirty and erred (LFS_F_DIRTY, LFS_F_ERRED), pos,
            \* and got, the history of the lines a reader got
  eof_line  \* history: read() has returned a line at the end of a file

vars == <<dir, handles, eof_line>>

IsOpen(h)  == handles[h] # Closed
Exists(n)  == \E i \in DOMAIN dir : dir[i].name = n
IdOf(n)    == CHOOSE i \in DOMAIN dir : dir[i].name = n

(* lfs_dir_fetchmatch: a new name goes before the first greater one.       *)
NewId(n)   == Min({i \in DOMAIN dir : dir[i].name > n} \cup {Len(dir) + 1})

Init == dir = <<>> /\ handles = [h \in Handles |-> Closed] /\ eof_line = FALSE

-----------------------------------------------------------------------------
(* A commit.  self is the handle that commits, if it is one: its own id is *)
(* not corrected.                                                          *)
Delete(i)        == [type |-> "DELETE", id |-> i]
Create(i, entry) == [type |-> "CREATE", id |-> i, entry |-> entry]

Apply(entries, attr) ==
  IF attr.type = "DELETE" THEN RemoveAt(entries, attr.id)
                          ELSE InsertAt(entries, attr.id, attr.entry)

(* Mutant: an insertion at the place of an open file leaves its id alone.  *)
FixIdLate(f, attr) ==
  CASE attr.type = "DELETE" /\ f.id = attr.id -> [f EXCEPT !.null = TRUE, !.id = 0]
    [] attr.type = "DELETE" /\ f.id > attr.id -> [f EXCEPT !.id = @ - 1]
    [] attr.type = "CREATE" /\ f.id > attr.id -> [f EXCEPT !.id = @ + 1]
    [] OTHER -> f

FixId(f, attr) ==
  CASE attr.type = "DELETE" /\ f.id = attr.id -> [f EXCEPT !.null = TRUE, !.id = 0]
    [] attr.type = "DELETE" /\ f.id > attr.id -> [f EXCEPT !.id = @ - 1]
    [] attr.type = "CREATE" /\ f.id >= attr.id -> [f EXCEPT !.id = @ + 1]
    [] OTHER -> f

FixIds(f, attrs) == IF f = Closed \/ f.null THEN f ELSE FoldLeft(FixId, f, attrs)

Commit(attrs) == dir' = FoldLeft(Apply, dir, attrs) /\ UNCHANGED eof_line
FixOthers(self, attrs) == [h \in Handles |-> IF h = self THEN handles[h] ELSE FixIds(handles[h], attrs)]

-----------------------------------------------------------------------------
NewHandle(mode, i, data, dirty) ==
  [mode |-> mode, id |-> i, null |-> FALSE, data |-> data, dirty |-> dirty, erred |-> FALSE,
   pos |-> 0, got |-> <<>>]

(* A file that is truncated keeps its data on the flash until the close.   *)
OpenExisting(h, n, mode) ==
  /\ ~IsOpen(h) /\ Exists(n)
  /\ handles' = [handles EXCEPT ![h] =
       IF mode = "w" THEN NewHandle(mode, IdOf(n), <<>>, TRUE)
                     ELSE NewHandle(mode, IdOf(n), dir[IdOf(n)].data, FALSE)]
  /\ UNCHANGED <<dir, eof_line>>

OpenNew(h, n, mode) ==
  /\ ~IsOpen(h) /\ ~Exists(n) /\ mode \in {"w", "a"}
  /\ LET attrs == << Create(NewId(n), [name |-> n, data |-> <<>>]) >>
     IN  /\ Commit(attrs)
         /\ handles' = [FixOthers(h, attrs) EXCEPT ![h] = NewHandle(mode, NewId(n), <<>>, FALSE)]

-----------------------------------------------------------------------------
MayWrite(h, s) == IsOpen(h) /\ handles[h].mode # "r" /\ Len(handles[h].data) + Len(s) <= MaxFile

(* Files are written at their end, and read() goes on from there.          *)
Appended(f, s) == [f EXCEPT !.data = @ \o s, !.dirty = TRUE, !.pos = Len(f.data) + Len(s)]

LuaFileWrite(h, s) ==
  /\ MayWrite(h, s)
  /\ handles' = [handles EXCEPT ![h] = [Appended(@, s) EXCEPT !.erred = FALSE]]
  /\ UNCHANGED <<dir, eof_line>>

(* The flash is full: a part of the string is in the handle.               *)
WriteFails(h, s) ==
  /\ MayWrite(h, s)
  /\ \E n \in 0 .. Len(s) - 1 :
       handles' = [handles EXCEPT ![h] = [Appended(@, SubSeq(s, 1, n)) EXCEPT !.erred = TRUE]]
  /\ UNCHANGED <<dir, eof_line>>

-----------------------------------------------------------------------------
(* What lua_file_read() returns and where it leaves the handle: up to the  *)
(* next newline, which it drops, but no more than BufferSize characters.   *)
Line(data, pos) ==
  LET rest == SubSeq(data, pos + 1, Len(data))
      upTo == IF Newline \in ToSet(rest) THEN SelectInSeq(rest, LAMBDA c : c = Newline) - 1 ELSE Len(rest)
  IN  SubSeq(rest, 1, upTo)

Result(data, pos) ==
  LET line == Line(data, pos) IN SubSeq(line, 1, IF Len(line) < BufferSize THEN Len(line) ELSE BufferSize)

(* Mutant: the newline is left for the next call.                          *)
AfterLineOnly(data, pos) ==
  LET n == Len(Line(data, pos)) IN pos + (IF n >= BufferSize THEN BufferSize ELSE n)

AfterLine(data, pos) ==
  LET n == Len(Line(data, pos)) IN
    IF n >= BufferSize THEN pos + BufferSize
    ELSE IF pos + n < Len(data) THEN pos + n + 1 ELSE Len(data)

(* At the end of the file it looks at a character that was never set, and  *)
(* returns an empty line if that happens to be a newline.                  *)
LuaFileRead(h) ==
  /\ IsOpen(h)
  /\ LET f == handles[h] IN
       IF f.pos = Len(f.data)
         THEN eof_line' \in {eof_line, TRUE} /\ UNCHANGED handles
         ELSE /\ handles' = [handles EXCEPT
                    ![h].got = IF f.mode = "r" THEN Append(@, Result(f.data, f.pos)) ELSE @,
                    ![h].pos = AfterLine(f.data, f.pos)]
              /\ UNCHANGED eof_line
  /\ UNCHANGED dir

-----------------------------------------------------------------------------
(* lfs_file_rawsync: a handle that failed or that lost its file does not   *)
(* touch the directory, and reports no error.                              *)
MustSync(f) == f.dirty /\ ~f.erred /\ ~f.null

LuaFileClose(h) ==
  /\ IsOpen(h)
  /\ dir' = IF MustSync(handles[h]) THEN [dir EXCEPT ![handles[h].id].data = handles[h].data] ELSE dir
  /\ handles' = [handles EXCEPT ![h] = Closed]
  /\ UNCHANGED eof_line

LuaFileRemove(n) ==
  /\ Exists(n)
  /\ LET attrs == << Delete(IdOf(n)) >>
     IN  Commit(attrs) /\ handles' = [h \in Handles |-> FixIds(handles[h], attrs)]

(* Mutant: the entry of the new name is not deleted first.                 *)
RenameAttrsOver(from, to) ==
  LET entry == [name |-> to, data |-> dir[IdOf(from)].data]
  IN  << Create(NewId(to), entry),
         Delete(IF NewId(to) <= IdOf(from) THEN IdOf(from) + 1 ELSE IdOf(from)) >>

(* lfs_rawrename in one directory: the old entry is copied to the new id,  *)
(* then deleted where the insertion has moved it.                          *)
RenameAttrs(from, to) ==
  LET entry == [name |-> to, data |-> dir[IdOf(from)].data]
  IN  IF Exists(to)
        THEN << Delete(IdOf(to)), Create(IdOf(to), entry), Delete(IdOf(from)) >>
        ELSE << Create(NewId(to), entry),
                Delete(IF NewId(to) <= IdOf(from) THEN IdOf(from) + 1 ELSE IdOf(from)) >>

LuaFileRename(from, to) ==
  /\ Exists(from) /\ from # to
  /\ LET attrs == RenameAttrs(from, to)
     IN  Commit(attrs) /\ handles' = [h \in Handles |-> FixIds(handles[h], attrs)]

(* A reset: of Lua, which unmounts without a sync and closes no file, or   *)
(* of the chip, also by check_error() when a close fails.                  *)
Restart == handles' = [h \in Handles |-> Closed] /\ UNCHANGED <<dir, eof_line>>

-----------------------------------------------------------------------------
Next ==
  \/ \E h \in Handles, n \in Names, mode \in Modes : OpenExisting(h, n, mode) \/ OpenNew(h, n, mode)
  \/ \E h \in Handles, s \in Strings : LuaFileWrite(h, s) \/ WriteFails(h, s)
  \/ \E h \in Handles : LuaFileRead(h) \/ LuaFileClose(h)
  \/ \E n \in Names : LuaFileRemove(n)
  \/ \E from, to \in Names : LuaFileRename(from, to)
  \/ Restart

Spec == Init /\ [][Next]_vars

-----------------------------------------------------------------------------
TypeOK ==
  /\ eof_line \in BOOLEAN
  /\ \A i \in DOMAIN dir : dir[i].name \in Names /\ Len(dir[i].data) <= MaxFile
  /\ \A h \in Handles : IsOpen(h) =>
       /\ handles[h].mode \in Modes /\ {handles[h].null, handles[h].dirty, handles[h].erred} \subseteq BOOLEAN
       /\ Len(handles[h].data) <= MaxFile /\ handles[h].pos \in 0 .. Len(handles[h].data)
       /\ ~handles[h].null => handles[h].id \in DOMAIN dir

(* The entries stay sorted by name, with no name twice, through every      *)
(* insertion, removal and rename: a name that is out of order is not found *)
(* again by lfs_dir_find().                                                *)
DirectoryIsSorted ==
  \A i, j \in DOMAIN dir : i < j => dir[i].name < dir[j].name

(* A file whose lines are shorter than the buffer is read back line by     *)
(* line: what read() returned, each line with its newline, is what the     *)
(* file holds up to where the handle is.                                   *)
Joined(lines) == FoldLeft(LAMBDA text, line : text \o line \o <<Newline>>, <<>>, lines)
IsShort(data) == \A i \in 0 .. Len(data) - 1 : Len(Line(data, i)) < BufferSize
LinesAreReadBack ==
  \A h \in Handles : IsOpen(h) /\ handles[h].mode = "r" =>
    LET f == handles[h] IN
      IsShort(f.data) =>
        Joined(f.got) = IF f.pos = 0 \/ f.data[f.pos] = Newline
                          THEN SubSeq(f.data, 1, f.pos) ELSE f.data \o <<Newline>>

(* At the end of a file read() returns nil, as the test of the file        *)
(* library expects.                                                        *)
EndOfFileIsNil == ~eof_line

(* The directory of ids is the store of named files: whatever is inserted, *)
(* removed or renamed around an open file, closing it changes the file it  *)
(* was opened on, and only if that file still exists under its name and    *)
(* the last write to it succeeded; a reset leaves each file as it was      *)
(* closed.                                                                 *)
StoreOf == [n \in {dir[i].name : i \in DOMAIN dir} |-> dir[IdOf(n)].data]
HandleOf(f) ==
  IF f = Closed THEN Closed
  ELSE [name |-> IF f.null THEN 0 ELSE dir[f.id].name, mode |-> f.mode, data |-> f.data,
        publish |-> f.dirty /\ ~f.erred]
HandlesOf == [h \in Handles |-> HandleOf(handles[h])]
Store == INSTANCE FileStore WITH store <- StoreOf, handles <- HandlesOf
ImplementsFileStore == Store!Spec
=============================================================================
