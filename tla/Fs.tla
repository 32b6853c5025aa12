---------------------------------- MODULE Fs ----------------------------------
(***************************************************************************)
(* The tables of the file system (fs/open.c, link.c, misc.c, read_write.c  *)
(* and the cache in main.c) under the commands of the shell                *)
(* (kernel/main.c): touch, rm, cat, vi, mkdir, cd and ls.                  *)
(*                                                                         *)
(* The shell is the only client and FS answers one request at a time, so a *)
(* command is one step.  The handlers are operators that take a state of   *)
(* FS and return the next one with their result, in the order of the code. *)
(* Every disk write is recorded, so that the power can fail between any    *)
(* two of them.                                                            *)
(*                                                                         *)
(* A path is a sequence of names; the last one is "" for the path of a     *)
(* directory that ends in '/'.  A directory's size is counted in entries.  *)
(* Data of files are left out: all files have NR_DEFAULT_FILE_SECTS        *)
(* sectors, an "extent".                                                   *)
(***************************************************************************)
EXTENDS Integers, Sequences, SequencesExt, FiniteSets

CONSTANTS
  Sessions,    (* what a user does: the commands he types, and the paths   *)
  NameLen,     (* number of characters of each name in the paths           *)
  NR_INODES,   (* bound: inodes of the disk, all in one sector             *)
  NR_INODE,    (* slots of inode_table                                     *)
  NR_FILES,    (* slots of filp, and of f_desc_table                       *)
  DIR_SLOTS,   (* bound: entries of a directory that are kept              *)
  MaxCount     (* bound: absolute value of i_cnt at the start of a command *)

(* A name shorter than MAX_FILENAME_LEN is not cut by strip_path; one more *)
(* name than there are inodes never fits a directory.                      *)
ASSUME FsAssumption ==
  /\ \A s \in Sessions :
       /\ s.paths \subseteq Seq(DOMAIN NameLen) \ {<<>>}
       /\ s.commands \subseteq {"touch", "rm", "cat", "vi", "mkdir", "cd", "cd ..", "ls",
                                "power"}
  /\ \A n \in DOMAIN NameLen : NameLen[n] \in 1..10
  /\ {".", ""} \intersect DOMAIN NameLen = {} /\ NameLen["dev_tty0"] = 8
  /\ NR_INODES \in 4..15 /\ {NR_INODE, NR_FILES} \subseteq Nat \ {0, 1} /\ MaxCount \in Nat
  /\ DIR_SLOTS \in NR_INODES + 4 .. 32

Inodes == 1..NR_INODES
Extents == 1..NR_INODES
Slots == 1..NR_INODE
Fds == 0..(NR_FILES - 1)

(* A size larger than every size the commands need, as a word that is no   *)
(* size may well be.                                                       *)
Big == DIR_SLOTS + 1

(* What a word of memory behind inode_table says when taken for a size.    *)
Garbage == {0, Big}

NoEntry == [inode_nr |-> 0, name |-> ""]

(* A slot of inode_table that memset has cleared.  i_node_length holds an  *)
(* i_mode, see get_inode; sect0 is i_sects_pos[0].                         *)
NoInode == [num |-> 0, cnt |-> 0, mode |-> "none", size |-> 0, start |-> 0,
            i_node_length |-> "none", sect0 |-> 0]

Closed == [slot |-> 0, of |-> 0, mode |-> "none"]

VARIABLES
  session,       (* who uses the system in this behaviour                  *)
  disk,          (* inode map, sector map, inodes and directories          *)
  inode_table,   (* the cache of inodes; the root has slot 1               *)
  filp,          (* the shell's descriptors: the slot, and what was opened *)
  cwd,           (* the shell's current directory                          *)
  told,          (* history: paths that exist, to judge by the answers     *)
  halted         (* the panic or assertion that has stopped the system     *)

vars == <<session, disk, inode_table, filp, cwd, told, halted>>

FsState == [disk |-> disk, tab |-> inode_table, filp |-> filp,
            cause |-> "", writes |-> <<>>]

(* The first failure stops the system: what follows it is of no account,   *)
(* and nothing more is written.                                            *)
Fail(fs, cause) == IF fs.cause = "" THEN [fs EXCEPT !.cause = cause] ELSE fs

WriteSector(fs, newDisk) ==
  [fs EXCEPT !.disk = newDisk,
             !.writes = IF fs.cause = "" THEN Append(@, newDisk) ELSE @]

Least(S) == CHOOSE x \in S : \A y \in S : x <= y

-----------------------------------------------------------------------------
(* The cache of inodes.  *)

(* Inode num as it is read into a slot.  An inode in memory is longer than *)
(* INODE_SIZE: its i_node_length is read from the i_mode of the next       *)
(* inode, and i_sects_pos is not read at all.                              *)
Loaded(fs, slot, num) ==
  LET node == fs.disk.node[num]
  IN  [num |-> num, cnt |-> 1, mode |-> node.mode, size |-> node.size, start |-> node.start,
       i_node_length |-> fs.disk.node[num + 1].mode, sect0 |-> fs.tab[slot].sect0]

Cached(fs, num) == {s \in Slots : fs.tab[s].cnt # 0 /\ fs.tab[s].num = num}

Free(fs) == {s \in Slots : fs.tab[s].cnt = 0}

(* The slot of a cached inode is found, or the first free slot filled.  *)
Find(fs, num, cached, free) ==
  IF cached # {}
  THEN [slot |-> Least(cached), fs |-> [fs EXCEPT !.tab[Least(cached)].cnt = @ + 1]]
  ELSE IF free = {} THEN [slot |-> 1, fs |-> Fail(fs, "the inode table is full")]
  ELSE [slot |-> Least(free),
        fs |-> [fs EXCEPT !.tab[Least(free)] = Loaded(fs, Least(free), num)]]

(* Fault: the search ends at the first free slot.  *)
get_inode_first(fs, num) ==
  Find(fs, num, {s \in Cached(fs, num) : \A u \in Free(fs) : s < u}, Free(fs))

(* A free slot is one whose count is 0.  *)
get_inode(fs, num) == Find(fs, num, Cached(fs, num), Free(fs))

(* The test of the count has an empty statement: it is always decreased.   *)
put_inode(fs, slot) == [fs EXCEPT !.tab[slot].cnt = @ - 1]

(* The two words that do not fit the inode on disk go to the i_mode and    *)
(* the i_size of the next one; the second is i_sects_pos[i_node_length],   *)
(* outside of the array unless i_node_length is 0.                         *)
sync_inode(fs, slot, garbage) ==
  LET p == fs.tab[slot]
      spilt == [mode |-> p.i_node_length,
                size |-> IF p.i_node_length = "none" THEN p.sect0 ELSE garbage,
                start |-> fs.disk.node[p.num + 1].start]
      own == [mode |-> p.mode, size |-> p.size, start |-> p.start]
  IN  WriteSector(fs, [fs.disk EXCEPT !.node[p.num] = own, !.node[p.num + 1] = spilt])

-----------------------------------------------------------------------------
(* Paths and directories.  *)

(* How many entries search_file and strip_path look at: one more than the  *)
(* size says, none if it says 0.                                           *)
Looked(inode) ==
  IF inode.size = 0 THEN 0
  ELSE IF inode.size < DIR_SLOTS THEN inode.size + 1 ELSE DIR_SLOTS

(* An entry of the name has been got: a directory is where the walk goes   *)
(* on, and the one it leaves is put; a file is kept, and the search too.   *)
Arrive(w, got) ==
  IF got.fs.tab[got.slot].mode = "dir"
  THEN [fs |-> put_inode(got.fs, w.at), at |-> got.slot, found |-> TRUE]
  ELSE [w EXCEPT !.fs = got.fs]

(* An entry that the walk w looks at for one component of a path.  *)
Look(w, entry, name) ==
  IF w.found \/ entry.name # name THEN w ELSE Arrive(w, get_inode(w.fs, entry.inode_nr))

(* One component: the entries of the directory that the walk has reached,  *)
(* one after the other.                                                    *)
Enter(walk, name) ==
  LET here == walk.fs.tab[walk.at]
      entries == walk.fs.disk.dir[here.start]
      look[i \in 0..Looked(here)] ==
        IF i = 0 THEN [walk EXCEPT !.found = FALSE] ELSE Look(look[i - 1], entries[i], name)
  IN  IF walk.found THEN look[Looked(here)] ELSE walk

(* The result: the slot of the directory, and whether it was found.  *)
strip_path(fs, path) ==
  LET walk[i \in 0..(Len(path) - 1)] ==
        IF i = 0 THEN [fs |-> fs, at |-> 1, found |-> TRUE] ELSE Enter(walk[i - 1], path[i])
  IN  walk[Len(path) - 1]

(* strip_path writes all names of the path into one buffer, one over the   *)
(* other: the characters that are not 0 in the end.                        *)
FilenameBuffer(path) ==
  FoldLeft(LAMBDA buf, n : (buf \union 0..(NameLen[n] - 1)) \ {NameLen[n]}, {}, path)

(* memcmp compares the whole buffer, not only the name.  *)
SameName(path, entry) ==
  /\ entry.name = Last(path)
  /\ FilenameBuffer(path) = 0..(NameLen[Last(path)] - 1)

(* The last name of path in the directory at the end of the walk r.  *)
Searched(r, path) ==
  LET d == r.fs.tab[r.at]
      entries == r.fs.disk.dir[d.start]
      hits == {i \in 1..Looked(d) : SameName(path, entries[i])}
  IN  [fs |-> r.fs,
       nr |-> IF ~r.found THEN 0
              ELSE IF Last(path) = "" THEN d.num
              ELSE IF hits = {} THEN 0
              ELSE entries[Least(hits)].inode_nr]

search_file(fs, path) == Searched(strip_path(fs, path), path)

(* The first slot without a file, or one behind the end.  *)
new_dir_entry(fs, dir, nr, name, garbage) ==
  LET d == fs.tab[dir]
      holes == {i \in 1..DIR_SLOTS : i <= d.size /\ fs.disk.dir[d.start][i].inode_nr = 0}
      at == IF holes = {} THEN d.size + 1 ELSE Least(holes)
      written == WriteSector(fs, [fs.disk EXCEPT !.dir[d.start][at] =
                                    [inode_nr |-> nr, name |-> name]])
      sized == IF holes = {} THEN [written EXCEPT !.tab[dir].size = @ + 1] ELSE written
  IN  sync_inode(sized, dir, garbage)

-----------------------------------------------------------------------------
(* Creating a file or a directory.  *)

alloc_imap_bit(fs) ==
  LET nr == Least(Inodes \ fs.disk.imap)
  IN  [nr |-> nr, fs |-> WriteSector(fs, [fs.disk EXCEPT !.imap = @ \union {nr}])]

alloc_smap_bit(fs) ==
  LET ext == Least(Extents \ fs.disk.smap)
  IN  [ext |-> ext, fs |-> WriteSector(fs, [fs.disk EXCEPT !.smap = @ \union {ext}])]

(* The slot that was got is filled anew, its count included.  *)
new_inode(got, nr, ext, mode, garbage) ==
  LET made == [num |-> nr, cnt |-> 1, mode |-> mode, size |-> 0, start |-> ext,
               i_node_length |-> "none", sect0 |-> Big]
  IN  [slot |-> got.slot,
       fs |-> sync_inode([got.fs EXCEPT !.tab[got.slot] = made], got.slot, garbage)]

(* Fault: the entry is written before the inode it names.  *)
MakeEntryFirst(r, name, mode, garbage) ==
  LET i == alloc_imap_bit(r.fs)
      s == alloc_smap_bit(new_dir_entry(i.fs, r.at, i.nr, name, garbage))
  IN  new_inode(get_inode(s.fs, i.nr), i.nr, s.ext, mode, garbage)

Link(n, dir, name, garbage) ==
  [slot |-> n.slot,
   fs |-> new_dir_entry(n.fs, dir, n.fs.tab[n.slot].num, name, garbage)]

(* The bits in the two maps, the inode, the entry in the directory at the  *)
(* end of the walk r.                                                      *)
MakeInode(r, name, mode, garbage) ==
  LET i == alloc_imap_bit(r.fs)
      s == alloc_smap_bit(i.fs)
  IN  Link(new_inode(get_inode(s.fs, i.nr), i.nr, s.ext, mode, garbage), r.at, name, garbage)

(* The result: the slot of the new inode, 0 if the path leads nowhere.  *)
Create(r, path, mode, garbage) ==
  IF r.found THEN MakeInode(r, Last(path), mode, garbage) ELSE [slot |-> 0, fs |-> r.fs]

create_file(fs, path, mode, garbage) ==
  Create(strip_path(fs, path), path, mode, garbage)

-----------------------------------------------------------------------------
(* The requests.  The result of do_open is a descriptor or -1.  *)

(* The inode nr of a path that was found; slot 0 if there is none.  *)
GetFound(nr, r) ==
  IF ~r.found \/ nr = 0 THEN [slot |-> 0, fs |-> r.fs] ELSE get_inode(r.fs, nr)

OpenExisting(fs, path) ==
  LET found == search_file(fs, path) IN GetFound(found.nr, strip_path(found.fs, path))

OpenNew(fs, path, garbage) ==
  LET found == search_file(fs, path)
  IN  IF found.nr # 0 THEN [slot |-> 0, fs |-> found.fs]
      ELSE create_file(found.fs, path, "reg", garbage)

(* The end of do_open: a descriptor for the inode of pin, if there is one.  *)
Opened(pin) ==
  LET fd == Least({f \in Fds : pin.fs.filp[f].slot = 0})
      inode == pin.fs.tab[pin.slot]
      fs == [pin.fs EXCEPT !.filp[fd] =
               [slot |-> pin.slot, of |-> inode.num, mode |-> inode.mode]]
  IN  IF pin.slot = 0 THEN [fd |-> -1, fs |-> pin.fs]
      ELSE [fd |-> fd, fs |-> IF inode.mode \in {"chr", "dir", "reg"} THEN fs
                              ELSE Fail(fs, "pin->i_mode == I_REGULAR")]

do_open(fs, path, create, garbage) ==
  IF \A fd \in Fds : fs.filp[fd].slot # 0
  THEN [fd |-> -1, fs |-> Fail(fs, "filp[] is full")]
  ELSE Opened(IF create THEN OpenNew(fs, path, garbage) ELSE OpenExisting(fs, path))

do_close(fs, fd) ==
  [put_inode(fs, fs.filp[fd].slot) EXCEPT !.filp[fd] = Closed]

(* Fault: what is read or written is added to the size.  *)
do_rdwt_adds(fs, fd, io, pos, grows, garbage) ==
  LET slot == fs.filp[fd].slot
      inode == fs.tab[slot]
      end == inode.size + (IF io = "READ" THEN Big ELSE pos)
  IN  IF inode.mode = "chr" \/ (inode.mode = "dir" /\ io = "WRITE") THEN fs
      ELSE IF end > inode.size \/ (io = "READ" /\ grows)
      THEN sync_inode([fs EXCEPT !.tab[slot].size = end], slot, garbage)
      ELSE fs

(* A request that ends at pos: the position becomes the size if it is      *)
(* larger.  To read is to transfer whole sectors: a file as short as those *)
(* of this model grows, one of unknown size may.                           *)
do_rdwt(fs, fd, io, pos, grows, garbage) ==
  LET slot == fs.filp[fd].slot
      inode == fs.tab[slot]
      end == IF io = "READ" THEN Big ELSE pos
  IN  IF inode.mode = "chr" \/ (inode.mode = "dir" /\ io = "WRITE") THEN fs
      ELSE IF end > inode.size \/ (io = "READ" /\ grows)
      THEN sync_inode([fs EXCEPT !.tab[slot].size = end], slot, garbage)
      ELSE fs

(* The entry of inode nr, and the size of a directory whose last entry it  *)
(* was: the entries in use before it.                                      *)
RemoveEntry(fs, dir, nr, garbage) ==
  LET d == fs.tab[dir]
      entries == fs.disk.dir[d.start]
      hits == {i \in 1..DIR_SLOTS : i <= d.size /\ entries[i].inode_nr = nr}
      at == Least(hits)
      before == Cardinality({i \in 1..(at - 1) : entries[i].inode_nr # 0})
      erased == WriteSector(fs, [fs.disk EXCEPT !.dir[d.start][at] = NoEntry])
  IN  IF hits = {} THEN fs
      ELSE IF at # d.size THEN erased
      ELSE sync_inode([erased EXCEPT !.tab[dir].size = before], dir, garbage)

(* Fault: the bits of the sector map are forgotten.  *)
ReleaseInodeOnly(fs, slot, dir, nr, garbage) ==
  LET freed == WriteSector(fs, [fs.disk EXCEPT !.imap = @ \ {nr}])
      cleared == sync_inode([freed EXCEPT !.tab[slot] =
                               [@ EXCEPT !.mode = "none", !.size = 0, !.start = 0]],
                            slot, garbage)
  IN  RemoveEntry(put_inode(cleared, slot), dir, nr, garbage)

(* The bits in the two maps, the inode, its slot, the entry.  *)
ReleaseInode(fs, slot, dir, nr, garbage) ==
  LET pin == fs.tab[slot]
      freed == WriteSector(fs, [fs.disk EXCEPT !.imap = @ \ {nr}])
      bits == WriteSector(freed, [freed.disk EXCEPT !.smap = @ \ {pin.start}])
      cleared == sync_inode([bits EXCEPT !.tab[slot] =
                               [@ EXCEPT !.mode = "none", !.size = 0, !.start = 0]],
                            slot, garbage)
  IN  RemoveEntry(put_inode(cleared, slot), dir, nr, garbage)

(* What an unlink of path is about: the inode, nr = 0 if there is none,    *)
(* its slot and that of its directory.                                     *)
NoTarget(fs) == [nr |-> 0, slot |-> 0, dir |-> 0, fs |-> fs]

TargetIn(nr, r) ==
  LET got == get_inode(r.fs, nr)
  IN  IF ~r.found THEN NoTarget(r.fs)
      ELSE [nr |-> nr, slot |-> got.slot, dir |-> r.at, fs |-> got.fs]

TargetFound(found, path) ==
  IF found.nr = 0 THEN NoTarget(found.fs)
  ELSE TargetIn(found.nr, strip_path(found.fs, path))

Target(fs, path) == TargetFound(search_file(fs, path), path)

(* Fault: the reference that do_unlink itself holds is not allowed for.  *)
UnlinkEager(t, garbage) ==
  LET mode == t.fs.tab[t.slot].mode
      got == IF mode = "dir" THEN [t.fs EXCEPT !.tab[t.slot].cnt = 1] ELSE t.fs
      busy == mode # "chr" /\ got.tab[t.slot].cnt > 2
  IN  IF t.nr = 0 THEN [ok |-> FALSE, fs |-> t.fs]
      ELSE IF mode = "chr" \/ busy THEN [ok |-> FALSE, fs |-> got]
      ELSE [ok |-> TRUE, fs |-> ReleaseInode(got, t.slot, t.dir, t.nr, garbage)]

(* A file that is in use, to judge by its count, is not removed.  A count  *)
(* that was raised is not lowered again.                                   *)
Unlink(t, garbage) ==
  LET mode == t.fs.tab[t.slot].mode
      got == IF mode = "dir" THEN [t.fs EXCEPT !.tab[t.slot].cnt = 1] ELSE t.fs
      busy == mode # "chr" /\ got.tab[t.slot].cnt > 1
  IN  IF t.nr = 0 THEN [ok |-> FALSE, fs |-> t.fs]
      ELSE IF mode = "chr" \/ busy THEN [ok |-> FALSE, fs |-> got]
      ELSE [ok |-> TRUE, fs |-> ReleaseInode(got, t.slot, t.dir, t.nr, garbage)]

do_unlink(fs, path, garbage) == Unlink(Target(fs, path), garbage)

PutMade(made) ==
  [ok |-> made.slot # 0,
   fs |-> IF made.slot = 0 THEN made.fs ELSE put_inode(made.fs, made.slot)]

do_mkdir(fs, path, garbage) == PutMade(create_file(fs, path, "dir", garbage))

do_ls(fs, dir) ==
  LET r == strip_path(fs, Append(dir, ""))
  IN  IF r.found THEN r.fs ELSE Fail(r.fs, "do_ls: dir_inode was never set")

-----------------------------------------------------------------------------
(* Start of the system: init_fs, then the shell opens its terminal twice.  *)

Tty == <<"dev_tty0">>

Booted(d) ==
  LET empty == [disk |-> d, tab |-> [s \in Slots |-> NoInode],
                filp |-> [fd \in Fds |-> Closed], cause |-> "", writes |-> <<>>]
      open(fs) ==
        LET got == get_inode(fs, 2) IN
        [got.fs EXCEPT !.filp[Least({fd \in Fds : fs.filp[fd].slot = 0})] =
           [slot |-> got.slot, of |-> 2, mode |-> "chr"]]
  IN  open(open(get_inode(empty, 1).fs))

(* mkfs: the root directory with two files and room for two more; inode 3  *)
(* is marked but not used.  Directory 0 is what sector 0 holds.            *)
mkfs ==
  [imap |-> 1..3, smap |-> {1},
   node |-> [n \in 1..(NR_INODES + 1) |->
               CASE n = 1 -> [mode |-> "dir", size |-> 4, start |-> 1]
                 [] n = 2 -> [mode |-> "chr", size |-> 0, start |-> 0]
                 [] OTHER -> [mode |-> "none", size |-> 0, start |-> 0]],
   dir |-> [e \in {0} \union Extents |->
              [i \in 1..DIR_SLOTS |->
                 CASE e = 1 /\ i = 1 -> [inode_nr |-> 1, name |-> "."]
                   [] e = 1 /\ i = 2 -> [inode_nr |-> 2, name |-> "dev_tty0"]
                   [] OTHER -> NoEntry]]]

Init ==
  /\ session \in Sessions
  /\ disk = mkfs /\ inode_table = Booted(mkfs).tab /\ filp = Booted(mkfs).filp
  /\ cwd = <<>> /\ told = {} /\ halted = ""

PowerOn(d) ==
  /\ disk' = d /\ inode_table' = Booted(d).tab /\ filp' = Booted(d).filp
  /\ cwd' = <<>> /\ halted' = ""
  /\ UNCHANGED <<session, told>>

-----------------------------------------------------------------------------
(* The commands of the shell.  *)

(* Bounds: the counts; and an inode left for the command to create, but in  *)
(* a full disk files can still be removed.                                  *)
Running(command) ==
  /\ halted = "" /\ command \in session.commands
  /\ \A s \in Slots : inode_table[s].cnt \in -MaxCount..MaxCount
  /\ command # "rm" => disk.imap # Inodes /\ disk.smap # Extents

(* What the user can name from the current directory.  *)
Below(path) == IsStrictPrefix(cwd, path)

(* A command has ended in fs.  If FS has failed nobody goes on.  *)
Ends(fs, newCwd, newTold) ==
  /\ halted' = fs.cause /\ UNCHANGED session
  /\ IF fs.cause # "" THEN UNCHANGED <<disk, inode_table, filp, cwd, told>>
     ELSE /\ disk' = fs.disk /\ inode_table' = fs.tab /\ filp' = fs.filp
          /\ cwd' = newCwd /\ told' = newTold

(* The result of a creation or a removal, after which newTold exist.  *)
Answered(result, newTold) == Ends(result.fs, cwd, IF result.ok THEN newTold ELSE told)

(* What touch, cat and vi do with the answer of their open; a command that *)
(* gets no descriptor, or none from a system that has stopped, is at its   *)
(* end.                                                                    *)
Failed(o) == o.fd = -1 \/ o.fs.cause # ""

AndWritten(o, fs, pos, garbage) ==
  do_close(do_rdwt(fs, o.fd, "WRITE", pos, FALSE, garbage), o.fd)

AndRead(o, grows, garbage) ==
  IF Failed(o) THEN o.fs
  ELSE do_close(do_rdwt(o.fs, o.fd, "READ", 0, grows, garbage), o.fd)

(* touch writes one byte.  *)
AndTouched(o, garbage) ==
  [ok |-> o.fd # -1, fs |-> IF Failed(o) THEN o.fs ELSE AndWritten(o, o.fs, 1, garbage)]

(* vi writes two; it opens the terminal as well, and never closes it.  *)
AndTerminal(o, t, garbage) ==
  IF Failed(t) THEN t.fs ELSE AndWritten(o, t.fs, 2, garbage)

AndEdited(o, garbage) ==
  IF Failed(o) THEN o.fs
  ELSE AndTerminal(o, do_open(o.fs, Tty, FALSE, garbage), garbage)

(* mkdir goes on if the path cannot be opened; otherwise the descriptor    *)
(* stays open.                                                             *)
AndMade(o, path, garbage) ==
  IF o.fd # -1 \/ o.fs.cause # "" THEN [ok |-> FALSE, fs |-> o.fs]
  ELSE do_mkdir(o.fs, path, garbage)

Touched(path, garbage) == AndTouched(do_open(FsState, path, TRUE, garbage), garbage)
MadeDir(path, garbage) == AndMade(do_open(FsState, path, FALSE, garbage), path, garbage)

CreateFile(path) ==
  /\ Running("touch")
  /\ \E g \in Garbage : Answered(Touched(path, g), told \union {path})

(* A directory is removed when it is empty: what do_unlink does with the   *)
(* files of another is left out.  So is to remove a name whose inode is    *)
(* free, which an earlier removal left behind: the bit of sector 0 in the  *)
(* sector map is in front of it.                                           *)
Removable(t) ==
  LET pin == t.fs.tab[t.slot] IN
  t.nr # 0 =>
    /\ pin.start # 0 \/ pin.mode = "chr"
    /\ pin.mode = "dir" =>
         \A i \in 1..DIR_SLOTS : i <= pin.size => disk.dir[pin.start][i] = NoEntry

DeleteFile(path) ==
  /\ Running("rm") /\ Removable(Target(FsState, path))
  /\ \E g \in Garbage : Answered(do_unlink(FsState, path, g), told \ {path})

ReadFile(path) ==
  /\ Running("cat")
  /\ \E g \in Garbage, grows \in BOOLEAN :
       Ends(AndRead(do_open(FsState, path, FALSE, g), grows, g), cwd, told)

WriteFile(path) ==
  /\ Running("vi")
  /\ \E g \in Garbage : Ends(AndEdited(do_open(FsState, path, FALSE, g), g), cwd, told)

CreateDir(path) ==
  /\ Running("mkdir")
  /\ \E g \in Garbage : Answered(MadeDir(path, g), told \union {path})

(* cd opens the directory and never closes it.  *)
Entered(o, newCwd) == Ends(o.fs, IF o.fd = -1 THEN cwd ELSE newCwd, told)

GoDir(path) ==
  /\ Running("cd")
  /\ Entered(do_open(FsState, Append(path, ""), FALSE, 0), path)

GoUp ==
  /\ Running("cd ..")
  /\ LET parent == IF cwd = <<>> THEN cwd ELSE Front(cwd)
     IN  Entered(do_open(FsState, Append(parent, ""), FALSE, 0), parent)

List == Running("ls") /\ Ends(do_ls(FsState, cwd), cwd, told)

(* Switched off and on again between two commands.  *)
Reboot == PowerOn(disk)

(* The power fails in the middle of touch or mkdir, after some of the      *)
(* sectors were written.                                                   *)
PowerFails(path) ==
  /\ Running("power")
  /\ \E g \in Garbage : \E fs \in {Touched(path, g).fs, MadeDir(path, g).fs} :
       \E i \in DOMAIN fs.writes : PowerOn(fs.writes[i])

Next ==
  \/ \E path \in session.paths :
       /\ Below(path)
       /\ \/ CreateFile(path) \/ DeleteFile(path) \/ ReadFile(path) \/ WriteFile(path)
          \/ CreateDir(path) \/ GoDir(path) \/ PowerFails(path)
  \/ GoUp \/ List \/ Reboot

Spec == Init /\ [][Next]_vars

-----------------------------------------------------------------------------
(* What should hold.  *)

InodeTable == [num : 0..NR_INODES, cnt : Int, size : 0..Big, start : {0} \union Extents,
               mode : {"none", "reg", "dir", "chr"}, sect0 : {0, Big},
               i_node_length : {"none", "reg", "dir", "chr"}]

(* Types; a directory never outgrows the entries that are kept.  *)
TypeOK ==
  /\ disk.imap \subseteq Inodes /\ disk.smap \subseteq Extents
  /\ \A n \in DOMAIN disk.node :
       disk.node[n] \in [mode : {"none", "reg", "dir", "chr"}, size : 0..Big,
                         start : {0} \union Extents]
  /\ \A e \in DOMAIN disk.dir, i \in 1..DIR_SLOTS :
       disk.dir[e][i].inode_nr \in {0} \union Inodes
  /\ \A s \in Slots : inode_table[s] \in InodeTable
  /\ \A fd \in Fds : filp[fd] \in [slot : {0} \union Slots, of : {0} \union Inodes,
                               mode : {"none", "reg", "dir", "chr"}]
  /\ session \in Sessions /\ told \subseteq session.paths

(* What FS would find now.  *)
Found(path) == search_file(FsState, path).nr # 0

(* The answers of FS are true: a path is found if and only if it was       *)
(* created and not removed since (link.c, comment above do_unlink: "Remove *)
(* a file. ... On success, zero is returned.").                            *)
AnswersTrue == halted = "" => \A p \in session.paths : p \in told <=> Found(p)

(* An inode has one slot in use: what one request changes there the next   *)
(* one sees (get_inode).                                                   *)
OneSlotPerInode ==
  \A s, t \in Slots :
    /\ inode_table[s].cnt # 0 /\ inode_table[t].cnt # 0
    /\ inode_table[s].num = inode_table[t].num
    => s = t

(* The slot of a descriptor is in use for the inode that was opened, and   *)
(* counts all descriptors of files that have it.                           *)
Refers(fd) ==
  LET s == filp[fd].slot
      sharing == {f \in Fds : filp[f].mode = "reg" /\ filp[f].slot = s}
  IN  /\ inode_table[s].num = filp[fd].of
      /\ inode_table[s].cnt >= Cardinality(sharing)

(* A descriptor of a file goes on referring to it, and the inode is not    *)
(* freed while it is open (do_unlink).  That is so in every slot but that  *)
(* of the root, whose count strip_path brings down to 0 without ever       *)
(* having raised it: a file that comes to lie there loses its count too.   *)
OpenFilesKept ==
  [][\A fd \in Fds : filp'[fd].mode = "reg" /\ filp'[fd].slot # 1 =>
       /\ Refers(fd)'
       /\ filp'[fd] = filp[fd] /\ filp[fd].of \in disk.imap => filp[fd].of \in disk'.imap]_vars

(* The entries of all directories that are in use, as the disk has them:   *)
(* pairs of the directory and a position.                                  *)
EntryInode(e) == disk.dir[disk.node[e[1]].start][e[2]].inode_nr

Entries ==
  {e \in disk.imap \X (1..DIR_SLOTS) :
     /\ disk.node[e[1]].mode = "dir" /\ e[2] <= disk.node[e[1]].size
     /\ EntryInode(e) # 0}

Owners == disk.imap \ {2, 3}

(* Every inode that is marked has sectors of its own, and no others are    *)
(* marked: create_file and do_unlink keep the two maps and the inodes in   *)
(* step although the counts of the cache and the entries get out of step.  *)
(* (A power failure may lose sectors, see CrashSafe.)                      *)
SectorsOwned ==
  "power" \notin session.commands =>
    /\ {disk.node[n].start : n \in Owners} = disk.smap
    /\ \A m, n \in Owners : disk.node[m].start = disk.node[n].start => m = n

(* Whenever the power fails while files are created: no entry names an     *)
(* inode that is free or another entry's, no two inodes share sectors.     *)
(* Removals, which clear the entry last, are left out.                     *)
CrashSafe ==
  "rm" \notin session.commands =>
    /\ {EntryInode(e) : e \in Entries} \subseteq disk.imap
    /\ \A e, f \in Entries : EntryInode(e) = EntryInode(f) => e = f
    /\ \A e \in Entries : LET n == EntryInode(e) IN
         n # 2 => disk.node[n].start \in disk.smap \ {disk.node[m].start : m \in Inodes \ {n}}

(* The system is not stopped by the assertion on the mode of an inode that *)
(* is opened (open.c 127).                                                 *)
ModeAsserted == halted # "pin->i_mode == I_REGULAR"
=============================================================================
