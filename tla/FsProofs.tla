------------------------------ MODULE FsProofs ------------------------------
(***************************************************************************)
(* Why no inode is in two slots of inode_table, why a crash between two    *)
(* writes leaves no entry without its inode, and why an open file keeps    *)
(* its inode, for every size of the tables.                                *)
(*                                                                         *)
(* The module goes through the handlers of Fs four times, from             *)
(* get_inode and put_inode over strip_path, search_file and the writes of  *)
(* the disk to do_open, do_rdwt, do_unlink and the commands:               *)
(*                                                                         *)
(*   - what each of them returns and what it leaves alone, and its types   *)
(*     (FsType and the lemmas ...Type);                                    *)
(*   - what it does to the cache: no slot in use has the inode of another  *)
(*     one, and a slot that a request holds is in use (Cache, Held);       *)
(*   - what it does to the disk when nothing is removed: each disk that it *)
(*     leaves behind is sound (DiskOk), and the slots agree with it        *)
(*     (Sound, Whole);                                                     *)
(*   - what it does to the counts of the slots that descriptors have, when *)
(*     no entry names a free inode (Tied, Keeps).                          *)
(***************************************************************************)
EXTENDS Fs, FiniteSetTheorems, WellFoundedInduction, SequenceTheorems, TLAPS


(* A set of numbers that is not empty has a smallest element.  *)
LEMMA LeastProperties ==
  ASSUME NEW S, S \subseteq Nat, S # {}
  PROVE  Least(S) \in S /\ \A y \in S : Least(S) <= y
<1> DEFINE R == OpToRel(<, Nat)
<1>1. \A x, y \in Nat : y < x => <<y, x>> \in R
  BY Zenon DEF OpToRel
<1>2. IsWellFoundedOn(R, Nat)
  BY NatLessThanWellFounded, Zenon
<1> HIDE DEF R
<1>3. PICK x \in S : \A y \in S : ~(<<y, x>> \in R)
  BY <1>2, WFMin
<1>4. ASSUME NEW y \in S PROVE x <= y
  <2>1. x \in Nat /\ y \in Nat /\ ~(y < x)
    BY <1>1, <1>3, Zenon
  <2> QED BY <2>1
<1> QED BY <1>4 DEF Least

(* A set that has 0 and every successor has every number.  *)
LEMMA Reaches ==
  ASSUME NEW T, NEW k \in Nat, 0 \in T, \A i \in 0..(k - 1) : i \in T => i + 1 \in T
  PROVE  k \in T
<1> SUFFICES ASSUME k \notin T PROVE FALSE
  OBVIOUS
<1> DEFINE out == {i \in 0..k : i \notin T}
<1>0. out \subseteq Nat /\ out # {}
  OBVIOUS
<1>1. PICK x \in out : \A y \in out : x <= y
  <2> HIDE DEF out
  <2> QED BY <1>0, LeastProperties
<1>2. x # 0 /\ x - 1 \in 0..(k - 1)
  OBVIOUS
<1>3. x - 1 \in T
  BY <1>1, <1>2
<1> QED BY <1>2, <1>3

(* A function that is defined step by step within a set exists.  *)
Makes(S, k, g) == g \in [S \X (1..k) -> S]

Made(S, base, k, g, f) ==
  f \in [0..k -> S] /\ f[0] = base /\ \A i \in 1..k : f[i] = g[<<f[i - 1], i>>]

LEMMA MadeExists ==
  ASSUME NEW S, NEW base, base \in S, NEW k, k \in Nat, NEW g, Makes(S, k, g)
  PROVE  \E f : Made(S, base, k, g, f)
<1>g. g \in [S \X (1..k) -> S]
  BY Zenon DEF Makes
<1> DEFINE made == {n \in 0..k : \E f \in [0..n -> S] :
                      f[0] = base /\ \A i \in 1..n : f[i] = g[<<f[i - 1], i>>]}
<1>1. 0 \in made
  <2> DEFINE f == [i \in 0..0 |-> base]
  <2>1. f \in [0..0 -> S] /\ f[0] = base /\ \A i \in 1..0 : f[i] = g[<<f[i - 1], i>>]
    OBVIOUS
  <2>2. 0 \in 0..k
    OBVIOUS
  <2> HIDE DEF f
  <2> QED BY <2>1, <2>2, Zenon
<1>2. ASSUME NEW n \in 0..(k - 1), n \in made PROVE n + 1 \in made
  <2>1. PICK f \in [0..n -> S] : f[0] = base /\ \A i \in 1..n : f[i] = g[<<f[i - 1], i>>]
    BY <1>2
  <2> DEFINE e == g[<<f[n], n + 1>>]
             h == [i \in 0..(n + 1) |-> IF i = n + 1 THEN e ELSE f[i]]
  <2>2. e \in S
    <3>1. f[n] \in S /\ n + 1 \in 1..k
      OBVIOUS
    <3> QED BY <3>1, <1>g
  <2>3. h \in [0..(n + 1) -> S] /\ h[0] = base
    <3> HIDE DEF e
    <3> QED BY <2>1, <2>2
  <2>4. ASSUME NEW i \in 1..(n + 1) PROVE h[i] = g[<<h[i - 1], i>>]
    <3>1. h[i - 1] = f[i - 1]
      OBVIOUS
    <3>2. CASE i = n + 1
      <4>1. i - 1 = n /\ h[i] = e
        BY <3>2
      <4> QED BY <4>1, <3>1, <3>2
    <3>3. CASE i # n + 1
      BY <3>1, <3>3, <2>1
    <3> QED BY <3>2, <3>3
  <2>5. n + 1 \in 0..k
    OBVIOUS
  <2> HIDE DEF h
  <2> QED BY <2>3, <2>4, <2>5
<1>3. k \in made
  <2> HIDE DEF made
  <2> QED BY <1>1, <1>2, Reaches
<1> QED BY <1>3, Zenon DEF Made

(* Types of what FS works on.  Sizes are not bounded here.  *)
Names == DOMAIN NameLen
Modes == {"none", "reg", "dir", "chr"}
Starts == {0} \union Extents
NodeType == [mode : Modes, size : Nat, start : Starts]
EntryType == {NoEntry} \union [inode_nr : Inodes, name : Names \union {".", "dev_tty0"}]
DiskType == [imap : SUBSET Inodes, smap : SUBSET Extents,
             node : [1..(NR_INODES + 1) -> NodeType],
             dir : [Starts -> [1..DIR_SLOTS -> EntryType]]]
SlotType == [num : 0..NR_INODES, cnt : Int, mode : Modes, size : Nat, start : Starts,
             i_node_length : Modes, sect0 : Nat]
DescType == [slot : {0} \union Slots, of : 0..NR_INODES, mode : Modes]
Causes == {"", "the inode table is full", "filp[] is full", "pin->i_mode == I_REGULAR",
           "do_ls: dir_inode was never set"}
FsType == [disk : DiskType, tab : [Slots -> SlotType], filp : [Fds -> DescType],
           cause : Causes, writes : Seq(DiskType)]
WalkType == [fs : FsType, at : Slots, found : BOOLEAN]

(* FS has not failed.  *)
Ok(fs) == fs.cause = ""

LEMMA Constants ==
  /\ NR_INODES \in Nat /\ NR_INODES >= 4
  /\ NR_INODE \in Nat /\ NR_INODE >= 2
  /\ NR_FILES \in Nat /\ NR_FILES >= 2
  /\ DIR_SLOTS \in Nat /\ DIR_SLOTS >= NR_INODES + 4
<1>1. NR_INODES \in 4..15 /\ {NR_INODE, NR_FILES} \subseteq Nat \ {0, 1}
      /\ DIR_SLOTS \in NR_INODES + 4 .. 32
  BY FsAssumption, Zenon
<1> QED BY <1>1

(* Updates of one field of a state of FS, and of the count of a slot.  *)
LEMMA FsFields ==
  ASSUME NEW fs \in FsType
  PROVE  /\ fs.disk \in DiskType /\ fs.tab \in [Slots -> SlotType]
         /\ fs.filp \in [Fds -> DescType] /\ fs.cause \in Causes
         /\ fs.writes \in Seq(DiskType)
BY Zenon DEF FsType

LEMMA WithTab ==
  ASSUME NEW fs \in FsType, NEW tab \in [Slots -> SlotType]
  PROVE  LET r == [fs EXCEPT !.tab = tab] IN
         /\ r \in FsType /\ r.tab = tab /\ r.disk = fs.disk /\ r.filp = fs.filp
         /\ r.cause = fs.cause /\ r.writes = fs.writes
BY Zenon DEF FsType

LEMMA WithFilp ==
  ASSUME NEW fs \in FsType, NEW filp_ \in [Fds -> DescType]
  PROVE  LET r == [fs EXCEPT !.filp = filp_] IN
         /\ r \in FsType /\ r.filp = filp_ /\ r.disk = fs.disk /\ r.tab = fs.tab
         /\ r.cause = fs.cause /\ r.writes = fs.writes
BY Zenon DEF FsType

LEMMA WithCause ==
  ASSUME NEW fs \in FsType, NEW cause \in Causes
  PROVE  LET r == [fs EXCEPT !.cause = cause] IN
         /\ r \in FsType /\ r.cause = cause /\ r.disk = fs.disk /\ r.tab = fs.tab
         /\ r.filp = fs.filp /\ r.writes = fs.writes
BY Zenon DEF FsType

LEMMA WithDisk ==
  ASSUME NEW fs \in FsType, NEW d \in DiskType
  PROVE  LET r == [fs EXCEPT !.disk = d] IN
         /\ r \in FsType /\ r.disk = d /\ r.tab = fs.tab /\ r.filp = fs.filp
         /\ r.cause = fs.cause /\ r.writes = fs.writes
BY Zenon DEF FsType

LEMMA WithWrites ==
  ASSUME NEW fs \in FsType, NEW writes \in Seq(DiskType)
  PROVE  LET r == [fs EXCEPT !.writes = writes] IN
         /\ r \in FsType /\ r.writes = writes /\ r.disk = fs.disk /\ r.tab = fs.tab
         /\ r.filp = fs.filp /\ r.cause = fs.cause
BY Zenon DEF FsType

LEMMA WithCount ==
  ASSUME NEW p \in SlotType, NEW c \in Int
  PROVE  LET r == [p EXCEPT !.cnt = c] IN
         /\ r \in SlotType /\ r.cnt = c /\ r.num = p.num /\ r.mode = p.mode
         /\ r.size = p.size /\ r.start = p.start /\ r.i_node_length = p.i_node_length
         /\ r.sect0 = p.sect0
BY Zenon DEF SlotType

(* p and q differ in their counts only.  *)
SameInode(p, q) ==
  /\ q.num = p.num /\ q.mode = p.mode /\ q.size = p.size /\ q.start = p.start
  /\ q.i_node_length = p.i_node_length /\ q.sect0 = p.sect0

(* gs is fs but for slot s, which has changed from p to q.  *)
OneSlot(fs, gs, s, p, q) ==
  /\ gs \in FsType /\ p \in SlotType /\ q \in SlotType
  /\ gs.disk = fs.disk /\ gs.filp = fs.filp /\ gs.writes = fs.writes
  /\ s \in Slots /\ p = fs.tab[s] /\ q = gs.tab[s]
  /\ \A u \in Slots : u # s => gs.tab[u] = fs.tab[u]

LEMMA SetSlot ==
  ASSUME NEW fs \in FsType, NEW s \in Slots, NEW q \in SlotType
  PROVE  LET gs == [fs EXCEPT !.tab[s] = q] IN
         OneSlot(fs, gs, s, fs.tab[s], q) /\ gs.cause = fs.cause
<1> DEFINE tab == [fs.tab EXCEPT ![s] = q]
           gs == [fs EXCEPT !.tab = tab]
<1>1. fs.tab \in [Slots -> SlotType]
  BY FsFields
<1>2. tab \in [Slots -> SlotType] /\ tab[s] = q /\ \A u \in Slots : u # s => tab[u] = fs.tab[u]
  BY <1>1, Zenon
<1> HIDE DEF tab
<1>3. gs \in FsType /\ gs.tab = tab /\ gs.disk = fs.disk /\ gs.filp = fs.filp
      /\ gs.cause = fs.cause /\ gs.writes = fs.writes
  BY <1>2, WithTab, Zenon
<1>4. fs.tab[s] \in SlotType
  BY <1>1
<1> QED BY <1>2, <1>3, <1>4, Zenon DEF OneSlot, tab

LEMMA SetCount ==
  ASSUME NEW fs \in FsType, NEW s \in Slots, NEW c \in Int
  PROVE  LET gs == [fs EXCEPT !.tab[s].cnt = c] IN
         /\ OneSlot(fs, gs, s, fs.tab[s], gs.tab[s]) /\ gs.cause = fs.cause
         /\ gs.tab[s].cnt = c /\ SameInode(fs.tab[s], gs.tab[s])
<1> DEFINE q == [fs.tab[s] EXCEPT !.cnt = c]
           gs == [fs EXCEPT !.tab[s] = q]
<1>1. fs.tab[s] \in SlotType
  BY FsFields
<1>2. q \in SlotType /\ q.cnt = c /\ SameInode(fs.tab[s], q)
  BY <1>1, WithCount, Zenon DEF SameInode
<1> HIDE DEF q
<1>3. OneSlot(fs, gs, s, fs.tab[s], q) /\ gs.cause = fs.cause
  BY <1>2, SetSlot, Zenon
<1> HIDE DEF gs
<1>4. gs.tab[s] = q
  BY <1>3, Zenon DEF OneSlot
<1>5. gs = [fs EXCEPT !.tab[s].cnt = c]
  BY Zenon DEF gs, q
<1> QED BY <1>2, <1>3, <1>4, <1>5, Zenon

(* What get_inode may have done: counted an inode that was there, or       *)
(* failed, or loaded it into the first free slot.                          *)
Hit(num, p, q) == p.cnt # 0 /\ p.num = num /\ q.cnt = p.cnt + 1 /\ SameInode(p, q)

Load(fs, num, s, p, q) ==
  /\ \A u \in Slots : fs.tab[u].cnt # 0 => fs.tab[u].num # num
  /\ p.cnt = 0 /\ \A u \in Slots : u < s => fs.tab[u].cnt # 0
  /\ q.num = num /\ q.cnt = 1 /\ q.mode = fs.disk.node[num].mode
  /\ q.size = fs.disk.node[num].size /\ q.start = fs.disk.node[num].start
  /\ q.i_node_length = fs.disk.node[num + 1].mode /\ q.sect0 = p.sect0

Got(fs, num, got) ==
  LET p == fs.tab[got.slot]
      q == got.fs.tab[got.slot]
  IN  /\ OneSlot(fs, got.fs, got.slot, p, q)
      /\ \/ Hit(num, p, q) /\ got.fs.cause = fs.cause
         \/ p = q /\ got.slot = 1 /\ got.fs.cause # ""
         \/ Load(fs, num, got.slot, p, q) /\ got.fs.cause = fs.cause

LEMMA GetCached ==
  ASSUME NEW fs, NEW num, Cached(fs, num) # {}, NEW s, s = Least(Cached(fs, num))
  PROVE  LET got == get_inode(fs, num) IN
         got.slot = s /\ got.fs = [fs EXCEPT !.tab[s].cnt = fs.tab[s].cnt + 1]
<1> DEFINE t == Least(Cached(fs, num))
           gs == [fs EXCEPT !.tab[t].cnt = fs.tab[t].cnt + 1]
<1>1. get_inode(fs, num) = [slot |-> t, fs |-> gs]
  BY Zenon DEF get_inode, Find
<1> HIDE DEF t, gs
<1>2. get_inode(fs, num).slot = t /\ get_inode(fs, num).fs = gs
  BY <1>1
<1> QED BY <1>2 DEF t, gs

LEMMA GetFull ==
  ASSUME NEW fs, NEW num, Cached(fs, num) = {}, Free(fs) = {}
  PROVE  LET got == get_inode(fs, num) IN
         got.slot = 1 /\ got.fs = Fail(fs, "the inode table is full")
<1> DEFINE gs == Fail(fs, "the inode table is full")
<1>1. get_inode(fs, num) = [slot |-> 1, fs |-> gs]
  BY Zenon DEF get_inode, Find
<1> HIDE DEF gs
<1>2. get_inode(fs, num).slot = 1 /\ get_inode(fs, num).fs = gs
  BY <1>1
<1> QED BY <1>2 DEF gs

LEMMA GetFree ==
  ASSUME NEW fs, NEW num, Cached(fs, num) = {}, Free(fs) # {}, NEW s, s = Least(Free(fs))
  PROVE  LET got == get_inode(fs, num) IN
         got.slot = s /\ got.fs = [fs EXCEPT !.tab[s] = Loaded(fs, s, num)]
<1> DEFINE t == Least(Free(fs))
           gs == [fs EXCEPT !.tab[t] = Loaded(fs, t, num)]
<1>1. get_inode(fs, num) = [slot |-> t, fs |-> gs]
  BY Zenon DEF get_inode, Find
<1> HIDE DEF t, gs
<1>2. get_inode(fs, num).slot = t /\ get_inode(fs, num).fs = gs
  BY <1>1
<1> QED BY <1>2 DEF t, gs

(* get_inode changes nothing but one slot of the cache, in one of the      *)
(* three ways.                                                             *)
LEMMA GetInode ==
  ASSUME NEW fs \in FsType, NEW num \in Inodes, NEW got, got = get_inode(fs, num)
  PROVE  Got(fs, num, got)
<1>1. Cached(fs, num) \subseteq Nat /\ Free(fs) \subseteq Nat /\ 1 \in Slots
  BY Constants DEF Slots, Cached, Free
<1>2. fs.tab \in [Slots -> SlotType] /\ \A s \in Slots : fs.tab[s] \in SlotType
  BY FsFields
<1>3. CASE Cached(fs, num) # {}
  <2> DEFINE s == Least(Cached(fs, num))
  <2>1. s \in Cached(fs, num)
    BY <1>1, <1>3, LeastProperties, Zenon
  <2>2. s \in Slots /\ fs.tab[s].cnt # 0 /\ fs.tab[s].num = num
    BY <2>1, Zenon DEF Cached
  <2> DEFINE c == fs.tab[s].cnt + 1
             gs == [fs EXCEPT !.tab[s].cnt = c]
  <2>3. got.slot = s /\ got.fs = gs
    BY <1>3, GetCached, Zenon
  <2> HIDE DEF s
  <2>4. c \in Int
    BY <1>2, <2>2 DEF SlotType
  <2> HIDE DEF c
  <2>5. OneSlot(fs, gs, s, fs.tab[s], gs.tab[s]) /\ gs.cause = fs.cause
        /\ gs.tab[s].cnt = c /\ SameInode(fs.tab[s], gs.tab[s])
    BY <2>2, <2>4, SetCount, Zenon
  <2> HIDE DEF gs
  <2> QED BY <2>2, <2>3, <2>5, Zenon DEF Got, Hit, c
<1>4. CASE Cached(fs, num) = {} /\ Free(fs) = {}
  <2> DEFINE c == "the inode table is full"
             gs == Fail(fs, c)
  <2>1. got.slot = 1 /\ got.fs = gs
    BY <1>4, GetFull, Zenon
  <2>2. c \in Causes /\ c # ""
    BY DEF Causes
  <2> HIDE DEF c
  <2>3. gs \in FsType /\ gs.tab = fs.tab /\ gs.disk = fs.disk /\ gs.filp = fs.filp
        /\ gs.writes = fs.writes /\ gs.cause # ""
    <3>1. CASE fs.cause = ""
      <4>1. gs = [fs EXCEPT !.cause = c]
        BY <3>1, Zenon DEF Fail
      <4> HIDE DEF gs
      <4> QED BY <4>1, <2>2, WithCause, Zenon
    <3>2. CASE fs.cause # ""
      BY <3>2, Zenon DEF Fail
    <3> QED BY <3>1, <3>2, Zenon
  <2> HIDE DEF gs
  <2> QED BY <1>1, <1>2, <2>1, <2>3, Zenon DEF Got, OneSlot
<1>5. CASE Cached(fs, num) = {} /\ Free(fs) # {}
  <2> DEFINE s == Least(Free(fs))
             q == Loaded(fs, s, num)
             gs == [fs EXCEPT !.tab[s] = q]
  <2>1. s \in Free(fs) /\ \A u \in Free(fs) : s <= u
    BY <1>1, <1>5, LeastProperties, Zenon
  <2>2. s \in Slots /\ fs.tab[s].cnt = 0
    BY <2>1, Zenon DEF Free
  <2>3. got.slot = s /\ got.fs = gs
    BY <1>5, GetFree, Zenon
  <2> HIDE DEF s
  <2>4. \A u \in Slots : u < s => fs.tab[u].cnt # 0
    <3> SUFFICES ASSUME NEW u \in Slots, u < s, fs.tab[u].cnt = 0 PROVE FALSE
      BY Zenon
    <3>1. u \in Free(fs)
      BY Zenon DEF Free
    <3>2. s <= u
      BY <3>1, <2>1, Zenon
    <3> QED BY <3>2, <2>2, Constants DEF Slots
  <2>5. \A u \in Slots : fs.tab[u].cnt # 0 => fs.tab[u].num # num
    BY <1>5, Zenon DEF Cached
  <2>6. q \in SlotType /\ q.num = num /\ q.cnt = 1 /\ q.mode = fs.disk.node[num].mode
        /\ q.size = fs.disk.node[num].size /\ q.start = fs.disk.node[num].start
        /\ q.i_node_length = fs.disk.node[num + 1].mode /\ q.sect0 = fs.tab[s].sect0
    <3>1. num \in 1..(NR_INODES + 1) /\ num + 1 \in 1..(NR_INODES + 1) /\ num \in 0..NR_INODES
      BY Constants DEF Inodes
    <3>2. fs.disk.node \in [1..(NR_INODES + 1) -> NodeType]
      BY FsFields, Zenon DEF DiskType
    <3>3. fs.disk.node[num] \in NodeType /\ fs.disk.node[num + 1] \in NodeType
      BY <3>1, <3>2
    <3>4. fs.tab[s].sect0 \in Nat
      BY <1>2, <2>2 DEF SlotType
    <3> QED BY <3>1, <3>3, <3>4 DEF Loaded, SlotType, NodeType
  <2> HIDE DEF q
  <2>7. OneSlot(fs, gs, s, fs.tab[s], q) /\ gs.cause = fs.cause
    BY <2>2, <2>6, SetSlot, Zenon
  <2> HIDE DEF gs
  <2>8. gs.tab[s] = q
    BY <2>7, Zenon DEF OneSlot
  <2> QED BY <2>2, <2>3, <2>4, <2>5, <2>6, <2>7, <2>8, Zenon DEF Got, Load
<1> QED BY <1>3, <1>4, <1>5, Zenon

(* What put_inode does: one reference less.  *)
LEMMA PutInode ==
  ASSUME NEW fs \in FsType, NEW s \in Slots, NEW gs, gs = put_inode(fs, s)
  PROVE  /\ OneSlot(fs, gs, s, fs.tab[s], gs.tab[s]) /\ gs.cause = fs.cause
         /\ gs.tab[s].cnt = fs.tab[s].cnt - 1 /\ SameInode(fs.tab[s], gs.tab[s])
<1> DEFINE c == fs.tab[s].cnt - 1
<1>1. fs.tab[s] \in SlotType
  BY FsFields
<1>2. c \in Int
  BY <1>1 DEF SlotType
<1> DEFINE hs == [fs EXCEPT !.tab[s].cnt = c]
<1>3. gs = hs
  BY Zenon DEF put_inode
<1> HIDE DEF c
<1>4. OneSlot(fs, hs, s, fs.tab[s], hs.tab[s]) /\ hs.cause = fs.cause
      /\ hs.tab[s].cnt = c /\ SameInode(fs.tab[s], hs.tab[s])
  BY <1>2, SetCount, Zenon
<1> HIDE DEF hs
<1> QED BY <1>3, <1>4, Zenon DEF c

(* gs is fs after a sector was written; the disk is now d.  *)
Wrote(fs, gs, d) ==
  /\ gs \in FsType /\ d \in DiskType /\ gs.disk = d /\ gs.tab = fs.tab /\ gs.filp = fs.filp
  /\ gs.cause = fs.cause
  /\ gs.writes = IF fs.cause = "" THEN Append(fs.writes, d) ELSE fs.writes

LEMMA WriteIs ==
  ASSUME NEW fs \in FsType, NEW d \in DiskType, NEW gs, gs = WriteSector(fs, d)
  PROVE  Wrote(fs, gs, d)
<1> DEFINE w == IF fs.cause = "" THEN Append(fs.writes, d) ELSE fs.writes
<1> DEFINE h == [fs EXCEPT !.disk = d]
           hs == [h EXCEPT !.writes = w]
<1>1. gs = hs
  BY Zenon DEF WriteSector
<1>2. w \in Seq(DiskType)
  <2>1. fs.writes \in Seq(DiskType)
    BY FsFields
  <2>2. Append(fs.writes, d) \in Seq(DiskType)
    BY <2>1, AppendProperties
  <2> QED BY <2>1, <2>2, Zenon
<1> HIDE DEF w
<1>3. h \in FsType /\ h.disk = d /\ h.tab = fs.tab /\ h.filp = fs.filp
      /\ h.cause = fs.cause /\ h.writes = fs.writes
  BY WithDisk, Zenon
<1> HIDE DEF h
<1>4. hs \in FsType /\ hs.writes = w /\ hs.disk = h.disk /\ hs.tab = h.tab
      /\ hs.filp = h.filp /\ hs.cause = h.cause
  BY <1>2, <1>3, WithWrites, Zenon
<1> HIDE DEF hs
<1> QED BY <1>1, <1>3, <1>4, Zenon DEF Wrote, w

(* Updates of one part of a disk.  *)
LEMMA DiskFields ==
  ASSUME NEW d \in DiskType
  PROVE  /\ d.imap \subseteq Inodes /\ d.smap \subseteq Extents
         /\ d.node \in [1..(NR_INODES + 1) -> NodeType]
         /\ d.dir \in [Starts -> [1..DIR_SLOTS -> EntryType]]
BY Zenon DEF DiskType

LEMMA WithMaps ==
  ASSUME NEW d \in DiskType
  PROVE  /\ \A m \in SUBSET Inodes : LET r == [d EXCEPT !.imap = m] IN
              r \in DiskType /\ r.imap = m /\ r.smap = d.smap /\ r.node = d.node /\ r.dir = d.dir
         /\ \A m \in SUBSET Extents : LET r == [d EXCEPT !.smap = m] IN
              r \in DiskType /\ r.smap = m /\ r.imap = d.imap /\ r.node = d.node /\ r.dir = d.dir
<1>1. ASSUME NEW m \in SUBSET Inodes
      PROVE  LET r == [d EXCEPT !.imap = m] IN
             r \in DiskType /\ r.imap = m /\ r.smap = d.smap /\ r.node = d.node /\ r.dir = d.dir
  BY Zenon DEF DiskType
<1>2. ASSUME NEW m \in SUBSET Extents
      PROVE  LET r == [d EXCEPT !.smap = m] IN
             r \in DiskType /\ r.smap = m /\ r.imap = d.imap /\ r.node = d.node /\ r.dir = d.dir
  BY Zenon DEF DiskType
<1> QED BY <1>1, <1>2, Zenon

LEMMA WithNode ==
  ASSUME NEW d \in DiskType, NEW node \in [1..(NR_INODES + 1) -> NodeType]
  PROVE  LET r == [d EXCEPT !.node = node] IN
         r \in DiskType /\ r.node = node /\ r.imap = d.imap /\ r.smap = d.smap /\ r.dir = d.dir
BY Zenon DEF DiskType

LEMMA WithDir ==
  ASSUME NEW d \in DiskType, NEW dir \in [Starts -> [1..DIR_SLOTS -> EntryType]]
  PROVE  LET r == [d EXCEPT !.dir = dir] IN
         r \in DiskType /\ r.dir = dir /\ r.imap = d.imap /\ r.smap = d.smap /\ r.node = d.node
BY Zenon DEF DiskType

(* What sync_inode does to the inodes on the disk.  *)
Synced(fs, gs, s, garbage) ==
  LET p == fs.tab[s]
      old == fs.disk.node
      new == gs.disk.node
  IN  /\ Wrote(fs, gs, gs.disk)
      /\ gs.disk.imap = fs.disk.imap /\ gs.disk.smap = fs.disk.smap /\ gs.disk.dir = fs.disk.dir
      /\ \A n \in 1..(NR_INODES + 1) :
           /\ n = p.num => new[n].mode = p.mode /\ new[n].size = p.size /\ new[n].start = p.start
           /\ n = p.num + 1 => /\ new[n].mode = p.i_node_length /\ new[n].start = old[n].start
                               /\ new[n].size = (IF p.i_node_length = "none" THEN p.sect0
                                                 ELSE garbage)
           /\ n # p.num /\ n # p.num + 1 => new[n] = old[n]

LEMMA SyncInode ==
  ASSUME NEW fs \in FsType, NEW s \in Slots, NEW garbage \in Nat,
         NEW gs, gs = sync_inode(fs, s, garbage)
  PROVE  Synced(fs, gs, s, garbage)
<1> DEFINE p == fs.tab[s]
           old == fs.disk.node
           size == IF p.i_node_length = "none" THEN p.sect0 ELSE garbage
           spilt == [mode |-> p.i_node_length, size |-> size, start |-> old[p.num + 1].start]
           own == [mode |-> p.mode, size |-> p.size, start |-> p.start]
           one == [old EXCEPT ![p.num] = own]
           two == [one EXCEPT ![p.num + 1] = spilt]
           d == [fs.disk EXCEPT !.node = two]
<1>1. p \in SlotType /\ fs.disk \in DiskType /\ old \in [1..(NR_INODES + 1) -> NodeType]
  BY FsFields, DiskFields
<1>2. p.num \in 0..NR_INODES /\ p.num + 1 \in 1..(NR_INODES + 1)
  BY <1>1, Constants DEF SlotType
<1>3. old[p.num + 1] \in NodeType
  BY <1>1, <1>2
<1>4. own \in NodeType /\ spilt \in NodeType
  <2>1. size \in Nat
    BY <1>1 DEF SlotType
  <2> HIDE DEF size
  <2> QED BY <1>1, <1>3, <2>1 DEF SlotType, NodeType
<1>5. sync_inode(fs, s, garbage) =
        WriteSector(fs, [fs.disk EXCEPT !.node[p.num] = own, !.node[p.num + 1] = spilt])
  BY Zenon DEF sync_inode
<1>6. [fs.disk EXCEPT !.node[p.num] = own, !.node[p.num + 1] = spilt] = d
  <2> HIDE DEF own, spilt
  <2> DEFINE d1 == [fs.disk EXCEPT !.node = one]
  <2>1. one \in [1..(NR_INODES + 1) -> NodeType]
    BY <1>1, <1>4
  <2> HIDE DEF one
  <2>2. d1 \in DiskType /\ d1.node = one
    BY <1>1, <2>1, WithNode, Zenon
  <2>3. [d1 EXCEPT !.node = two] = d
    BY <1>1, Zenon DEF DiskType
  <2>4. [d1 EXCEPT !.node[p.num + 1] = spilt] = [d1 EXCEPT !.node = two]
    BY <2>2, Zenon
  <2> QED BY <2>3, <2>4, Zenon DEF one
<1>7. two \in [1..(NR_INODES + 1) -> NodeType]
  <2> HIDE DEF own, spilt
  <2> QED BY <1>1, <1>4
<1>8. d \in DiskType /\ d.node = two /\ d.imap = fs.disk.imap /\ d.smap = fs.disk.smap
      /\ d.dir = fs.disk.dir
  <2> HIDE DEF two
  <2> QED BY <1>1, <1>7, WithNode, Zenon
<1>9. Wrote(fs, gs, d)
  <2> HIDE DEF d
  <2> QED BY <1>5, <1>6, <1>8, WriteIs, Zenon
<1>10. gs.disk = d
  BY <1>9, Zenon DEF Wrote
<1>11. ASSUME NEW n \in 1..(NR_INODES + 1)
       PROVE  /\ n = p.num => two[n].mode = p.mode /\ two[n].size = p.size /\ two[n].start = p.start
              /\ n = p.num + 1 => /\ two[n].mode = p.i_node_length /\ two[n].start = old[n].start
                                  /\ two[n].size = size
              /\ n # p.num /\ n # p.num + 1 => two[n] = old[n]
  <2>1. CASE n = p.num
    <3>1. n # p.num + 1
      BY <2>1, <1>2
    <3>2. two[n] = own
      <4> HIDE DEF own, spilt
      <4> QED BY <3>1, <2>1, <1>1, <1>4
    <3> HIDE DEF two
    <3>3. own.mode = p.mode /\ own.size = p.size /\ own.start = p.start
      BY Zenon
    <3> HIDE DEF own
    <3> QED BY <3>1, <3>2, <3>3, <2>1, Zenon
  <2>2. CASE n = p.num + 1
    <3>1. n # p.num
      BY <2>2, <1>2
    <3>2. two[n] = spilt
      <4> HIDE DEF own, spilt
      <4> QED BY <3>1, <2>2, <1>1, <1>4
    <3> HIDE DEF two, size
    <3>3. spilt.mode = p.i_node_length /\ spilt.start = old[p.num + 1].start /\ spilt.size = size
      BY Zenon
    <3> QED BY <3>1, <3>2, <3>3, <2>2, Zenon
  <2>3. CASE n # p.num /\ n # p.num + 1
    <3> HIDE DEF own, spilt
    <3> QED BY <2>3, <1>1, <1>4
  <2> QED BY <2>1, <2>2, <2>3, Zenon
<1> HIDE DEF d, two
<1> QED BY <1>8, <1>9, <1>10, <1>11, Zenon DEF Synced

(* A sequence that starts in a set and has no step out of it stays there.  *)
LEMMA StepsStay ==
  ASSUME NEW S, NEW k \in Nat, NEW f, f[0] \in S, \A i \in 1..k : f[i - 1] \in S => f[i] \in S
  PROVE  f[k] \in S
<1> DEFINE T == {i \in 0..k : f[i] \in S}
<1>1. 0 \in T
  OBVIOUS
<1>2. ASSUME NEW i \in 0..(k - 1), i \in T PROVE i + 1 \in T
  <2>1. i + 1 \in 1..k /\ i + 1 \in 0..k /\ (i + 1) - 1 = i /\ f[i] \in S
    BY <1>2
  <2> QED BY <2>1
<1>3. k \in T
  <2> HIDE DEF T
  <2> QED BY <1>1, <1>2, Reaches
<1> QED BY <1>3

LEMMA WalkFields ==
  ASSUME NEW w \in WalkType
  PROVE  /\ w.fs \in FsType /\ w.at \in Slots /\ w.found \in BOOLEAN
         /\ w.fs.disk.dir \in [Starts -> [1..DIR_SLOTS -> EntryType]]
         /\ w.fs.tab[w.at] \in SlotType
<1>1. w.fs \in FsType /\ w.at \in Slots /\ w.found \in BOOLEAN
  BY Zenon DEF WalkType
<1> QED BY <1>1, FsFields, DiskFields

(* The recursive function of Enter exists.  *)
Looks(k, base, entries, name, f) ==
  f = [i \in 0..k |-> IF i = 0 THEN base ELSE Look(f[i - 1], entries[i], name)]

LookStays(S, k, entries, name) == \A w \in S : \A i \in 1..k : Look(w, entries[i], name) \in S

LEMMA LooksExist ==
  ASSUME NEW S, NEW name, NEW entries, NEW k, k \in Nat, NEW base, base \in S,
         LookStays(S, k, entries, name)
  PROVE  \E f : Looks(k, base, entries, name, f)
<1> DEFINE g == [p \in S \X (1..k) |-> Look(p[1], entries[p[2]], name)]
<1>1. g \in [S \X (1..k) -> S]
  <2> SUFFICES ASSUME NEW p \in S \X (1..k) PROVE Look(p[1], entries[p[2]], name) \in S
    BY Zenon
  <2>1. p[1] \in S /\ p[2] \in 1..k
    OBVIOUS
  <2> QED BY <2>1, Zenon DEF LookStays
<1>2. \A w \in S : \A i \in 1..k : g[<<w, i>>] = Look(w, entries[i], name)
  BY Zenon
<1> HIDE DEF g
<1>3. PICK f : f \in [0..k -> S] /\ f[0] = base /\ \A i \in 1..k : f[i] = g[<<f[i - 1], i>>]
  <2>1. Makes(S, k, g)
    BY <1>1, Zenon DEF Makes
  <2>2. \E f : Made(S, base, k, g, f)
    BY <2>1, MadeExists, Zenon
  <2> QED BY <2>2, Zenon DEF Made
<1>4. ASSUME NEW i \in 0..k
      PROVE  f[i] = IF i = 0 THEN base ELSE Look(f[i - 1], entries[i], name)
  <2>1. CASE i = 0
    BY <2>1, <1>3, Zenon
  <2>2. CASE i # 0
    <3>1. i \in 1..k /\ i - 1 \in 0..k
      BY <2>2
    <3>2. f[i - 1] \in S
      BY <3>1, <1>3, Zenon
    <3> QED BY <2>2, <3>1, <3>2, <1>2, <1>3, Zenon
  <2> QED BY <2>1, <2>2, Zenon
<1>5. f = [i \in 0..k |-> IF i = 0 THEN base ELSE Look(f[i - 1], entries[i], name)]
  BY <1>4, <1>3, Zenon
<1> QED BY <1>5, Zenon DEF Looks

(* One component of a path stays in a set that no look leaves.  *)
LEMMA EnterStays ==
  ASSUME NEW S, S \subseteq WalkType, NEW E, NEW name, NEW walk \in S,
         [walk EXCEPT !.found = FALSE] \in S,
         \A e \in Starts, i \in 1..DIR_SLOTS : walk.fs.disk.dir[e][i] \in E,
         \A w \in S, entry \in E : Look(w, entry, name) \in S
  PROVE  Enter(walk, name) \in S
<1> DEFINE here == walk.fs.tab[walk.at]
           entries == walk.fs.disk.dir[here.start]
           k == Looked(here)
           base == [walk EXCEPT !.found = FALSE]
           look[i \in 0..Looked(here)] ==
             IF i = 0 THEN [walk EXCEPT !.found = FALSE] ELSE Look(look[i - 1], entries[i], name)
<1>1. here \in SlotType
  BY WalkFields
<1>2. k \in Nat /\ k <= DIR_SLOTS /\ here.start \in Starts
  BY <1>1, Constants DEF Looked, SlotType
<1>3. \A i \in 1..k : entries[i] \in E
  BY <1>2, Constants
<1> HIDE DEF k
<1>7. Looks(k, base, entries, name, look)
  <2> HIDE DEF entries
  <2>1. LookStays(S, k, entries, name)
    BY <1>3, Zenon DEF LookStays
  <2>2. base \in S
    OBVIOUS
  <2>3. \E f : Looks(k, base, entries, name, f)
    <3> HIDE DEF base, look
    <3> QED BY <1>2, <2>1, <2>2, LooksExist, Zenon
  <2> QED BY <2>3, Zenon DEF k, Looks
<1>8. look[k] \in S
  <2>1. look[0] \in S
    <3>1. look[0] = base
      <4> HIDE DEF look
      <4> QED BY <1>2, <1>7 DEF Looks
    <3> QED BY <3>1, Zenon
  <2>2. ASSUME NEW i \in 1..k, look[i - 1] \in S PROVE look[i] \in S
    <3> HIDE DEF look
    <3>1. look[i] = Look(look[i - 1], entries[i], name)
      <4>1. i \in 0..k /\ i # 0
        BY <1>2
      <4> HIDE DEF entries, base
      <4> QED BY <4>1, <1>7, Zenon DEF Looks
    <3> QED BY <3>1, <2>2, <1>3, Zenon
  <2> HIDE DEF look
  <2> QED BY <2>1, <2>2, <1>2, StepsStay, Zenon
<1>9. CASE walk.found
  <2>1. Enter(walk, name) = look[k]
    BY <1>9, Zenon DEF Enter, k
  <2> QED BY <2>1, <1>8, Zenon
<1>10. CASE ~walk.found
  BY <1>10, Zenon DEF Enter
<1> QED BY <1>9, <1>10, WalkFields

Walks(k, base, path, f) ==
  f = [i \in 0..k |-> IF i = 0 THEN base ELSE Enter(f[i - 1], path[i])]

EnterStaysIn(S, k, path) == \A w \in S : \A i \in 1..k : Enter(w, path[i]) \in S

LEMMA WalksExist ==
  ASSUME NEW S, NEW path, NEW k, k \in Nat, NEW base, base \in S, EnterStaysIn(S, k, path)
  PROVE  \E f : Walks(k, base, path, f)
<1> DEFINE g == [p \in S \X (1..k) |-> Enter(p[1], path[p[2]])]
<1>1. g \in [S \X (1..k) -> S]
  <2> SUFFICES ASSUME NEW p \in S \X (1..k) PROVE Enter(p[1], path[p[2]]) \in S
    BY Zenon
  <2>1. p[1] \in S /\ p[2] \in 1..k
    OBVIOUS
  <2> QED BY <2>1, Zenon DEF EnterStaysIn
<1>2. \A w \in S : \A i \in 1..k : g[<<w, i>>] = Enter(w, path[i])
  BY Zenon
<1> HIDE DEF g
<1>3. PICK f : f \in [0..k -> S] /\ f[0] = base /\ \A i \in 1..k : f[i] = g[<<f[i - 1], i>>]
  <2>1. Makes(S, k, g)
    BY <1>1, Zenon DEF Makes
  <2>2. \E f : Made(S, base, k, g, f)
    BY <2>1, MadeExists, Zenon
  <2> QED BY <2>2, Zenon DEF Made
<1>4. ASSUME NEW i \in 0..k
      PROVE  f[i] = IF i = 0 THEN base ELSE Enter(f[i - 1], path[i])
  <2>1. CASE i = 0
    BY <2>1, <1>3, Zenon
  <2>2. CASE i # 0
    <3>1. i \in 1..k /\ i - 1 \in 0..k
      BY <2>2
    <3>2. f[i - 1] \in S
      BY <3>1, <1>3, Zenon
    <3> QED BY <2>2, <3>1, <3>2, <1>2, <1>3, Zenon
  <2> QED BY <2>1, <2>2, Zenon
<1>5. f = [i \in 0..k |-> IF i = 0 THEN base ELSE Enter(f[i - 1], path[i])]
  BY <1>4, <1>3, Zenon
<1> QED BY <1>5, Zenon DEF Walks

(* A walk stays in a set that no look of it leaves.  *)
LEMMA WalkStays ==
  ASSUME NEW S, S \subseteq WalkType, NEW E, NEW fs, NEW path, Len(path) \in Nat \ {0},
         [fs |-> fs, at |-> 1, found |-> TRUE] \in S,
         \A w \in S : [w EXCEPT !.found = FALSE] \in S,
         \A w \in S : \A e \in Starts, i \in 1..DIR_SLOTS : w.fs.disk.dir[e][i] \in E,
         \A j \in 1..(Len(path) - 1) : \A w \in S, entry \in E : Look(w, entry, path[j]) \in S
  PROVE  strip_path(fs, path) \in S
<1> DEFINE k == Len(path) - 1
           base == [fs |-> fs, at |-> 1, found |-> TRUE]
           walk[i \in 0..(Len(path) - 1)] ==
             IF i = 0 THEN [fs |-> fs, at |-> 1, found |-> TRUE] ELSE Enter(walk[i - 1], path[i])
<1>1. k \in Nat
  OBVIOUS
<1>2. \A w \in S : \A i \in 1..k : Enter(w, path[i]) \in S
  <2> SUFFICES ASSUME NEW w \in S, NEW i \in 1..k PROVE Enter(w, path[i]) \in S
    BY Zenon
  <2> DEFINE name == path[i]
  <2>1. \A v \in S, entry \in E : Look(v, entry, name) \in S
    BY Zenon
  <2>2. [w EXCEPT !.found = FALSE] \in S
    BY Zenon
  <2>3. \A e \in Starts, j \in 1..DIR_SLOTS : w.fs.disk.dir[e][j] \in E
    BY Zenon
  <2> HIDE DEF name
  <2>4. Enter(w, name) \in S
    BY <2>1, <2>2, <2>3, EnterStays, Zenon
  <2> QED BY <2>4, Zenon DEF name
<1>3. base \in S
  OBVIOUS
<1>4. strip_path(fs, path) = walk[k]
  BY Zenon DEF strip_path
<1> HIDE DEF k
<1>5. Walks(k, base, path, walk)
  <2>1. EnterStaysIn(S, k, path)
    BY <1>2, Zenon DEF EnterStaysIn
  <2>2. \E f : Walks(k, base, path, f)
    <3> HIDE DEF base, walk
    <3> QED BY <1>1, <1>3, <2>1, WalksExist, Zenon
  <2> QED BY <2>2, Zenon DEF k, Walks
<1> HIDE DEF walk
<1>6. walk[0] \in S
  <2>1. walk[0] = base
    <3> HIDE DEF base
    <3> QED BY <1>1, <1>5 DEF Walks
  <2> QED BY <2>1, <1>3, Zenon
<1>7. ASSUME NEW i \in 1..k, walk[i - 1] \in S PROVE walk[i] \in S
  <2>1. i \in 0..k /\ i # 0
    BY <1>1
  <2> HIDE DEF base
  <2>2. walk[i] = Enter(walk[i - 1], path[i])
    BY <2>1, <1>5, Zenon DEF Walks
  <2> QED BY <2>2, <1>7, <1>2, Zenon
<1>8. walk[k] \in S
  BY <1>1, <1>6, <1>7, StepsStay, Zenon
<1> QED BY <1>4, <1>8, Zenon

(* Updates of a walk.  *)
LEMMA WithFound ==
  ASSUME NEW w \in WalkType
  PROVE  LET r == [w EXCEPT !.found = FALSE] IN
         r \in WalkType /\ r.fs = w.fs /\ r.at = w.at /\ r.found = FALSE
BY Zenon DEF WalkType

LEMMA WithFs ==
  ASSUME NEW w \in WalkType, NEW fs \in FsType
  PROVE  LET r == [w EXCEPT !.fs = fs] IN
         r \in WalkType /\ r.fs = fs /\ r.at = w.at /\ r.found = w.found
BY Zenon DEF WalkType

LEMMA WalkIs ==
  ASSUME NEW fs \in FsType, NEW at \in Slots, NEW found \in BOOLEAN
  PROVE  LET r == [fs |-> fs, at |-> at, found |-> found] IN
         r \in WalkType /\ r.fs = fs /\ r.at = at /\ r.found = found
BY Zenon DEF WalkType

LEMMA NoNames == "" \notin Names
<1>1. {".", ""} \intersect DOMAIN NameLen = {}
  BY FsAssumption, Zenon
<1> QED BY <1>1, Zenon DEF Names

(* What one look at an entry does to a walk: nothing, or it gets the inode *)
(* and goes on into a directory, or it gets the inode and keeps it.        *)
WentIn(w, r, got) ==
  /\ got.fs.tab[got.slot].mode = "dir" /\ r.fs = put_inode(got.fs, w.at)
  /\ r.at = got.slot /\ r.found = TRUE

Kept(w, r, got) ==
  /\ got.fs.tab[got.slot].mode # "dir" /\ r.fs = got.fs
  /\ r.at = w.at /\ r.found = w.found

LookedAt(w, entry, r) ==
  \/ r = w
  \/ /\ entry.inode_nr \in Inodes /\ entry # NoEntry
     /\ \E got : Got(w.fs, entry.inode_nr, got) /\ (WentIn(w, r, got) \/ Kept(w, r, got))

LEMMA LookCases ==
  ASSUME NEW w \in WalkType, NEW entry \in EntryType, NEW name \in Names,
         NEW r, r = Look(w, entry, name)
  PROVE  r \in WalkType /\ LookedAt(w, entry, r)
<1>1. CASE w.found \/ entry.name # name
  <2>1. r = w
    BY <1>1, Zenon DEF Look
  <2> QED BY <2>1, Zenon DEF LookedAt
<1>2. CASE ~w.found /\ entry.name = name
  <2> DEFINE nr == entry.inode_nr
             got == get_inode(w.fs, nr)
  <2>1. entry # NoEntry
    <3>1. NoEntry.name = ""
      BY DEF NoEntry
    <3> QED BY <3>1, <1>2, NoNames, Zenon
  <2>2. entry \in [inode_nr : Inodes, name : Names \union {".", "dev_tty0"}]
    BY <2>1, Zenon DEF EntryType
  <2>3. nr \in Inodes
    BY <2>2, Zenon
  <2>4. w.fs \in FsType /\ w.at \in Slots /\ w.found \in BOOLEAN
    BY WalkFields, Zenon
  <2> HIDE DEF nr
  <2>5. Got(w.fs, nr, got)
    BY <2>3, <2>4, GetInode, Zenon
  <2>6. r = Arrive(w, got)
    BY <1>2, Zenon DEF Look, nr
  <2> HIDE DEF got
  <2>7. got.fs \in FsType /\ got.slot \in Slots
    BY <2>5, Zenon DEF Got, OneSlot
  <2>8. CASE got.fs.tab[got.slot].mode = "dir"
    <3> DEFINE hs == put_inode(got.fs, w.at)
    <3>1. hs \in FsType
      BY <2>4, <2>7, PutInode, Zenon DEF OneSlot
    <3>2. r = [fs |-> hs, at |-> got.slot, found |-> TRUE]
      BY <2>6, <2>8, Zenon DEF Arrive
    <3> HIDE DEF hs
    <3> DEFINE x == [fs |-> hs, at |-> got.slot, found |-> TRUE]
    <3>3. x \in WalkType /\ x.fs = hs /\ x.at = got.slot /\ x.found = TRUE
      BY <2>7, <3>1, WalkIs, Zenon
    <3> HIDE DEF x
    <3>4. r = x
      BY <3>2, Zenon DEF x
    <3>5. WentIn(w, r, got)
      BY <2>8, <3>3, <3>4, Zenon DEF WentIn, hs
    <3> QED BY <2>1, <2>3, <2>5, <3>3, <3>4, <3>5, Zenon DEF LookedAt, nr
  <2>9. CASE got.fs.tab[got.slot].mode # "dir"
    <3> DEFINE x == [w EXCEPT !.fs = got.fs]
    <3>1. r = x
      BY <2>6, <2>9, Zenon DEF Arrive
    <3>2. x \in WalkType /\ x.fs = got.fs /\ x.at = w.at /\ x.found = w.found
      BY <2>7, WithFs, Zenon
    <3> HIDE DEF x
    <3>3. Kept(w, r, got)
      BY <2>9, <3>1, <3>2, Zenon DEF Kept
    <3> QED BY <2>1, <2>3, <2>5, <3>1, <3>2, <3>3, Zenon DEF LookedAt, nr
  <2> QED BY <2>8, <2>9, Zenon
<1> QED BY <1>1, <1>2, WalkFields, Zenon

(* A path as the requests get it.  *)
PathOk(path) ==
  /\ Len(path) \in Nat \ {0}
  /\ \A j \in 1..(Len(path) - 1) : path[j] \in Names

(* What a walk never changes: the disk and the descriptors.  What has      *)
(* failed has failed.                                                      *)
SameButTab(fs, gs) ==
  /\ gs \in FsType /\ gs.disk = fs.disk /\ gs.filp = fs.filp /\ gs.writes = fs.writes
  /\ Ok(gs) => Ok(fs)

LEMMA LookFrame ==
  ASSUME NEW w \in WalkType, NEW entry, NEW r \in WalkType, LookedAt(w, entry, r)
  PROVE  SameButTab(w.fs, r.fs)
<1>0. w.fs \in FsType /\ w.at \in Slots
  BY WalkFields, Zenon
<1>1. CASE r = w
  BY <1>0, <1>1, Zenon DEF SameButTab
<1>2. ASSUME NEW got, Got(w.fs, entry.inode_nr, got), WentIn(w, r, got) \/ Kept(w, r, got)
      PROVE  SameButTab(w.fs, r.fs)
  <2>1. SameButTab(w.fs, got.fs)
    BY <1>2, Zenon DEF Got, OneSlot, SameButTab, Ok
  <2>2. CASE WentIn(w, r, got)
    <3>1. r.fs = put_inode(got.fs, w.at)
      BY <2>2, Zenon DEF WentIn
    <3>2. got.fs \in FsType
      BY <2>1, Zenon DEF SameButTab
    <3> DEFINE hs == put_inode(got.fs, w.at)
    <3>4. OneSlot(got.fs, hs, w.at, got.fs.tab[w.at], hs.tab[w.at]) /\ hs.cause = got.fs.cause
      BY <1>0, <3>2, PutInode, Zenon
    <3> HIDE DEF hs
    <3>5. r.fs = hs
      BY <3>1, Zenon DEF hs
    <3>3. SameButTab(got.fs, r.fs)
      BY <3>4, <3>5, Zenon DEF OneSlot, SameButTab, Ok
    <3> QED BY <2>1, <3>3, Zenon DEF SameButTab
  <2>3. CASE Kept(w, r, got)
    BY <2>1, <2>3, Zenon DEF Kept
  <2> QED BY <1>2, <2>2, <2>3, Zenon
<1> QED BY <1>1, <1>2, Zenon DEF LookedAt

(* A walk stays in a set that no look of it at an entry in E leaves.  *)
WalkSet(S, E) ==
  /\ S \subseteq WalkType /\ E \subseteq EntryType
  /\ \A w \in S : [w EXCEPT !.found = FALSE] \in S
  /\ \A w \in S : \A e \in Starts, i \in 1..DIR_SLOTS : w.fs.disk.dir[e][i] \in E
  /\ \A w \in S, entry \in E, r \in WalkType : LookedAt(w, entry, r) => r \in S

LEMMA AnyEntry ==
  ASSUME NEW w \in WalkType, NEW e \in Starts, NEW i \in 1..DIR_SLOTS
  PROVE  w.fs.disk.dir[e][i] \in EntryType
<1>1. w.fs.disk.dir \in [Starts -> [1..DIR_SLOTS -> EntryType]]
  BY WalkFields
<1> QED BY <1>1

LEMMA WalkIn ==
  ASSUME NEW S, NEW E, WalkSet(S, E), NEW fs, NEW path, PathOk(path),
         [fs |-> fs, at |-> 1, found |-> TRUE] \in S
  PROVE  strip_path(fs, path) \in S
<1>1. S \subseteq WalkType /\ \A w \in S : [w EXCEPT !.found = FALSE] \in S
  BY Zenon DEF WalkSet
<1>2. \A w \in S : \A e \in Starts, i \in 1..DIR_SLOTS : w.fs.disk.dir[e][i] \in E
  BY Zenon DEF WalkSet
<1>3. ASSUME NEW j \in 1..(Len(path) - 1), NEW w \in S, NEW entry \in E
      PROVE  Look(w, entry, path[j]) \in S
  <2>1. path[j] \in Names /\ w \in WalkType /\ entry \in EntryType
    BY <1>1, Zenon DEF PathOk, WalkSet
  <2> DEFINE name == path[j]
             r == Look(w, entry, name)
  <2> HIDE DEF name
  <2>2. r \in WalkType /\ LookedAt(w, entry, r)
    BY <2>1, LookCases, Zenon DEF name
  <2> HIDE DEF r
  <2>3. r \in S
    BY <2>2, Zenon DEF WalkSet
  <2> QED BY <2>3, Zenon DEF r, name
<1>4. Len(path) \in Nat \ {0}
  BY Zenon DEF PathOk
<1> QED BY <1>1, <1>2, <1>3, <1>4, WalkStays, Zenon

(* A walk of a path of one name goes nowhere.  *)
LEMMA ShortWalk ==
  ASSUME NEW fs, NEW path, Len(path) = 1
  PROVE  strip_path(fs, path) = [fs |-> fs, at |-> 1, found |-> TRUE]
<1> DEFINE base == [fs |-> fs, at |-> 1, found |-> TRUE]
           walk[i \in 0..(Len(path) - 1)] ==
             IF i = 0 THEN base ELSE Enter(walk[i - 1], path[i])
<1>1. strip_path(fs, path) = walk[Len(path) - 1]
  BY Zenon DEF strip_path
<1>2. Len(path) - 1 = 0
  OBVIOUS
<1>3. \E f : f = [i \in 0..(Len(path) - 1) |-> IF i = 0 THEN base ELSE Enter(f[i - 1], path[i])]
  <2> DEFINE f == [i \in {0} |-> base]
  <2> HIDE DEF base
  <2>1. 0..(Len(path) - 1) = {0}
    BY <1>2
  <2>2. f = [i \in 0..(Len(path) - 1) |-> IF i = 0 THEN base ELSE Enter(f[i - 1], path[i])]
    BY <2>1, Zenon
  <2> QED BY <2>2, Zenon
<1>4. walk = [i \in 0..(Len(path) - 1) |-> IF i = 0 THEN base ELSE Enter(walk[i - 1], path[i])]
  BY <1>3, Zenon
<1>5. walk[0] = base
  <2> HIDE DEF base, walk
  <2> QED BY <1>2, <1>4
<1> HIDE DEF walk
<1> QED BY <1>1, <1>2, <1>5

(* The cache of inodes: no inode has two slots in use, none but slot 1 has *)
(* the inode that slot 1 has or had, no count but that of slot 1 is below  *)
(* 0.                                                                      *)
Cache(fs) ==
  /\ \A s, t \in Slots : /\ fs.tab[s].cnt # 0 /\ fs.tab[t].cnt # 0
                         /\ fs.tab[s].num = fs.tab[t].num
                         => s = t
  /\ \A s \in Slots : s # 1 /\ fs.tab[s].cnt # 0 => fs.tab[s].num # fs.tab[1].num
  /\ \A s \in Slots : s # 1 => fs.tab[s].cnt >= 0

(* A slot that may be put.  *)
Held(fs, s) == s \in Slots /\ (s = 1 \/ fs.tab[s].cnt >= 1)

SameCache(fs, gs) ==
  \A s \in Slots : gs.tab[s].num = fs.tab[s].num /\ gs.tab[s].cnt = fs.tab[s].cnt

LEMMA SlotOne == 1 \in Slots
BY Constants DEF Slots

LEMMA CacheSame ==
  ASSUME NEW fs, NEW gs, SameCache(fs, gs)
  PROVE  /\ Cache(fs) => Cache(gs)
         /\ \A s : Held(fs, s) => Held(gs, s)
<1>1. Cache(fs) => Cache(gs)
  <2> SUFFICES ASSUME Cache(fs) PROVE Cache(gs)
    OBVIOUS
  <2>1. ASSUME NEW s \in Slots, NEW t \in Slots, gs.tab[s].cnt # 0, gs.tab[t].cnt # 0,
               gs.tab[s].num = gs.tab[t].num
        PROVE  s = t
    BY <2>1, Zenon DEF Cache, SameCache
  <2>2. ASSUME NEW s \in Slots
        PROVE  /\ s # 1 /\ gs.tab[s].cnt # 0 => gs.tab[s].num # gs.tab[1].num
               /\ s # 1 => gs.tab[s].cnt >= 0
    BY SlotOne, Zenon DEF Cache, SameCache
  <2> QED BY <2>1, <2>2, Zenon DEF Cache
<1>2. \A s : Held(fs, s) => Held(gs, s)
  BY Zenon DEF Held, SameCache
<1> QED BY <1>1, <1>2

LEMMA SlotParts ==
  ASSUME NEW p \in SlotType
  PROVE  /\ p.cnt \in Int /\ p.num \in 0..NR_INODES /\ p.mode \in Modes /\ p.size \in Nat
         /\ p.start \in Starts /\ p.i_node_length \in Modes /\ p.sect0 \in Nat
BY Zenon DEF SlotType

LEMMA Counts ==
  ASSUME NEW fs \in FsType, NEW s \in Slots
  PROVE  fs.tab[s] \in SlotType /\ fs.tab[s].cnt \in Int
<1>1. fs.tab[s] \in SlotType
  BY FsFields
<1> QED BY <1>1, SlotParts

(* An inode has been got: it has a slot that may be put, and nothing that  *)
(* could be put cannot any more.                                           *)
LEMMA CacheGot ==
  ASSUME NEW fs \in FsType, NEW num \in Inodes, NEW got, Got(fs, num, got), Cache(fs),
         Ok(got.fs)
  PROVE  /\ Cache(got.fs) /\ Held(got.fs, got.slot) /\ got.fs.tab[got.slot].num = num
         /\ \A u : Held(fs, u) => Held(got.fs, u)
<1> DEFINE gs == got.fs
           s == got.slot
           p == fs.tab[s]
           q == gs.tab[s]
<1>1. OneSlot(fs, gs, s, p, q)
  BY Zenon DEF Got
<1>2. s \in Slots /\ gs \in FsType /\ \A u \in Slots : u # s => gs.tab[u] = fs.tab[u]
  BY <1>1, Zenon DEF OneSlot
<1>3. Hit(num, p, q) \/ Load(fs, num, s, p, q)
  BY Zenon DEF Got, Ok
<1>4. p.cnt \in Int /\ q.cnt \in Int /\ q.num = num /\ (s # 1 => q.cnt >= 1)
  <2>0. p.cnt \in Int /\ q.cnt \in Int
    BY <1>2, Counts, Zenon
  <2>1. CASE Hit(num, p, q)
    <3>1. p.cnt # 0 /\ q.cnt = p.cnt + 1 /\ q.num = num
      BY <2>1, Zenon DEF Hit, SameInode
    <3>2. s # 1 => p.cnt >= 0
      BY <1>2, Zenon DEF Cache
    <3> HIDE DEF p, q
    <3> QED BY <2>0, <3>1, <3>2
  <2>2. CASE Load(fs, num, s, p, q)
    <3>1. q.cnt = 1 /\ q.num = num
      BY <2>2, Zenon DEF Load
    <3> HIDE DEF p, q
    <3> QED BY <2>0, <3>1
  <2> QED BY <1>3, <2>1, <2>2
<1>5. \A u \in Slots : u # s /\ fs.tab[u].cnt # 0 => fs.tab[u].num # num
  <2>1. CASE Hit(num, p, q)
    BY <2>1, <1>2, Zenon DEF Hit, Cache
  <2>2. CASE Load(fs, num, s, p, q)
    BY <2>2, Zenon DEF Load
  <2> QED BY <1>3, <2>1, <2>2
<1>6. s # 1 => fs.tab[1].num # num
  <2> SUFFICES ASSUME s # 1 PROVE fs.tab[1].num # num
    OBVIOUS
  <2>1. CASE Hit(num, p, q)
    <3>1. p.cnt # 0 /\ p.num = num
      BY <2>1, Zenon DEF Hit
    <3> QED BY <3>1, <1>2, Zenon DEF Cache
  <2>2. CASE Load(fs, num, s, p, q)
    <3>1. 1 < s
      BY <1>2, Constants DEF Slots
    <3>2. fs.tab[1].cnt # 0
      BY <3>1, <2>2, SlotOne, Zenon DEF Load
    <3> QED BY <3>2, <2>2, SlotOne, Zenon DEF Load
  <2> QED BY <1>3, <2>1, <2>2
<1> HIDE DEF p, q, s, gs
<1>7. Cache(gs)
  <2>1. ASSUME NEW a \in Slots, NEW b \in Slots, gs.tab[a].cnt # 0, gs.tab[b].cnt # 0,
               gs.tab[a].num = gs.tab[b].num
        PROVE  a = b
    <3>1. CASE a = s
      BY <2>1, <3>1, <1>2, <1>4, <1>5, Zenon DEF q
    <3>2. CASE b = s
      BY <2>1, <3>2, <1>2, <1>4, <1>5, Zenon DEF q
    <3>3. CASE a # s /\ b # s
      <4>1. gs.tab[a] = fs.tab[a] /\ gs.tab[b] = fs.tab[b]
        BY <3>3, <1>2, Zenon
      <4>2. fs.tab[a].cnt # 0 /\ fs.tab[b].cnt # 0 /\ fs.tab[a].num = fs.tab[b].num
        BY <2>1, <4>1, Zenon
      <4> QED BY <4>2, Zenon DEF Cache
    <3> QED BY <3>1, <3>2, <3>3
  <2>2. ASSUME NEW a \in Slots, a # 1
        PROVE  /\ gs.tab[a].cnt # 0 => gs.tab[a].num # gs.tab[1].num
               /\ gs.tab[a].cnt >= 0
    <3>1. CASE a = s
      <4>1. gs.tab[a].num = num /\ gs.tab[1].num # num
        BY <2>2, <3>1, <1>2, <1>4, <1>6, SlotOne, Zenon DEF q
      <4>2. q.cnt >= 0
        BY <1>4, <2>2, <3>1
      <4> QED BY <3>1, <4>1, <4>2, Zenon DEF q
    <3>2. CASE a # s
      <4>1. gs.tab[a] = fs.tab[a]
        BY <3>2, <1>2, Zenon
      <4>2. CASE s = 1
        BY <4>1, <4>2, <1>2, <1>4, <1>5, <2>2, <3>2, Zenon DEF Cache, q
      <4>3. CASE s # 1
        BY <4>1, <4>3, <1>2, <2>2, SlotOne, Zenon DEF Cache
      <4> QED BY <4>2, <4>3
    <3> QED BY <3>1, <3>2
  <2> QED BY <2>1, <2>2, Zenon DEF Cache
<1>8. Held(gs, s) /\ gs.tab[s].num = num
  BY <1>2, <1>4, Zenon DEF Held, q
<1>9. ASSUME NEW u, Held(fs, u) PROVE Held(gs, u)
  <2>1. CASE u = s
    BY <2>1, <1>8
  <2>2. CASE u # s
    BY <1>9, <2>2, <1>2, Zenon DEF Held
  <2> QED BY <2>1, <2>2
<1> QED BY <1>7, <1>8, <1>9, Zenon DEF s, gs

(* A change of the count of one slot, within what the cache allows.  *)
LEMMA CacheCount ==
  ASSUME NEW fs \in FsType, NEW gs, NEW s,
         OneSlot(fs, gs, s, fs.tab[s], gs.tab[s]), gs.tab[s].num = fs.tab[s].num,
         Cache(fs), Held(fs, s), s # 1 => gs.tab[s].cnt >= 0
  PROVE  /\ Cache(gs)
         /\ \A u : u # s /\ Held(fs, u) => Held(gs, u)
<1>1. s \in Slots /\ \A u \in Slots : u # s => gs.tab[u] = fs.tab[u]
  BY Zenon DEF OneSlot
<1>2. \A u \in Slots : gs.tab[u].num = fs.tab[u].num
  BY <1>1, Zenon
<1>3. s # 1 => fs.tab[s].cnt # 0
  <2>1. fs.tab[s].cnt \in Int
    BY <1>1, Counts
  <2>2. s # 1 => fs.tab[s].cnt >= 1
    BY Zenon DEF Held
  <2> QED BY <2>1, <2>2
<1>4. ASSUME NEW a \in Slots, NEW b \in Slots, gs.tab[a].cnt # 0, gs.tab[b].cnt # 0,
             gs.tab[a].num = gs.tab[b].num, a # b
      PROVE  FALSE
  <2>1. CASE a = 1
    <3>1. b # 1 /\ fs.tab[b].cnt # 0
      BY <2>1, <1>4, <1>1, <1>3, Zenon
    <3>2. fs.tab[b].num = fs.tab[1].num
      BY <2>1, <1>4, <1>2, Zenon
    <3> QED BY <3>1, <3>2, <1>4, Zenon DEF Cache
  <2>2. CASE b = 1
    <3>1. a # 1 /\ fs.tab[a].cnt # 0
      BY <2>2, <1>4, <1>1, <1>3, Zenon
    <3>2. fs.tab[a].num = fs.tab[1].num
      BY <2>2, <1>4, <1>2, Zenon
    <3> QED BY <3>1, <3>2, <1>4, Zenon DEF Cache
  <2>3. CASE a # 1 /\ b # 1
    <3>1. fs.tab[a].cnt # 0 /\ fs.tab[b].cnt # 0
      BY <2>3, <1>1, <1>3, <1>4, Zenon
    <3>2. fs.tab[a].num = fs.tab[b].num
      BY <1>2, <1>4, Zenon
    <3> QED BY <3>1, <3>2, <1>4, Zenon DEF Cache
  <2> QED BY <2>1, <2>2, <2>3, Zenon
<1>5. ASSUME NEW a \in Slots, a # 1
      PROVE  /\ gs.tab[a].cnt # 0 => gs.tab[a].num # gs.tab[1].num
             /\ gs.tab[a].cnt >= 0
  <2>1. CASE a = s
    BY <2>1, <1>1, <1>2, <1>3, <1>5, SlotOne, Zenon DEF Cache
  <2>2. CASE a # s
    BY <2>2, <1>1, <1>2, <1>5, SlotOne, Zenon DEF Cache
  <2> QED BY <2>1, <2>2
<1>6. Cache(gs)
  BY <1>4, <1>5, Zenon DEF Cache
<1>7. \A u : u # s /\ Held(fs, u) => Held(gs, u)
  BY <1>1, Zenon DEF Held
<1> QED BY <1>6, <1>7

LEMMA CachePut ==
  ASSUME NEW fs \in FsType, NEW s, Held(fs, s), Cache(fs)
  PROVE  LET gs == put_inode(fs, s) IN
         /\ gs \in FsType /\ Cache(gs) /\ gs.cause = fs.cause
         /\ gs.disk = fs.disk /\ gs.filp = fs.filp /\ gs.writes = fs.writes
         /\ \A u : u # s /\ Held(fs, u) => Held(gs, u)
<1>1. s \in Slots
  BY Zenon DEF Held
<1> DEFINE hs == put_inode(fs, s)
<1>2. /\ OneSlot(fs, hs, s, fs.tab[s], hs.tab[s]) /\ hs.cause = fs.cause
      /\ hs.tab[s].cnt = fs.tab[s].cnt - 1 /\ SameInode(fs.tab[s], hs.tab[s])
  BY <1>1, PutInode, Zenon
<1> HIDE DEF hs
<1>3. s # 1 => hs.tab[s].cnt >= 0
  <2>1. fs.tab[s].cnt \in Int
    BY <1>1, Counts
  <2>2. s # 1 => fs.tab[s].cnt >= 1
    BY Zenon DEF Held
  <2> QED BY <2>1, <2>2, <1>2
<1>4. hs.tab[s].num = fs.tab[s].num
  BY <1>2, Zenon DEF SameInode
<1>5. Cache(hs) /\ \A u : u # s /\ Held(fs, u) => Held(hs, u)
  BY <1>2, <1>3, <1>4, CacheCount, Zenon
<1> QED BY <1>2, <1>5, Zenon DEF OneSlot, hs

(* A walk keeps the cache, and ends in a slot that may be put.  *)
CacheWalks(fs) ==
  {w \in WalkType : /\ SameButTab(fs, w.fs)
                    /\ Ok(w.fs) => /\ Cache(w.fs) /\ Held(w.fs, w.at)}

LEMMA CacheLook ==
  ASSUME NEW w \in WalkType, NEW entry, NEW r \in WalkType, LookedAt(w, entry, r),
         Ok(r.fs), Cache(w.fs), Held(w.fs, w.at)
  PROVE  Cache(r.fs) /\ Held(r.fs, r.at)
<1>1. CASE r = w
  BY <1>1, Zenon
<1>2. ASSUME entry.inode_nr \in Inodes, NEW got, Got(w.fs, entry.inode_nr, got), 
             WentIn(w, r, got) \/ Kept(w, r, got)
      PROVE  Cache(r.fs) /\ Held(r.fs, r.at)
  <2>0. w.fs \in FsType /\ w.at \in Slots /\ got.fs \in FsType /\ got.slot \in Slots
    BY <1>2, WalkFields, Zenon DEF Got, OneSlot
  <2>1. CASE WentIn(w, r, got)
    <3> DEFINE hs == put_inode(got.fs, w.at)
    <3>1. hs.cause = got.fs.cause
      BY <2>0, PutInode, Zenon
    <3>2. r.fs = hs /\ r.at = got.slot
      BY <2>1, Zenon DEF WentIn
    <3>0. Ok(got.fs)
      <4> HIDE DEF hs
      <4> QED BY <3>1, <3>2, Zenon DEF Ok
    <3>3. Cache(got.fs) /\ Held(got.fs, got.slot) /\ Held(got.fs, w.at)
          /\ got.fs.tab[got.slot].num = entry.inode_nr
      <4> HIDE DEF hs
      <4> QED BY <1>2, <2>0, <3>0, CacheGot, Zenon
    <3>4. Cache(hs) /\ \A u : u # w.at /\ Held(got.fs, u) => Held(hs, u)
      BY <2>0, <3>3, CachePut, Zenon
    <3>5. CASE got.slot # w.at
      <4> HIDE DEF hs
      <4> QED BY <3>2, <3>3, <3>4, <3>5, Zenon
    <3>6. CASE got.slot = w.at
      <4>1. /\ OneSlot(got.fs, hs, w.at, got.fs.tab[w.at], hs.tab[w.at])
            /\ hs.tab[w.at].cnt = got.fs.tab[w.at].cnt - 1
        BY <2>0, PutInode, Zenon
      <4> HIDE DEF hs
      <4>2. CASE w.at = 1
        BY <4>2, <3>2, <3>4, <3>6, SlotOne, Zenon DEF Held
      <4>3. CASE w.at # 1
        <5>1. w.fs.tab[w.at].cnt >= 1
          BY <4>3, Zenon DEF Held
        <5>2. w.fs.tab[w.at].cnt \in Int
          BY <2>0, Counts
        <5>3. got.fs.tab[w.at].cnt = w.fs.tab[w.at].cnt + 1
          <6>1. w.fs.tab[w.at].cnt # 0
            BY <5>1, <5>2
          <6> QED BY <6>1, <3>0, <1>2, <3>6, Zenon DEF Got, Hit, Load, Ok
        <5>4. hs.tab[w.at].cnt >= 1
          BY <5>1, <5>2, <5>3, <4>1
        <5> QED BY <5>4, <2>0, <3>2, <3>4, <3>6, Zenon DEF Held
      <4> QED BY <4>2, <4>3
    <3> QED BY <3>5, <3>6
  <2>2. CASE Kept(w, r, got)
    <3>1. r.fs = got.fs /\ r.at = w.at
      BY <2>2, Zenon DEF Kept
    <3>2. Ok(got.fs)
      BY <3>1, Zenon
    <3>3. Cache(got.fs) /\ \A u : Held(w.fs, u) => Held(got.fs, u)
      BY <1>2, <2>0, <3>2, CacheGot, Zenon
    <3> QED BY <3>1, <3>3, Zenon
  <2> QED BY <1>2, <2>1, <2>2
<1> QED BY <1>1, <1>2, Zenon DEF LookedAt

LEMMA CacheWalksClosed ==
  ASSUME NEW fs \in FsType
  PROVE  WalkSet(CacheWalks(fs), EntryType)
<1> DEFINE S == CacheWalks(fs)
<1>1. S \subseteq WalkType
  BY Zenon DEF CacheWalks
<1>2. ASSUME NEW w \in S PROVE [w EXCEPT !.found = FALSE] \in S
  <2> DEFINE x == [w EXCEPT !.found = FALSE]
  <2>1. x \in WalkType /\ x.fs = w.fs /\ x.at = w.at
    BY <1>1, WithFound, Zenon
  <2> HIDE DEF x
  <2>2. x \in S
    BY <2>1, Zenon DEF CacheWalks
  <2> QED BY <2>2 DEF x
<1>3. ASSUME NEW w \in S, NEW entry \in EntryType, NEW r \in WalkType, LookedAt(w, entry, r)
      PROVE  r \in S
  <2>1. SameButTab(w.fs, r.fs) /\ SameButTab(fs, w.fs) /\ w \in WalkType
    BY <1>1, <1>3, LookFrame, Zenon DEF CacheWalks
  <2>2. SameButTab(fs, r.fs) /\ (Ok(r.fs) => Ok(w.fs))
    BY <2>1, Zenon DEF SameButTab
  <2>3. Ok(r.fs) => Cache(r.fs) /\ Held(r.fs, r.at)
    <3> SUFFICES ASSUME Ok(r.fs) PROVE Cache(r.fs) /\ Held(r.fs, r.at)
      OBVIOUS
    <3>1. Cache(w.fs) /\ Held(w.fs, w.at)
      BY <2>2, Zenon DEF CacheWalks
    <3> QED BY <1>3, <2>1, <3>1, CacheLook, Zenon
  <2> QED BY <2>2, <2>3, Zenon DEF CacheWalks
<1>4. \A w \in S : \A e \in Starts, i \in 1..DIR_SLOTS : w.fs.disk.dir[e][i] \in EntryType
  BY <1>1, AnyEntry, Zenon
<1> QED BY <1>1, <1>2, <1>3, <1>4, Zenon DEF WalkSet

LEMMA CacheWalk ==
  ASSUME NEW fs \in FsType, NEW path, PathOk(path), Ok(fs) => Cache(fs)
  PROVE  strip_path(fs, path) \in CacheWalks(fs)
<1> DEFINE x == [fs |-> fs, at |-> 1, found |-> TRUE]
<1>1. x \in WalkType /\ x.fs = fs /\ x.at = 1
  BY SlotOne, WalkIs, Zenon
<1> HIDE DEF x
<1>2. x \in CacheWalks(fs)
  BY <1>1, SlotOne, Zenon DEF CacheWalks, SameButTab, Held
<1> QED BY <1>2, CacheWalksClosed, WalkIn, Zenon DEF x

(* The steps the requests are made of.  *)
NrTaken(fs, gs, nr) ==
  /\ nr \in Inodes /\ nr \notin fs.disk.imap /\ Wrote(fs, gs, gs.disk)
  /\ gs.disk.imap = fs.disk.imap \union {nr} /\ gs.disk.smap = fs.disk.smap
  /\ gs.disk.node = fs.disk.node /\ gs.disk.dir = fs.disk.dir

ExtTaken(fs, gs, ext) ==
  /\ ext \in Extents /\ ext \notin fs.disk.smap /\ Wrote(fs, gs, gs.disk)
  /\ gs.disk.imap = fs.disk.imap /\ gs.disk.smap = fs.disk.smap \union {ext}
  /\ gs.disk.node = fs.disk.node /\ gs.disk.dir = fs.disk.dir

Filled(fs, gs, s, nr, ext, mode) ==
  /\ OneSlot(fs, gs, s, fs.tab[s], gs.tab[s]) /\ gs.cause = fs.cause
  /\ gs.tab[s].num = nr /\ gs.tab[s].cnt = 1 /\ gs.tab[s].mode = mode
  /\ gs.tab[s].size = 0 /\ gs.tab[s].start = ext /\ gs.tab[s].i_node_length = "none"
  /\ gs.tab[s].sect0 = Big

EntrySet(fs, gs, e, at, entry) ==
  /\ Wrote(fs, gs, gs.disk) /\ e \in Starts /\ entry \in EntryType
  /\ gs.disk.imap = fs.disk.imap /\ gs.disk.smap = fs.disk.smap
  /\ gs.disk.node = fs.disk.node
  /\ \A x \in Starts, i \in 1..DIR_SLOTS :
       /\ x = e /\ i = at => gs.disk.dir[x][i] = entry
       /\ x # e \/ i # at => gs.disk.dir[x][i] = fs.disk.dir[x][i]

Resized(fs, gs, s, size) ==
  /\ OneSlot(fs, gs, s, fs.tab[s], gs.tab[s]) /\ gs.cause = fs.cause
  /\ gs.tab[s].num = fs.tab[s].num /\ gs.tab[s].cnt = fs.tab[s].cnt
  /\ gs.tab[s].mode = fs.tab[s].mode /\ gs.tab[s].size = size
  /\ gs.tab[s].start = fs.tab[s].start /\ gs.tab[s].i_node_length = fs.tab[s].i_node_length
  /\ gs.tab[s].sect0 = fs.tab[s].sect0

Holes(fs, d) == {i \in 1..DIR_SLOTS : i <= d.size /\ fs.disk.dir[d.start][i].inode_nr = 0}

(* Where the new entry goes, and what happens to the directory's size.  *)
InHole(fs, a, b, dir, at) ==
  LET d == fs.tab[dir] IN Holes(fs, d) # {} /\ at = Least(Holes(fs, d)) /\ b = a

AtEnd(fs, a, b, dir, at) ==
  LET d == fs.tab[dir] IN
  Holes(fs, d) = {} /\ at = d.size + 1 /\ Resized(a, b, dir, d.size + 1)

EntryWritten(fs, gs, dir, nr, name, garbage) ==
  \E at, a, b :
    /\ EntrySet(fs, a, fs.tab[dir].start, at, [inode_nr |-> nr, name |-> name])
    /\ InHole(fs, a, b, dir, at) \/ AtEnd(fs, a, b, dir, at)
    /\ Synced(b, gs, dir, garbage)

InodeMade(fs, gs, slot, dir, name, mode, garbage) ==
  \E nr, ext, a, b, got, c, d :
    /\ NrTaken(fs, a, nr) /\ ExtTaken(a, b, ext) /\ Got(b, nr, got) /\ slot = got.slot
    /\ Filled(got.fs, c, slot, nr, ext, mode) /\ Synced(c, d, slot, garbage)
    /\ EntryWritten(d, gs, dir, nr, name, garbage)

LEMMA WroteFields ==
  ASSUME NEW fs, NEW gs, NEW d, Wrote(fs, gs, d)
  PROVE  gs \in FsType /\ d \in DiskType /\ gs.disk = d /\ gs.tab = fs.tab
         /\ gs.filp = fs.filp /\ gs.cause = fs.cause
BY Zenon DEF Wrote

LEMMA TakeNr ==
  ASSUME NEW fs \in FsType, fs.disk.imap # Inodes
  PROVE  LET i == alloc_imap_bit(fs) IN NrTaken(fs, i.fs, i.nr)
<1> DEFINE nr == Least(Inodes \ fs.disk.imap)
           m == fs.disk.imap \union {nr}
           d == [fs.disk EXCEPT !.imap = m]
           gs == WriteSector(fs, d)
<1>1. alloc_imap_bit(fs) = [nr |-> nr, fs |-> gs]
  BY Zenon DEF alloc_imap_bit
<1>2. fs.disk \in DiskType /\ fs.disk.imap \subseteq Inodes
  BY FsFields, DiskFields
<1>3. Inodes \ fs.disk.imap \subseteq Nat /\ Inodes \ fs.disk.imap # {}
  <2>1. Inodes \subseteq Nat
    BY Constants DEF Inodes
  <2>2. \E n \in Inodes : n \notin fs.disk.imap
    BY <1>2, Zenon
  <2> QED BY <2>1, <2>2, Zenon
<1>4. nr \in Inodes \ fs.disk.imap
  BY <1>3, LeastProperties, Zenon
<1> HIDE DEF nr
<1>5. m \in SUBSET Inodes
  BY <1>2, <1>4
<1> HIDE DEF m
<1>6. d \in DiskType /\ d.imap = m /\ d.smap = fs.disk.smap /\ d.node = fs.disk.node
      /\ d.dir = fs.disk.dir
  BY <1>2, <1>5, WithMaps, Zenon
<1> HIDE DEF d
<1>7. Wrote(fs, gs, d)
  BY <1>6, WriteIs, Zenon
<1> HIDE DEF gs
<1>8. gs.disk = d
  BY <1>7, WroteFields, Zenon
<1>9. alloc_imap_bit(fs).nr = nr /\ alloc_imap_bit(fs).fs = gs
  BY <1>1
<1> QED BY <1>4, <1>6, <1>7, <1>8, <1>9, Zenon DEF NrTaken, m

LEMMA TakeExt ==
  ASSUME NEW fs \in FsType, fs.disk.smap # Extents
  PROVE  LET i == alloc_smap_bit(fs) IN ExtTaken(fs, i.fs, i.ext)
<1> DEFINE ext == Least(Extents \ fs.disk.smap)
           m == fs.disk.smap \union {ext}
           d == [fs.disk EXCEPT !.smap = m]
           gs == WriteSector(fs, d)
<1>1. alloc_smap_bit(fs) = [ext |-> ext, fs |-> gs]
  BY Zenon DEF alloc_smap_bit
<1>2. fs.disk \in DiskType /\ fs.disk.smap \subseteq Extents
  BY FsFields, DiskFields
<1>3. Extents \ fs.disk.smap \subseteq Nat /\ Extents \ fs.disk.smap # {}
  <2>1. Extents \subseteq Nat
    BY Constants DEF Extents
  <2>2. \E n \in Extents : n \notin fs.disk.smap
    BY <1>2, Zenon
  <2> QED BY <2>1, <2>2, Zenon
<1>4. ext \in Extents \ fs.disk.smap
  BY <1>3, LeastProperties, Zenon
<1> HIDE DEF ext
<1>5. m \in SUBSET Extents
  BY <1>2, <1>4
<1> HIDE DEF m
<1>6. d \in DiskType /\ d.smap = m /\ d.imap = fs.disk.imap /\ d.node = fs.disk.node
      /\ d.dir = fs.disk.dir
  BY <1>2, <1>5, WithMaps, Zenon
<1> HIDE DEF d
<1>7. Wrote(fs, gs, d)
  BY <1>6, WriteIs, Zenon
<1> HIDE DEF gs
<1>8. gs.disk = d
  BY <1>7, WroteFields, Zenon
<1>9. alloc_smap_bit(fs).ext = ext /\ alloc_smap_bit(fs).fs = gs
  BY <1>1
<1> QED BY <1>4, <1>6, <1>7, <1>8, <1>9, Zenon DEF ExtTaken, m

LEMMA FillSlot ==
  ASSUME NEW fs \in FsType, NEW s \in Slots, NEW nr \in Inodes, NEW ext \in Extents,
         NEW mode \in Modes
  PROVE  LET made == [num |-> nr, cnt |-> 1, mode |-> mode, size |-> 0, start |-> ext,
                      i_node_length |-> "none", sect0 |-> Big]
         IN  Filled(fs, [fs EXCEPT !.tab[s] = made], s, nr, ext, mode)
<1> DEFINE made == [num |-> nr, cnt |-> 1, mode |-> mode, size |-> 0, start |-> ext,
                    i_node_length |-> "none", sect0 |-> Big]
           gs == [fs EXCEPT !.tab[s] = made]
<1>1. made \in SlotType
  <2>1. nr \in 0..NR_INODES /\ Big \in Nat /\ ext \in Starts /\ "none" \in Modes
    BY Constants DEF Inodes, Big, Starts, Modes
  <2> QED BY <2>1 DEF SlotType
<1>2. made.num = nr /\ made.cnt = 1 /\ made.mode = mode /\ made.size = 0 /\ made.start = ext
      /\ made.i_node_length = "none" /\ made.sect0 = Big
  BY Zenon
<1> HIDE DEF made
<1>3. OneSlot(fs, gs, s, fs.tab[s], made) /\ gs.cause = fs.cause
  BY <1>1, SetSlot, Zenon
<1> HIDE DEF gs
<1>4. gs.tab[s] = made
  BY <1>3, Zenon DEF OneSlot
<1> QED BY <1>2, <1>3, <1>4, Zenon DEF Filled, gs, made

LEMMA SetEntry ==
  ASSUME NEW fs \in FsType, NEW e \in Starts, NEW at, NEW entry \in EntryType
  PROVE  EntrySet(fs, WriteSector(fs, [fs.disk EXCEPT !.dir[e][at] = entry]), e, at, entry)
<1> DEFINE old == fs.disk.dir
           row == [old[e] EXCEPT ![at] = entry]
           new == [old EXCEPT ![e] = row]
           d == [fs.disk EXCEPT !.dir = new]
           gs == WriteSector(fs, d)
<1>1. fs.disk \in DiskType /\ old \in [Starts -> [1..DIR_SLOTS -> EntryType]]
  BY FsFields, DiskFields
<1>2. old[e] \in [1..DIR_SLOTS -> EntryType]
  BY <1>1
<1>3. row \in [1..DIR_SLOTS -> EntryType] 
  BY <1>2, Zenon
<1>4. \A i \in 1..DIR_SLOTS : (i = at => row[i] = entry) /\ (i # at => row[i] = old[e][i])
  BY <1>2, Zenon
<1> HIDE DEF row
<1>5. new \in [Starts -> [1..DIR_SLOTS -> EntryType]] /\ new[e] = row
      /\ \A x \in Starts : x # e => new[x] = old[x]
  BY <1>1, <1>3, Zenon
<1> HIDE DEF new
<1>6. d \in DiskType /\ d.dir = new /\ d.imap = fs.disk.imap /\ d.smap = fs.disk.smap
      /\ d.node = fs.disk.node
  BY <1>1, <1>5, WithDir, Zenon
<1> HIDE DEF d
<1>7. Wrote(fs, gs, d)
  BY <1>6, WriteIs, Zenon
<1> HIDE DEF gs
<1>8. gs.disk = d
  BY <1>7, WroteFields, Zenon
<1>9. ASSUME NEW x \in Starts, NEW i \in 1..DIR_SLOTS
      PROVE  /\ x = e /\ i = at => new[x][i] = entry
             /\ x # e \/ i # at => new[x][i] = old[x][i]
  BY <1>4, <1>5, Zenon
<1>10. EntrySet(fs, gs, e, at, entry)
  BY <1>6, <1>7, <1>8, <1>9, Zenon DEF EntrySet
<1>11. [fs.disk EXCEPT !.dir[e][at] = entry] = d
  BY Zenon DEF d, new, row
<1> QED BY <1>10, <1>11, Zenon DEF gs

LEMMA WithSize ==
  ASSUME NEW p \in SlotType, NEW n \in Nat
  PROVE  LET r == [p EXCEPT !.size = n] IN
         /\ r \in SlotType /\ r.size = n /\ r.num = p.num /\ r.cnt = p.cnt /\ r.mode = p.mode
         /\ r.start = p.start /\ r.i_node_length = p.i_node_length /\ r.sect0 = p.sect0
BY Zenon DEF SlotType

LEMMA Resize ==
  ASSUME NEW fs \in FsType, NEW s \in Slots, NEW n \in Nat
  PROVE  Resized(fs, [fs EXCEPT !.tab[s].size = n], s, n)
<1> DEFINE q == [fs.tab[s] EXCEPT !.size = n]
           gs == [fs EXCEPT !.tab[s] = q]
<1>1. fs.tab[s] \in SlotType
  BY Counts
<1>2. /\ q \in SlotType /\ q.size = n /\ q.num = fs.tab[s].num /\ q.cnt = fs.tab[s].cnt
      /\ q.mode = fs.tab[s].mode /\ q.start = fs.tab[s].start
      /\ q.i_node_length = fs.tab[s].i_node_length /\ q.sect0 = fs.tab[s].sect0
  BY <1>1, WithSize, Zenon
<1> HIDE DEF q
<1>3. OneSlot(fs, gs, s, fs.tab[s], q) /\ gs.cause = fs.cause
  BY <1>2, SetSlot, Zenon
<1> HIDE DEF gs
<1>4. gs.tab[s] = q
  BY <1>3, Zenon DEF OneSlot
<1>5. Resized(fs, gs, s, n)
  BY <1>2, <1>3, <1>4, Zenon DEF Resized
<1>6. gs = [fs EXCEPT !.tab[s].size = n]
  BY Zenon DEF gs, q
<1> QED BY <1>5, <1>6, Zenon

LEMMA WriteEntry ==
  ASSUME NEW fs \in FsType, NEW dir \in Slots, NEW nr \in Inodes, NEW name \in Names,
         NEW garbage \in Nat
  PROVE  EntryWritten(fs, new_dir_entry(fs, dir, nr, name, garbage), dir, nr, name, garbage)
<1> DEFINE d == fs.tab[dir]
           holes == Holes(fs, d)
           at == IF holes = {} THEN d.size + 1 ELSE Least(holes)
           entry == [inode_nr |-> nr, name |-> name]
           a == WriteSector(fs, [fs.disk EXCEPT !.dir[d.start][at] = entry])
           n == d.size + 1
           b == IF holes = {} THEN [a EXCEPT !.tab[dir].size = n] ELSE a
           gs == sync_inode(b, dir, garbage)
<1>1. d \in SlotType /\ d.start \in Starts /\ d.size \in Nat
  BY Counts, SlotParts, Zenon
<1>2. entry \in EntryType
  BY DEF EntryType
<1>3. EntrySet(fs, a, d.start, at, entry)
  <2> HIDE DEF d, at, entry
  <2> QED BY <1>1, <1>2, SetEntry, Zenon
<1>4. a \in FsType /\ a.tab = fs.tab
  <2> HIDE DEF a, at
  <2> QED BY <1>3, WroteFields, Zenon DEF EntrySet
<1>5. n \in Nat
  BY <1>1
<1>6. new_dir_entry(fs, dir, nr, name, garbage) = gs
  <2>1. a.tab[dir].size = d.size
    <3> HIDE DEF a
    <3> QED BY <1>4, Zenon
  <2>2. [a EXCEPT !.tab[dir].size = a.tab[dir].size + 1] = [a EXCEPT !.tab[dir].size = n]
    <3> HIDE DEF a, d
    <3> QED BY <2>1
  <2> DEFINE c == [a EXCEPT !.tab[dir].size = @ + 1]
  <2>3. c = [a EXCEPT !.tab[dir].size = n]
    <3> HIDE DEF a, d, n
    <3> QED BY <2>2, Zenon
  <2>4. new_dir_entry(fs, dir, nr, name, garbage) =
          sync_inode(IF holes = {} THEN c ELSE a, dir, garbage)
    BY Zenon DEF new_dir_entry, Holes
  <2> HIDE DEF c
  <2> QED BY <2>3, <2>4, Zenon
<1> HIDE DEF a
<1>7. InHole(fs, a, b, dir, at) \/ AtEnd(fs, a, b, dir, at)
  <2>1. CASE holes = {}
    <3> DEFINE c == [a EXCEPT !.tab[dir].size = n]
    <3>1. Resized(a, c, dir, n)
      <4> HIDE DEF n
      <4> QED BY <1>4, <1>5, Resize, Zenon
    <3>2. b = c
      BY <2>1, Zenon
    <3>3. at = d.size + 1
      BY <2>1, Zenon
    <3> HIDE DEF b, c, at
    <3> QED BY <2>1, <3>1, <3>2, <3>3, Zenon DEF AtEnd
  <2>2. CASE holes # {}
    <3>1. b = a /\ at = Least(holes)
      BY <2>2, Zenon
    <3> HIDE DEF b, at
    <3> QED BY <2>2, <3>1, Zenon DEF InHole
  <2> QED BY <2>1, <2>2
<1>8. b \in FsType
  <2> HIDE DEF b, at
  <2> QED BY <1>4, <1>7, Zenon DEF InHole, AtEnd, Resized, OneSlot
<1> HIDE DEF b, at
<1>9. Synced(b, gs, dir, garbage)
  BY <1>8, SyncInode, Zenon
<1> HIDE DEF gs
<1> QED BY <1>3, <1>6, <1>7, <1>9, Zenon DEF EntryWritten

LEMMA MakeIs ==
  ASSUME NEW r \in WalkType, NEW name \in Names, NEW mode \in Modes, NEW garbage \in Nat,
         r.fs.disk.imap # Inodes, r.fs.disk.smap # Extents
  PROVE  LET n == MakeInode(r, name, mode, garbage) IN
         InodeMade(r.fs, n.fs, n.slot, r.at, name, mode, garbage)
<1> DEFINE i == alloc_imap_bit(r.fs)
           s == alloc_smap_bit(i.fs)
           got == get_inode(s.fs, i.nr)
           made == [num |-> i.nr, cnt |-> 1, mode |-> mode, size |-> 0, start |-> s.ext,
                    i_node_length |-> "none", sect0 |-> Big]
           c == [got.fs EXCEPT !.tab[got.slot] = made]
           d == sync_inode(c, got.slot, garbage)
           gs == new_dir_entry(d, r.at, d.tab[got.slot].num, name, garbage)
<1>0. r.fs \in FsType /\ r.at \in Slots
  BY WalkFields, Zenon
<1>1. NrTaken(r.fs, i.fs, i.nr)
  BY <1>0, TakeNr, Zenon
<1> DEFINE N == new_inode(got, i.nr, s.ext, mode, garbage)
<1>2. MakeInode(r, name, mode, garbage) = Link(N, r.at, name, garbage)
  BY Zenon DEF MakeInode
<1>3. N = [slot |-> got.slot, fs |-> d]
  BY Zenon DEF new_inode
<1>4. N.slot = got.slot /\ N.fs = d
  <2> HIDE DEF got, d, N
  <2> QED BY <1>3
<1> HIDE DEF N
<1>5. Link(N, r.at, name, garbage) = [slot |-> got.slot, fs |-> gs]
  <2> HIDE DEF got, d
  <2> QED BY <1>4, Zenon DEF Link
<1> HIDE DEF i
<1>6. i.fs \in FsType /\ i.nr \in Inodes /\ i.fs.disk.smap # Extents
  BY <1>1, WroteFields, Zenon DEF NrTaken
<1>7. ExtTaken(i.fs, s.fs, s.ext)
  BY <1>6, TakeExt, Zenon
<1> HIDE DEF s
<1>8. s.fs \in FsType /\ s.ext \in Extents
  BY <1>7, WroteFields, Zenon DEF ExtTaken
<1>9. Got(s.fs, i.nr, got)
  BY <1>6, <1>8, GetInode, Zenon
<1> HIDE DEF got
<1>10. got.fs \in FsType /\ got.slot \in Slots
  BY <1>9, Zenon DEF Got, OneSlot
<1>11. Filled(got.fs, c, got.slot, i.nr, s.ext, mode)
  BY <1>6, <1>8, <1>10, FillSlot, Zenon
<1> HIDE DEF c
<1>12. c \in FsType /\ c.tab[got.slot].num = i.nr
  BY <1>11, Zenon DEF Filled, OneSlot
<1>13. Synced(c, d, got.slot, garbage)
  BY <1>10, <1>12, SyncInode, Zenon
<1> HIDE DEF d
<1>14. d \in FsType /\ d.tab[got.slot].num = i.nr
  <2>1. Wrote(c, d, d.disk)
    BY <1>13, Zenon DEF Synced
  <2>2. d \in FsType /\ d.tab = c.tab
    BY <2>1, WroteFields, Zenon
  <2> QED BY <1>12, <2>2, Zenon
<1> DEFINE hs == new_dir_entry(d, r.at, i.nr, name, garbage)
<1>15. EntryWritten(d, hs, r.at, i.nr, name, garbage)
  BY <1>0, <1>6, <1>14, WriteEntry, Zenon
<1>16. gs = hs
  BY <1>14, Zenon
<1> HIDE DEF hs, gs
<1> DEFINE n == MakeInode(r, name, mode, garbage)
<1>17. n.slot = got.slot /\ n.fs = hs
  <2> HIDE DEF n
  <2>1. n = [slot |-> got.slot, fs |-> gs]
    BY <1>2, <1>5, Zenon DEF n
  <2> QED BY <2>1, <1>16
<1> HIDE DEF n
<1> QED BY <1>1, <1>7, <1>9, <1>11, <1>13, <1>15, <1>17, Zenon DEF InodeMade, n

(* What a search tells.  *)
Finds(r, path, nr) ==
  LET d == r.fs.tab[r.at] IN
  /\ r.found /\ nr \in Inodes
  /\ \/ Last(path) = "" /\ nr = d.num
     \/ \E i \in 1..DIR_SLOTS : /\ r.fs.disk.dir[d.start][i].inode_nr = nr
                                /\ r.fs.disk.dir[d.start][i].name = Last(path)
                                /\ Last(path) # ""

LEMMA LookedIs ==
  ASSUME NEW p \in SlotType
  PROVE  Looked(p) \in Nat /\ Looked(p) <= DIR_SLOTS /\ 1..Looked(p) \subseteq 1..DIR_SLOTS
<1>1. p.size \in Nat
  BY SlotParts
<1>2. Looked(p) \in Nat /\ Looked(p) <= DIR_SLOTS
  BY <1>1, Constants DEF Looked
<1> HIDE DEF Looked
<1> QED BY <1>2, Constants

LEMMA EntryNrs ==
  ASSUME NEW d \in DiskType, NEW e \in Starts, NEW i \in 1..DIR_SLOTS
  PROVE  d.dir[e][i] \in EntryType /\ d.dir[e][i].inode_nr \in {0} \union Inodes
<1>1. d.dir[e][i] \in EntryType
  <2>1. d.dir \in [Starts -> [1..DIR_SLOTS -> EntryType]]
    BY DiskFields, Zenon
  <2>2. d.dir[e] \in [1..DIR_SLOTS -> EntryType]
    BY <2>1, Zenon
  <2> QED BY <2>2, Zenon
<1>2. NoEntry.inode_nr = 0
  BY DEF NoEntry
<1> QED BY <1>1, <1>2, Zenon DEF EntryType

LEMMA SearchIs ==
  ASSUME NEW r \in WalkType, NEW path
  PROVE  LET f == Searched(r, path) IN f.fs = r.fs /\ (f.nr = 0 \/ Finds(r, path, f.nr))
<1> DEFINE d == r.fs.tab[r.at]
           entries == r.fs.disk.dir[d.start]
           hits == {i \in 1..Looked(d) : SameName(path, entries[i])}
           n == IF ~r.found THEN 0 ELSE IF Last(path) = "" THEN d.num
                ELSE IF hits = {} THEN 0 ELSE entries[Least(hits)].inode_nr
<1>1. Searched(r, path) = [fs |-> r.fs, nr |-> n]
  BY Zenon DEF Searched
<1>2. d \in SlotType /\ d.start \in Starts /\ d.num \in 0..NR_INODES /\ r.fs.disk \in DiskType
  BY WalkFields, SlotParts, FsFields
<1>3. n = 0 \/ Finds(r, path, n)
  <2>1. CASE ~r.found
    BY <2>1, Zenon
  <2>2. CASE r.found /\ Last(path) = ""
    <3>1. n = d.num
      BY <2>2, Zenon
    <3>2. d.num = 0 \/ d.num \in Inodes
      <4> HIDE DEF d
      <4> QED BY <1>2, Constants DEF Inodes
    <3> HIDE DEF n
    <3> QED BY <2>2, <3>1, <3>2, Zenon DEF Finds
  <2>3. CASE r.found /\ Last(path) # "" /\ hits = {}
    BY <2>3, Zenon
  <2>4. CASE r.found /\ Last(path) # "" /\ hits # {}
    <3> DEFINE at == Least(hits)
    <3>0. 1..DIR_SLOTS \subseteq Nat
      BY Constants
    <3>1. hits \subseteq 1..DIR_SLOTS /\ hits \subseteq Nat
      BY <1>2, <3>0, LookedIs, Zenon
    <3>2. at \in hits
      <4> HIDE DEF hits
      <4> QED BY <2>4, <3>1, LeastProperties, Zenon
    <3>3. at \in 1..DIR_SLOTS /\ SameName(path, entries[at])
      BY <3>1, <3>2, Zenon
    <3>4. n = entries[at].inode_nr
      BY <2>4, Zenon
    <3> HIDE DEF at, n
    <3>5. entries[at].name = Last(path)
      BY <3>3, Zenon DEF SameName
    <3>6. n \in {0} \union Inodes
      BY <1>2, <3>3, <3>4, EntryNrs, Zenon
    <3> QED BY <2>4, <3>3, <3>4, <3>5, <3>6, Zenon DEF Finds
  <2> QED BY <2>1, <2>2, <2>3, <2>4, Zenon
<1> HIDE DEF n
<1>4. Searched(r, path).fs = r.fs /\ Searched(r, path).nr = n
  BY <1>1
<1> QED BY <1>3, <1>4, Zenon

(* The parts of an open of a path that should exist: two walks and, if the *)
(* search finds it, an inode that is got.                                  *)
Sought(path, r1, r2, nr, pin) ==
  /\ nr = 0 \/ Finds(r1, path, nr)
  /\ \/ pin.slot = 0 /\ pin.fs = r2.fs
     \/ nr # 0 /\ r2.found /\ Got(r2.fs, nr, pin)

LEMMA SeekIs ==
  ASSUME NEW fs, NEW path, NEW r1 \in WalkType, r1 = strip_path(fs, path),
         NEW r2 \in WalkType, r2 = strip_path(r1.fs, path)
  PROVE  \E nr : Sought(path, r1, r2, nr, OpenExisting(fs, path))
<1> DEFINE f == Searched(r1, path)
           nr == f.nr
           pin == OpenExisting(fs, path)
<1>1. f.fs = r1.fs /\ (nr = 0 \/ Finds(r1, path, nr))
  BY SearchIs, Zenon
<1>2. search_file(fs, path) = f
  BY Zenon DEF search_file
<1> HIDE DEF f
<1>3. pin = GetFound(nr, r2)
  BY <1>1, <1>2, Zenon DEF OpenExisting
<1> HIDE DEF nr
<1>4. CASE ~r2.found \/ nr = 0
  <2>1. pin = [slot |-> 0, fs |-> r2.fs]
    BY <1>3, <1>4, Zenon DEF GetFound
  <2> HIDE DEF pin
  <2>2. pin.slot = 0 /\ pin.fs = r2.fs
    BY <2>1
  <2> QED BY <1>1, <2>2, Zenon DEF Sought, pin
<1>5. CASE r2.found /\ nr # 0
  <2>1. pin = get_inode(r2.fs, nr)
    BY <1>3, <1>5, Zenon DEF GetFound
  <2>2. nr \in Inodes /\ r2.fs \in FsType
    BY <1>1, <1>5, WalkFields, Zenon DEF Finds
  <2> HIDE DEF pin
  <2>3. Got(r2.fs, nr, pin)
    BY <2>1, <2>2, GetInode, Zenon
  <2> QED BY <1>1, <1>5, <2>3, Zenon DEF Sought, pin
<1> QED BY <1>4, <1>5, WalkFields, Zenon

(* The parts of a creation.  *)
Created(fs, path, r, mode, garbage, pin) ==
  \/ pin.slot = 0 /\ pin.fs = r.fs
  \/ r.found /\ InodeMade(r.fs, pin.fs, pin.slot, r.at, Last(path), mode, garbage)

LEMMA CreateIs ==
  ASSUME NEW fs, NEW path, NEW r \in WalkType, r = strip_path(fs, path), Last(path) \in Names,
         NEW mode \in Modes, NEW garbage \in Nat,
         r.fs.disk.imap # Inodes, r.fs.disk.smap # Extents
  PROVE  Created(fs, path, r, mode, garbage, create_file(fs, path, mode, garbage))
<1> DEFINE pin == create_file(fs, path, mode, garbage)
<1>1. pin = Create(r, path, mode, garbage)
  BY Zenon DEF create_file
<1>2. CASE r.found
  <2> DEFINE n == MakeInode(r, Last(path), mode, garbage)
  <2>1. pin = n
    BY <1>1, <1>2, Zenon DEF Create
  <2>2. InodeMade(r.fs, n.fs, n.slot, r.at, Last(path), mode, garbage)
    BY MakeIs, Zenon
  <2> QED BY <1>2, <2>1, <2>2, Zenon DEF Created
<1>3. CASE ~r.found
  <2>1. pin = [slot |-> 0, fs |-> r.fs]
    BY <1>1, <1>3, Zenon DEF Create
  <2> HIDE DEF pin
  <2>2. pin.slot = 0 /\ pin.fs = r.fs
    BY <2>1
  <2> QED BY <2>2, Zenon DEF Created, pin
<1> QED BY <1>2, <1>3, Zenon

LEMMA OpenNewIs ==
  ASSUME NEW fs, NEW path, NEW r1 \in WalkType, r1 = strip_path(fs, path),
         NEW r2 \in WalkType, r2 = strip_path(r1.fs, path), Last(path) \in Names,
         NEW garbage \in Nat, r2.fs.disk.imap # Inodes, r2.fs.disk.smap # Extents
  PROVE  LET pin == OpenNew(fs, path, garbage) IN
         \/ pin.slot = 0 /\ pin.fs = r1.fs
         \/ Created(r1.fs, path, r2, "reg", garbage, pin)
<1> DEFINE f == Searched(r1, path)
           pin == OpenNew(fs, path, garbage)
<1>1. f.fs = r1.fs
  BY SearchIs, Zenon
<1>2. search_file(fs, path) = f
  BY Zenon DEF search_file
<1> HIDE DEF f
<1>3. pin = IF f.nr # 0 THEN [slot |-> 0, fs |-> r1.fs]
            ELSE create_file(r1.fs, path, "reg", garbage)
  BY <1>1, <1>2, Zenon DEF OpenNew
<1> HIDE DEF pin
<1>4. CASE f.nr # 0
  <2>1. pin = [slot |-> 0, fs |-> r1.fs]
    BY <1>3, <1>4, Zenon
  <2>2. pin.slot = 0 /\ pin.fs = r1.fs
    BY <2>1
  <2> QED BY <2>2, Zenon DEF pin
<1>5. CASE f.nr = 0
  <2> DEFINE c == create_file(r1.fs, path, "reg", garbage)
             m == "reg"
  <2>1. m \in Modes
    BY DEF Modes
  <2> HIDE DEF m
  <2> DEFINE c2 == create_file(r1.fs, path, m, garbage)
  <2>2. Created(r1.fs, path, r2, m, garbage, c2)
    BY <2>1, CreateIs, Zenon
  <2>3. pin = c
    BY <1>3, <1>5, Zenon
  <2> QED BY <2>2, <2>3, Zenon DEF m, pin
<1> QED BY <1>4, <1>5, Zenon

(* A new state of the descriptors.  *)
FdSet(fs, gs, fd, desc) ==
  /\ gs \in FsType /\ fd \in Fds /\ desc \in DescType
  /\ gs.disk = fs.disk /\ gs.tab = fs.tab /\ gs.writes = fs.writes
  /\ gs.filp[fd] = desc /\ \A f \in Fds : f # fd => gs.filp[f] = fs.filp[f]

LEMMA SetFd ==
  ASSUME NEW fs \in FsType, NEW fd \in Fds, NEW desc \in DescType
  PROVE  LET gs == [fs EXCEPT !.filp[fd] = desc] IN
         FdSet(fs, gs, fd, desc) /\ gs.cause = fs.cause
<1> DEFINE new == [fs.filp EXCEPT ![fd] = desc]
           gs == [fs EXCEPT !.filp = new]
<1>1. fs.filp \in [Fds -> DescType]
  BY FsFields
<1>2. new \in [Fds -> DescType] /\ new[fd] = desc /\ \A f \in Fds : f # fd => new[f] = fs.filp[f]
  BY <1>1, Zenon
<1> HIDE DEF new
<1>3. gs \in FsType /\ gs.filp = new /\ gs.disk = fs.disk /\ gs.tab = fs.tab
      /\ gs.cause = fs.cause /\ gs.writes = fs.writes
  BY <1>2, WithFilp, Zenon
<1> QED BY <1>2, <1>3, Zenon DEF FdSet, new

FdFree(fs, fd) == fs.filp[fd].slot = 0

(* The end of an open: no descriptor, or the first that is free.  *)
HasOpened(pin, o) ==
  \/ pin.slot = 0 /\ o.fd = -1 /\ o.fs = pin.fs
  \/ /\ pin.slot # 0 /\ o.fd \in Fds /\ FdFree(pin.fs, o.fd)
     /\ FdSet(pin.fs, o.fs, o.fd, [slot |-> pin.slot, of |-> pin.fs.tab[pin.slot].num,
                                  mode |-> pin.fs.tab[pin.slot].mode])
     /\ Ok(o.fs) => o.fs.cause = pin.fs.cause

LEMMA FailIs ==
  ASSUME NEW fs \in FsType, NEW cause \in Causes, cause # ""
  PROVE  LET gs == Fail(fs, cause) IN
         /\ gs \in FsType /\ gs.disk = fs.disk /\ gs.tab = fs.tab /\ gs.filp = fs.filp
         /\ gs.writes = fs.writes /\ gs.cause # ""
<1>1. CASE fs.cause = ""
  <2> DEFINE hs == [fs EXCEPT !.cause = cause]
  <2>1. Fail(fs, cause) = hs
    BY <1>1, Zenon DEF Fail
  <2>2. hs \in FsType /\ hs.cause = cause /\ hs.disk = fs.disk /\ hs.tab = fs.tab
        /\ hs.filp = fs.filp /\ hs.writes = fs.writes
    BY WithCause, Zenon
  <2> HIDE DEF hs
  <2> QED BY <2>1, <2>2, Zenon
<1>2. CASE fs.cause # ""
  BY <1>2, Zenon DEF Fail
<1> QED BY <1>1, <1>2, Zenon

LEMMA OpenedIs ==
  ASSUME NEW pin, pin.fs \in FsType, pin.slot \in {0} \union Slots,
         \E fd \in Fds : FdFree(pin.fs, fd)
  PROVE  HasOpened(pin, Opened(pin))
<1> DEFINE free == {f \in Fds : pin.fs.filp[f].slot = 0}
           fd == Least(free)
           inode == pin.fs.tab[pin.slot]
           desc == [slot |-> pin.slot, of |-> inode.num, mode |-> inode.mode]
           fs == [pin.fs EXCEPT !.filp[fd] = desc]
           C == "pin->i_mode == I_REGULAR"
           gs == IF inode.mode \in {"chr", "dir", "reg"} THEN fs ELSE Fail(fs, C)
           o == Opened(pin)
<1>1. CASE pin.slot = 0
  <2>1. o = [fd |-> -1, fs |-> pin.fs]
    BY <1>1, Zenon DEF Opened
  <2> HIDE DEF o
  <2>2. o.fd = -1 /\ o.fs = pin.fs
    BY <2>1
  <2> QED BY <1>1, <2>2, Zenon DEF HasOpened, o
<1>2. CASE pin.slot # 0
  <2>1. o = [fd |-> fd, fs |-> gs]
    BY <1>2, Zenon DEF Opened
  <2>2. free \subseteq Nat /\ free # {}
    <3>1. Fds \subseteq Nat
      BY Constants DEF Fds
    <3>2. \E f \in Fds : pin.fs.filp[f].slot = 0
      BY Zenon DEF FdFree
    <3> QED BY <3>1, <3>2, Zenon
  <2>3. fd \in free
    <3> HIDE DEF free
    <3> QED BY <2>2, LeastProperties, Zenon
  <2>4. fd \in Fds /\ FdFree(pin.fs, fd)
    BY <2>3, Zenon DEF FdFree
  <2>5. inode \in SlotType /\ inode.num \in 0..NR_INODES /\ inode.mode \in Modes
    BY <1>2, Counts, SlotParts, Zenon
  <2>6. desc \in DescType
    <3> HIDE DEF inode
    <3> QED BY <1>2, <2>5 DEF DescType
  <2> HIDE DEF fd, desc
  <2>7. FdSet(pin.fs, fs, fd, desc) /\ fs.cause = pin.fs.cause
    BY <2>4, <2>6, SetFd, Zenon
  <2> HIDE DEF fs
  <2>8. fs \in FsType
    BY <2>7, Zenon DEF FdSet
  <2>9. FdSet(pin.fs, gs, fd, desc) /\ (Ok(gs) => gs.cause = pin.fs.cause)
    <3> HIDE DEF inode
    <3>1. CASE inode.mode \in {"chr", "dir", "reg"}
      <4>1. gs = fs
        BY <3>1, Zenon
      <4> QED BY <4>1, <2>7, Zenon
    <3>2. CASE inode.mode \notin {"chr", "dir", "reg"}
      <4>1. gs = Fail(fs, C)
        BY <3>2, Zenon
      <4>2. C \in Causes /\ C # ""
        BY DEF Causes
      <4> HIDE DEF C, gs
      <4> DEFINE hs == Fail(fs, C)
      <4>3. /\ hs \in FsType /\ hs.disk = fs.disk /\ hs.tab = fs.tab /\ hs.filp = fs.filp
            /\ hs.writes = fs.writes /\ hs.cause # ""
        BY <2>8, <4>2, FailIs, Zenon
      <4> HIDE DEF hs
      <4>4. gs = hs
        BY <4>1, Zenon DEF hs
      <4> QED BY <4>3, <4>4, <2>7, Zenon DEF FdSet, Ok
    <3> QED BY <3>1, <3>2, Zenon
  <2> HIDE DEF gs, o
  <2>10. o.fd = fd /\ o.fs = gs
    BY <2>1
  <2> QED BY <1>2, <2>4, <2>9, <2>10, Zenon DEF HasOpened, desc, o
<1> QED BY <1>1, <1>2, Zenon

(* The end of an open in a table of descriptors that may be full.  *)
OpenIs(fs, create, path, garbage, o) ==
  \/ o.fd = -1 /\ SameButTab(fs, o.fs) /\ ~Ok(o.fs)
  \/ /\ \E fd \in Fds : FdFree(fs, fd)
     /\ o = Opened(IF create THEN OpenNew(fs, path, garbage) ELSE OpenExisting(fs, path))

LEMMA OpenCases ==
  ASSUME NEW fs \in FsType, NEW create \in BOOLEAN, NEW path, NEW garbage
  PROVE  OpenIs(fs, create, path, garbage, do_open(fs, path, create, garbage))
<1> DEFINE o == do_open(fs, path, create, garbage)
<1>1. CASE \A fd \in Fds : fs.filp[fd].slot # 0
  <2> DEFINE C == "filp[] is full"
             gs == Fail(fs, C)
  <2>1. o = [fd |-> -1, fs |-> gs]
    BY <1>1, Zenon DEF do_open
  <2>2. C \in Causes /\ C # ""
    BY DEF Causes
  <2> HIDE DEF C, o
  <2>3. /\ gs \in FsType /\ gs.disk = fs.disk /\ gs.tab = fs.tab /\ gs.filp = fs.filp
        /\ gs.writes = fs.writes /\ gs.cause # ""
    BY <2>2, FailIs, Zenon
  <2> HIDE DEF gs
  <2>4. o.fd = -1 /\ o.fs = gs
    BY <2>1
  <2> QED BY <2>3, <2>4, Zenon DEF OpenIs, SameButTab, Ok, o
<1>2. CASE ~\A fd \in Fds : fs.filp[fd].slot # 0
  <2>1. o = Opened(IF create THEN OpenNew(fs, path, garbage) ELSE OpenExisting(fs, path))
    BY <1>2, Zenon DEF do_open
  <2> QED BY <1>2, <2>1, Zenon DEF OpenIs, FdFree
<1> QED BY <1>1, <1>2, Zenon

(* A close puts the slot and frees the descriptor.  *)
LEMMA ClosedType == Closed \in DescType
<1>1. 0 \in {0} \union Slots /\ 0 \in 0..NR_INODES /\ "none" \in Modes
  BY Constants DEF Modes
<1> QED BY <1>1 DEF Closed, DescType

LEMMA CloseIs ==
  ASSUME NEW fs \in FsType, NEW fd \in Fds, fs.filp[fd].slot \in Slots
  PROVE  LET gs == do_close(fs, fd)
             hs == put_inode(fs, fs.filp[fd].slot)
         IN  FdSet(hs, gs, fd, Closed) /\ gs.cause = hs.cause
<1> DEFINE s == fs.filp[fd].slot
           hs == put_inode(fs, s)
           gs == [hs EXCEPT !.filp[fd] = Closed]
<1>1. do_close(fs, fd) = gs
  BY Zenon DEF do_close
<1>2. hs \in FsType
  <2> HIDE DEF s
  <2> DEFINE p == hs.tab[s]
  <2>1. OneSlot(fs, hs, s, fs.tab[s], p)
    BY PutInode, Zenon DEF s
  <2> HIDE DEF hs
  <2> QED BY <2>1, Zenon DEF OneSlot
<1> HIDE DEF hs
<1>3. FdSet(hs, gs, fd, Closed) /\ gs.cause = hs.cause
  BY <1>2, ClosedType, SetFd, Zenon
<1> QED BY <1>1, <1>3, Zenon DEF hs

(* A transfer may set the size of what is not a terminal.  *)
Transferred(fs, gs, s, pos, garbage) ==
  \/ gs = fs
  \/ /\ fs.tab[s].mode # "chr"
     /\ \E a, n : n \in {Big, pos} /\ Resized(fs, a, s, n) /\ Synced(a, gs, s, garbage)

LEMMA TransferIs ==
  ASSUME NEW fs \in FsType, NEW fd, NEW io, NEW pos \in Nat, NEW grows, NEW garbage \in Nat,
         fs.filp[fd].slot \in Slots
  PROVE  Transferred(fs, do_rdwt(fs, fd, io, pos, grows, garbage), fs.filp[fd].slot, pos,
                     garbage)
<1> DEFINE s == fs.filp[fd].slot
           n == IF io = "READ" THEN Big ELSE pos
           a == [fs EXCEPT !.tab[s].size = n]
           gs == sync_inode(a, s, garbage)
           hs == do_rdwt(fs, fd, io, pos, grows, garbage)
<1>1. hs = fs \/ (fs.tab[s].mode # "chr" /\ hs = gs)
  <2> DEFINE skip == fs.tab[s].mode = "chr" \/ (fs.tab[s].mode = "dir" /\ io = "WRITE")
             grow == n > fs.tab[s].size \/ (io = "READ" /\ grows)
  <2>1. hs = IF skip THEN fs ELSE IF grow THEN gs ELSE fs
    BY Zenon DEF do_rdwt
  <2>2. ~skip => fs.tab[s].mode # "chr"
    BY Zenon
  <2> HIDE DEF hs, skip, grow, gs
  <2>3. CASE skip
    <3>1. hs = fs
      BY <2>1, <2>3, Zenon
    <3> QED BY <3>1, Zenon
  <2>4. CASE ~skip
    <3>1. CASE grow
      <4>1. hs = gs
        BY <2>1, <2>4, <3>1, Zenon
      <4> QED BY <2>2, <2>4, <4>1, Zenon
    <3>2. CASE ~grow
      <4>1. hs = fs
        BY <2>1, <2>4, <3>2, Zenon
      <4> QED BY <4>1, Zenon
    <3> QED BY <3>1, <3>2, Zenon
  <2> QED BY <2>3, <2>4, Zenon
<1> HIDE DEF hs
<1>2. n \in Nat /\ n \in {Big, pos}
  BY Constants DEF Big
<1> HIDE DEF n
<1>3. Resized(fs, a, s, n)
  BY <1>2, Resize, Zenon
<1> HIDE DEF a
<1>4. a \in FsType
  BY <1>3, Zenon DEF Resized, OneSlot
<1>5. Synced(a, gs, s, garbage)
  BY <1>4, SyncInode, Zenon
<1> HIDE DEF gs
<1> QED BY <1>1, <1>2, <1>3, <1>5, Zenon DEF Transferred, hs

(* The removal of an entry.  *)
Hits(fs, d, nr) ==
  {i \in 1..DIR_SLOTS : i <= d.size /\ fs.disk.dir[d.start][i].inode_nr = nr}

Before(fs, d, at) == Cardinality({i \in 1..(at - 1) : fs.disk.dir[d.start][i].inode_nr # 0})

EntryRemoved(fs, gs, dir, nr, garbage) ==
  LET d == fs.tab[dir] IN
  \/ Hits(fs, d, nr) = {} /\ gs = fs
  \/ \E at, a, b :
       /\ at \in Hits(fs, d, nr) /\ at = Least(Hits(fs, d, nr))
       /\ EntrySet(fs, a, d.start, at, NoEntry)
       /\ \/ at # d.size /\ gs = a
          \/ at = d.size /\ Resized(a, b, dir, Before(fs, d, at)) /\ Synced(b, gs, dir, garbage)

LEMMA BeforeIs ==
  ASSUME NEW fs, NEW d, NEW at \in Nat \ {0}
  PROVE  Before(fs, d, at) \in Nat /\ Before(fs, d, at) <= at - 1
<1> DEFINE S == 1..(at - 1)
           T == {i \in S : fs.disk.dir[d.start][i].inode_nr # 0}
<1>1. IsFiniteSet(S) /\ Cardinality(S) = at - 1
  <2>1. 1 \in Int /\ at - 1 \in Int
    OBVIOUS
  <2>2. IsFiniteSet(1..(at - 1)) /\ Cardinality(1..(at - 1)) = IF 1 > at - 1 THEN 0 ELSE (at - 1) - 1 + 1
    BY <2>1, FS_Interval
  <2> QED BY <2>2
<1>2. T \subseteq S
  BY Zenon
<1> HIDE DEF S, T
<1>3. IsFiniteSet(T) /\ Cardinality(T) <= Cardinality(S) /\ Cardinality(T) \in Nat
  BY <1>1, <1>2, FS_Subset, FS_CardinalityType
<1>4. Before(fs, d, at) = Cardinality(T)
  BY Zenon DEF Before, S, T
<1> QED BY <1>1, <1>3, <1>4

LEMMA RemoveIs ==
  ASSUME NEW fs \in FsType, NEW dir \in Slots, NEW nr, NEW garbage \in Nat
  PROVE  EntryRemoved(fs, RemoveEntry(fs, dir, nr, garbage), dir, nr, garbage)
<1> DEFINE d == fs.tab[dir]
           hits == Hits(fs, d, nr)
           at == Least(hits)
           n == Before(fs, d, at)
           a == WriteSector(fs, [fs.disk EXCEPT !.dir[d.start][at] = NoEntry])
           b == [a EXCEPT !.tab[dir].size = n]
           hs == sync_inode(b, dir, garbage)
           gs == RemoveEntry(fs, dir, nr, garbage)
<1>1. gs = IF hits = {} THEN fs ELSE IF at # d.size THEN a ELSE hs
  BY Zenon DEF RemoveEntry, Hits, Before
<1> HIDE DEF gs
<1>2. CASE hits = {}
  <2>1. gs = fs
    BY <1>1, <1>2, Zenon
  <2> QED BY <1>2, <2>1, Zenon DEF EntryRemoved, gs
<1>3. CASE hits # {}
  <2>1. hits \subseteq Nat /\ hits \subseteq 1..DIR_SLOTS
    BY Constants DEF Hits
  <2> HIDE DEF hits
  <2>2. at \in hits
    BY <1>3, <2>1, LeastProperties, Zenon
  <2>3. at \in Nat \ {0}
    <3>1. 1..DIR_SLOTS \subseteq Nat \ {0}
      BY Constants
    <3> QED BY <2>1, <2>2, <3>1, Zenon
  <2> HIDE DEF at
  <2>4. n \in Nat
    BY <2>3, BeforeIs, Zenon
  <2> HIDE DEF n
  <2>5. d.start \in Starts
    BY Counts, SlotParts, Zenon
  <2>6. NoEntry \in EntryType
    BY Zenon DEF EntryType
  <2>7. EntrySet(fs, a, d.start, at, NoEntry)
    <3> HIDE DEF d
    <3> QED BY <2>5, <2>6, SetEntry, Zenon
  <2> HIDE DEF a
  <2>8. a \in FsType
    BY <2>7, WroteFields, Zenon DEF EntrySet
  <2>9. Resized(a, b, dir, n)
    BY <2>4, <2>8, Resize, Zenon
  <2> HIDE DEF b
  <2>10. b \in FsType
    BY <2>9, Zenon DEF Resized, OneSlot
  <2>11. Synced(b, hs, dir, garbage)
    BY <2>10, SyncInode, Zenon
  <2> HIDE DEF hs
  <2>12. (at # d.size /\ gs = a) \/ (at = d.size /\ gs = hs)
    <3>1. CASE at # d.size
      <4>1. gs = a
        BY <1>1, <1>3, <3>1, Zenon DEF at
      <4> QED BY <3>1, <4>1, Zenon
    <3>2. CASE at = d.size
      <4>1. ~(at # d.size)
        BY <3>2
      <4> QED BY <1>1, <1>3, <4>1, Zenon DEF at
    <3> QED BY <3>1, <3>2, Zenon
  <2> QED BY <2>2, <2>7, <2>9, <2>11, <2>12, Zenon DEF EntryRemoved, gs, n, hits, at
<1> QED BY <1>2, <1>3, Zenon

(* The release of an inode: the bits in the maps, the inode, its slot, the *)
(* entry.                                                                  *)
NrFreed(fs, gs, nr) ==
  /\ Wrote(fs, gs, gs.disk)
  /\ gs.disk.imap = fs.disk.imap \ {nr} /\ gs.disk.smap = fs.disk.smap
  /\ gs.disk.node = fs.disk.node /\ gs.disk.dir = fs.disk.dir

ExtFreed(fs, gs, ext) ==
  /\ Wrote(fs, gs, gs.disk)
  /\ gs.disk.imap = fs.disk.imap /\ gs.disk.smap = fs.disk.smap \ {ext}
  /\ gs.disk.node = fs.disk.node /\ gs.disk.dir = fs.disk.dir

Cleared(fs, gs, s) ==
  /\ OneSlot(fs, gs, s, fs.tab[s], gs.tab[s]) /\ gs.cause = fs.cause
  /\ gs.tab[s].num = fs.tab[s].num /\ gs.tab[s].cnt = fs.tab[s].cnt
  /\ gs.tab[s].mode = "none" /\ gs.tab[s].size = 0 /\ gs.tab[s].start = 0
  /\ gs.tab[s].i_node_length = fs.tab[s].i_node_length /\ gs.tab[s].sect0 = fs.tab[s].sect0

Released(fs, gs, slot, dir, nr, garbage) ==
  \E a, b, c, d :
    /\ NrFreed(fs, a, nr) /\ ExtFreed(a, b, fs.tab[slot].start) /\ Cleared(b, c, slot)
    /\ Synced(c, d, slot, garbage) /\ EntryRemoved(put_inode(d, slot), gs, dir, nr, garbage)

LEMMA FreeNr ==
  ASSUME NEW fs \in FsType, NEW nr
  PROVE  NrFreed(fs, WriteSector(fs, [fs.disk EXCEPT !.imap = @ \ {nr}]), nr)
<1> DEFINE m == fs.disk.imap \ {nr}
           d == [fs.disk EXCEPT !.imap = m]
           gs == WriteSector(fs, d)
<1>1. fs.disk \in DiskType /\ fs.disk.imap \subseteq Inodes
  BY FsFields, DiskFields
<1>2. m \in SUBSET Inodes
  BY <1>1
<1>3. [fs.disk EXCEPT !.imap = @ \ {nr}] = d
  BY Zenon
<1> HIDE DEF m
<1>4. d \in DiskType /\ d.imap = m /\ d.smap = fs.disk.smap /\ d.node = fs.disk.node
      /\ d.dir = fs.disk.dir
  BY <1>1, <1>2, WithMaps, Zenon
<1> HIDE DEF d
<1>5. Wrote(fs, gs, d)
  BY <1>4, WriteIs, Zenon
<1> DEFINE hs == WriteSector(fs, [fs.disk EXCEPT !.imap = @ \ {nr}])
<1>6. hs = gs
  BY <1>3, Zenon
<1> HIDE DEF gs, hs
<1>7. gs.disk = d
  BY <1>5, WroteFields, Zenon
<1>8. NrFreed(fs, gs, nr)
  BY <1>4, <1>5, <1>7, Zenon DEF NrFreed, m
<1> QED BY <1>6, <1>8, Zenon DEF hs

LEMMA FreeExt ==
  ASSUME NEW fs \in FsType, NEW ext
  PROVE  ExtFreed(fs, WriteSector(fs, [fs.disk EXCEPT !.smap = @ \ {ext}]), ext)
<1> DEFINE m == fs.disk.smap \ {ext}
           d == [fs.disk EXCEPT !.smap = m]
           gs == WriteSector(fs, d)
<1>1. fs.disk \in DiskType /\ fs.disk.smap \subseteq Extents
  BY FsFields, DiskFields
<1>2. m \in SUBSET Extents
  BY <1>1
<1>3. [fs.disk EXCEPT !.smap = @ \ {ext}] = d
  BY Zenon
<1> HIDE DEF m
<1>4. d \in DiskType /\ d.smap = m /\ d.imap = fs.disk.imap /\ d.node = fs.disk.node
      /\ d.dir = fs.disk.dir
  BY <1>1, <1>2, WithMaps, Zenon
<1> HIDE DEF d
<1>5. Wrote(fs, gs, d)
  BY <1>4, WriteIs, Zenon
<1> DEFINE hs == WriteSector(fs, [fs.disk EXCEPT !.smap = @ \ {ext}])
<1>6. hs = gs
  BY <1>3, Zenon
<1> HIDE DEF gs, hs
<1>7. gs.disk = d
  BY <1>5, WroteFields, Zenon
<1>8. ExtFreed(fs, gs, ext)
  BY <1>4, <1>5, <1>7, Zenon DEF ExtFreed, m
<1> QED BY <1>6, <1>8, Zenon DEF hs

LEMMA WithCleared ==
  ASSUME NEW p \in SlotType
  PROVE  LET r == [p EXCEPT !.mode = "none", !.size = 0, !.start = 0] IN
         /\ r \in SlotType /\ r.num = p.num /\ r.cnt = p.cnt /\ r.mode = "none" /\ r.size = 0
         /\ r.start = 0 /\ r.i_node_length = p.i_node_length /\ r.sect0 = p.sect0
<1> DEFINE a == [p EXCEPT !.mode = "none"]
           b == [a EXCEPT !.size = 0]
           c == [b EXCEPT !.start = 0]
<1>1. "none" \in Modes /\ 0 \in Nat /\ 0 \in Starts
  BY DEF Modes, Starts
<1>2. a \in SlotType /\ a.mode = "none" /\ a.num = p.num /\ a.cnt = p.cnt
      /\ a.i_node_length = p.i_node_length /\ a.sect0 = p.sect0
  BY <1>1, Zenon DEF SlotType
<1>3. c = [p EXCEPT !.mode = "none", !.size = 0, !.start = 0]
  BY Zenon
<1> HIDE DEF a
<1>4. b \in SlotType /\ b.size = 0 /\ b.mode = a.mode /\ b.num = a.num /\ b.cnt = a.cnt
      /\ b.i_node_length = a.i_node_length /\ b.sect0 = a.sect0
  BY <1>1, <1>2, Zenon DEF SlotType
<1> HIDE DEF b
<1>5. c \in SlotType /\ c.start = 0 /\ c.size = b.size /\ c.mode = b.mode /\ c.num = b.num
      /\ c.cnt = b.cnt /\ c.i_node_length = b.i_node_length /\ c.sect0 = b.sect0
  BY <1>1, <1>4, Zenon DEF SlotType
<1> HIDE DEF c
<1> QED BY <1>2, <1>3, <1>4, <1>5, Zenon

LEMMA ClearSlot ==
  ASSUME NEW fs \in FsType, NEW s \in Slots
  PROVE  Cleared(fs, [fs EXCEPT !.tab[s] = [@ EXCEPT !.mode = "none", !.size = 0, !.start = 0]],
                 s)
<1> DEFINE p == fs.tab[s]
           q == [p EXCEPT !.mode = "none", !.size = 0, !.start = 0]
           gs == [fs EXCEPT !.tab[s] = q]
           hs == [fs EXCEPT !.tab[s] = [@ EXCEPT !.mode = "none", !.size = 0, !.start = 0]]
<1>1. p \in SlotType
  BY Counts
<1>2. hs = gs
  BY Zenon
<1> HIDE DEF hs
<1>3. /\ q \in SlotType /\ q.num = p.num /\ q.cnt = p.cnt /\ q.mode = "none" /\ q.size = 0
      /\ q.start = 0 /\ q.i_node_length = p.i_node_length /\ q.sect0 = p.sect0
  <2> HIDE DEF p
  <2> QED BY <1>1, WithCleared, Zenon
<1> HIDE DEF q
<1>4. OneSlot(fs, gs, s, p, q) /\ gs.cause = fs.cause
  BY <1>3, SetSlot, Zenon
<1> HIDE DEF gs
<1>5. gs.tab[s] = q
  BY <1>4, Zenon DEF OneSlot
<1>6. Cleared(fs, gs, s)
  BY <1>3, <1>4, <1>5, Zenon DEF Cleared
<1> QED BY <1>2, <1>6, Zenon DEF hs

LEMMA ReleaseIs ==
  ASSUME NEW fs \in FsType, NEW slot \in Slots, NEW dir \in Slots, NEW nr, NEW garbage \in Nat
  PROVE  Released(fs, ReleaseInode(fs, slot, dir, nr, garbage), slot, dir, nr, garbage)
<1> DEFINE start == fs.tab[slot].start
           a == WriteSector(fs, [fs.disk EXCEPT !.imap = @ \ {nr}])
           b == WriteSector(a, [a.disk EXCEPT !.smap = @ \ {start}])
           c == [b EXCEPT !.tab[slot] = [@ EXCEPT !.mode = "none", !.size = 0, !.start = 0]]
           d == sync_inode(c, slot, garbage)
           e == put_inode(d, slot)
           gs == RemoveEntry(e, dir, nr, garbage)
<1>1. ReleaseInode(fs, slot, dir, nr, garbage) = gs
  BY Zenon DEF ReleaseInode
<1>2. NrFreed(fs, a, nr)
  BY FreeNr, Zenon
<1> HIDE DEF a
<1>3. a \in FsType
  BY <1>2, WroteFields, Zenon DEF NrFreed
<1>4. ExtFreed(a, b, start)
  BY <1>3, FreeExt, Zenon
<1> HIDE DEF b
<1>5. b \in FsType
  BY <1>4, WroteFields, Zenon DEF ExtFreed
<1>6. Cleared(b, c, slot)
  BY <1>5, ClearSlot, Zenon
<1> HIDE DEF c
<1>7. c \in FsType
  BY <1>6, Zenon DEF Cleared, OneSlot
<1>8. Synced(c, d, slot, garbage)
  BY <1>7, SyncInode, Zenon
<1> HIDE DEF d
<1>9. d \in FsType
  BY <1>8, WroteFields, Zenon DEF Synced
<1>10. e \in FsType
  <2> DEFINE p == e.tab[slot]
  <2>1. OneSlot(d, e, slot, d.tab[slot], p)
    BY <1>9, PutInode, Zenon
  <2> HIDE DEF e
  <2> QED BY <2>1, Zenon DEF OneSlot
<1> HIDE DEF e
<1>11. EntryRemoved(e, gs, dir, nr, garbage)
  BY <1>10, RemoveIs, Zenon
<1> HIDE DEF gs
<1> QED BY <1>1, <1>2, <1>4, <1>6, <1>8, <1>11, Zenon DEF Released, e

(* What an unlink finds, and what it does with it.  *)
Targeted(path, r1, r2, t) ==
  \/ t.nr = 0 /\ (t.fs = r1.fs \/ t.fs = r2.fs)
  \/ /\ Finds(r1, path, t.nr) /\ r2.found /\ t.dir = r2.at
     /\ \E got : Got(r2.fs, t.nr, got) /\ t.slot = got.slot /\ t.fs = got.fs

LEMMA TargetIs ==
  ASSUME NEW fs, NEW path, NEW r1 \in WalkType, r1 = strip_path(fs, path),
         NEW r2 \in WalkType, r2 = strip_path(r1.fs, path)
  PROVE  Targeted(path, r1, r2, Target(fs, path))
<1> DEFINE f == Searched(r1, path)
           nr == f.nr
           t == Target(fs, path)
<1>1. f.fs = r1.fs /\ (nr = 0 \/ Finds(r1, path, nr))
  BY SearchIs, Zenon
<1>2. search_file(fs, path) = f
  BY Zenon DEF search_file
<1>3. t = TargetFound(f, path)
  BY <1>2, Zenon DEF Target
<1> HIDE DEF f
<1>4. t = IF nr = 0 THEN NoTarget(r1.fs) ELSE TargetIn(nr, r2)
  BY <1>1, <1>3, Zenon DEF TargetFound
<1> HIDE DEF nr, t
<1>5. \A hs : NoTarget(hs).nr = 0 /\ NoTarget(hs).fs = hs
  BY DEF NoTarget
<1>6. CASE nr = 0
  <2>1. t = NoTarget(r1.fs)
    BY <1>4, <1>6, Zenon
  <2> QED BY <1>5, <2>1, Zenon DEF Targeted, t
<1>7. CASE nr # 0 /\ ~r2.found
  <2>1. t = NoTarget(r2.fs)
    BY <1>4, <1>7, Zenon DEF TargetIn
  <2> QED BY <1>5, <2>1, Zenon DEF Targeted, t
<1>8. CASE nr # 0 /\ r2.found
  <2> DEFINE got == get_inode(r2.fs, nr)
  <2>1. t = [nr |-> nr, slot |-> got.slot, dir |-> r2.at, fs |-> got.fs]
    BY <1>4, <1>8, Zenon DEF TargetIn
  <2>2. nr \in Inodes /\ r2.fs \in FsType
    BY <1>1, <1>8, WalkFields, Zenon DEF Finds
  <2>3. Got(r2.fs, nr, got)
    BY <2>2, GetInode, Zenon
  <2> HIDE DEF got
  <2>4. t.nr = nr /\ t.slot = got.slot /\ t.dir = r2.at /\ t.fs = got.fs
    BY <2>1
  <2> QED BY <1>1, <1>8, <2>3, <2>4, Zenon DEF Targeted, t
<1> QED BY <1>6, <1>7, <1>8, WalkFields, Zenon

Counted(fs, gs, s) ==
  \/ fs.tab[s].mode # "dir" /\ gs = fs
  \/ /\ fs.tab[s].mode = "dir" /\ OneSlot(fs, gs, s, fs.tab[s], gs.tab[s])
     /\ gs.cause = fs.cause /\ gs.tab[s].cnt = 1 /\ SameInode(fs.tab[s], gs.tab[s])

LEMMA CountOne ==
  ASSUME NEW fs \in FsType, NEW s \in Slots, fs.tab[s].mode = "dir"
  PROVE  Counted(fs, [fs EXCEPT !.tab[s].cnt = 1], s)
<1> DEFINE k == 1
           x == [fs EXCEPT !.tab[s].cnt = k]
<1>1. k \in Int
  OBVIOUS
<1>2. x = [fs EXCEPT !.tab[s].cnt = 1]
  BY Zenon
<1> HIDE DEF k
<1>3. /\ OneSlot(fs, x, s, fs.tab[s], x.tab[s])
      /\ x.cause = fs.cause /\ x.tab[s].cnt = k /\ SameInode(fs.tab[s], x.tab[s])
  BY <1>1, SetCount, Zenon
<1> HIDE DEF x
<1> QED BY <1>2, <1>3, Zenon DEF Counted, k

Unlinked(t, u, garbage) ==
  \/ t.nr = 0 /\ u.ok = FALSE /\ u.fs = t.fs
  \/ /\ t.nr # 0
     /\ \E g : /\ Counted(t.fs, g, t.slot)
               /\ \/ u.ok = FALSE /\ u.fs = g
                  \/ /\ u.ok = TRUE /\ t.fs.tab[t.slot].mode # "chr"
                     /\ ~(g.tab[t.slot].cnt > 1)
                     /\ Released(g, u.fs, t.slot, t.dir, t.nr, garbage)

LEMMA UnlinkIs ==
  ASSUME NEW t, t.nr # 0 => t.fs \in FsType /\ t.slot \in Slots /\ t.dir \in Slots,
         NEW garbage \in Nat
  PROVE  Unlinked(t, Unlink(t, garbage), garbage)
<1> DEFINE u == Unlink(t, garbage)
           mode == t.fs.tab[t.slot].mode
           one == [t.fs EXCEPT !.tab[t.slot].cnt = 1]
           g == IF mode = "dir" THEN one ELSE t.fs
           busy == mode # "chr" /\ g.tab[t.slot].cnt > 1
           hs == ReleaseInode(g, t.slot, t.dir, t.nr, garbage)
<1>1. u = IF t.nr = 0 THEN [ok |-> FALSE, fs |-> t.fs]
          ELSE IF mode = "chr" \/ busy THEN [ok |-> FALSE, fs |-> g]
          ELSE [ok |-> TRUE, fs |-> hs]
  BY Zenon DEF Unlink
<1>a. \A b, x : [ok |-> b, fs |-> x].ok = b /\ [ok |-> b, fs |-> x].fs = x
  BY Zenon
<1> HIDE DEF u
<1>2. CASE t.nr = 0
  <2>1. u = [ok |-> FALSE, fs |-> t.fs]
    BY <1>1, <1>2, Zenon
  <2>2. u.ok = FALSE /\ u.fs = t.fs
    BY <2>1, <1>a, Zenon
  <2> QED BY <1>2, <2>2, Zenon DEF Unlinked, u
<1>3. CASE t.nr # 0
  <2>1. t.fs \in FsType /\ t.slot \in Slots /\ t.dir \in Slots
    BY <1>3, Zenon
  <2>2. Counted(t.fs, g, t.slot) /\ g \in FsType
    <3>1. CASE mode = "dir"
      <4>1. g = one
        BY <3>1, Zenon
      <4>2. Counted(t.fs, one, t.slot)
        BY <2>1, <3>1, CountOne, Zenon
      <4>3. one \in FsType
        BY <3>1, <4>2, Zenon DEF Counted, OneSlot
      <4> QED BY <4>1, <4>2, <4>3, Zenon
    <3>2. CASE mode # "dir"
      <4>1. g = t.fs
        BY <3>2, Zenon
      <4> HIDE DEF g
      <4> QED BY <3>2, <4>1, <2>1, Zenon DEF Counted
    <3> QED BY <3>1, <3>2
  <2> HIDE DEF g
  <2>3. CASE mode = "chr" \/ busy
    <3>1. u = [ok |-> FALSE, fs |-> g]
      BY <1>1, <1>3, <2>3, Zenon
    <3>2. u.ok = FALSE /\ u.fs = g
      BY <3>1, <1>a, Zenon
    <3> QED BY <1>3, <2>2, <3>2, Zenon DEF Unlinked, u
  <2>4. CASE ~(mode = "chr" \/ busy)
    <3>1. u = [ok |-> TRUE, fs |-> hs]
      BY <1>1, <1>3, <2>4, Zenon
    <3>2. u.ok = TRUE /\ u.fs = hs
      BY <3>1, <1>a, Zenon
    <3>3. Released(g, hs, t.slot, t.dir, t.nr, garbage)
      BY <2>1, <2>2, ReleaseIs, Zenon
    <3>4. mode # "chr" /\ ~(g.tab[t.slot].cnt > 1)
      BY <2>4, Zenon
    <3> HIDE DEF hs
    <3>5. Released(g, u.fs, t.slot, t.dir, t.nr, garbage)
      BY <3>2, <3>3, Zenon
    <3> QED BY <1>3, <2>2, <3>2, <3>4, <3>5, Zenon DEF Unlinked, u
  <2> QED BY <2>3, <2>4
<1> QED BY <1>2, <1>3

(* Steps that leave the numbers and counts of the cache alone.  *)
Beside(fs, gs) ==
  gs \in FsType /\ gs.filp = fs.filp /\ gs.cause = fs.cause /\ SameCache(fs, gs)

LEMMA BesideTwice ==
  ASSUME NEW a, NEW b, NEW c, Beside(a, b), Beside(b, c)
  PROVE  Beside(a, c)
<1>1. SameCache(a, c)
  BY Zenon DEF Beside, SameCache
<1> QED BY <1>1, Zenon DEF Beside

LEMMA BesideSame ==
  ASSUME NEW fs \in FsType
  PROVE  Beside(fs, fs)
BY Zenon DEF Beside, SameCache

LEMMA WroteBeside ==
  ASSUME NEW fs, NEW gs, NEW d, Wrote(fs, gs, d)
  PROVE  Beside(fs, gs)
<1>1. gs.tab = fs.tab /\ gs \in FsType /\ gs.filp = fs.filp /\ gs.cause = fs.cause
  BY WroteFields, Zenon
<1>2. SameCache(fs, gs)
  BY <1>1, Zenon DEF SameCache
<1> QED BY <1>1, <1>2, Zenon DEF Beside

LEMMA OneBeside ==
  ASSUME NEW fs, NEW gs, NEW s, OneSlot(fs, gs, s, fs.tab[s], gs.tab[s]),
         gs.cause = fs.cause, gs.tab[s].num = fs.tab[s].num, gs.tab[s].cnt = fs.tab[s].cnt
  PROVE  Beside(fs, gs)
<1>1. \A u \in Slots : u # s => gs.tab[u] = fs.tab[u]
  BY Zenon DEF OneSlot
<1>2. SameCache(fs, gs)
  BY <1>1, Zenon DEF SameCache
<1> QED BY <1>2, Zenon DEF Beside, OneSlot

LEMMA WrittenBeside ==
  ASSUME NEW fs, NEW gs, NEW dir, NEW nr, NEW name, NEW garbage,
         EntryWritten(fs, gs, dir, nr, name, garbage)
  PROVE  Beside(fs, gs)
<1>1. PICK at, a, b :
        /\ EntrySet(fs, a, fs.tab[dir].start, at, [inode_nr |-> nr, name |-> name])
        /\ InHole(fs, a, b, dir, at) \/ AtEnd(fs, a, b, dir, at)
        /\ Synced(b, gs, dir, garbage)
  BY Zenon DEF EntryWritten
<1>2. Beside(fs, a)
  BY <1>1, WroteBeside, Zenon DEF EntrySet
<1>3. Beside(a, b)
  <2>1. CASE InHole(fs, a, b, dir, at)
    BY <2>1, <1>2, BesideSame, Zenon DEF InHole, Beside
  <2>2. CASE AtEnd(fs, a, b, dir, at)
    BY <2>2, OneBeside, Zenon DEF AtEnd, Resized
  <2> QED BY <1>1, <2>1, <2>2, Zenon
<1>4. Beside(b, gs)
  BY <1>1, WroteBeside, Zenon DEF Synced
<1> QED BY <1>2, <1>3, <1>4, BesideTwice, Zenon

LEMMA RemovedBeside ==
  ASSUME NEW fs \in FsType, NEW gs, NEW dir, NEW nr, NEW garbage,
         EntryRemoved(fs, gs, dir, nr, garbage)
  PROVE  Beside(fs, gs)
<1> DEFINE d == fs.tab[dir]
<1>1. CASE gs = fs
  BY <1>1, BesideSame, Zenon
<1>2. ASSUME NEW at, NEW a, NEW b, EntrySet(fs, a, d.start, at, NoEntry),
             \/ gs = a
             \/ Resized(a, b, dir, Before(fs, d, at)) /\ Synced(b, gs, dir, garbage)
      PROVE  Beside(fs, gs)
  <2>1. Beside(fs, a)
    BY <1>2, WroteBeside, Zenon DEF EntrySet
  <2>2. CASE gs = a
    BY <2>1, <2>2, Zenon
  <2>3. CASE Resized(a, b, dir, Before(fs, d, at)) /\ Synced(b, gs, dir, garbage)
    <3>1. Beside(a, b)
      BY <2>3, OneBeside, Zenon DEF Resized
    <3>2. Beside(b, gs)
      BY <2>3, WroteBeside, Zenon DEF Synced
    <3> QED BY <2>1, <3>1, <3>2, BesideTwice, Zenon
  <2> QED BY <1>2, <2>2, <2>3, Zenon
<1> QED BY <1>1, <1>2, Zenon DEF EntryRemoved

LEMMA TransferredBeside ==
  ASSUME NEW fs \in FsType, NEW gs, NEW s, NEW pos, NEW garbage,
         Transferred(fs, gs, s, pos, garbage)
  PROVE  Beside(fs, gs)
<1>1. CASE gs = fs
  BY <1>1, BesideSame, Zenon
<1>2. ASSUME NEW a, NEW n, Resized(fs, a, s, n), Synced(a, gs, s, garbage)
      PROVE  Beside(fs, gs)
  <2>1. Beside(fs, a)
    BY <1>2, OneBeside, Zenon DEF Resized
  <2>2. Beside(a, gs)
    BY <1>2, WroteBeside, Zenon DEF Synced
  <2> QED BY <2>1, <2>2, BesideTwice, Zenon
<1> QED BY <1>1, <1>2, Zenon DEF Transferred

LEMMA BesideCache ==
  ASSUME NEW fs, NEW gs, Beside(fs, gs)
  PROVE  /\ gs \in FsType /\ gs.filp = fs.filp /\ (Ok(gs) <=> Ok(fs))
         /\ Cache(fs) => Cache(gs)
         /\ \A s : Held(fs, s) => Held(gs, s)
BY CacheSame, Zenon DEF Beside, Ok

(* An inode that was made.  *)
LEMMA MadeCache ==
  ASSUME NEW fs \in FsType, NEW gs, NEW slot, NEW dir, NEW name, NEW mode, NEW garbage,
         InodeMade(fs, gs, slot, dir, name, mode, garbage)
  PROVE  /\ gs \in FsType /\ gs.filp = fs.filp /\ slot \in Slots
         /\ Ok(gs) => Ok(fs)
         /\ Ok(gs) /\ Cache(fs) => Cache(gs) /\ Held(gs, slot)
<1>1. PICK nr, ext, a, b, got, c, d :
        /\ NrTaken(fs, a, nr) /\ ExtTaken(a, b, ext) /\ Got(b, nr, got) /\ slot = got.slot
        /\ Filled(got.fs, c, slot, nr, ext, mode) /\ Synced(c, d, slot, garbage)
        /\ EntryWritten(d, gs, dir, nr, name, garbage)
  BY Zenon DEF InodeMade
<1>2. Beside(fs, a) /\ Beside(a, b) /\ Beside(c, d) /\ Beside(d, gs) /\ nr \in Inodes
  BY <1>1, WroteBeside, WrittenBeside, Zenon DEF NrTaken, ExtTaken, Synced
<1>3. Beside(fs, b) /\ Beside(c, gs)
  BY <1>2, BesideTwice, Zenon
<1>4. /\ got.fs \in FsType /\ slot \in Slots /\ got.fs.filp = b.filp
      /\ c \in FsType /\ c.filp = got.fs.filp /\ c.cause = got.fs.cause
  BY <1>1, Zenon DEF Got, Filled, OneSlot
<1>5. Ok(gs) => Ok(got.fs)
  BY <1>3, <1>4, Zenon DEF Beside, Ok
<1>6. Ok(got.fs) => Ok(b)
  BY <1>1, Zenon DEF Got, Ok
<1>7. b \in FsType /\ b.filp = fs.filp /\ (Ok(b) <=> Ok(fs)) /\ (Cache(fs) => Cache(b))
  BY <1>3, BesideCache, Zenon
<1>8. gs \in FsType /\ gs.filp = c.filp /\ (Ok(gs) <=> Ok(c)) /\ (Cache(c) => Cache(gs))
      /\ (Held(c, slot) => Held(gs, slot))
  BY <1>3, BesideCache, Zenon
<1>9. ASSUME Ok(gs), Cache(fs) PROVE Cache(gs) /\ Held(gs, slot)
  <2>1. Cache(got.fs) /\ Held(got.fs, slot) /\ got.fs.tab[slot].num = nr
    BY <1>1, <1>2, <1>5, <1>7, <1>9, CacheGot, Zenon
  <2>2. OneSlot(got.fs, c, slot, got.fs.tab[slot], c.tab[slot]) /\ c.tab[slot].num = nr
        /\ c.tab[slot].cnt = 1
    BY <1>1, Zenon DEF Filled
  <2>3. c.tab[slot].cnt >= 1 /\ c.tab[slot].cnt >= 0
    BY <2>2
  <2>4. c.tab[slot].num = got.fs.tab[slot].num
    BY <2>1, <2>2, Zenon
  <2> DEFINE hs == got.fs
  <2>5. Cache(c)
    <3>1. OneSlot(hs, c, slot, hs.tab[slot], c.tab[slot]) /\ hs \in FsType
          /\ c.tab[slot].num = hs.tab[slot].num /\ Cache(hs) /\ Held(hs, slot)
      BY <2>1, <2>2, <2>4, <1>4, Zenon
    <3> HIDE DEF hs
    <3> QED BY <3>1, <2>3, CacheCount, Zenon
  <2>6. Held(c, slot)
    BY <1>4, <2>3, Zenon DEF Held
  <2> QED BY <1>8, <2>5, <2>6, Zenon
<1> QED BY <1>4, <1>5, <1>6, <1>7, <1>8, <1>9, Zenon

(* What get_found or a creation has done: pin.slot may be put.  *)
Pinned(fs, pin) ==
  /\ pin.fs \in FsType /\ pin.fs.filp = fs.filp /\ pin.slot \in {0} \union Slots
  /\ Ok(pin.fs) => Ok(fs)
  /\ Ok(pin.fs) /\ Cache(fs) => Cache(pin.fs) /\ (pin.slot # 0 => Held(pin.fs, pin.slot))

LEMMA GotPinned ==
  ASSUME NEW fs \in FsType, NEW num \in Inodes, NEW got, Got(fs, num, got)
  PROVE  Pinned(fs, got)
<1>1. got.fs \in FsType /\ got.fs.filp = fs.filp /\ got.slot \in Slots
  BY Zenon DEF Got, OneSlot
<1>2. Ok(got.fs) => Ok(fs)
  BY Zenon DEF Got, Ok
<1>3. ASSUME Ok(got.fs), Cache(fs) PROVE Cache(got.fs) /\ Held(got.fs, got.slot)
  BY <1>3, CacheGot, Zenon
<1> QED BY <1>1, <1>2, <1>3, Zenon DEF Pinned

LEMMA MadePinned ==
  ASSUME NEW fs \in FsType, NEW pin, NEW dir, NEW name, NEW mode, NEW garbage,
         InodeMade(fs, pin.fs, pin.slot, dir, name, mode, garbage)
  PROVE  Pinned(fs, pin)
<1> DEFINE gs == pin.fs
           slot == pin.slot
<1> HIDE DEF gs, slot
<1>1. InodeMade(fs, gs, slot, dir, name, mode, garbage)
  BY Zenon DEF gs, slot
<1>2. /\ gs \in FsType /\ gs.filp = fs.filp /\ slot \in Slots
      /\ Ok(gs) => Ok(fs)
      /\ Ok(gs) /\ Cache(fs) => Cache(gs) /\ Held(gs, slot)
  BY <1>1, MadeCache, Zenon
<1> QED BY <1>2, Zenon DEF Pinned, gs, slot

(* Two walks, one after the other.  *)
LEMMA TwoWalks ==
  ASSUME NEW fs \in FsType, NEW path, PathOk(path), Ok(fs) => Cache(fs),
         NEW r1, r1 = strip_path(fs, path), NEW r2, r2 = strip_path(r1.fs, path)
  PROVE  /\ r1 \in CacheWalks(fs) /\ r1 \in WalkType /\ r2 \in WalkType
         /\ SameButTab(fs, r1.fs) /\ SameButTab(r1.fs, r2.fs) /\ SameButTab(fs, r2.fs)
         /\ Ok(r1.fs) => Cache(r1.fs)
         /\ Ok(r2.fs) => Cache(r2.fs) /\ Held(r2.fs, r2.at)
<1> DEFINE w1 == strip_path(fs, path)
           w2 == strip_path(w1.fs, path)
<1>1. w1 \in CacheWalks(fs)
  BY CacheWalk, Zenon
<1> HIDE DEF w1
<1>2. w1 \in WalkType /\ SameButTab(fs, w1.fs) /\ (Ok(w1.fs) => Cache(w1.fs)) /\ w1.fs \in FsType
  BY <1>1, Zenon DEF CacheWalks, SameButTab
<1>3. w2 \in CacheWalks(w1.fs)
  BY <1>2, CacheWalk, Zenon
<1> HIDE DEF w2
<1>4. w2 \in WalkType /\ SameButTab(w1.fs, w2.fs)
      /\ (Ok(w2.fs) => Cache(w2.fs) /\ Held(w2.fs, w2.at))
  BY <1>3, Zenon DEF CacheWalks
<1>5. SameButTab(fs, w2.fs)
  BY <1>2, <1>4, Zenon DEF SameButTab
<1>6. r1 = w1 /\ r2 = w2
  BY Zenon DEF w1, w2
<1> QED BY <1>1, <1>2, <1>4, <1>5, <1>6, Zenon

LEMMA ExistingPinned ==
  ASSUME NEW fs \in FsType, NEW path, PathOk(path), Ok(fs) => Cache(fs)
  PROVE  Pinned(fs, OpenExisting(fs, path))
<1> DEFINE r1 == strip_path(fs, path)
           r2 == strip_path(r1.fs, path)
           pin == OpenExisting(fs, path)
<1>1. /\ r1 \in WalkType /\ r2 \in WalkType /\ SameButTab(fs, r2.fs)
      /\ Ok(r2.fs) => Cache(r2.fs) /\ Held(r2.fs, r2.at)
  BY TwoWalks, Zenon
<1>2. \E nr : Sought(path, r1, r2, nr, pin)
  BY <1>1, SeekIs, Zenon
<1> HIDE DEF r1, r2, pin
<1>3. PICK nr : Sought(path, r1, r2, nr, pin)
  BY <1>2, Zenon
<1>4. r2.fs \in FsType /\ r2.fs.filp = fs.filp /\ (Ok(r2.fs) => Ok(fs))
  BY <1>1, Zenon DEF SameButTab
<1>5. CASE pin.slot = 0 /\ pin.fs = r2.fs
  BY <1>1, <1>4, <1>5, Zenon DEF Pinned, pin
<1>6. CASE nr # 0 /\ Got(r2.fs, nr, pin)
  <2>1. nr \in Inodes
    BY <1>3, <1>6, Zenon DEF Sought, Finds
  <2>2. Pinned(r2.fs, pin)
    BY <1>4, <1>6, <2>1, GotPinned, Zenon
  <2> QED BY <1>1, <1>4, <2>2, Zenon DEF Pinned, pin
<1> QED BY <1>3, <1>5, <1>6, Zenon DEF Sought

LEMMA CreatedPinned ==
  ASSUME NEW fs \in FsType, NEW path, PathOk(path), Ok(fs) => Cache(fs), Last(path) \in Names,
         NEW mode \in Modes, NEW garbage \in Nat,
         fs.disk.imap # Inodes, fs.disk.smap # Extents
  PROVE  Pinned(fs, create_file(fs, path, mode, garbage))
<1> DEFINE r == strip_path(fs, path)
           pin == create_file(fs, path, mode, garbage)
<1>1. r \in CacheWalks(fs)
  BY CacheWalk, Zenon
<1>2. r \in WalkType /\ SameButTab(fs, r.fs) /\ (Ok(r.fs) => Cache(r.fs))
  BY <1>1, Zenon DEF CacheWalks
<1>3. r.fs.disk = fs.disk /\ r.fs \in FsType /\ r.fs.filp = fs.filp /\ (Ok(r.fs) => Ok(fs))
  BY <1>2, Zenon DEF SameButTab
<1>4. r.fs.disk.imap # Inodes /\ r.fs.disk.smap # Extents
  BY <1>3, Zenon
<1>5. Created(fs, path, r, mode, garbage, pin)
  BY <1>2, <1>4, CreateIs, Zenon
<1> HIDE DEF r, pin
<1>6. CASE pin.slot = 0 /\ pin.fs = r.fs
  BY <1>2, <1>3, <1>6, Zenon DEF Pinned, pin
<1>7. CASE InodeMade(r.fs, pin.fs, pin.slot, r.at, Last(path), mode, garbage)
  <2>1. Pinned(r.fs, pin)
    BY <1>3, <1>7, MadePinned, Zenon
  <2> QED BY <1>2, <1>3, <2>1, Zenon DEF Pinned, pin
<1> QED BY <1>5, <1>6, <1>7, Zenon DEF Created

LEMMA NewPinned ==
  ASSUME NEW fs \in FsType, NEW path, PathOk(path), Ok(fs) => Cache(fs), Last(path) \in Names,
         NEW garbage \in Nat, fs.disk.imap # Inodes, fs.disk.smap # Extents
  PROVE  Pinned(fs, OpenNew(fs, path, garbage))
<1> DEFINE r1 == strip_path(fs, path)
           r2 == strip_path(r1.fs, path)
           pin == OpenNew(fs, path, garbage)
<1>1. /\ r1 \in WalkType /\ r2 \in WalkType /\ SameButTab(fs, r1.fs)
      /\ SameButTab(r1.fs, r2.fs) /\ SameButTab(fs, r2.fs)
      /\ (Ok(r1.fs) => Cache(r1.fs)) /\ (Ok(r2.fs) => Cache(r2.fs))
  BY TwoWalks, Zenon
<1>2. /\ r2.fs \in FsType /\ r2.fs.filp = fs.filp /\ (Ok(r2.fs) => Ok(fs))
      /\ r2.fs.disk.imap # Inodes /\ r2.fs.disk.smap # Extents
      /\ r1.fs \in FsType /\ r1.fs.filp = fs.filp /\ (Ok(r1.fs) => Ok(fs))
  BY <1>1, Zenon DEF SameButTab
<1>3. \/ pin.slot = 0 /\ pin.fs = r1.fs
      \/ Created(r1.fs, path, r2, "reg", garbage, pin)
  BY <1>1, <1>2, OpenNewIs, Zenon
<1> HIDE DEF r1, r2, pin
<1>4. CASE pin.slot = 0 /\ pin.fs = r1.fs
  BY <1>1, <1>2, <1>4, Zenon DEF Pinned, pin
<1>5. CASE pin.slot = 0 /\ pin.fs = r2.fs
  BY <1>1, <1>2, <1>5, Zenon DEF Pinned, pin
<1>6. CASE InodeMade(r2.fs, pin.fs, pin.slot, r2.at, Last(path), "reg", garbage)
  <2>1. Pinned(r2.fs, pin)
    BY <1>2, <1>6, MadePinned, Zenon
  <2> QED BY <1>1, <1>2, <2>1, Zenon DEF Pinned, pin
<1> QED BY <1>3, <1>4, <1>5, <1>6, Zenon DEF Created

(* A state that FS may have ended a request in.  *)
Fine(fs) == fs \in FsType /\ (Ok(fs) => Cache(fs))

(* The slot of an open descriptor may be put.  *)
HasFd(fs, fd) ==
  /\ fd \in Fds /\ fs.filp[fd].slot \in Slots
  /\ Ok(fs) => Held(fs, fs.filp[fd].slot)

Opn(fs, o) ==
  /\ Fine(o.fs) /\ (Ok(o.fs) => Ok(fs))
  /\ \/ o.fd = -1
     \/ /\ HasFd(o.fs, o.fd) /\ FdFree(fs, o.fd)
        /\ \A f \in Fds : f # o.fd => o.fs.filp[f] = fs.filp[f]

LEMMA OpenedFine ==
  ASSUME NEW fs \in FsType, NEW pin, Pinned(fs, pin), \E fd \in Fds : FdFree(fs, fd),
         Ok(fs) => Cache(fs), NEW o, o = Opened(pin)
  PROVE  /\ Opn(fs, o)
         /\ \A s : Held(pin.fs, s) => Held(o.fs, s)
<1>1. /\ pin.fs \in FsType /\ pin.fs.filp = fs.filp /\ pin.slot \in {0} \union Slots
      /\ (Ok(pin.fs) => Ok(fs))
      /\ (Ok(pin.fs) => Cache(pin.fs) /\ (pin.slot # 0 => Held(pin.fs, pin.slot)))
  BY Zenon DEF Pinned
<1>2. \E fd \in Fds : FdFree(pin.fs, fd)
  BY <1>1, Zenon DEF FdFree
<1> DEFINE p == Opened(pin)
<1>3. HasOpened(pin, p)
  BY <1>1, <1>2, OpenedIs, Zenon
<1> HIDE DEF p
<1>4. ASSUME pin.slot = 0, p.fd = -1, p.fs = pin.fs
      PROVE  Opn(fs, p) /\ \A s : Held(pin.fs, s) => Held(p.fs, s)
  BY <1>1, <1>4, Zenon DEF Opn, Fine, p
<1>5. ASSUME pin.slot # 0, p.fd \in Fds, FdFree(pin.fs, p.fd),
             FdSet(pin.fs, p.fs, p.fd, [slot |-> pin.slot, of |-> pin.fs.tab[pin.slot].num,
                                        mode |-> pin.fs.tab[pin.slot].mode]),
             Ok(p.fs) => p.fs.cause = pin.fs.cause
      PROVE  Opn(fs, p) /\ \A s : Held(pin.fs, s) => Held(p.fs, s)
  <2>1. /\ p.fs \in FsType /\ p.fs.tab = pin.fs.tab
        /\ p.fs.filp[p.fd] = [slot |-> pin.slot, of |-> pin.fs.tab[pin.slot].num,
                              mode |-> pin.fs.tab[pin.slot].mode]
        /\ \A f \in Fds : f # p.fd => p.fs.filp[f] = pin.fs.filp[f]
    BY <1>5, Zenon DEF FdSet
  <2> DEFINE desc == [slot |-> pin.slot, of |-> pin.fs.tab[pin.slot].num,
                      mode |-> pin.fs.tab[pin.slot].mode]
  <2>0. desc.slot = pin.slot
    BY Zenon
  <2> HIDE DEF desc
  <2>2. p.fs.filp[p.fd].slot = pin.slot
    BY <2>0, <2>1, Zenon DEF desc
  <2>3. SameCache(pin.fs, p.fs)
    BY <2>1, Zenon DEF SameCache
  <2>4. (Cache(pin.fs) => Cache(p.fs)) /\ \A s : Held(pin.fs, s) => Held(p.fs, s)
    BY <2>3, CacheSame, Zenon
  <2>5. Ok(p.fs) => Ok(pin.fs)
    BY <1>5, Zenon DEF Ok
  <2>6. Fine(p.fs) /\ (Ok(p.fs) => Ok(fs))
    BY <1>1, <2>1, <2>4, <2>5, Zenon DEF Fine
  <2>7. HasFd(p.fs, p.fd)
    BY <1>1, <1>5, <2>2, <2>4, <2>5, Zenon DEF HasFd
  <2>8. FdFree(fs, p.fd)
    BY <1>1, <1>5, Zenon DEF FdFree
  <2>9. \A f \in Fds : f # p.fd => p.fs.filp[f] = fs.filp[f]
    BY <1>1, <2>1, Zenon
  <2> QED BY <2>4, <2>6, <2>7, <2>8, <2>9, Zenon DEF Opn
<1>6. Opn(fs, p) /\ \A s : Held(pin.fs, s) => Held(p.fs, s)
  BY <1>3, <1>4, <1>5, Zenon DEF HasOpened
<1>7. o = p
  BY Zenon DEF p
<1> QED BY <1>6, <1>7, Zenon

LEMMA FailedOpn ==
  ASSUME NEW fs, NEW o, o.fd = -1, SameButTab(fs, o.fs), ~Ok(o.fs)
  PROVE  Opn(fs, o)
BY Zenon DEF Opn, Fine, SameButTab

(* Opens of existing paths, and of paths to be created.  *)
LEMMA OpenFine ==
  ASSUME NEW fs, Fine(fs), NEW path, PathOk(path), NEW garbage
  PROVE  Opn(fs, do_open(fs, path, FALSE, garbage))
<1> DEFINE pin == OpenExisting(fs, path)
           o == do_open(fs, path, FALSE, garbage)
<1>1. fs \in FsType /\ (Ok(fs) => Cache(fs)) /\ FALSE \in BOOLEAN
  BY Zenon DEF Fine
<1>2. OpenIs(fs, FALSE, path, garbage, o)
  BY <1>1, OpenCases, Zenon
<1>3. Pinned(fs, pin)
  BY <1>1, ExistingPinned, Zenon
<1> HIDE DEF pin, o
<1>4. CASE o.fd = -1 /\ SameButTab(fs, o.fs) /\ ~Ok(o.fs)
  BY <1>4, FailedOpn, Zenon DEF o
<1>5. CASE (\E fd \in Fds : FdFree(fs, fd)) /\ o = Opened(pin)
  BY <1>1, <1>3, <1>5, OpenedFine, Zenon DEF o
<1> QED BY <1>2, <1>4, <1>5, Zenon DEF OpenIs, pin

LEMMA OpenNewFine ==
  ASSUME NEW fs, Fine(fs), NEW path, PathOk(path), Last(path) \in Names, NEW garbage \in Nat,
         fs.disk.imap # Inodes, fs.disk.smap # Extents
  PROVE  Opn(fs, do_open(fs, path, TRUE, garbage))
<1> DEFINE pin == OpenNew(fs, path, garbage)
           o == do_open(fs, path, TRUE, garbage)
<1>1. fs \in FsType /\ (Ok(fs) => Cache(fs)) /\ TRUE \in BOOLEAN
  BY Zenon DEF Fine
<1>2. OpenIs(fs, TRUE, path, garbage, o)
  BY <1>1, OpenCases, Zenon
<1>3. Pinned(fs, pin)
  BY <1>1, NewPinned, Zenon
<1> HIDE DEF pin, o
<1>4. CASE o.fd = -1 /\ SameButTab(fs, o.fs) /\ ~Ok(o.fs)
  BY <1>4, FailedOpn, Zenon DEF o
<1>5. CASE (\E fd \in Fds : FdFree(fs, fd)) /\ o = Opened(pin)
  BY <1>1, <1>3, <1>5, OpenedFine, Zenon DEF o
<1> QED BY <1>2, <1>4, <1>5, Zenon DEF OpenIs, pin

(* To open the terminal is to walk nowhere: whatever could be put still can.  *)
LEMMA TtyPath == Len(Tty) = 1 /\ PathOk(Tty) /\ Last(Tty) = "dev_tty0" /\ Last(Tty) # ""
<1>1. Len(Tty) = 1 /\ Tty[1] = "dev_tty0"
  BY DEF Tty
<1>2. Last(Tty) = "dev_tty0"
  BY <1>1, Zenon DEF Last
<1>4. 1..(Len(Tty) - 1) = {}
  BY <1>1
<1>5. Len(Tty) \in Nat \ {0}
  BY <1>1
<1>6. "dev_tty0" # ""
  OBVIOUS
<1> QED BY <1>1, <1>2, <1>4, <1>5, <1>6, Zenon DEF PathOk

LEMMA TtyHeld ==
  ASSUME NEW fs, Fine(fs), NEW garbage, NEW s, Held(fs, s),
         Ok(do_open(fs, Tty, FALSE, garbage).fs)
  PROVE  Held(do_open(fs, Tty, FALSE, garbage).fs, s)
<1> DEFINE pin == OpenExisting(fs, Tty)
           o == do_open(fs, Tty, FALSE, garbage)
           x == [fs |-> fs, at |-> 1, found |-> TRUE]
           r1 == strip_path(fs, Tty)
           r2 == strip_path(r1.fs, Tty)
<1>1. fs \in FsType /\ (Ok(fs) => Cache(fs)) /\ FALSE \in BOOLEAN
  BY Zenon DEF Fine
<1>2. OpenIs(fs, FALSE, Tty, garbage, o)
  BY <1>1, OpenCases, Zenon
<1>3. Pinned(fs, pin)
  BY <1>1, TtyPath, ExistingPinned, Zenon
<1>4. x \in WalkType /\ x.fs = fs
  BY <1>1, SlotOne, WalkIs, Zenon
<1>5. r1 = x /\ r2 = x
  <2>1. r1 = x
    BY TtyPath, ShortWalk, Zenon
  <2> HIDE DEF x, r1
  <2>2. r2 = strip_path(fs, Tty)
    BY <2>1, <1>4, Zenon
  <2> QED BY <2>1, <2>2, Zenon DEF r1
<1>6. \E nr : Sought(Tty, r1, r2, nr, pin)
  BY <1>4, <1>5, SeekIs, Zenon
<1> HIDE DEF x, r1, r2, pin, o
<1>7. PICK nr : Sought(Tty, x, x, nr, pin)
  BY <1>5, <1>6, Zenon
<1>8. CASE ~Ok(o.fs)
  BY <1>8, Zenon DEF o
<1>9. ASSUME o = Opened(pin), \E fd \in Fds : FdFree(fs, fd)
      PROVE  Held(o.fs, s)
  <2>1. Opn(fs, o) /\ (Held(pin.fs, s) => Held(o.fs, s))
    BY <1>1, <1>3, <1>9, OpenedFine, Zenon
  <2>2. Ok(o.fs)
    BY Zenon DEF o
  <2>3. CASE pin.fs = fs
    BY <2>1, <2>3, Zenon
  <2>4. CASE nr # 0 /\ Got(fs, nr, pin)
    <3>1. nr \in Inodes
      BY <1>7, <2>4, Zenon DEF Sought, Finds
    <3>2. CASE Ok(pin.fs)
      <4>1. Ok(fs)
        BY <1>3, <3>2, Zenon DEF Pinned
      <4>2. \A u : Held(fs, u) => Held(pin.fs, u)
        BY <1>1, <2>4, <3>1, <3>2, <4>1, CacheGot, Zenon
      <4> QED BY <2>1, <4>2, Zenon
    <3>3. CASE ~Ok(pin.fs)
      <4>1. HasOpened(pin, Opened(pin))
        <5>1. /\ pin.fs \in FsType /\ pin.fs.filp = fs.filp /\ pin.slot \in {0} \union Slots
          BY <1>3, Zenon DEF Pinned
        <5>2. \E fd \in Fds : FdFree(pin.fs, fd)
          BY <1>9, <5>1, Zenon DEF FdFree
        <5> QED BY <5>1, <5>2, OpenedIs, Zenon
      <4>2. Ok(o.fs) => Ok(pin.fs)
        BY <4>1, <1>9, Zenon DEF HasOpened, Ok
      <4> QED BY <2>2, <3>3, <4>2, Zenon
    <3> QED BY <3>2, <3>3, Zenon
  <2> QED BY <1>4, <1>7, <2>3, <2>4, Zenon DEF Sought
<1>10. Held(o.fs, s)
  BY <1>2, <1>8, <1>9, Zenon DEF OpenIs, pin, o
<1> QED BY <1>10, Zenon DEF o

LEMMA NoZero == 0 \notin Inodes /\ 0 \notin Slots /\ 0 \notin Extents
BY DEF Inodes, Slots, Extents

LEMMA BesideFine ==
  ASSUME NEW fs, Fine(fs), NEW gs, Beside(fs, gs)
  PROVE  Fine(gs) /\ \A fd : HasFd(fs, fd) => HasFd(gs, fd)
<1>1. /\ gs \in FsType /\ gs.filp = fs.filp /\ (Ok(gs) <=> Ok(fs))
      /\ (Cache(fs) => Cache(gs)) /\ \A s : Held(fs, s) => Held(gs, s)
  BY BesideCache, Zenon
<1> QED BY <1>1, Zenon DEF Fine, HasFd

LEMMA PutFine ==
  ASSUME NEW fs, Fine(fs), NEW s, s \in Slots, Ok(fs) => Held(fs, s)
  PROVE  Fine(put_inode(fs, s))
<1> DEFINE gs == put_inode(fs, s)
<1>1. fs \in FsType /\ (Ok(fs) => Cache(fs))
  BY Zenon DEF Fine
<1>2. OneSlot(fs, gs, s, fs.tab[s], gs.tab[s]) /\ gs.cause = fs.cause
  BY <1>1, PutInode, Zenon
<1>3. gs \in FsType /\ (Ok(gs) => Ok(fs))
  <2> HIDE DEF gs
  <2> QED BY <1>2, Zenon DEF OneSlot, Ok
<1>4. ASSUME Ok(fs) PROVE Cache(gs)
  BY <1>1, <1>4, CachePut, Zenon
<1> QED BY <1>3, <1>4, Zenon DEF Fine

LEMMA CloseFine ==
  ASSUME NEW fs, Fine(fs), NEW fd, HasFd(fs, fd)
  PROVE  Fine(do_close(fs, fd))
<1> DEFINE s == fs.filp[fd].slot
           hs == put_inode(fs, s)
           gs == do_close(fs, fd)
<1>1. fs \in FsType /\ fd \in Fds /\ s \in Slots /\ (Ok(fs) => Held(fs, s))
  BY Zenon DEF HasFd, Fine
<1>2. Fine(hs)
  <2> HIDE DEF s
  <2> QED BY <1>1, PutFine, Zenon
<1>3. FdSet(hs, gs, fd, Closed) /\ gs.cause = hs.cause
  BY <1>1, CloseIs, Zenon
<1> HIDE DEF hs, gs
<1>4. gs \in FsType /\ gs.tab = hs.tab
  BY <1>3, Zenon DEF FdSet
<1>5. SameCache(hs, gs)
  BY <1>4, Zenon DEF SameCache
<1>6. Cache(hs) => Cache(gs)
  BY <1>5, CacheSame, Zenon
<1> QED BY <1>2, <1>3, <1>4, <1>6, Zenon DEF Fine, Ok, gs

LEMMA RdwtFine ==
  ASSUME NEW fs, Fine(fs), NEW fd, HasFd(fs, fd), NEW io, NEW pos \in Nat, NEW grows,
         NEW garbage \in Nat
  PROVE  Fine(do_close(do_rdwt(fs, fd, io, pos, grows, garbage), fd))
<1> DEFINE gs == do_rdwt(fs, fd, io, pos, grows, garbage)
<1>1. fs \in FsType /\ fs.filp[fd].slot \in Slots
  BY Zenon DEF HasFd, Fine
<1>2. Transferred(fs, gs, fs.filp[fd].slot, pos, garbage)
  BY <1>1, TransferIs, Zenon
<1> HIDE DEF gs
<1>3. Beside(fs, gs)
  BY <1>1, <1>2, TransferredBeside, Zenon
<1>4. Fine(gs) /\ HasFd(gs, fd)
  BY <1>3, BesideFine, Zenon
<1>5. Fine(do_close(gs, fd))
  BY <1>4, CloseFine, Zenon
<1> QED BY <1>5, Zenon DEF gs

LEMMA NotFailed ==
  ASSUME NEW fs, NEW o, Opn(fs, o), ~Failed(o)
  PROVE  Fine(o.fs) /\ HasFd(o.fs, o.fd) /\ o.fd \in Fds /\ Ok(o.fs)
<1>1. o.fd # -1 /\ Ok(o.fs)
  BY Zenon DEF Failed, Ok
<1> QED BY <1>1, Zenon DEF Opn, HasFd

LEMMA TouchedFine ==
  ASSUME NEW fs, NEW o, Opn(fs, o), NEW garbage \in Nat
  PROVE  Fine(AndTouched(o, garbage).fs)
<1> DEFINE x == IF Failed(o) THEN o.fs ELSE AndWritten(o, o.fs, 1, garbage)
<1>1. AndTouched(o, garbage).fs = x
  BY Zenon DEF AndTouched
<1>2. CASE Failed(o)
  BY <1>1, <1>2, Zenon DEF Opn
<1>3. CASE ~Failed(o)
  <2>1. Fine(o.fs) /\ HasFd(o.fs, o.fd)
    BY <1>3, NotFailed, Zenon
  <2>2. 1 \in Nat
    OBVIOUS
  <2>3. Fine(AndWritten(o, o.fs, 1, garbage))
    BY <2>1, <2>2, RdwtFine, Zenon DEF AndWritten
  <2> QED BY <1>1, <1>3, <2>3, Zenon
<1> QED BY <1>2, <1>3

LEMMA ReadFine ==
  ASSUME NEW fs, NEW o, Opn(fs, o), NEW grows, NEW garbage \in Nat
  PROVE  Fine(AndRead(o, grows, garbage))
<1>1. CASE Failed(o)
  BY <1>1, Zenon DEF Opn, AndRead
<1>2. CASE ~Failed(o)
  <2>1. Fine(o.fs) /\ HasFd(o.fs, o.fd)
    BY <1>2, NotFailed, Zenon
  <2>2. 0 \in Nat
    OBVIOUS
  <2>3. Fine(do_close(do_rdwt(o.fs, o.fd, "READ", 0, grows, garbage), o.fd))
    BY <2>1, <2>2, RdwtFine, Zenon
  <2> QED BY <1>2, <2>3, Zenon DEF AndRead
<1> QED BY <1>1, <1>2

(* vi: the first descriptor survives the open of the terminal.  *)
LEMMA EditedFine ==
  ASSUME NEW fs, NEW o, Opn(fs, o), NEW garbage \in Nat
  PROVE  Fine(AndEdited(o, garbage))
<1> DEFINE t == do_open(o.fs, Tty, FALSE, garbage)
<1>1. CASE Failed(o)
  BY <1>1, Zenon DEF Opn, AndEdited
<1>2. CASE ~Failed(o)
  <2>1. Fine(o.fs) /\ HasFd(o.fs, o.fd) /\ o.fd \in Fds /\ Ok(o.fs)
    BY <1>2, NotFailed, Zenon
  <2>2. Opn(o.fs, t)
    BY <2>1, TtyPath, OpenFine, Zenon
  <2>3. AndEdited(o, garbage) = AndTerminal(o, t, garbage)
    BY <1>2, Zenon DEF AndEdited
  <2>4. CASE Failed(t)
    BY <2>2, <2>3, <2>4, Zenon DEF Opn, AndTerminal
  <2>5. CASE ~Failed(t)
    <3>1. Fine(t.fs) /\ Ok(t.fs) /\ t.fd \in Fds
      BY <2>2, <2>5, NotFailed, Zenon
    <3> DEFINE s == o.fs.filp[o.fd].slot
    <3>2. s \in Slots /\ Held(o.fs, s)
      BY <2>1, Zenon DEF HasFd
    <3>3. Held(t.fs, s)
      <4> HIDE DEF s
      <4> QED BY <2>1, <3>1, <3>2, TtyHeld, Zenon
    <3>4. t.fd # o.fd
      <4>1. FdFree(o.fs, t.fd)
        <5> HIDE DEF t
        <5>1. t.fd # -1
          BY <2>5, Zenon DEF Failed
        <5> QED BY <2>2, <5>1, Zenon DEF Opn
      <4>2. s # 0
        <5> HIDE DEF s
        <5> QED BY <3>2, Constants DEF Slots
      <4> QED BY <4>1, <4>2, Zenon DEF FdFree
    <3>5. t.fs.filp[o.fd] = o.fs.filp[o.fd]
      <4> HIDE DEF t
      <4>1. t.fd # -1
        BY <2>5, Zenon DEF Failed
      <4> QED BY <2>1, <2>2, <3>4, <4>1, Zenon DEF Opn
    <3> HIDE DEF t
    <3>6. HasFd(t.fs, o.fd)
      BY <2>1, <3>2, <3>3, <3>5, Zenon DEF HasFd
    <3>7. 2 \in Nat
      OBVIOUS
    <3>8. Fine(AndWritten(o, t.fs, 2, garbage))
      BY <3>1, <3>6, <3>7, RdwtFine, Zenon DEF AndWritten
    <3>9. AndTerminal(o, t, garbage) = AndWritten(o, t.fs, 2, garbage)
      BY <2>5, Zenon DEF AndTerminal
    <3> QED BY <2>3, <3>8, <3>9, Zenon DEF t
  <2> QED BY <2>4, <2>5
<1> QED BY <1>1, <1>2

(* To open an existing path writes nothing.  *)
LEMMA ExistingFrame ==
  ASSUME NEW fs, Fine(fs), NEW path, PathOk(path)
  PROVE  SameButTab(fs, OpenExisting(fs, path).fs)
<1> DEFINE r1 == strip_path(fs, path)
           r2 == strip_path(r1.fs, path)
           pin == OpenExisting(fs, path)
<1>0. fs \in FsType /\ (Ok(fs) => Cache(fs))
  BY Zenon DEF Fine
<1>1. r1 \in WalkType /\ r2 \in WalkType /\ SameButTab(fs, r2.fs)
  BY <1>0, TwoWalks, Zenon
<1>2. \E nr : Sought(path, r1, r2, nr, pin)
  BY <1>1, SeekIs, Zenon
<1> HIDE DEF r1, r2, pin
<1>3. PICK nr : Sought(path, r1, r2, nr, pin)
  BY <1>2, Zenon
<1>4. CASE pin.fs = r2.fs
  BY <1>1, <1>4, Zenon DEF pin
<1>5. CASE Got(r2.fs, nr, pin)
  <2>1. SameButTab(r2.fs, pin.fs)
    BY <1>5, Zenon DEF Got, OneSlot, SameButTab, Ok
  <2> QED BY <1>1, <2>1, Zenon DEF SameButTab, pin
<1> QED BY <1>3, <1>4, <1>5, Zenon DEF Sought

LEMMA OpenDisk ==
  ASSUME NEW fs, Fine(fs), NEW path, PathOk(path), NEW garbage
  PROVE  LET o == do_open(fs, path, FALSE, garbage) IN
         o.fs.disk = fs.disk /\ o.fs.writes = fs.writes
<1> DEFINE pin == OpenExisting(fs, path)
           p == Opened(pin)
           o == do_open(fs, path, FALSE, garbage)
<1>1. fs \in FsType /\ (Ok(fs) => Cache(fs)) /\ FALSE \in BOOLEAN
  BY Zenon DEF Fine
<1>2. OpenIs(fs, FALSE, path, garbage, o)
  BY <1>1, OpenCases, Zenon
<1>3. Pinned(fs, pin) /\ SameButTab(fs, pin.fs)
  BY <1>1, ExistingPinned, ExistingFrame, Zenon
<1> HIDE DEF pin, o
<1>4. CASE SameButTab(fs, o.fs)
  BY <1>4, Zenon DEF SameButTab, o
<1>5. ASSUME \E fd \in Fds : FdFree(fs, fd), o = p
      PROVE  o.fs.disk = fs.disk /\ o.fs.writes = fs.writes
  <2>1. /\ pin.fs \in FsType /\ pin.fs.filp = fs.filp /\ pin.slot \in {0} \union Slots
    BY <1>3, Zenon DEF Pinned
  <2>2. \E fd \in Fds : FdFree(pin.fs, fd)
    BY <1>5, <2>1, Zenon DEF FdFree
  <2>3. HasOpened(pin, p)
    BY <2>1, <2>2, OpenedIs, Zenon
  <2> HIDE DEF p
  <2>4. p.fs.disk = pin.fs.disk /\ p.fs.writes = pin.fs.writes
    BY <2>3, Zenon DEF HasOpened, FdSet
  <2> QED BY <1>3, <1>5, <2>4, Zenon DEF SameButTab
<1> QED BY <1>2, <1>4, <1>5, Zenon DEF OpenIs, pin, o

LEMMA OpenKeeps ==
  ASSUME NEW fs, Fine(fs), NEW path, PathOk(path), NEW garbage
  PROVE  do_open(fs, path, FALSE, garbage).fs.disk = fs.disk
<1> DEFINE o == do_open(fs, path, FALSE, garbage)
<1>1. LET p == do_open(fs, path, FALSE, garbage) IN
      p.fs.disk = fs.disk /\ p.fs.writes = fs.writes
  BY OpenDisk, Zenon
<1>2. o.fs.disk = fs.disk
  BY <1>1, Zenon
<1> QED BY <1>2 DEF o

LEMMA MadeDirFine ==
  ASSUME NEW fs, Fine(fs), NEW path, PathOk(path), Last(path) \in Names,
         NEW garbage \in Nat, fs.disk.imap # Inodes, fs.disk.smap # Extents,
         NEW o, Opn(fs, o), o.fs.disk = fs.disk
  PROVE  Fine(AndMade(o, path, garbage).fs)
<1>1. CASE o.fd # -1 \/ o.fs.cause # ""
  <2>1. AndMade(o, path, garbage) = [ok |-> FALSE, fs |-> o.fs]
    BY <1>1, Zenon DEF AndMade
  <2>2. AndMade(o, path, garbage).fs = o.fs
    BY <2>1
  <2> QED BY <2>2, Zenon DEF Opn
<1>2. CASE ~(o.fd # -1 \/ o.fs.cause # "")
  <2> DEFINE D == "dir"
             made == create_file(o.fs, path, D, garbage)
             x == IF made.slot = 0 THEN made.fs ELSE put_inode(made.fs, made.slot)
  <2>1. AndMade(o, path, garbage) = PutMade(made)
    BY <1>2, Zenon DEF AndMade, do_mkdir
  <2>2. PutMade(made).fs = x
    BY Zenon DEF PutMade
  <2>3. D \in Modes
    BY DEF Modes
  <2>4. o.fs \in FsType /\ (Ok(o.fs) => Cache(o.fs)) /\ o.fs.disk.imap # Inodes
        /\ o.fs.disk.smap # Extents
    BY Zenon DEF Opn, Fine
  <2> HIDE DEF D
  <2>5. Pinned(o.fs, made)
    BY <2>3, <2>4, CreatedPinned, Zenon
  <2> HIDE DEF made
  <2>6. Fine(made.fs)
    BY <2>4, <2>5, Zenon DEF Pinned, Fine
  <2>7. CASE made.slot = 0
    BY <2>1, <2>2, <2>6, <2>7, Zenon
  <2>8. CASE made.slot # 0
    <3>1. made.slot \in Slots /\ (Ok(made.fs) => Held(made.fs, made.slot))
      BY <2>4, <2>5, <2>8, Zenon DEF Pinned
    <3>2. Fine(put_inode(made.fs, made.slot))
      BY <2>6, <3>1, PutFine, Zenon
    <3> QED BY <2>1, <2>2, <2>8, <3>2, Zenon
  <2> QED BY <2>7, <2>8
<1> QED BY <1>1, <1>2

(* The removal of an inode.  *)
LEMMA ReleasedFine ==
  ASSUME NEW fs, Fine(fs), NEW gs, NEW slot \in Slots, Ok(fs) => Held(fs, slot),
         NEW dir, NEW nr, NEW garbage, Released(fs, gs, slot, dir, nr, garbage)
  PROVE  Fine(gs)
<1>1. PICK a, b, c, d :
        /\ NrFreed(fs, a, nr) /\ ExtFreed(a, b, fs.tab[slot].start) /\ Cleared(b, c, slot)
        /\ Synced(c, d, slot, garbage) /\ EntryRemoved(put_inode(d, slot), gs, dir, nr, garbage)
  BY Zenon DEF Released
<1>2. Beside(fs, a) /\ Beside(a, b) /\ Beside(c, d)
  BY <1>1, WroteBeside, Zenon DEF NrFreed, ExtFreed, Synced
<1>3. Beside(b, c)
  BY <1>1, OneBeside, Zenon DEF Cleared
<1>4. Beside(fs, d)
  BY <1>2, <1>3, BesideTwice, Zenon
<1>5. Fine(d) /\ (Ok(d) => Held(d, slot))
  BY <1>4, BesideFine, BesideCache, Zenon
<1> DEFINE e == put_inode(d, slot)
<1>6. Fine(e)
  BY <1>5, PutFine, Zenon
<1> HIDE DEF e
<1>7. Beside(e, gs)
  BY <1>1, <1>6, RemovedBeside, Zenon DEF e, Fine
<1> QED BY <1>6, <1>7, BesideFine, Zenon

LEMMA UnlinkFine ==
  ASSUME NEW fs, Fine(fs), NEW path, PathOk(path), NEW garbage \in Nat
  PROVE  Fine(do_unlink(fs, path, garbage).fs)
<1> DEFINE r1 == strip_path(fs, path)
           r2 == strip_path(r1.fs, path)
           t == Target(fs, path)
           u == Unlink(t, garbage)
<1>0. fs \in FsType /\ (Ok(fs) => Cache(fs))
  BY Zenon DEF Fine
<1>1. /\ r1 \in WalkType /\ r2 \in WalkType
      /\ SameButTab(fs, r1.fs) /\ SameButTab(fs, r2.fs)
      /\ (Ok(r1.fs) => Cache(r1.fs)) /\ (Ok(r2.fs) => Cache(r2.fs))
  BY <1>0, TwoWalks, Zenon
<1>2. Targeted(path, r1, r2, t)
  BY <1>1, TargetIs, Zenon
<1> HIDE DEF r1, r2, t
<1>3. Fine(r1.fs) /\ Fine(r2.fs) /\ r2.at \in Slots
  BY <1>1, WalkFields, Zenon DEF Fine
<1>4. ASSUME t.nr # 0
      PROVE  Fine(t.fs) /\ t.slot \in Slots /\ t.dir \in Slots /\ (Ok(t.fs) => Held(t.fs, t.slot))
  <2>1. PICK got : /\ Finds(r1, path, t.nr) /\ t.dir = r2.at
                   /\ Got(r2.fs, t.nr, got) /\ t.slot = got.slot /\ t.fs = got.fs
    BY <1>2, <1>4, Zenon DEF Targeted
  <2>2. t.nr \in Inodes /\ r2.fs \in FsType
    BY <1>3, <2>1, Zenon DEF Finds, Fine
  <2>3. Pinned(r2.fs, got)
    BY <2>1, <2>2, GotPinned, Zenon
  <2>4. got.slot \in Slots /\ got.slot # 0
    <3>1. got.slot \in Slots
      BY <2>1, Zenon DEF Got, OneSlot
    <3>2. 0 \notin Slots
      BY Constants DEF Slots
    <3> QED BY <3>1, <3>2, Zenon
  <2>5. Fine(got.fs) /\ (Ok(got.fs) => Held(got.fs, got.slot))
    BY <1>3, <2>3, <2>4, Zenon DEF Pinned, Fine
  <2> QED BY <1>3, <2>1, <2>4, <2>5, Zenon
<1>5. Unlinked(t, u, garbage)
  BY <1>4, UnlinkIs, Zenon DEF Fine
<1> HIDE DEF u
<1>6. CASE t.nr = 0
  <2>1. Fine(t.fs)
    BY <1>2, <1>3, <1>6, NoZero, Zenon DEF Targeted, Finds
  <2> QED BY <1>5, <1>6, <2>1, Zenon DEF Unlinked, do_unlink, u, t
<1>7. CASE t.nr # 0
  <2>1. PICK g : /\ Counted(t.fs, g, t.slot)
                 /\ \/ u.fs = g
                    \/ Released(g, u.fs, t.slot, t.dir, t.nr, garbage)
    BY <1>5, <1>7, Zenon DEF Unlinked
  <2> DEFINE hs == t.fs
             s == t.slot
  <2>2. Fine(hs) /\ s \in Slots /\ (Ok(hs) => Held(hs, s))
    BY <1>4, <1>7, Zenon
  <2>3. Counted(hs, g, s)
    BY <2>1, Zenon
  <2> HIDE DEF hs, s
  <2>4. Fine(g) /\ (Ok(g) => Held(g, s))
    <3>1. CASE g = hs
      BY <2>2, <3>1, Zenon
    <3>2. ASSUME OneSlot(hs, g, s, hs.tab[s], g.tab[s]), g.cause = hs.cause, g.tab[s].cnt = 1,
                 SameInode(hs.tab[s], g.tab[s])
          PROVE  Fine(g) /\ (Ok(g) => Held(g, s))
      <4>1. g \in FsType /\ (Ok(g) => Ok(hs)) /\ g.tab[s].num = hs.tab[s].num
        BY <3>2, Zenon DEF OneSlot, Ok, SameInode
      <4>2. g.tab[s].cnt >= 0 /\ g.tab[s].cnt >= 1
        BY <3>2
      <4>3. Ok(g) => Cache(g)
        BY <2>2, <3>2, <4>1, <4>2, CacheCount, Zenon DEF Fine
      <4>4. Held(g, s)
        BY <2>2, <4>2, Zenon DEF Held
      <4> QED BY <4>1, <4>3, <4>4, Zenon DEF Fine
    <3> QED BY <2>3, <3>1, <3>2, Zenon DEF Counted
  <2>5. CASE u.fs = g
    BY <2>4, <2>5, Zenon DEF do_unlink, u, t
  <2>6. CASE Released(g, u.fs, s, t.dir, t.nr, garbage)
    <3>1. Fine(u.fs)
      BY <2>2, <2>4, <2>6, ReleasedFine, Zenon
    <3> QED BY <3>1, Zenon DEF do_unlink, u, t
  <2> QED BY <2>1, <2>5, <2>6, Zenon DEF s
<1> QED BY <1>6, <1>7

LEMMA LsFine ==
  ASSUME NEW fs, Fine(fs), NEW dir, PathOk(Append(dir, ""))
  PROVE  Fine(do_ls(fs, dir)) /\ SameButTab(fs, do_ls(fs, dir))
<1> DEFINE r == strip_path(fs, Append(dir, ""))
           C == "do_ls: dir_inode was never set"
           hs == Fail(r.fs, C)
<1>0. fs \in FsType /\ (Ok(fs) => Cache(fs))
  BY Zenon DEF Fine
<1>1. r \in CacheWalks(fs)
  BY <1>0, CacheWalk, Zenon
<1>2. C \in Causes /\ C # ""
  BY DEF Causes
<1>3. do_ls(fs, dir) = IF r.found THEN r.fs ELSE hs
  BY Zenon DEF do_ls
<1> HIDE DEF r, C
<1>4. Fine(r.fs) /\ SameButTab(fs, r.fs)
  BY <1>1, Zenon DEF CacheWalks, Fine, SameButTab
<1>5. /\ hs \in FsType /\ hs.disk = r.fs.disk /\ hs.tab = r.fs.tab /\ hs.filp = r.fs.filp
      /\ hs.writes = r.fs.writes /\ hs.cause # ""
  BY <1>2, <1>4, FailIs, Zenon DEF Fine
<1> HIDE DEF hs
<1>6. Fine(hs) /\ SameButTab(fs, hs)
  BY <1>4, <1>5, Zenon DEF Fine, SameButTab, Ok
<1>7. CASE r.found
  BY <1>3, <1>4, <1>7, Zenon
<1>8. CASE ~r.found
  BY <1>3, <1>6, <1>8, Zenon
<1> QED BY <1>7, <1>8

(* An inode is got where one is cached or a slot is free.  *)
LEMMA GetOk ==
  ASSUME NEW fs \in FsType, NEW num \in Inodes, Cached(fs, num) # {} \/ Free(fs) # {}
  PROVE  get_inode(fs, num).fs.cause = fs.cause
<1> DEFINE got == get_inode(fs, num)
<1>1. Cached(fs, num) \subseteq Nat /\ Free(fs) \subseteq Nat
      /\ Cached(fs, num) \subseteq Slots /\ Free(fs) \subseteq Slots
  BY Constants DEF Slots, Cached, Free
<1>2. CASE Cached(fs, num) # {}
  <2> DEFINE s == Least(Cached(fs, num))
             c == fs.tab[s].cnt + 1
             gs == [fs EXCEPT !.tab[s].cnt = c]
  <2>1. s \in Slots
    BY <1>1, <1>2, LeastProperties, Zenon
  <2>2. got.fs = gs
    BY <1>2, GetCached, Zenon
  <2> HIDE DEF s
  <2>3. c \in Int
    BY <2>1, Counts
  <2> HIDE DEF c
  <2>4. gs.cause = fs.cause
    BY <2>1, <2>3, SetCount, Zenon
  <2> QED BY <2>2, <2>4, Zenon
<1>3. CASE Cached(fs, num) = {} /\ Free(fs) # {}
  <2> DEFINE s == Least(Free(fs))
             q == Loaded(fs, s, num)
             gs == [fs EXCEPT !.tab[s] = q]
  <2>1. s \in Slots
    BY <1>1, <1>3, LeastProperties, Zenon
  <2>2. got.fs = gs
    BY <1>3, GetFree, Zenon
  <2> HIDE DEF s, q
  <2> DEFINE tab == [fs.tab EXCEPT ![s] = q]
  <2>3. gs = [fs EXCEPT !.tab = tab]
    BY Zenon
  <2>4. [fs EXCEPT !.tab = tab].cause = fs.cause
    BY Zenon DEF FsType
  <2> QED BY <2>2, <2>3, <2>4, Zenon
<1> QED BY <1>2, <1>3

LEMMA MkfsIs ==
  /\ mkfs \in DiskType /\ mkfs.imap = 1..3 /\ mkfs.smap = {1}
  /\ mkfs.node[1] = [mode |-> "dir", size |-> 4, start |-> 1]
  /\ mkfs.node[2] = [mode |-> "chr", size |-> 0, start |-> 0]
  /\ \A n \in 1..(NR_INODES + 1) :
       n \notin {1, 2} => mkfs.node[n] = [mode |-> "none", size |-> 0, start |-> 0]
  /\ \A e \in Starts, i \in 1..DIR_SLOTS :
       /\ e = 1 /\ i = 1 => mkfs.dir[e][i] = [inode_nr |-> 1, name |-> "."]
       /\ e = 1 /\ i = 2 => mkfs.dir[e][i] = [inode_nr |-> 2, name |-> "dev_tty0"]
       /\ e # 1 \/ i \notin {1, 2} => mkfs.dir[e][i] = NoEntry
<1> DEFINE N == [n \in 1..(NR_INODES + 1) |->
                   CASE n = 1 -> [mode |-> "dir", size |-> 4, start |-> 1]
                     [] n = 2 -> [mode |-> "chr", size |-> 0, start |-> 0]
                     [] OTHER -> [mode |-> "none", size |-> 0, start |-> 0]]
           D == [e \in {0} \union Extents |->
                   [i \in 1..DIR_SLOTS |->
                      CASE e = 1 /\ i = 1 -> [inode_nr |-> 1, name |-> "."]
                        [] e = 1 /\ i = 2 -> [inode_nr |-> 2, name |-> "dev_tty0"]
                        [] OTHER -> NoEntry]]
           m == [imap |-> 1..3, smap |-> {1}, node |-> N, dir |-> D]
<1>0. mkfs = m
  BY Zenon DEF mkfs
<1>1. /\ N[1] = [mode |-> "dir", size |-> 4, start |-> 1]
      /\ N[2] = [mode |-> "chr", size |-> 0, start |-> 0]
      /\ \A n \in 1..(NR_INODES + 1) :
           n \notin {1, 2} => N[n] = [mode |-> "none", size |-> 0, start |-> 0]
  BY Constants
<1>2. N \in [1..(NR_INODES + 1) -> NodeType]
  <2>1. /\ [mode |-> "dir", size |-> 4, start |-> 1] \in NodeType
        /\ [mode |-> "chr", size |-> 0, start |-> 0] \in NodeType
        /\ [mode |-> "none", size |-> 0, start |-> 0] \in NodeType
    BY Constants DEF NodeType, Modes, Starts, Extents
  <2> SUFFICES ASSUME NEW n \in 1..(NR_INODES + 1) PROVE N[n] \in NodeType
    OBVIOUS
  <2> HIDE DEF N
  <2>2. CASE n = 1
    BY <1>1, <2>1, <2>2
  <2>3. CASE n = 2
    BY <1>1, <2>1, <2>3
  <2>4. CASE n \notin {1, 2}
    BY <1>1, <2>1, <2>4
  <2> QED BY <2>2, <2>3, <2>4
<1>3. \A e \in Starts, i \in 1..DIR_SLOTS :
       /\ e = 1 /\ i = 1 => D[e][i] = [inode_nr |-> 1, name |-> "."]
       /\ e = 1 /\ i = 2 => D[e][i] = [inode_nr |-> 2, name |-> "dev_tty0"]
       /\ e # 1 \/ i \notin {1, 2} => D[e][i] = NoEntry
  BY DEF Starts
<1>4. D \in [Starts -> [1..DIR_SLOTS -> EntryType]]
  <2>1. /\ [inode_nr |-> 1, name |-> "."] \in EntryType
        /\ [inode_nr |-> 2, name |-> "dev_tty0"] \in EntryType /\ NoEntry \in EntryType
    BY Constants DEF EntryType, Inodes
  <2>2. \A e \in Starts, i \in 1..DIR_SLOTS : D[e][i] \in EntryType
    <3> SUFFICES ASSUME NEW e \in Starts, NEW i \in 1..DIR_SLOTS PROVE D[e][i] \in EntryType
      BY Zenon
    <3> HIDE DEF D
    <3>1. CASE e = 1 /\ i = 1
      BY <1>3, <2>1, <3>1
    <3>2. CASE e = 1 /\ i = 2
      BY <1>3, <2>1, <3>2
    <3>3. CASE e # 1 \/ i \notin {1, 2}
      BY <1>3, <2>1, <3>3
    <3> QED BY <3>1, <3>2, <3>3
  <2> DEFINE X(e, i) == CASE e = 1 /\ i = 1 -> [inode_nr |-> 1, name |-> "."]
                        [] e = 1 /\ i = 2 -> [inode_nr |-> 2, name |-> "dev_tty0"]
                        [] OTHER -> NoEntry
  <2>3. \A e \in Starts, i \in 1..DIR_SLOTS : X(e, i) \in EntryType
    <3>1. \A e \in Starts, i \in 1..DIR_SLOTS : D[e][i] = X(e, i)
      BY Zenon DEF Starts
    <3> HIDE DEF X, D
    <3> QED BY <2>2, <3>1, Zenon
  <2>4. D = [e \in Starts |-> [i \in 1..DIR_SLOTS |-> X(e, i)]]
    BY Zenon DEF Starts
  <2> HIDE DEF D, X
  <2>5. [e \in Starts |-> [i \in 1..DIR_SLOTS |-> X(e, i)]] \in [Starts -> [1..DIR_SLOTS -> EntryType]]
    BY <2>3, Zenon
  <2> QED BY <2>4, <2>5, Zenon
<1> HIDE DEF N, D
<1>5. 1..3 \in SUBSET Inodes /\ {1} \in SUBSET Extents
  BY Constants DEF Inodes, Extents
<1>6. m \in DiskType
  BY <1>2, <1>4, <1>5, Zenon DEF DiskType
<1>7. m.imap = 1..3 /\ m.smap = {1} /\ m.node = N /\ m.dir = D
  BY Zenon
<1> HIDE DEF m
<1> QED BY <1>0, <1>1, <1>3, <1>6, <1>7, Zenon

(* What the system starts with: the root in slot 1, the terminal in slot   *)
(* 2, which two descriptors have.                                          *)
Boots(d, tab, fds) ==
  /\ tab \in [Slots -> SlotType] /\ fds \in [Fds -> DescType]
  /\ tab[1].num = 1 /\ tab[1].cnt = 1 /\ tab[1].mode = d.node[1].mode
  /\ tab[1].size = d.node[1].size /\ tab[1].start = d.node[1].start
  /\ tab[1].i_node_length = d.node[2].mode
  /\ tab[2].num = 2 /\ tab[2].cnt = 2 /\ tab[2].mode = d.node[2].mode
  /\ tab[2].size = d.node[2].size /\ tab[2].start = d.node[2].start
  /\ tab[2].i_node_length = d.node[3].mode
  /\ \A s \in Slots : s \notin {1, 2} => tab[s] = NoInode
  /\ \A s \in Slots : tab[s].sect0 = 0
  /\ fds[0] = [slot |-> 2, of |-> 2, mode |-> "chr"]
  /\ fds[1] = [slot |-> 2, of |-> 2, mode |-> "chr"]
  /\ \A fd \in Fds : fd \notin {0, 1} => fds[fd] = Closed

LEMMA BootGet1 ==
  ASSUME NEW fs \in FsType, \A s \in Slots : fs.tab[s] = NoInode, Ok(fs),
         NEW got, got = get_inode(fs, 1)
  PROVE  got.slot = 1 /\ Ok(got.fs) /\ Got(fs, 1, got)
         /\ Load(fs, 1, 1, fs.tab[1], got.fs.tab[1])
<1>1. 1 \in Inodes /\ 1 \in Slots /\ NoInode.cnt = 0 /\ \A s \in Slots : s # 1 => 1 < s
  BY Constants DEF Inodes, Slots, NoInode
<1>2. Got(fs, 1, got)
  BY <1>1, GetInode, Zenon
<1>3. Free(fs) # {}
  BY <1>1, Zenon DEF Free
<1>4. get_inode(fs, 1).fs.cause = fs.cause
  BY <1>1, <1>3, GetOk, Zenon
<1>5. Ok(got.fs)
  BY <1>4, Zenon DEF Ok
<1>6. got.slot \in Slots
  BY <1>2, Zenon DEF Got, OneSlot
<1>7. Load(fs, 1, got.slot, fs.tab[got.slot], got.fs.tab[got.slot])
  <2>1. fs.tab[got.slot].cnt = 0
    BY <1>1, <1>6, Zenon
  <2> QED BY <1>2, <1>5, <2>1, Zenon DEF Got, Hit, Ok
<1>8. got.slot = 1
  <2> SUFFICES ASSUME got.slot # 1 PROVE FALSE
    OBVIOUS
  <2>1. 1 < got.slot
    BY <1>1, <1>6, Zenon
  <2> QED BY <1>1, <1>7, <2>1, Zenon DEF Load
<1>9. Load(fs, 1, 1, fs.tab[1], got.fs.tab[1])
  BY <1>7, <1>8, Zenon
<1> QED BY <1>2, <1>5, <1>8, <1>9

LEMMA BootGet2 ==
  ASSUME NEW fs \in FsType, fs.tab[1].num = 1, fs.tab[1].cnt = 1,
         \A s \in Slots : s # 1 => fs.tab[s] = NoInode, Ok(fs),
         NEW got, got = get_inode(fs, 2)
  PROVE  got.slot = 2 /\ Ok(got.fs) /\ Got(fs, 2, got)
         /\ Load(fs, 2, 2, fs.tab[2], got.fs.tab[2])
<1>1. 2 \in Inodes /\ 2 \in Slots /\ NoInode.cnt = 0
      /\ \A s \in Slots : s \notin {1, 2} => 2 < s
  BY Constants DEF Inodes, Slots, NoInode
<1>2. Got(fs, 2, got)
  BY <1>1, GetInode, Zenon
<1>a. 2 # 1 /\ 1 # 0
  OBVIOUS
<1>b. fs.tab[2].cnt = 0
  BY <1>1, <1>a, Zenon
<1>3. Free(fs) # {}
  BY <1>1, <1>b, Zenon DEF Free
<1>4. get_inode(fs, 2).fs.cause = fs.cause
  BY <1>1, <1>3, GetOk, Zenon
<1>5. Ok(got.fs)
  BY <1>4, Zenon DEF Ok
<1>6. got.slot \in Slots
  BY <1>2, Zenon DEF Got, OneSlot
<1>7. Load(fs, 2, got.slot, fs.tab[got.slot], got.fs.tab[got.slot])
  <2>1. ~Hit(2, fs.tab[got.slot], got.fs.tab[got.slot])
    <3>1. CASE got.slot = 1
      BY <1>a, <3>1, Zenon DEF Hit
    <3>2. CASE got.slot # 1
      BY <1>1, <1>6, <3>2, Zenon DEF Hit
    <3> QED BY <3>1, <3>2
  <2> QED BY <1>2, <1>5, <2>1, Zenon DEF Got, Ok
<1>8. got.slot = 2
  <2> SUFFICES ASSUME got.slot # 2 PROVE FALSE
    OBVIOUS
  <2>1. CASE got.slot = 1
    BY <1>7, <1>a, <2>1, Zenon DEF Load
  <2>2. CASE got.slot # 1
    <3>1. 2 < got.slot
      BY <1>1, <1>6, <2>2
    <3> QED BY <1>1, <1>b, <1>7, <3>1, Zenon DEF Load
  <2> QED BY <2>1, <2>2
<1>9. Load(fs, 2, 2, fs.tab[2], got.fs.tab[2])
  BY <1>7, <1>8, Zenon
<1> QED BY <1>2, <1>5, <1>8, <1>9

LEMMA BootGet3 ==
  ASSUME NEW fs \in FsType, fs.tab[1].num = 1, fs.tab[2].num = 2, fs.tab[2].cnt = 1,
         \A s \in Slots : s \notin {1, 2} => fs.tab[s] = NoInode, Ok(fs),
         NEW got, got = get_inode(fs, 2)
  PROVE  got.slot = 2 /\ Ok(got.fs) /\ Got(fs, 2, got) /\ Hit(2, fs.tab[2], got.fs.tab[2])
<1>1. 2 \in Inodes /\ 2 \in Slots /\ NoInode.cnt = 0 /\ 1 # 0 /\ 2 # 1
  BY Constants DEF Inodes, Slots, NoInode
<1>2. Got(fs, 2, got)
  BY <1>1, GetInode, Zenon
<1>3. Cached(fs, 2) # {}
  BY <1>1, Zenon DEF Cached
<1>4. get_inode(fs, 2).fs.cause = fs.cause
  BY <1>1, <1>3, GetOk, Zenon
<1>5. Ok(got.fs)
  BY <1>4, Zenon DEF Ok
<1>6. got.slot \in Slots
  BY <1>2, Zenon DEF Got, OneSlot
<1>7. Hit(2, fs.tab[got.slot], got.fs.tab[got.slot])
  <2>1. ~Load(fs, 2, got.slot, fs.tab[got.slot], got.fs.tab[got.slot])
    BY <1>1, Zenon DEF Load
  <2> QED BY <1>2, <1>5, <2>1, Zenon DEF Got, Ok
<1>8. got.slot = 2
  <2>1. fs.tab[got.slot].cnt # 0 /\ fs.tab[got.slot].num = 2
    BY <1>7, Zenon DEF Hit
  <2>2. got.slot # 1
    BY <1>1, <2>1, Zenon
  <2>3. got.slot \in {1, 2}
    <3> SUFFICES ASSUME got.slot \notin {1, 2} PROVE FALSE
      OBVIOUS
    <3>1. fs.tab[got.slot] = NoInode
      BY <1>6, Zenon
    <3> QED BY <1>1, <2>1, <3>1, Zenon
  <2> QED BY <2>2, <2>3
<1> QED BY <1>2, <1>5, <1>7, <1>8, Zenon

LEMMA NoInodeIs ==
  /\ NoInode.num = 0 /\ NoInode.cnt = 0 /\ NoInode.mode = "none" /\ NoInode.size = 0
  /\ NoInode.start = 0 /\ NoInode.i_node_length = "none" /\ NoInode.sect0 = 0
BY DEF NoInode

LEMMA Sums == 1 + 1 = 2 /\ 2 + 1 = 3
OBVIOUS

LEMMA LeastIs ==
  ASSUME NEW F, F \subseteq Nat, NEW n \in F, \A m \in F : m >= n
  PROVE  Least(F) = n
<1>1. Least(F) \in F /\ Least(F) <= n
  BY LeastProperties, Zenon
<1>2. Least(F) \in Nat /\ n \in Nat /\ Least(F) >= n
  BY <1>1, Zenon
<1> QED BY <1>1, <1>2

LEMMA NatUp == (\A m \in Nat : m >= 0) /\ (\A m \in Nat : m # 0 => m >= 1)
OBVIOUS

LEMMA BootIs ==
  ASSUME NEW d \in DiskType
  PROVE  Boots(d, Booted(d).tab, Booted(d).filp)
<1> DEFINE empty == [disk |-> d, tab |-> [s \in Slots |-> NoInode],
                     filp |-> [fd \in Fds |-> Closed], cause |-> "", writes |-> <<>>]
           g1 == get_inode(empty, 1)
           a == g1.fs
           g2 == get_inode(a, 2)
           f1 == Least({fd \in Fds : a.filp[fd].slot = 0})
           d1 == [slot |-> g2.slot, of |-> 2, mode |-> "chr"]
           b == [g2.fs EXCEPT !.filp[f1] = d1]
           g3 == get_inode(b, 2)
           f2 == Least({fd \in Fds : b.filp[fd].slot = 0})
           d2 == [slot |-> g3.slot, of |-> 2, mode |-> "chr"]
           c == [g3.fs EXCEPT !.filp[f2] = d2]
           D == [slot |-> 2, of |-> 2, mode |-> "chr"]
<1>1. Booted(d) = c
  BY Zenon DEF Booted
<1>2. NoInode \in SlotType
  BY Constants DEF NoInode, SlotType, Modes, Starts
<1>3. /\ empty \in FsType /\ empty.disk = d /\ empty.tab = [s \in Slots |-> NoInode]
      /\ empty.filp = [fd \in Fds |-> Closed] /\ empty.cause = ""
  <2>1. <<>> \in Seq(DiskType)
    BY EmptySeq
  <2>2. "" \in Causes
    BY Zenon DEF Causes
  <2>3. [s \in Slots |-> NoInode] \in [Slots -> SlotType]
    BY <1>2, Zenon
  <2>4. [fd \in Fds |-> Closed] \in [Fds -> DescType]
    BY ClosedType, Zenon
  <2> QED BY <2>1, <2>2, <2>3, <2>4, Zenon DEF FsType
<1>4. D \in DescType /\ 0 \in Fds /\ 1 \in Fds /\ 1 \in Slots /\ 2 \in Slots /\ Closed.slot = 0
      /\ D.slot = 2 /\ 1 # 0 /\ 2 # 0 /\ 2 # 1 /\ Fds \subseteq Nat
  BY Constants DEF DescType, Fds, Slots, Modes, Closed
<1> HIDE DEF empty
<1>5. /\ Ok(a) /\ a \in FsType /\ a.disk = d /\ a.filp = [fd \in Fds |-> Closed]
      /\ Load(empty, 1, 1, empty.tab[1], a.tab[1])
      /\ \A s \in Slots : s # 1 => a.tab[s] = NoInode
  <2>1. \A s \in Slots : empty.tab[s] = NoInode
    BY <1>3, Zenon
  <2>2. g1.slot = 1 /\ Ok(g1.fs) /\ Got(empty, 1, g1) /\ Load(empty, 1, 1, empty.tab[1], g1.fs.tab[1])
    BY <1>3, <2>1, BootGet1, Zenon DEF Ok
  <2> HIDE DEF g1
  <2>3. /\ g1.fs \in FsType /\ g1.fs.disk = empty.disk /\ g1.fs.filp = empty.filp
        /\ \A u \in Slots : u # g1.slot => g1.fs.tab[u] = empty.tab[u]
    BY <2>2, Zenon DEF Got, OneSlot
  <2> QED BY <1>3, <2>1, <2>2, <2>3, Zenon
<1> DEFINE p1 == a.tab[1]
<1>6. /\ p1.num = 1 /\ p1.cnt = 1 /\ p1.mode = d.node[1].mode
      /\ p1.size = d.node[1].size /\ p1.start = d.node[1].start
      /\ p1.i_node_length = d.node[2].mode /\ p1.sect0 = 0
  <2>1. empty.tab[1].sect0 = 0 /\ 1 + 1 = 2
    <3>1. empty.tab[1] = NoInode
      BY <1>3, <1>4, Zenon
    <3> QED BY <3>1, NoInodeIs, Sums, Zenon
  <2> HIDE DEF a
  <2> QED BY <1>3, <1>5, <2>1, Zenon DEF Load
<1> HIDE DEF a
<1>7. /\ g2.slot = 2 /\ Ok(g2.fs) /\ g2.fs \in FsType /\ g2.fs.disk = d
      /\ g2.fs.filp = [fd \in Fds |-> Closed]
      /\ Load(a, 2, 2, a.tab[2], g2.fs.tab[2])
      /\ \A s \in Slots : s # 2 => g2.fs.tab[s] = a.tab[s]
  <2>2. g2.slot = 2 /\ Ok(g2.fs) /\ Got(a, 2, g2) /\ Load(a, 2, 2, a.tab[2], g2.fs.tab[2])
    BY <1>5, <1>6, BootGet2, Zenon
  <2> HIDE DEF g2
  <2>3. /\ g2.fs \in FsType /\ g2.fs.disk = a.disk /\ g2.fs.filp = a.filp
        /\ \A u \in Slots : u # g2.slot => g2.fs.tab[u] = a.tab[u]
    BY <2>2, Zenon DEF Got, OneSlot
  <2> QED BY <1>5, <2>2, <2>3, Zenon
<1>8. f1 = 0
  <2> DEFINE F == {fd \in Fds : a.filp[fd].slot = 0}
  <2>1. F \subseteq Nat /\ 0 \in F
    BY <1>4, <1>5, Zenon
  <2>2. \A m \in F : m >= 0
    BY <1>4, NatUp, Zenon
  <2> HIDE DEF F
  <2>3. Least(F) = 0
    BY <2>1, <2>2, LeastIs, Zenon
  <2> QED BY <2>3 DEF F
<1> DEFINE p2 == g2.fs.tab[2]
<1>9. /\ p2.num = 2 /\ p2.cnt = 1 /\ p2.mode = d.node[2].mode
      /\ p2.size = d.node[2].size /\ p2.start = d.node[2].start
      /\ p2.i_node_length = d.node[3].mode /\ p2.sect0 = 0
  <2>1. a.tab[2] = NoInode
    BY <1>4, <1>5, Zenon
  <2>2. a.tab[2].sect0 = 0 /\ 2 + 1 = 3
    BY <2>1, NoInodeIs, Sums, Zenon
  <2> HIDE DEF g2
  <2> QED BY <1>5, <1>7, <2>2, Zenon DEF Load
<1> HIDE DEF g2, f1
<1>10. /\ b \in FsType /\ Ok(b) /\ b.disk = d /\ b.tab = g2.fs.tab
       /\ b.filp[0] = D /\ \A fd \in Fds : fd # 0 => b.filp[fd] = Closed
  <2> DEFINE h == g2.fs
             x == [h EXCEPT !.filp[0] = D]
  <2>1. h \in FsType
    BY <1>7, Zenon
  <2>2. b = x
    BY <1>7, <1>8, Zenon
  <2> HIDE DEF h
  <2>3. FdSet(h, x, 0, D) /\ x.cause = h.cause
    <3> HIDE DEF D
    <3> QED BY <1>4, <2>1, SetFd, Zenon
  <2> HIDE DEF x, b
  <2>4. /\ x \in FsType /\ x.disk = h.disk /\ x.tab = h.tab /\ x.filp[0] = D
        /\ \A fd \in Fds : fd # 0 => x.filp[fd] = h.filp[fd]
    BY <2>3, Zenon DEF FdSet
  <2>5. Ok(x)
    BY <2>3, <1>7, Zenon DEF Ok, h
  <2> QED BY <1>7, <2>2, <2>4, <2>5, Zenon DEF h
<1> HIDE DEF b
<1>11. b.tab[1] = p1 /\ b.tab[2] = p2 /\ \A s \in Slots : s \notin {1, 2} => b.tab[s] = NoInode
  <2>1. b.tab[2] = p2
    BY <1>10, Zenon
  <2>2. b.tab[1] = p1
    BY <1>4, <1>7, <1>10, Zenon
  <2>3. ASSUME NEW s \in Slots, s \notin {1, 2} PROVE b.tab[s] = NoInode
    <3>1. s # 1 /\ s # 2
      BY <2>3
    <3> QED BY <1>5, <1>7, <1>10, <3>1, Zenon
  <2> QED BY <2>1, <2>2, <2>3
<1> HIDE DEF p1, p2
<1>12. /\ g3.slot = 2 /\ Ok(g3.fs) /\ g3.fs \in FsType /\ g3.fs.disk = d /\ g3.fs.filp = b.filp
       /\ Hit(2, b.tab[2], g3.fs.tab[2])
       /\ \A s \in Slots : s # 2 => g3.fs.tab[s] = b.tab[s]
  <2>2. g3.slot = 2 /\ Ok(g3.fs) /\ Got(b, 2, g3) /\ Hit(2, b.tab[2], g3.fs.tab[2])
    BY <1>6, <1>9, <1>10, <1>11, BootGet3, Zenon
  <2> HIDE DEF g3
  <2>3. /\ g3.fs \in FsType /\ g3.fs.disk = b.disk /\ g3.fs.filp = b.filp
        /\ \A u \in Slots : u # g3.slot => g3.fs.tab[u] = b.tab[u]
    BY <2>2, Zenon DEF Got, OneSlot
  <2> QED BY <1>10, <2>2, <2>3, Zenon
<1>13. f2 = 1
  <2> DEFINE F == {fd \in Fds : b.filp[fd].slot = 0}
  <2>1. F \subseteq Nat /\ 1 \in F /\ 0 \notin F
    <3> HIDE DEF D
    <3> QED BY <1>4, <1>10, Zenon
  <2> HIDE DEF F
  <2>2. \A m \in F : m >= 1
    BY <2>1, NatUp, Zenon
  <2>3. Least(F) = 1
    BY <2>1, <2>2, LeastIs, Zenon
  <2> QED BY <2>3 DEF F
<1>14. /\ g3.fs.tab[2].num = 2 /\ g3.fs.tab[2].cnt = 2 /\ g3.fs.tab[2].mode = d.node[2].mode
       /\ g3.fs.tab[2].size = d.node[2].size /\ g3.fs.tab[2].start = d.node[2].start
       /\ g3.fs.tab[2].i_node_length = d.node[3].mode /\ g3.fs.tab[2].sect0 = 0
  <2> HIDE DEF g3
  <2>1. /\ g3.fs.tab[2].cnt = b.tab[2].cnt + 1
        /\ SameInode(b.tab[2], g3.fs.tab[2])
    BY <1>12, Zenon DEF Hit
  <2>2. g3.fs.tab[2].cnt = 2
    <3>1. g3.fs.tab[2].cnt = p2.cnt + 1
      BY <1>11, <2>1, Zenon
    <3>2. p2.cnt + 1 = 1 + 1
      BY <1>9, Zenon
    <3> QED BY <3>1, <3>2, Sums, Zenon
  <2>3. SameInode(p2, g3.fs.tab[2])
    BY <1>11, <2>1, Zenon
  <2> QED BY <1>9, <2>2, <2>3, Zenon DEF SameInode
<1> HIDE DEF g3, f2
<1>15. /\ c \in FsType /\ c.tab = g3.fs.tab /\ c.filp[0] = D /\ c.filp[1] = D
       /\ \A fd \in Fds : fd \notin {0, 1} => c.filp[fd] = Closed
  <2> DEFINE h == g3.fs
             x == [h EXCEPT !.filp[1] = D]
  <2>1. h \in FsType
    BY <1>12, Zenon
  <2>2. c = x
    BY <1>12, <1>13, Zenon
  <2> HIDE DEF h
  <2>3. FdSet(h, x, 1, D) /\ x.cause = h.cause
    <3> HIDE DEF D
    <3> QED BY <1>4, <2>1, SetFd, Zenon
  <2> HIDE DEF x, c
  <2>4. /\ x \in FsType /\ x.tab = h.tab /\ x.filp[1] = D
        /\ \A fd \in Fds : fd # 1 => x.filp[fd] = h.filp[fd]
    BY <2>3, Zenon DEF FdSet
  <2>5. c.filp[0] = D
    <3> HIDE DEF D
    <3> QED BY <1>4, <1>10, <1>12, <2>2, <2>4, Zenon DEF h
  <2>6. ASSUME NEW fd \in Fds, fd \notin {0, 1} PROVE c.filp[fd] = Closed
    <3>1. fd # 0 /\ fd # 1
      BY <2>6
    <3> QED BY <1>10, <1>12, <2>2, <2>4, <3>1, Zenon DEF h
  <2> HIDE DEF D
  <2> QED BY <2>2, <2>4, <2>5, <2>6, Zenon DEF h
<1> HIDE DEF c
<1>16. c.tab \in [Slots -> SlotType] /\ c.filp \in [Fds -> DescType]
  BY <1>15, FsFields, Zenon
<1>17. c.tab[1] = p1 /\ \A s \in Slots : s \notin {1, 2} => c.tab[s] = NoInode
  <2>1. ASSUME NEW s \in Slots, s \notin {1, 2} PROVE c.tab[s] = NoInode
    <3>1. s # 2
      BY <2>1
    <3> QED BY <1>11, <1>12, <1>15, <2>1, <3>1, Zenon
  <2> QED BY <1>4, <1>11, <1>12, <1>15, <2>1, Zenon
<1>18. \A s \in Slots : c.tab[s].sect0 = 0
  <2> SUFFICES ASSUME NEW s \in Slots PROVE c.tab[s].sect0 = 0
    OBVIOUS
  <2>1. CASE s = 1
    BY <1>6, <1>17, <2>1, Zenon
  <2>2. CASE s = 2
    BY <1>14, <1>15, <2>2, Zenon
  <2>3. CASE s \notin {1, 2}
    <3>1. NoInode.sect0 = 0
      BY DEF NoInode
    <3> QED BY <1>17, <2>3, <3>1, Zenon
  <2> QED BY <2>1, <2>2, <2>3
<1>19. Boots(d, c.tab, c.filp)
  <2>1. c.tab[2] = g3.fs.tab[2]
    BY <1>15, Zenon
  <2> HIDE DEF D
  <2> QED BY <1>6, <1>14, <1>15, <1>16, <1>17, <1>18, <2>1, Zenon DEF Boots, D
<1> QED BY <1>1, <1>19, Zenon

Room == disk.imap # Inodes /\ disk.smap # Extents

(* What a command leaves behind, by the command.  *)
Creates(fs) ==
  \E path \in session.paths, g \in Garbage :
    /\ Room
    /\ \/ fs = Touched(path, g).fs
       \/ fs = MadeDir(path, g).fs

Removes(fs) ==
  /\ "rm" \in session.commands
  /\ \E path \in session.paths, g \in Garbage : fs = do_unlink(FsState, path, g).fs

Transfers(fs) ==
  \E path \in session.paths, g \in Garbage, grows \in BOOLEAN :
    \/ fs = AndRead(do_open(FsState, path, FALSE, g), grows, g)
    \/ fs = AndEdited(do_open(FsState, path, FALSE, g), g)

Descends(fs) ==
  /\ "cd" \in session.commands
  /\ \E path \in session.paths : fs = do_open(FsState, Append(path, ""), FALSE, 0).fs

Climbs(fs) ==
  /\ "cd .." \in session.commands
  /\ \E parent :
       /\ parent = cwd \/ (parent = Front(cwd) /\ cwd # <<>>)
       /\ fs = do_open(FsState, Append(parent, ""), FALSE, 0).fs

Lists(fs) == fs = do_ls(FsState, cwd)

Result(fs) ==
  Creates(fs) \/ Removes(fs) \/ Transfers(fs) \/ Descends(fs) \/ Climbs(fs) \/ Lists(fs)

NewCwd(c) ==
  \/ c = cwd
  \/ c = Front(cwd) /\ cwd # <<>>
  \/ c \in session.paths /\ "cd" \in session.commands

Commanded ==
  /\ halted = ""
  /\ \E fs, c, t : Result(fs) /\ NewCwd(c) /\ Ends(fs, c, t)

Cut == \E fs : Creates(fs) /\ \E i \in DOMAIN fs.writes : PowerOn(fs.writes[i])

LEMMA NextCases ==
  ASSUME Next
  PROVE  Commanded \/ Cut \/ PowerOn(disk)
<1>1. ASSUME NEW path \in session.paths, CreateFile(path) PROVE Commanded
  <2>1. halted = "" /\ Room
    BY <1>1, Zenon DEF CreateFile, Running, Room
  <2>2. PICK g \in Garbage : Answered(Touched(path, g), told \union {path})
    BY <1>1, Zenon DEF CreateFile
  <2>3. Creates(Touched(path, g).fs)
    BY <2>1, Zenon DEF Creates
  <2> QED BY <2>1, <2>2, <2>3, Zenon DEF Commanded, Result, Answered, NewCwd
<1>2. ASSUME NEW path \in session.paths, DeleteFile(path) PROVE Commanded
  <2>1. halted = "" /\ "rm" \in session.commands
    BY <1>2, Zenon DEF DeleteFile, Running
  <2>2. PICK g \in Garbage : Answered(do_unlink(FsState, path, g), told \ {path})
    BY <1>2, Zenon DEF DeleteFile
  <2>3. Removes(do_unlink(FsState, path, g).fs)
    BY <2>1, Zenon DEF Removes
  <2> QED BY <2>1, <2>2, <2>3, Zenon DEF Commanded, Result, Answered, NewCwd
<1>3. ASSUME NEW path \in session.paths, ReadFile(path) PROVE Commanded
  <2>1. halted = ""
    BY <1>3, Zenon DEF ReadFile, Running
  <2>2. PICK g \in Garbage, grows \in BOOLEAN :
          Ends(AndRead(do_open(FsState, path, FALSE, g), grows, g), cwd, told)
    BY <1>3, Zenon DEF ReadFile
  <2>3. Transfers(AndRead(do_open(FsState, path, FALSE, g), grows, g))
    BY Zenon DEF Transfers
  <2> QED BY <2>1, <2>2, <2>3, Zenon DEF Commanded, Result, NewCwd
<1>4. ASSUME NEW path \in session.paths, WriteFile(path) PROVE Commanded
  <2>1. halted = ""
    BY <1>4, Zenon DEF WriteFile, Running
  <2>2. PICK g \in Garbage :
          Ends(AndEdited(do_open(FsState, path, FALSE, g), g), cwd, told)
    BY <1>4, Zenon DEF WriteFile
  <2>3. Transfers(AndEdited(do_open(FsState, path, FALSE, g), g))
    BY Zenon DEF Transfers
  <2> QED BY <2>1, <2>2, <2>3, Zenon DEF Commanded, Result, NewCwd
<1>5. ASSUME NEW path \in session.paths, CreateDir(path) PROVE Commanded
  <2>1. halted = "" /\ Room
    BY <1>5, Zenon DEF CreateDir, Running, Room
  <2>2. PICK g \in Garbage : Answered(MadeDir(path, g), told \union {path})
    BY <1>5, Zenon DEF CreateDir
  <2>3. Creates(MadeDir(path, g).fs)
    BY <2>1, Zenon DEF Creates
  <2> QED BY <2>1, <2>2, <2>3, Zenon DEF Commanded, Result, Answered, NewCwd
<1>6. ASSUME NEW path \in session.paths, GoDir(path) PROVE Commanded
  <2> DEFINE o == do_open(FsState, Append(path, ""), FALSE, 0)
  <2>1. halted = "" /\ "cd" \in session.commands
    BY <1>6, Zenon DEF GoDir, Running
  <2>2. Entered(o, path)
    BY <1>6, Zenon DEF GoDir
  <2>3. Descends(o.fs)
    BY <2>1, Zenon DEF Descends
  <2> HIDE DEF o
  <2> DEFINE c == IF o.fd = -1 THEN cwd ELSE path
  <2>4. Ends(o.fs, c, told)
    BY <2>2, Zenon DEF Entered
  <2>5. c = cwd \/ c = path
    BY Zenon
  <2> HIDE DEF c
  <2>6. NewCwd(c)
    BY <2>1, <2>5, Zenon DEF NewCwd
  <2> QED BY <2>1, <2>3, <2>4, <2>6, Zenon DEF Commanded, Result
<1>7. ASSUME NEW path \in session.paths, PowerFails(path) PROVE Cut
  <2>1. Room
    BY <1>7, Zenon DEF PowerFails, Running, Room
  <2>a. PICK g \in Garbage : \E fs \in {Touched(path, g).fs, MadeDir(path, g).fs} :
          \E i \in DOMAIN fs.writes : PowerOn(fs.writes[i])
    BY <1>7, Zenon DEF PowerFails
  <2>2. PICK fs \in {Touched(path, g).fs, MadeDir(path, g).fs} :
          \E i \in DOMAIN fs.writes : PowerOn(fs.writes[i])
    BY <2>a, Zenon
  <2>3. fs = Touched(path, g).fs \/ fs = MadeDir(path, g).fs
    BY <2>2, Zenon
  <2>4. Creates(fs)
    BY <2>1, <2>2, <2>3, Zenon DEF Creates
  <2> QED BY <2>2, <2>4, Zenon DEF Cut
<1>8. ASSUME GoUp PROVE Commanded
  <2> DEFINE parent == IF cwd = <<>> THEN cwd ELSE Front(cwd)
             o == do_open(FsState, Append(parent, ""), FALSE, 0)
  <2>1. halted = "" /\ "cd .." \in session.commands
    BY <1>8, Zenon DEF GoUp, Running
  <2>2. Entered(o, parent)
    BY <1>8, Zenon DEF GoUp
  <2>3. parent = cwd \/ (parent = Front(cwd) /\ cwd # <<>>)
    BY Zenon
  <2> HIDE DEF parent
  <2>4. Climbs(o.fs)
    BY <2>1, <2>3, Zenon DEF Climbs
  <2> HIDE DEF o
  <2> DEFINE c == IF o.fd = -1 THEN cwd ELSE parent
  <2>5. Ends(o.fs, c, told)
    BY <2>2, Zenon DEF Entered
  <2>6. c = cwd \/ c = parent
    BY Zenon
  <2> HIDE DEF c
  <2>7. NewCwd(c)
    BY <2>3, <2>6, Zenon DEF NewCwd
  <2> QED BY <2>1, <2>4, <2>5, <2>7, Zenon DEF Commanded, Result
<1>9. ASSUME List PROVE Commanded
  BY <1>9, Zenon DEF List, Running, Lists, Commanded, Result, NewCwd
<1> QED BY <1>1, <1>2, <1>3, <1>4, <1>5, <1>6, <1>7, <1>8, <1>9, Zenon DEF Next, Reboot

LEMMA DirPath ==
  ASSUME NEW dir \in Seq(Names)
  PROVE  PathOk(Append(dir, "")) /\ Last(Append(dir, "")) = ""
<1> DEFINE e == ""
           path == Append(dir, e)
           S == Names \union {e}
<1> HIDE DEF e
<1>0. dir \in Seq(S) /\ e \in S
  OBVIOUS
<1> HIDE DEF S
<1>1. /\ Len(path) = Len(dir) + 1 /\ path[Len(dir) + 1] = e
      /\ \A j \in 1..Len(dir) : path[j] = dir[j]
  BY <1>0, AppendProperties
<1>2. Len(dir) \in Nat /\ \A j \in 1..Len(dir) : dir[j] \in Names
  OBVIOUS
<1> HIDE DEF path
<1>3. Len(path) \in Nat \ {0} /\ Len(path) - 1 = Len(dir)
  BY <1>1, <1>2
<1>4. PathOk(path) /\ Last(path) = e
  BY <1>1, <1>2, <1>3, Zenon DEF PathOk, Last
<1> QED BY <1>4, Zenon DEF path, e

LEMMA FilePath ==
  ASSUME NEW path \in Seq(Names) \ {<<>>}
  PROVE  PathOk(path) /\ Last(path) \in Names
<1>1. Len(path) \in Nat \ {0} /\ \A j \in 1..Len(path) : path[j] \in Names
  OBVIOUS
<1>2. Len(path) \in 1..Len(path) /\ \A j \in 1..(Len(path) - 1) : j \in 1..Len(path)
  BY <1>1
<1> QED BY <1>1, <1>2, Zenon DEF PathOk, Last

LEMMA SessionPaths ==
  ASSUME session \in Sessions, NEW path \in session.paths
  PROVE  path \in Seq(Names) \ {<<>>}
BY FsAssumption, Zenon DEF Names

LEMMA FrontIs ==
  ASSUME NEW dir \in Seq(Names), dir # <<>>
  PROVE  Front(dir) \in Seq(Names)
<1>1. Len(dir) \in Nat \ {0} /\ \A i \in 1..(Len(dir) - 1) : dir[i] \in Names
  OBVIOUS
<1>2. SubSeq(dir, 1, Len(dir) - 1) \in Seq(Names)
  <2>1. 1 \in Int /\ Len(dir) - 1 \in Int
    BY <1>1
  <2> QED BY <1>1, <2>1, SubSeqProperties, Zenon
<1> QED BY <1>2, Zenon DEF Front

LEMMA GarbageNat == Garbage \subseteq Nat /\ 0 \in Nat
BY Constants DEF Garbage, Big

(* What the first theorem needs of a state: the tables have their types,   *)
(* and the cache is in order.                                              *)
Sane ==
  /\ session \in Sessions /\ cwd \in Seq(Names)
  /\ FsState \in FsType /\ Cache(FsState)

(* The state of FS between two commands.  *)
StateOf(d, tab, fds) ==
  [disk |-> d, tab |-> tab, filp |-> fds, cause |-> "", writes |-> <<>>]

LEMMA StateOfType ==
  ASSUME NEW d \in DiskType, NEW tab \in [Slots -> SlotType], NEW fds \in [Fds -> DescType]
  PROVE  StateOf(d, tab, fds) \in FsType
<1>1. <<>> \in Seq(DiskType)
  BY EmptySeq
<1>2. "" \in Causes
  BY Zenon DEF Causes
<1> QED BY <1>1, <1>2, Zenon DEF StateOf, FsType

LEMMA StateIs == FsState = StateOf(disk, inode_table, filp)
BY Zenon DEF FsState, StateOf

LEMMA StateFields ==
  /\ FsState.disk = disk /\ FsState.tab = inode_table /\ FsState.filp = filp
  /\ FsState.cause = "" /\ FsState.writes = <<>> /\ Ok(FsState)
BY Zenon DEF FsState, Ok

LEMMA CwdPath ==
  ASSUME cwd \in Seq(Names), session \in Sessions, NEW c, NewCwd(c)
  PROVE  c \in Seq(Names)
<1>1. CASE c = Front(cwd) /\ cwd # <<>>
  BY <1>1, FrontIs, Zenon
<1>2. CASE c \in session.paths
  BY <1>2, SessionPaths, Zenon
<1> QED BY <1>1, <1>2, Zenon DEF NewCwd

LEMMA CreatesFine ==
  ASSUME Sane, NEW fs, Creates(fs)
  PROVE  Fine(fs)
<1> DEFINE X == FsState
<1>1. Fine(X) /\ X.disk = disk
  BY StateFields, Zenon DEF Fine, Sane
<1>2. session \in Sessions
  BY Zenon DEF Sane
<1>3. PICK path \in session.paths, g \in Garbage :
        Room /\ (fs = Touched(path, g).fs \/ fs = MadeDir(path, g).fs)
  BY Zenon DEF Creates
<1>4. PathOk(path) /\ Last(path) \in Names /\ g \in Nat
  BY <1>2, SessionPaths, FilePath, GarbageNat, Zenon
<1>5. X.disk.imap # Inodes /\ X.disk.smap # Extents
  BY <1>1, <1>3, Zenon DEF Room
<1> HIDE DEF X
<1>6. CASE fs = AndTouched(do_open(X, path, TRUE, g), g).fs
  <2>1. Opn(X, do_open(X, path, TRUE, g))
    BY <1>1, <1>4, <1>5, OpenNewFine, Zenon
  <2> QED BY <1>4, <1>6, <2>1, TouchedFine, Zenon
<1>7. CASE fs = AndMade(do_open(X, path, FALSE, g), path, g).fs
  <2>1. Opn(X, do_open(X, path, FALSE, g)) /\ do_open(X, path, FALSE, g).fs.disk = X.disk
    BY <1>1, <1>4, OpenFine, OpenKeeps, Zenon
  <2> QED BY <1>1, <1>4, <1>5, <1>7, <2>1, MadeDirFine, Zenon
<1> QED BY <1>3, <1>6, <1>7, Zenon DEF Touched, MadeDir, X

LEMMA ResultFine ==
  ASSUME Sane, NEW fs, Result(fs)
  PROVE  Fine(fs)
<1> DEFINE X == FsState
<1>1. Fine(X)
  BY Zenon DEF Fine, Sane
<1>2. session \in Sessions /\ cwd \in Seq(Names)
  BY Zenon DEF Sane
<1>3. ASSUME NEW path \in session.paths
      PROVE  PathOk(path) /\ path \in Seq(Names)
  BY <1>2, SessionPaths, FilePath, Zenon
<1>4. CASE Creates(fs)
  BY <1>4, CreatesFine
<1>5. CASE Removes(fs)
  <2>1. PICK path \in session.paths, g \in Garbage : fs = do_unlink(X, path, g).fs
    BY <1>5, Zenon DEF Removes
  <2> HIDE DEF X
  <2> QED BY <1>1, <1>3, <2>1, GarbageNat, UnlinkFine, Zenon
<1>6. CASE Transfers(fs)
  <2>1. PICK path \in session.paths, g \in Garbage, grows \in BOOLEAN :
          \/ fs = AndRead(do_open(X, path, FALSE, g), grows, g)
          \/ fs = AndEdited(do_open(X, path, FALSE, g), g)
    BY <1>6, Zenon DEF Transfers
  <2> HIDE DEF X
  <2>2. Opn(X, do_open(X, path, FALSE, g)) /\ g \in Nat
    BY <1>1, <1>3, GarbageNat, OpenFine, Zenon
  <2> QED BY <2>1, <2>2, ReadFine, EditedFine, Zenon
<1>7. ASSUME NEW dir \in Seq(Names), fs = do_open(X, Append(dir, ""), FALSE, 0).fs
      PROVE  Fine(fs)
  <2> HIDE DEF X
  <2>1. Opn(X, do_open(X, Append(dir, ""), FALSE, 0))
    BY <1>1, DirPath, OpenFine, Zenon
  <2> QED BY <1>7, <2>1, Zenon DEF Opn
<1>8. CASE Descends(fs)
  BY <1>3, <1>7, <1>8, Zenon DEF Descends
<1>9. CASE Climbs(fs)
  <2>1. PICK parent : /\ parent = cwd \/ (parent = Front(cwd) /\ cwd # <<>>)
                      /\ fs = do_open(X, Append(parent, ""), FALSE, 0).fs
    BY <1>9, Zenon DEF Climbs
  <2>2. parent \in Seq(Names)
    BY <1>2, <2>1, FrontIs, Zenon
  <2> QED BY <1>7, <2>1, <2>2, Zenon
<1>10. CASE Lists(fs)
  <2>1. fs = do_ls(X, cwd)
    BY <1>10, Zenon DEF Lists
  <2> HIDE DEF X
  <2> QED BY <1>1, <1>2, <2>1, DirPath, LsFine, Zenon
<1> QED BY <1>4, <1>5, <1>6, <1>8, <1>9, <1>10, Zenon DEF Result

LEMMA BootSane ==
  ASSUME NEW d \in DiskType, NEW tab, NEW fds, tab = Booted(d).tab, fds = Booted(d).filp
  PROVE  StateOf(d, tab, fds) \in FsType /\ Cache(StateOf(d, tab, fds))
<1> DEFINE X == StateOf(d, tab, fds)
<1>1. Boots(d, tab, fds)
  BY BootIs, Zenon
<1>2. X \in FsType /\ X.tab = tab
  <2>1. tab \in [Slots -> SlotType] /\ fds \in [Fds -> DescType]
    BY <1>1, Zenon DEF Boots
  <2>2. X \in FsType
    BY <2>1, StateOfType, Zenon
  <2>3. X.tab = tab
    BY Zenon DEF StateOf
  <2> QED BY <2>2, <2>3
<1> HIDE DEF X
<1>3. NoInode.cnt = 0 /\ 1 # 2 /\ 0 >= 0 /\ 2 >= 0 /\ 1 # 0 /\ 2 # 0
  BY NoInodeIs
<1>4. /\ tab[1].num = 1 /\ tab[2].num = 2 /\ tab[2].cnt = 2
      /\ \A s \in Slots : s \notin {1, 2} => tab[s].cnt = 0
  BY <1>1, NoInodeIs, Zenon DEF Boots
<1>5. Cache(X)
  <2>1. ASSUME NEW s \in Slots, NEW t \in Slots, tab[s].cnt # 0,
               tab[t].cnt # 0, tab[s].num = tab[t].num
        PROVE  s = t
    <3>1. s \in {1, 2} /\ t \in {1, 2}
      BY <1>4, <2>1, Zenon
    <3>2. tab[1].num # tab[2].num
      BY <1>3, <1>4, Zenon
    <3>3. CASE s = 1 /\ t = 2
      BY <2>1, <3>2, <3>3, Zenon
    <3>4. CASE s = 2 /\ t = 1
      BY <2>1, <3>2, <3>4, Zenon
    <3> QED BY <3>1, <3>3, <3>4, Zenon
  <2>2. ASSUME NEW s \in Slots, s # 1
        PROVE  /\ tab[s].cnt # 0 => tab[s].num # tab[1].num
               /\ tab[s].cnt >= 0
    <3>1. CASE s = 2
      BY <1>3, <1>4, <3>1, Zenon
    <3>2. CASE s # 2
      BY <1>3, <1>4, <2>2, <3>2, Zenon
    <3> QED BY <3>1, <3>2
  <2> QED BY <1>2, <2>1, <2>2, Zenon DEF Cache
<1> QED BY <1>2, <1>5 DEF X

(* Every step keeps the tables as they should be, for every session.       *)
LEMMA SaneStart ==
  ASSUME Init
  PROVE  Sane
<1>1. /\ disk = mkfs /\ inode_table = Booted(mkfs).tab /\ filp = Booted(mkfs).filp
      /\ session \in Sessions /\ cwd = <<>>
  BY Zenon DEF Init
<1>2. FsState \in FsType /\ Cache(FsState)
  BY <1>1, MkfsIs, BootSane, StateIs, Zenon
<1>3. cwd \in Seq(Names)
  BY <1>1
<1> QED BY <1>1, <1>2, <1>3, Zenon DEF Sane

LEMMA SanePower ==
  ASSUME Sane, NEW d \in DiskType, PowerOn(d)
  PROVE  Sane'
<1>1. /\ disk' = d /\ inode_table' = Booted(d).tab /\ filp' = Booted(d).filp
      /\ session' = session /\ cwd' = <<>>
  BY Zenon DEF PowerOn
<1>2. session' \in Sessions
  BY <1>1, Zenon DEF Sane
<1>3. FsState' = StateOf(d, inode_table', filp')
  BY <1>1, Zenon DEF FsState, StateOf
<1>a. StateOf(d, inode_table', filp') \in FsType /\ Cache(StateOf(d, inode_table', filp'))
  BY <1>1, BootSane, Zenon
<1>4. (FsState \in FsType /\ Cache(FsState))'
  BY <1>3, <1>a, Zenon DEF Cache
<1>5. cwd' \in Seq(Names)
  BY <1>1
<1> QED BY <1>2, <1>4, <1>5, Zenon DEF Sane

LEMMA SaneEnds ==
  ASSUME Sane, NEW fs, Fine(fs), NEW c, NewCwd(c), NEW t, Ends(fs, c, t)
  PROVE  Sane'
<1>1. session' \in Sessions
  BY Zenon DEF Ends, Sane
<1>2. CASE ~Ok(fs)
  <2>1. UNCHANGED <<disk, inode_table, filp, cwd, told>>
    BY <1>2, Zenon DEF Ends, Ok
  <2>2. FsState' = FsState
    BY <2>1, Zenon DEF FsState
  <2> QED BY <1>1, <2>1, <2>2, Zenon DEF Sane, Cache
<1>3. CASE Ok(fs)
  <2>1. disk' = fs.disk /\ inode_table' = fs.tab /\ filp' = fs.filp /\ cwd' = c
    BY <1>3, Zenon DEF Ends, Ok
  <2>2. FsState' = StateOf(fs.disk, fs.tab, fs.filp)
    BY <2>1, Zenon DEF FsState, StateOf
  <2>3. fs \in FsType /\ Cache(fs)
    BY <1>3, Zenon DEF Fine
  <2>4. FsState' \in FsType
    BY <2>2, <2>3, FsFields, StateOfType, Zenon
  <2>5. SameCache(fs, StateOf(fs.disk, fs.tab, fs.filp))
    BY Zenon DEF SameCache, StateOf
  <2>6. Cache(StateOf(fs.disk, fs.tab, fs.filp))
    BY <2>3, <2>5, CacheSame, Zenon
  <2>7. Cache(FsState)'
    BY <2>2, <2>6, Zenon DEF Cache
  <2>8. cwd' \in Seq(Names)
    BY <2>1, CwdPath, Zenon DEF Sane
  <2> QED BY <1>1, <2>4, <2>7, <2>8, Zenon DEF Sane
<1> QED BY <1>2, <1>3

LEMMA WritesType ==
  ASSUME NEW fs \in FsType, NEW i \in DOMAIN fs.writes
  PROVE  fs.writes[i] \in DiskType
<1> DEFINE w == fs.writes
<1>1. w \in Seq(DiskType)
  BY FsFields, Zenon
<1>2. i \in DOMAIN w
  OBVIOUS
<1> HIDE DEF w
<1>3. w[i] \in DiskType
  BY <1>1, <1>2
<1> QED BY <1>3, Zenon DEF w

LEMMA SaneNext ==
  ASSUME Sane, [Next]_vars
  PROVE  Sane'
<1>1. CASE Commanded
  <2>1. PICK fs, c, t : Result(fs) /\ NewCwd(c) /\ Ends(fs, c, t)
    BY <1>1, Zenon DEF Commanded
  <2>2. Fine(fs)
    BY <2>1, ResultFine
  <2> QED BY <2>1, <2>2, SaneEnds
<1>2. CASE Cut
  <2>1. PICK fs : Creates(fs) /\ \E i \in DOMAIN fs.writes : PowerOn(fs.writes[i])
    BY <1>2, Zenon DEF Cut
  <2>2. PICK i \in DOMAIN fs.writes : PowerOn(fs.writes[i])
    BY <2>1
  <2>3. fs \in FsType
    BY <2>1, CreatesFine, Zenon DEF Fine
  <2> QED BY <2>2, <2>3, WritesType, SanePower, Zenon
<1>3. CASE PowerOn(disk)
  <2>1. disk \in DiskType
    BY StateFields, FsFields, Zenon DEF Sane
  <2> QED BY <1>3, <2>1, SanePower, Zenon
<1>4. CASE UNCHANGED vars
  <2>1. /\ UNCHANGED <<session, cwd>> /\ FsState' = FsState
    BY <1>4, Zenon DEF vars, FsState
  <2> QED BY <2>1, Zenon DEF Sane, Cache
<1> QED BY <1>1, <1>2, <1>3, <1>4, NextCases, Zenon

(* An inode has one slot in use, whatever the session does (get_inode,     *)
(* put_inode, and new_inode, which fills the slot it got anew).            *)
THEOREM OneSlotPerInodeAlways == Spec => []OneSlotPerInode
<1>1. Init => Sane
  BY SaneStart
<1>2. Sane /\ [Next]_vars => Sane'
  BY SaneNext
<1>3. Sane => OneSlotPerInode
  BY StateFields, Zenon DEF Sane, Cache, OneSlotPerInode
<1> QED BY <1>1, <1>2, <1>3, PTL DEF Spec

Nodes == 1..(NR_INODES + 1)

(* An inode that an entry may name: it is marked, and has its own sectors  *)
(* if it is not the terminal.                                              *)
Named(d, nr) == nr \in d.imap /\ (nr # 2 => d.node[nr].start # 0)

(* The disk in a session without removals.  *)
EntriesOk(d) ==
  /\ \A e \in Starts, i \in 1..DIR_SLOTS :
       d.dir[e][i].inode_nr # 0 => e # 0 /\ Named(d, d.dir[e][i].inode_nr)
  /\ \A e, f \in Starts, i, j \in 1..DIR_SLOTS :
       /\ d.dir[e][i].inode_nr = d.dir[f][j].inode_nr /\ d.dir[e][i].inode_nr # 0
       => e = f /\ i = j

NodesOk(d) ==
  /\ \A n \in Nodes : d.node[n].start # 0 => n \in d.imap /\ d.node[n].start \in d.smap
  /\ \A m, n \in Nodes : d.node[m].start = d.node[n].start /\ d.node[m].start # 0 => m = n
  /\ {1, 2} \subseteq d.imap /\ d.node[2].mode = "chr" /\ d.node[1].start # 0

DiskOk(d) == EntriesOk(d) /\ NodesOk(d)

(* A slot of the cache, whether its count is 0 or not.  *)
SlotOk(d, s, p) ==
  /\ p.num = 2 => s = 2
  /\ p.num = 1 => p.i_node_length = "chr"
  /\ p.num \notin {0, 2} => /\ p.num \in d.imap /\ p.start # 0
                            /\ p.start = d.node[p.num].start

TabOk(fs, k) ==
  /\ \A s \in Slots : SlotOk(fs.disk, s, fs.tab[s])
  /\ fs.tab[1].num # 0
  /\ fs.tab[2].num = 2 /\ fs.tab[2].mode = "chr" /\ fs.tab[2].cnt >= k

Sound(fs, k) == DiskOk(fs.disk) /\ TabOk(fs, k)

WritesOk(fs) == \A i \in DOMAIN fs.writes : DiskOk(fs.writes[i])

Whole(fs, k) == fs \in FsType /\ WritesOk(fs) /\ (Ok(fs) => Sound(fs, k))

LEMMA SlotTwo == 2 \in Slots /\ 1 \in Slots /\ 1 # 2 /\ 0 # 2 /\ 0 # 1
BY Constants DEF Slots

LEMMA WroteWhole ==
  ASSUME NEW fs \in FsType, NEW gs, NEW d, Wrote(fs, gs, d), WritesOk(fs), Ok(fs) => DiskOk(d)
  PROVE  WritesOk(gs)
<1>1. gs.writes = IF fs.cause = "" THEN Append(fs.writes, d) ELSE fs.writes
  BY Zenon DEF Wrote
<1>2. CASE fs.cause # ""
  BY <1>1, <1>2, Zenon DEF WritesOk
<1>3. CASE fs.cause = ""
  <2> DEFINE u == fs.writes
             w == gs.writes
  <2>1. w = Append(u, d) /\ d \in DiskType /\ u \in Seq(DiskType)
    BY <1>1, <1>3, FsFields, Zenon DEF Wrote
  <2> HIDE DEF u, w
  <2>2. \A i \in DOMAIN w : w[i] = d \/ (i \in DOMAIN u /\ w[i] = u[i])
    <3>1. Len(u) \in Nat /\ DOMAIN u = 1..Len(u) /\ Len(w) = Len(u) + 1 /\ w[Len(u) + 1] = d
          /\ DOMAIN w = 1..Len(w) /\ \A i \in 1..Len(u) : w[i] = u[i]
      BY <2>1
    <3> QED BY <3>1
  <2>3. \A i \in DOMAIN u : DiskOk(u[i])
    BY Zenon DEF WritesOk, u
  <2>4. DiskOk(d)
    BY <1>3, Zenon DEF Ok
  <2>5. \A i \in DOMAIN w : DiskOk(w[i])
    BY <2>2, <2>3, <2>4, Zenon
  <2> QED BY <2>5, Zenon DEF w, WritesOk
<1> QED BY <1>2, <1>3

(* What gets an inode that may be named keeps the cache as it should be.   *)
LEMMA GotSound ==
  ASSUME NEW fs \in FsType, NEW k \in Nat \ {0}, Sound(fs, k), NEW num, Named(fs.disk, num),
         NEW got, Got(fs, num, got), Ok(got.fs)
  PROVE  /\ Sound(got.fs, k) /\ got.slot \in Slots
         /\ got.slot = 2 => got.fs.tab[2].cnt >= k + 1
         /\ got.fs.tab[got.slot].mode = "dir" => got.slot # 2
         /\ got.fs.tab[got.slot].num = num
<1> DEFINE gs == got.fs
           s == got.slot
           p == fs.tab[s]
           q == gs.tab[s]
<1>1. OneSlot(fs, gs, s, p, q)
  BY Zenon DEF Got
<1>2. s \in Slots /\ gs.disk = fs.disk /\ \A u \in Slots : u # s => gs.tab[u] = fs.tab[u]
  BY <1>1, Zenon DEF OneSlot
<1>3. /\ \A u \in Slots : SlotOk(fs.disk, u, fs.tab[u])
      /\ fs.tab[1].num # 0
      /\ fs.tab[2].num = 2 /\ fs.tab[2].mode = "chr" /\ fs.tab[2].cnt >= k
  BY Zenon DEF Sound, TabOk
<1>4. fs.tab[2].cnt \in Int /\ p.cnt \in Int /\ q.cnt \in Int
  BY <1>1, SlotTwo, Counts, SlotParts, Zenon DEF OneSlot
<1>5. "dir" # "chr"
  OBVIOUS
<1>6. CASE Hit(num, p, q)
  <2>1. p.num = num /\ q.cnt = p.cnt + 1 /\ SameInode(p, q)
    BY <1>6, Zenon DEF Hit
  <2>2. SlotOk(fs.disk, s, q)
    <3>1. SlotOk(fs.disk, s, p)
      BY <1>2, <1>3, Zenon
    <3> HIDE DEF p, q
    <3> QED BY <2>1, <3>1, Zenon DEF SlotOk, SameInode
  <2>3. \A u \in Slots : SlotOk(gs.disk, u, gs.tab[u])
    <3> SUFFICES ASSUME NEW u \in Slots PROVE SlotOk(gs.disk, u, gs.tab[u])
      BY Zenon
    <3>1. CASE u = s
      BY <1>2, <2>2, <3>1, Zenon
    <3>2. CASE u # s
      BY <1>2, <1>3, <3>2, Zenon
    <3> QED BY <3>1, <3>2
  <2>4. gs.tab[1].num = fs.tab[1].num
    <3>1. CASE s = 1
      BY <2>1, <3>1, Zenon DEF SameInode
    <3>2. CASE s # 1
      BY <1>2, <3>2, SlotTwo, Zenon
    <3> QED BY <3>1, <3>2
  <2>5. /\ gs.tab[2].num = 2 /\ gs.tab[2].mode = "chr" /\ gs.tab[2].cnt >= k
        /\ s = 2 => gs.tab[2].cnt >= k + 1
    <3>1. CASE s = 2
      <4>1. gs.tab[2].num = 2 /\ gs.tab[2].mode = "chr"
        BY <1>3, <2>1, <3>1, Zenon DEF SameInode
      <4>2. gs.tab[2].cnt = fs.tab[2].cnt + 1
        BY <2>1, <3>1, Zenon
      <4> DEFINE x == fs.tab[2].cnt
                 y == gs.tab[2].cnt
      <4>3. x \in Int /\ x >= k /\ y = x + 1
        BY <1>3, <1>4, <4>2, Zenon
      <4> HIDE DEF x, y
      <4>4. y >= k /\ y >= k + 1
        BY <4>3
      <4> QED BY <4>1, <4>4, Zenon DEF y
    <3>2. CASE s # 2
      BY <1>2, <1>3, <3>2, SlotTwo, Zenon
    <3> QED BY <3>1, <3>2
  <2>6. q.mode = "dir" => s # 2
    <3> SUFFICES ASSUME q.mode = "dir", s = 2 PROVE FALSE
      OBVIOUS
    <3>1. q.mode = "chr"
      BY <2>5, Zenon
    <3> QED BY <1>5, <3>1, Zenon
  <2>7. q.num = num
    BY <2>1, Zenon DEF SameInode
  <2>8. DiskOk(gs.disk)
    BY <1>2, Zenon DEF Sound
  <2> HIDE DEF gs, s, p, q
  <2> QED BY <1>2, <1>3, <2>3, <2>4, <2>5, <2>6, <2>7, <2>8, Zenon DEF Sound, TabOk, gs, s, q
<1>7. CASE Load(fs, num, s, p, q)
  <2>1. /\ p.cnt = 0 /\ q.num = num /\ q.start = fs.disk.node[num].start
        /\ q.i_node_length = fs.disk.node[num + 1].mode
        /\ \A u \in Slots : fs.tab[u].cnt # 0 => fs.tab[u].num # num
    BY <1>7, Zenon DEF Load
  <2>2. fs.tab[2].cnt # 0
    BY <1>3, <1>4
  <2>3. num # 2 /\ s # 2
    BY <1>3, <2>1, <2>2, SlotTwo, Zenon
  <2>4. num \in fs.disk.imap /\ fs.disk.node[num].start # 0
    BY <2>3, Zenon DEF Named
  <2>5. fs.disk.imap \subseteq Inodes
    BY FsFields, DiskFields, Zenon
  <2>6. num # 0 /\ (num = 1 => num + 1 = 2)
    BY <2>4, <2>5, NoZero
  <2>7. fs.disk.node[2].mode = "chr"
    BY Zenon DEF Sound, DiskOk, NodesOk
  <2>8. SlotOk(fs.disk, s, q)
    <3>1. q.num = 1 => q.i_node_length = "chr"
      BY <2>1, <2>6, <2>7, Zenon
    <3>2. q.num # 2
      BY <2>1, <2>3, Zenon
    <3>3. q.num \in fs.disk.imap /\ q.start # 0 /\ q.start = fs.disk.node[q.num].start
      BY <2>1, <2>4, Zenon
    <3> HIDE DEF q
    <3> QED BY <3>1, <3>2, <3>3, Zenon DEF SlotOk
  <2>9. \A u \in Slots : SlotOk(gs.disk, u, gs.tab[u])
    <3> SUFFICES ASSUME NEW u \in Slots PROVE SlotOk(gs.disk, u, gs.tab[u])
      BY Zenon
    <3>1. CASE u = s
      BY <1>2, <2>8, <3>1, Zenon
    <3>2. CASE u # s
      BY <1>2, <1>3, <3>2, Zenon
    <3> QED BY <3>1, <3>2
  <2>10. gs.tab[1].num # 0
    <3>1. CASE s = 1
      BY <2>1, <2>6, <3>1, Zenon
    <3>2. CASE s # 1
      BY <1>2, <1>3, <3>2, SlotTwo, Zenon
    <3> QED BY <3>1, <3>2
  <2>11. gs.tab[2].num = 2 /\ gs.tab[2].mode = "chr" /\ gs.tab[2].cnt >= k
    BY <1>2, <1>3, <2>3, SlotTwo, Zenon
  <2>12. DiskOk(gs.disk)
    BY <1>2, Zenon DEF Sound
  <2> HIDE DEF gs, s, p, q
  <2> QED BY <1>2, <2>1, <2>3, <2>9, <2>10, <2>11, <2>12, Zenon DEF Sound, TabOk, gs, s, q
<1> QED BY <1>6, <1>7, Zenon DEF Got, Ok

LEMMA PutSound ==
  ASSUME NEW fs \in FsType, NEW k \in Nat \ {0}, Sound(fs, k), NEW s \in Slots,
         s = 2 => fs.tab[2].cnt >= k + 1
  PROVE  Sound(put_inode(fs, s), k)
<1> DEFINE gs == put_inode(fs, s)
<1>1. /\ OneSlot(fs, gs, s, fs.tab[s], gs.tab[s])
      /\ gs.tab[s].cnt = fs.tab[s].cnt - 1 /\ SameInode(fs.tab[s], gs.tab[s])
  BY PutInode, Zenon
<1> HIDE DEF gs
<1>2. gs.disk = fs.disk /\ \A u \in Slots : u # s => gs.tab[u] = fs.tab[u]
  BY <1>1, Zenon DEF OneSlot
<1>3. /\ \A u \in Slots : SlotOk(fs.disk, u, fs.tab[u])
      /\ fs.tab[1].num # 0
      /\ fs.tab[2].num = 2 /\ fs.tab[2].mode = "chr" /\ fs.tab[2].cnt >= k
  BY Zenon DEF Sound, TabOk
<1>4. \A u \in Slots : SameInode(fs.tab[u], gs.tab[u])
  <2> SUFFICES ASSUME NEW u \in Slots PROVE SameInode(fs.tab[u], gs.tab[u])
    BY Zenon
  <2>1. CASE u = s
    BY <1>1, <2>1, Zenon
  <2>2. CASE u # s
    BY <1>2, <2>2, Zenon DEF SameInode
  <2> QED BY <2>1, <2>2
<1>5. \A u \in Slots : SlotOk(gs.disk, u, gs.tab[u])
  <2> SUFFICES ASSUME NEW u \in Slots PROVE SlotOk(gs.disk, u, gs.tab[u])
    BY Zenon
  <2>1. SlotOk(fs.disk, u, fs.tab[u]) /\ SameInode(fs.tab[u], gs.tab[u])
    BY <1>3, <1>4, Zenon
  <2> QED BY <1>2, <2>1, Zenon DEF SlotOk, SameInode
<1>6. gs.tab[1].num # 0 /\ gs.tab[2].num = 2 /\ gs.tab[2].mode = "chr"
  BY <1>3, <1>4, SlotTwo, Zenon DEF SameInode
<1>7. gs.tab[2].cnt >= k
  <2>1. CASE s = 2
    <3> DEFINE x == fs.tab[2].cnt
               y == gs.tab[2].cnt
    <3>1. x \in Int /\ y = x - 1 /\ x >= k + 1
      BY <1>1, <2>1, SlotTwo, Counts, Zenon
    <3> HIDE DEF x, y
    <3>2. y >= k
      BY <3>1
    <3> QED BY <3>2 DEF y
  <2>2. CASE s # 2
    BY <1>2, <1>3, <2>2, SlotTwo, Zenon
  <2> QED BY <2>1, <2>2
<1>8. DiskOk(gs.disk)
  BY <1>2, Zenon DEF Sound
<1>9. Sound(gs, k)
  BY <1>5, <1>6, <1>7, <1>8, Zenon DEF Sound, TabOk
<1> QED BY <1>9 DEF gs

(* The walks that start where everything is as it should be.  *)
NamedEntries(d) == {entry \in EntryType : entry.inode_nr # 0 => Named(d, entry.inode_nr)}

Stands(w) == w.at # 2 /\ w.fs.tab[w.at].num # 0

SoundWalks(fs, k) ==
  {w \in WalkType : /\ SameButTab(fs, w.fs)
                    /\ Ok(w.fs) => Sound(w.fs, k) /\ Stands(w)}

LEMMA SoundLook ==
  ASSUME NEW w \in WalkType, NEW k \in Nat \ {0}, NEW entry, Named(w.fs.disk, entry.inode_nr),
         NEW got, Got(w.fs, entry.inode_nr, got), NEW r \in WalkType,
         WentIn(w, r, got) \/ Kept(w, r, got),
         entry.inode_nr # 0, SameButTab(w.fs, r.fs), Ok(r.fs), Sound(w.fs, k), Stands(w)
  PROVE  Sound(r.fs, k) /\ Stands(r)
<1>0. w.fs \in FsType /\ w.at \in Slots /\ got.fs \in FsType
  BY WalkFields, Zenon DEF Got, OneSlot
<1>1. Ok(got.fs)
  <2>1. CASE WentIn(w, r, got)
    <3>1. r.fs = put_inode(got.fs, w.at)
      BY <2>1, Zenon DEF WentIn
    <3> DEFINE hs == put_inode(got.fs, w.at)
    <3>2. hs.cause = got.fs.cause
      BY <1>0, PutInode, Zenon
    <3> HIDE DEF hs
    <3>3. r.fs = hs
      BY <3>1, Zenon DEF hs
    <3> QED BY <3>2, <3>3, Zenon DEF Ok
  <2>2. CASE Kept(w, r, got)
    BY <2>2, Zenon DEF Kept
  <2> QED BY <2>1, <2>2
<1>2. /\ Sound(got.fs, k) /\ got.slot \in Slots
      /\ got.fs.tab[got.slot].mode = "dir" => got.slot # 2
      /\ got.fs.tab[got.slot].num = entry.inode_nr
  <2> DEFINE h == w.fs
             num == entry.inode_nr
  <2>1. /\ h \in FsType /\ Sound(h, k) /\ Named(h.disk, num) /\ Got(h, num, got)
        /\ Ok(got.fs) /\ k \in Nat \ {0}
    BY <1>0, <1>1, Zenon
  <2> HIDE DEF h, num
  <2>2. /\ Sound(got.fs, k) /\ got.slot \in Slots
        /\ got.fs.tab[got.slot].mode = "dir" => got.slot # 2
        /\ got.fs.tab[got.slot].num = num
    BY <2>1, GotSound, SMT
  <2> QED BY <2>2, Zenon DEF num
<1>3. CASE WentIn(w, r, got)
  <2>1. r.fs = put_inode(got.fs, w.at) /\ r.at = got.slot /\ got.fs.tab[got.slot].mode = "dir"
    BY <1>3, Zenon DEF WentIn
  <2>2. Sound(put_inode(got.fs, w.at), k)
    BY <1>0, <1>2, PutSound, Zenon DEF Stands
  <2> DEFINE hs == put_inode(got.fs, w.at)
  <2>3. /\ OneSlot(got.fs, hs, w.at, got.fs.tab[w.at], hs.tab[w.at])
        /\ SameInode(got.fs.tab[w.at], hs.tab[w.at])
    BY <1>0, PutInode, Zenon
  <2> HIDE DEF hs
  <2>4. hs.tab[r.at].num = got.fs.tab[r.at].num
    <3>1. CASE r.at = w.at
      BY <2>3, <3>1, Zenon DEF SameInode
    <3>2. CASE r.at # w.at
      BY <1>2, <2>1, <2>3, <3>2, Zenon DEF OneSlot
    <3> QED BY <3>1, <3>2
  <2>5. hs.tab[r.at].num # 0
    BY <1>2, <2>1, <2>4, Zenon
  <2>6. Stands(r)
    BY <1>2, <2>1, <2>5, Zenon DEF Stands, hs
  <2> QED BY <2>1, <2>2, <2>6, Zenon
<1>4. CASE Kept(w, r, got)
  <2>1. r.fs = got.fs /\ r.at = w.at
    BY <1>4, Zenon DEF Kept
  <2>2. got.fs.tab[w.at].num # 0
    <3>1. CASE w.at = got.slot
      BY <1>2, <3>1, Zenon
    <3>2. CASE w.at # got.slot
      BY <1>0, <3>2, Zenon DEF Got, OneSlot, Stands
    <3> QED BY <3>1, <3>2
  <2>3. Stands(r)
    BY <2>1, <2>2, Zenon DEF Stands
  <2> QED BY <1>2, <2>1, <2>3, Zenon
<1> QED BY <1>3, <1>4

LEMMA SoundWalkSet ==
  ASSUME NEW fs \in FsType, NEW k \in Nat \ {0}, DiskOk(fs.disk)
  PROVE  WalkSet(SoundWalks(fs, k), NamedEntries(fs.disk))
<1> DEFINE S == SoundWalks(fs, k)
           E == NamedEntries(fs.disk)
<1>1. S \subseteq WalkType /\ E \subseteq EntryType
  BY Zenon DEF SoundWalks, NamedEntries
<1>2. ASSUME NEW w \in S PROVE [w EXCEPT !.found = FALSE] \in S
  <2> DEFINE x == [w EXCEPT !.found = FALSE]
  <2>1. x \in WalkType /\ x.fs = w.fs /\ x.at = w.at
    BY <1>1, WithFound, Zenon
  <2> HIDE DEF x
  <2>2. x \in S
    BY <2>1, Zenon DEF SoundWalks, Stands
  <2> QED BY <2>2 DEF x
<1>3. ASSUME NEW w \in S, NEW e \in Starts, NEW i \in 1..DIR_SLOTS
      PROVE  w.fs.disk.dir[e][i] \in E
  <2>1. w \in WalkType /\ w.fs.disk = fs.disk
    BY Zenon DEF SoundWalks, SameButTab
  <2>2. w.fs.disk.dir[e][i] \in EntryType
    BY <2>1, AnyEntry, Zenon
  <2> QED BY <2>1, <2>2, Zenon DEF NamedEntries, DiskOk, EntriesOk
<1>4. ASSUME NEW w \in S, NEW entry \in E, NEW r \in WalkType, LookedAt(w, entry, r)
      PROVE  r \in S
  <2>1. SameButTab(w.fs, r.fs) /\ SameButTab(fs, w.fs) /\ w \in WalkType /\ entry \in EntryType
    BY <1>1, <1>4, LookFrame, Zenon DEF SoundWalks
  <2>2. SameButTab(fs, r.fs) /\ (Ok(r.fs) => Ok(w.fs)) /\ w.fs.disk = fs.disk
    BY <2>1, Zenon DEF SameButTab
  <2>3. Ok(r.fs) => Sound(r.fs, k) /\ Stands(r)
    <3> SUFFICES ASSUME Ok(r.fs) PROVE Sound(r.fs, k) /\ Stands(r)
      OBVIOUS
    <3>1. Sound(w.fs, k) /\ Stands(w)
      BY <2>2, Zenon DEF SoundWalks
    <3>2. CASE r = w
      BY <3>1, <3>2, Zenon
    <3>3. ASSUME entry.inode_nr \in Inodes, NEW got, Got(w.fs, entry.inode_nr, got),
                 WentIn(w, r, got) \/ Kept(w, r, got)
          PROVE  Sound(r.fs, k) /\ Stands(r)
      <4>1. entry.inode_nr # 0
        BY <3>3, NoZero, Zenon
      <4>2. Named(w.fs.disk, entry.inode_nr)
        BY <2>2, <4>1, Zenon DEF NamedEntries
      <4> QED BY <2>1, <3>1, <3>3, <4>1, <4>2, SoundLook, Zenon
    <3> QED BY <1>4, <3>2, <3>3, Zenon DEF LookedAt
  <2> QED BY <2>2, <2>3, Zenon DEF SoundWalks
<1> HIDE DEF S, E
<1> QED BY <1>1, <1>2, <1>3, <1>4, Zenon DEF WalkSet, S, E

LEMMA SoundWalk ==
  ASSUME NEW fs \in FsType, NEW k \in Nat \ {0}, NEW path, PathOk(path), Ok(fs) => Sound(fs, k),
         NEW r, r = strip_path(fs, path)
  PROVE  /\ r \in WalkType /\ SameButTab(fs, r.fs)
         /\ Ok(r.fs) => Ok(fs) /\ Sound(r.fs, k) /\ Stands(r)
<1>1. CASE ~Ok(fs)
  <2>1. strip_path(fs, path) \in CacheWalks(fs)
    BY <1>1, CacheWalk, Zenon
  <2>2. r \in WalkType /\ SameButTab(fs, r.fs)
    BY <2>1, Zenon DEF CacheWalks
  <2> QED BY <1>1, <2>2, Zenon DEF SameButTab
<1>2. CASE Ok(fs)
  <2> DEFINE x == [fs |-> fs, at |-> 1, found |-> TRUE]
  <2>1. x \in WalkType /\ x.fs = fs /\ x.at = 1
    BY SlotOne, WalkIs, Zenon
  <2> HIDE DEF x
  <2>a. Stands(x)
    BY <1>2, <2>1, SlotTwo, Zenon DEF Stands, Sound, TabOk
  <2>2. x \in SoundWalks(fs, k)
    BY <1>2, <2>1, <2>a, Zenon DEF SoundWalks, SameButTab
  <2>3. WalkSet(SoundWalks(fs, k), NamedEntries(fs.disk))
    BY <1>2, SoundWalkSet, Zenon DEF Sound
  <2>4. strip_path(fs, path) \in SoundWalks(fs, k)
    BY <2>2, <2>3, WalkIn, Zenon DEF x
  <2>5. r \in SoundWalks(fs, k)
    BY <2>4, Zenon
  <2> QED BY <1>2, <2>5, Zenon DEF SoundWalks
<1> QED BY <1>1, <1>2

LEMMA WritesSame ==
  ASSUME NEW fs, NEW gs, gs.writes = fs.writes, WritesOk(fs)
  PROVE  WritesOk(gs)
BY Zenon DEF WritesOk

LEMMA WholeWalk ==
  ASSUME NEW k \in Nat \ {0}, NEW fs, Whole(fs, k), NEW path, PathOk(path),
         NEW r, r = strip_path(fs, path)
  PROVE  /\ r \in WalkType /\ SameButTab(fs, r.fs) /\ Whole(r.fs, k)
         /\ Ok(r.fs) => Ok(fs) /\ Stands(r)
<1>1. /\ r \in WalkType /\ SameButTab(fs, r.fs)
      /\ Ok(r.fs) => Ok(fs) /\ Sound(r.fs, k) /\ Stands(r)
  BY SoundWalk, Zenon DEF Whole
<1>2. WritesOk(r.fs)
  BY <1>1, WritesSame, Zenon DEF SameButTab, Whole
<1> QED BY <1>1, <1>2, Zenon DEF Whole, SameButTab

(* A write of an inode: its own sectors stay, or are new ones that no      *)
(* inode has.                                                              *)
OwnStart(d, p) ==
  \/ p.start = d.node[p.num].start
  \/ p.start \in d.smap /\ \A n \in Nodes : d.node[n].start # p.start

Writable(d, p) ==
  /\ p.num \notin {0, 2} /\ p.num \in d.imap /\ p.start # 0
  /\ p.num = 1 => p.i_node_length = "chr"
  /\ OwnStart(d, p)

LEMMA NodeNumbers ==
  ASSUME NEW n \in Inodes
  PROVE  n \in Nodes /\ n + 1 \in Nodes /\ n + 1 # n /\ (n + 1 = 2 => n = 1)
BY Constants DEF Inodes, Nodes

LEMMA EntriesStay ==
  ASSUME NEW d, NEW e, EntriesOk(d), e.dir = d.dir, \A nr : Named(d, nr) => Named(e, nr)
  PROVE  EntriesOk(e)
<1>1. ASSUME NEW x \in Starts, NEW i \in 1..DIR_SLOTS, e.dir[x][i].inode_nr # 0
      PROVE  x # 0 /\ Named(e, e.dir[x][i].inode_nr)
  <2>1. d.dir[x][i].inode_nr # 0 /\ e.dir[x][i].inode_nr = d.dir[x][i].inode_nr
    BY <1>1, Zenon
  <2>2. x # 0 /\ Named(d, d.dir[x][i].inode_nr)
    BY <2>1, Zenon DEF EntriesOk
  <2> QED BY <2>1, <2>2, Zenon
<1>2. ASSUME NEW x \in Starts, NEW f \in Starts, NEW i \in 1..DIR_SLOTS, NEW j \in 1..DIR_SLOTS,
             e.dir[x][i].inode_nr = e.dir[f][j].inode_nr, e.dir[x][i].inode_nr # 0
      PROVE  x = f /\ i = j
  <2>1. d.dir[x][i].inode_nr = d.dir[f][j].inode_nr /\ d.dir[x][i].inode_nr # 0
    BY <1>2, Zenon
  <2> QED BY <2>1, Zenon DEF EntriesOk
<1> QED BY <1>1, <1>2 DEF EntriesOk

LEMMA SyncSound ==
  ASSUME NEW fs \in FsType, NEW gs, NEW s \in Slots, NEW garbage, Synced(fs, gs, s, garbage),
         DiskOk(fs.disk), Writable(fs.disk, fs.tab[s])
  PROVE  /\ DiskOk(gs.disk) /\ gs.disk.imap = fs.disk.imap
         /\ gs.disk.node[fs.tab[s].num].start = fs.tab[s].start
         /\ \A n \in Nodes : n # fs.tab[s].num => gs.disk.node[n].start = fs.disk.node[n].start
<1> DEFINE p == fs.tab[s]
           old == fs.disk.node
           new == gs.disk.node
           num == p.num
<1>1. num \in Inodes /\ num \notin {0, 2} /\ num \in fs.disk.imap /\ p.start # 0
      /\ (num = 1 => p.i_node_length = "chr") /\ OwnStart(fs.disk, p)
  BY FsFields, DiskFields, Zenon DEF Writable
<1>2. num \in Nodes /\ num + 1 \in Nodes /\ num + 1 # num /\ (num + 1 = 2 => num = 1)
  BY <1>1, NodeNumbers, Zenon
<1>3. /\ gs.disk.imap = fs.disk.imap /\ gs.disk.smap = fs.disk.smap /\ gs.disk.dir = fs.disk.dir
      /\ \A n \in Nodes :
           /\ n = num => new[n].mode = p.mode /\ new[n].start = p.start
           /\ n = num + 1 => new[n].mode = p.i_node_length /\ new[n].start = old[n].start
           /\ n # num /\ n # num + 1 => new[n] = old[n]
  BY Zenon DEF Synced, Nodes
<1>4. new[num].start = p.start
  BY <1>2, <1>3, Zenon
<1>5. \A n \in Nodes : n # num => new[n].start = old[n].start
  <2> SUFFICES ASSUME NEW n \in Nodes, n # num PROVE new[n].start = old[n].start
    BY Zenon
  <2>1. CASE n = num + 1
    BY <1>3, <2>1, Zenon
  <2>2. CASE n # num + 1
    BY <1>3, <2>2, Zenon
  <2> QED BY <2>1, <2>2
<1>6. /\ \A n \in Nodes : old[n].start # 0 => n \in fs.disk.imap /\ old[n].start \in fs.disk.smap
      /\ \A m, n \in Nodes : old[m].start = old[n].start /\ old[m].start # 0 => m = n
      /\ {1, 2} \subseteq fs.disk.imap /\ old[2].mode = "chr" /\ old[1].start # 0
  BY Zenon DEF DiskOk, NodesOk
<1>7. p.start \in fs.disk.smap
  BY <1>1, <1>2, <1>6, Zenon DEF OwnStart
<1>8. \A n \in Nodes : n # num => old[n].start # p.start
  <2> SUFFICES ASSUME NEW n \in Nodes, n # num, old[n].start = p.start PROVE FALSE
    BY Zenon
  <2>1. p.start = old[num].start
    BY <1>1, Zenon DEF OwnStart
  <2> QED BY <1>1, <1>2, <1>6, <2>1, Zenon
<1> HIDE DEF p, old, new, num
<1>9. /\ \A n \in Nodes : new[n].start # 0 => n \in gs.disk.imap /\ new[n].start \in gs.disk.smap
      /\ \A m, n \in Nodes : new[m].start = new[n].start /\ new[m].start # 0 => m = n
  <2>1. ASSUME NEW n \in Nodes, new[n].start # 0
        PROVE  n \in gs.disk.imap /\ new[n].start \in gs.disk.smap
    <3>1. CASE n = num
      BY <1>1, <1>3, <1>4, <1>7, <3>1, Zenon
    <3>2. CASE n # num
      BY <1>3, <1>5, <1>6, <2>1, <3>2, Zenon
    <3> QED BY <3>1, <3>2
  <2>2. ASSUME NEW m \in Nodes, NEW n \in Nodes, new[m].start = new[n].start, new[m].start # 0
        PROVE  m = n
    <3>1. CASE m = num
      BY <1>4, <1>5, <1>8, <2>2, <3>1, Zenon
    <3>2. CASE n = num
      BY <1>4, <1>5, <1>8, <2>2, <3>2, Zenon
    <3>3. CASE m # num /\ n # num
      BY <1>5, <1>6, <2>2, <3>3, Zenon
    <3> QED BY <3>1, <3>2, <3>3
  <2> QED BY <2>1, <2>2, Zenon
<1>10. 1 \in Nodes /\ 2 \in Nodes
  BY Constants DEF Nodes
<1>11. new[2].mode = "chr"
  <2>1. CASE 2 = num + 1
    <3>1. num = 1
      BY <1>2, <2>1, Zenon
    <3>2. new[2].mode = p.i_node_length
      BY <1>3, <1>10, <2>1, Zenon
    <3> QED BY <1>1, <3>1, <3>2, Zenon
  <2>2. CASE 2 # num + 1
    <3>1. num # 2
      BY <1>1, Zenon
    <3> QED BY <1>3, <1>6, <1>10, <2>2, <3>1, Zenon
  <2> QED BY <2>1, <2>2
<1>12. \A n \in Nodes : old[n].start # 0 => new[n].start # 0
  BY <1>1, <1>4, <1>5, Zenon
<1>13. NodesOk(gs.disk)
  BY <1>3, <1>6, <1>9, <1>10, <1>11, <1>12, Zenon DEF NodesOk, new, old
<1>14. EntriesOk(gs.disk)
  <2>1. EntriesOk(fs.disk)
    BY Zenon DEF DiskOk
  <2>2. fs.disk.imap \subseteq Nodes
    <3>1. fs.disk.imap \subseteq Inodes
      BY FsFields, DiskFields, Zenon
    <3> QED BY <3>1, NodeNumbers, Zenon
  <2>3. \A nr : Named(fs.disk, nr) => Named(gs.disk, nr)
    BY <1>3, <1>12, <2>2, Zenon DEF Named, old, new
  <2> QED BY <1>3, <2>1, <2>3, EntriesStay, Zenon
<1> QED BY <1>3, <1>4, <1>5, <1>13, <1>14, Zenon DEF DiskOk, p, num, new, old

(* A slot, when the disk below it has changed.  *)
LEMMA SlotStays ==
  ASSUME NEW d, NEW e, NEW s, NEW p, SlotOk(d, s, p), d.imap \subseteq e.imap,
         p.num \notin {0, 2} => e.node[p.num].start = d.node[p.num].start
  PROVE  SlotOk(e, s, p)
BY Zenon DEF SlotOk

LEMMA DiskMaps ==
  ASSUME NEW d, NEW e, DiskOk(d), d.imap \subseteq e.imap, d.smap \subseteq e.smap,
         e.node = d.node, e.dir = d.dir
  PROVE  DiskOk(e)
<1>1. EntriesOk(e)
  <2>1. \A nr : Named(d, nr) => Named(e, nr)
    BY Zenon DEF Named
  <2> QED BY <2>1, EntriesStay, Zenon DEF DiskOk
<1>2. NodesOk(e)
  BY Zenon DEF DiskOk, NodesOk
<1> QED BY <1>1, <1>2, Zenon DEF DiskOk

LEMMA TabMaps ==
  ASSUME NEW fs, NEW gs, NEW k, TabOk(fs, k), gs.tab = fs.tab,
         fs.disk.imap \subseteq gs.disk.imap, gs.disk.node = fs.disk.node
  PROVE  TabOk(gs, k)
<1>1. ASSUME NEW s \in Slots PROVE SlotOk(gs.disk, s, gs.tab[s])
  BY SlotStays, Zenon DEF TabOk
<1> QED BY <1>1, Zenon DEF TabOk

(* What is written of an inode that has a slot.  *)
LEMMA SyncTab ==
  ASSUME NEW fs \in FsType, NEW gs, NEW s \in Slots, NEW garbage, Synced(fs, gs, s, garbage),
         NEW k, Sound(fs, k), fs.tab[s].num \notin {0, 2}
  PROVE  Sound(gs, k)
<1> DEFINE p == fs.tab[s]
<1>1. SlotOk(fs.disk, s, p)
  BY Zenon DEF Sound, TabOk
<1>2. Writable(fs.disk, p)
  BY <1>1, Zenon DEF SlotOk, Writable, OwnStart
<1>3. /\ DiskOk(gs.disk) /\ gs.disk.imap = fs.disk.imap /\ gs.tab = fs.tab
      /\ gs.disk.node[p.num].start = p.start
      /\ \A n \in Nodes : n # p.num => gs.disk.node[n].start = fs.disk.node[n].start
  <2>1. gs.tab = fs.tab
    BY Zenon DEF Synced, Wrote
  <2>2. DiskOk(fs.disk)
    BY Zenon DEF Sound
  <2> QED BY <1>2, <2>1, <2>2, SyncSound, Zenon
<1>4. p.start = fs.disk.node[p.num].start
  BY <1>1, Zenon DEF SlotOk
<1> HIDE DEF p
<1>5. \A n \in Nodes : gs.disk.node[n].start = fs.disk.node[n].start
  BY <1>3, <1>4, Zenon
<1>6. ASSUME NEW u \in Slots PROVE SlotOk(gs.disk, u, gs.tab[u])
  <2> DEFINE q == fs.tab[u]
  <2>1. SlotOk(fs.disk, u, q) /\ gs.tab[u] = q
    BY <1>3, Zenon DEF Sound, TabOk
  <2>2. q.num \notin {0, 2} => q.num \in Nodes
    <3>1. fs.disk.imap \subseteq Inodes
      BY FsFields, DiskFields, Zenon
    <3> QED BY <2>1, <3>1, NodeNumbers, Zenon DEF SlotOk
  <2> HIDE DEF q
  <2> QED BY <1>3, <1>5, <2>1, <2>2, SlotStays, Zenon
<1> QED BY <1>3, <1>6, Zenon DEF Sound, TabOk

(* An entry that names an inode which no entry names yet.  *)
LEMMA EntrySound ==
  ASSUME NEW fs \in FsType, NEW gs, NEW e, e # 0, NEW at, NEW entry,
         EntrySet(fs, gs, e, at, entry), DiskOk(fs.disk), Named(fs.disk, entry.inode_nr),
         \A x \in Starts, i \in 1..DIR_SLOTS : fs.disk.dir[x][i].inode_nr # entry.inode_nr
  PROVE  DiskOk(gs.disk) /\ gs.disk.imap = fs.disk.imap /\ gs.disk.node = fs.disk.node
<1> DEFINE old == fs.disk.dir
           new == gs.disk.dir
           nr == entry.inode_nr
<1>1. /\ gs.disk.imap = fs.disk.imap /\ gs.disk.smap = fs.disk.smap
      /\ gs.disk.node = fs.disk.node
      /\ \A x \in Starts, i \in 1..DIR_SLOTS :
           /\ x = e /\ i = at => new[x][i] = entry
           /\ x # e \/ i # at => new[x][i] = old[x][i]
  BY Zenon DEF EntrySet
<1>2. \A m : Named(fs.disk, m) <=> Named(gs.disk, m)
  BY <1>1, Zenon DEF Named
<1>3. /\ \A x \in Starts, i \in 1..DIR_SLOTS :
           old[x][i].inode_nr # 0 => x # 0 /\ Named(fs.disk, old[x][i].inode_nr)
      /\ \A x, f \in Starts, i, j \in 1..DIR_SLOTS :
           old[x][i].inode_nr = old[f][j].inode_nr /\ old[x][i].inode_nr # 0 => x = f /\ i = j
  BY Zenon DEF DiskOk, EntriesOk
<1>a. \A x \in Starts, i \in 1..DIR_SLOTS : old[x][i].inode_nr # nr
  OBVIOUS
<1>b. Named(gs.disk, nr)
  BY <1>2, Zenon
<1>4. \A x \in Starts, i \in 1..DIR_SLOTS :
        \/ x = e /\ i = at /\ new[x][i].inode_nr = nr
        \/ ~(x = e /\ i = at) /\ new[x][i].inode_nr = old[x][i].inode_nr
  <2> SUFFICES ASSUME NEW x \in Starts, NEW i \in 1..DIR_SLOTS
               PROVE  \/ x = e /\ i = at /\ new[x][i].inode_nr = nr
                      \/ ~(x = e /\ i = at) /\ new[x][i].inode_nr = old[x][i].inode_nr
    BY Zenon
  <2>1. CASE x = e /\ i = at
    BY <1>1, <2>1, Zenon
  <2>2. CASE ~(x = e /\ i = at)
    BY <1>1, <2>2, Zenon
  <2> QED BY <2>1, <2>2
<1> HIDE DEF old, new, nr
<1>5. ASSUME NEW x \in Starts, NEW i \in 1..DIR_SLOTS, new[x][i].inode_nr # 0
      PROVE  x # 0 /\ Named(gs.disk, new[x][i].inode_nr)
  <2>1. CASE x = e /\ i = at
    BY <1>4, <1>b, <2>1, Zenon
  <2>2. CASE ~(x = e /\ i = at)
    <3>1. new[x][i].inode_nr = old[x][i].inode_nr
      BY <1>4, <2>2, Zenon
    <3> QED BY <1>2, <1>3, <1>5, <3>1, Zenon
  <2> QED BY <2>1, <2>2
<1>6. ASSUME NEW x \in Starts, NEW f \in Starts, NEW i \in 1..DIR_SLOTS, NEW j \in 1..DIR_SLOTS,
             new[x][i].inode_nr = new[f][j].inode_nr, new[x][i].inode_nr # 0
      PROVE  x = f /\ i = j
  <2>1. CASE x = e /\ i = at
    <3>1. new[f][j].inode_nr = nr
      BY <1>4, <1>6, <2>1, Zenon
    <3> QED BY <1>4, <1>a, <2>1, <3>1, Zenon
  <2>2. CASE ~(x = e /\ i = at)
    <3>1. new[x][i].inode_nr = old[x][i].inode_nr
      BY <1>4, <2>2, Zenon
    <3>2. ~(f = e /\ j = at)
      BY <1>4, <1>6, <1>a, <3>1, Zenon
    <3>3. new[f][j].inode_nr = old[f][j].inode_nr
      BY <1>4, <3>2, Zenon
    <3>4. old[x][i].inode_nr = old[f][j].inode_nr /\ old[x][i].inode_nr # 0
      BY <1>6, <3>1, <3>3, Zenon
    <3> QED BY <1>3, <3>4, Zenon
  <2> QED BY <2>1, <2>2
<1>7. EntriesOk(gs.disk)
  BY <1>5, <1>6 DEF EntriesOk, new
<1>8. NodesOk(gs.disk)
  BY <1>1 DEF DiskOk, NodesOk
<1> QED BY <1>1, <1>7, <1>8, Zenon DEF DiskOk

LEMMA ResizedSound ==
  ASSUME NEW fs, NEW gs, NEW s, NEW size, Resized(fs, gs, s, size), NEW k, Sound(fs, k)
  PROVE  Sound(gs, k)
<1>1. /\ s \in Slots /\ gs.disk = fs.disk /\ \A u \in Slots : u # s => gs.tab[u] = fs.tab[u]
      /\ gs.tab[s].num = fs.tab[s].num /\ gs.tab[s].cnt = fs.tab[s].cnt
      /\ gs.tab[s].mode = fs.tab[s].mode /\ gs.tab[s].start = fs.tab[s].start
      /\ gs.tab[s].i_node_length = fs.tab[s].i_node_length
  BY Zenon DEF Resized, OneSlot
<1>2. \A u \in Slots : /\ gs.tab[u].num = fs.tab[u].num /\ gs.tab[u].cnt = fs.tab[u].cnt
                       /\ gs.tab[u].mode = fs.tab[u].mode /\ gs.tab[u].start = fs.tab[u].start
                       /\ gs.tab[u].i_node_length = fs.tab[u].i_node_length
  <2> SUFFICES ASSUME NEW u \in Slots
               PROVE  /\ gs.tab[u].num = fs.tab[u].num /\ gs.tab[u].cnt = fs.tab[u].cnt
                      /\ gs.tab[u].mode = fs.tab[u].mode /\ gs.tab[u].start = fs.tab[u].start
                      /\ gs.tab[u].i_node_length = fs.tab[u].i_node_length
    BY Zenon
  <2>1. CASE u = s
    BY <1>1, <2>1, Zenon
  <2>2. CASE u # s
    BY <1>1, <2>2, Zenon
  <2> QED BY <2>1, <2>2
<1>3. ASSUME NEW u \in Slots PROVE SlotOk(gs.disk, u, gs.tab[u])
  <2>1. SlotOk(fs.disk, u, fs.tab[u])
    BY Zenon DEF Sound, TabOk
  <2> QED BY <1>1, <1>2, <2>1, Zenon DEF SlotOk
<1>4. gs.tab[1].num # 0 /\ gs.tab[2].num = 2 /\ gs.tab[2].mode = "chr" /\ gs.tab[2].cnt >= k
  BY <1>2, SlotTwo, Zenon DEF Sound, TabOk
<1> QED BY <1>1, <1>3, <1>4, Zenon DEF Sound, TabOk

(* A transfer writes the inode whose size has changed, if it has one.  *)
LEMMA TransferredWhole ==
  ASSUME NEW k, NEW fs, Whole(fs, k), NEW s \in Slots, Ok(fs) => fs.tab[s].num # 0,
         NEW gs, NEW pos, NEW garbage, Transferred(fs, gs, s, pos, garbage)
  PROVE  Whole(gs, k) /\ (Ok(gs) <=> Ok(fs)) /\ gs.filp = fs.filp /\ SameCache(fs, gs)
<1>0. Beside(fs, gs)
  BY TransferredBeside, Zenon DEF Whole
<1>1. CASE gs = fs
  BY <1>0, <1>1, Zenon DEF Beside
<1>2. ASSUME fs.tab[s].mode # "chr", NEW a, NEW n, Resized(fs, a, s, n), Synced(a, gs, s, garbage)
      PROVE  Whole(gs, k) /\ (Ok(gs) <=> Ok(fs))
  <2>1. a \in FsType /\ a.cause = fs.cause /\ a.writes = fs.writes /\ a.tab[s].num = fs.tab[s].num
    BY <1>2, Zenon DEF Resized, OneSlot
  <2>2. gs \in FsType /\ gs.cause = a.cause /\ Wrote(a, gs, gs.disk)
    BY <1>2, Zenon DEF Synced, Wrote
  <2>3. Ok(gs) <=> Ok(fs)
    BY <2>1, <2>2, Zenon DEF Ok
  <2>4. ASSUME Ok(fs) PROVE Sound(gs, k)
    <3>1. Sound(a, k)
      BY <1>2, <2>4, ResizedSound, Zenon DEF Whole
    <3>2. fs.tab[s].num # 2
      <4>1. fs.tab[s].num = 2 => s = 2
        BY <2>4, Zenon DEF Whole, Sound, TabOk, SlotOk
      <4>2. s # 2
        BY <1>2, <2>4, Zenon DEF Whole, Sound, TabOk
      <4> QED BY <4>1, <4>2
    <3>3. a.tab[s].num \notin {0, 2}
      BY <2>1, <2>4, <3>2, Zenon
    <3> QED BY <1>2, <2>1, <3>1, <3>3, SyncTab, Zenon
  <2>5. WritesOk(a)
    BY <2>1, WritesSame, Zenon DEF Whole
  <2>6. Ok(a) => DiskOk(gs.disk)
    BY <2>1, <2>4, Zenon DEF Ok, Sound
  <2>7. WritesOk(gs)
    BY <2>1, <2>2, <2>5, <2>6, WroteWhole, Zenon
  <2> QED BY <2>2, <2>3, <2>4, <2>7, Zenon DEF Whole
<1>3. Whole(gs, k) /\ (Ok(gs) <=> Ok(fs))
  BY <1>1, <1>2, Zenon DEF Transferred
<1> QED BY <1>0, <1>3, Zenon DEF Beside

(* A number and an extent that have just been marked.  *)
Unnamed(d, nr) == \A x \in Starts, i \in 1..DIR_SLOTS : d.dir[x][i].inode_nr # nr

Fresh(d, nr, ext) ==
  /\ nr \in d.imap /\ nr \notin {0, 1, 2} /\ ext \in d.smap /\ ext # 0
  /\ \A n \in Nodes : d.node[n].start # ext
  /\ Unnamed(d, nr)

LEMMA TakenSound ==
  ASSUME NEW fs \in FsType, NEW k, Sound(fs, k), NEW a, NEW nr, NrTaken(fs, a, nr),
         NEW b, NEW ext, ExtTaken(a, b, ext)
  PROVE  /\ Sound(a, k) /\ Sound(b, k) /\ Fresh(b.disk, nr, ext)
         /\ \A s \in Slots : b.tab[s].num # nr
<1>1. /\ nr \in Inodes /\ nr \notin fs.disk.imap /\ a.tab = fs.tab
      /\ a.disk.imap = fs.disk.imap \union {nr} /\ a.disk.smap = fs.disk.smap
      /\ a.disk.node = fs.disk.node /\ a.disk.dir = fs.disk.dir
  BY Zenon DEF NrTaken, Wrote
<1>2. /\ ext \in Extents /\ ext \notin a.disk.smap /\ b.tab = a.tab
      /\ b.disk.imap = a.disk.imap /\ b.disk.smap = a.disk.smap \union {ext}
      /\ b.disk.node = a.disk.node /\ b.disk.dir = a.disk.dir
  BY Zenon DEF ExtTaken, Wrote
<1>3. DiskOk(fs.disk) /\ TabOk(fs, k)
  BY Zenon DEF Sound
<1>4. fs.disk.imap \subseteq a.disk.imap /\ a.disk.imap \subseteq b.disk.imap
      /\ fs.disk.smap \subseteq a.disk.smap /\ a.disk.smap \subseteq b.disk.smap
  BY <1>1, <1>2, Zenon
<1>5. DiskOk(a.disk)
  BY <1>1, <1>3, <1>4, DiskMaps, Zenon
<1>6. DiskOk(b.disk)
  BY <1>2, <1>4, <1>5, DiskMaps, Zenon
<1>7. TabOk(a, k)
  BY <1>1, <1>3, <1>4, TabMaps, Zenon
<1>8. TabOk(b, k)
  BY <1>2, <1>4, <1>7, TabMaps, Zenon
<1>9. nr \notin {0, 1, 2} /\ ext # 0
  <2>1. {1, 2} \subseteq fs.disk.imap
    BY <1>3, Zenon DEF DiskOk, NodesOk
  <2> QED BY <1>1, <1>2, <2>1, NoZero, Zenon
<1>10. \A n \in Nodes : b.disk.node[n].start # ext
  <2> SUFFICES ASSUME NEW n \in Nodes, fs.disk.node[n].start = ext PROVE FALSE
    BY <1>1, <1>2, Zenon
  <2>1. ext \in fs.disk.smap
    BY <1>3, <1>9, Zenon DEF DiskOk, NodesOk
  <2> QED BY <1>1, <1>2, <2>1, Zenon
<1>11. Unnamed(b.disk, nr)
  <2> SUFFICES ASSUME NEW x \in Starts, NEW i \in 1..DIR_SLOTS, b.disk.dir[x][i].inode_nr = nr
               PROVE  FALSE
    BY Zenon DEF Unnamed
  <2>1. fs.disk.dir[x][i].inode_nr = nr
    BY <1>1, <1>2, Zenon
  <2>2. fs.disk.dir[x][i].inode_nr # 0
    BY <1>9, <2>1, Zenon
  <2>3. Named(fs.disk, nr)
    BY <1>3, <2>1, <2>2, Zenon DEF DiskOk, EntriesOk
  <2> QED BY <1>1, <2>3, Zenon DEF Named
<1>12. ASSUME NEW s \in Slots, b.tab[s].num = nr PROVE FALSE
  <2>1. fs.tab[s].num = nr
    BY <1>1, <1>2, <1>12, Zenon
  <2>2. nr \in fs.disk.imap
    BY <1>3, <1>9, <2>1, Zenon DEF TabOk, SlotOk
  <2> QED BY <1>1, <2>2
<1>13. nr \in b.disk.imap /\ ext \in b.disk.smap
  BY <1>1, <1>2, Zenon
<1> QED BY <1>5, <1>6, <1>7, <1>8, <1>9, <1>10, <1>11, <1>12, <1>13, Zenon DEF Sound, Fresh

(* The slot is filled and the inode written.  *)
LEMMA FilledSound ==
  ASSUME NEW b \in FsType, NEW k \in Nat \ {0}, Sound(b, k), NEW nr \in Inodes,
         NEW ext, Fresh(b.disk, nr, ext), \A s \in Slots : b.tab[s].num # nr,
         NEW got, Got(b, nr, got), Ok(got.fs), NEW c, NEW mode,
         Filled(got.fs, c, got.slot, nr, ext, mode),
         NEW d, NEW garbage, Synced(c, d, got.slot, garbage)
  PROVE  /\ Sound(d, k) /\ got.slot \in Slots \ {2} /\ Named(d.disk, nr) /\ Unnamed(d.disk, nr)
         /\ \A s \in Slots : b.tab[s].num # 0 => d.tab[s].num # 0
<1> DEFINE s == got.slot
<1>1. /\ s \in Slots /\ got.fs.disk = b.disk /\ \A u \in Slots : u # s => got.fs.tab[u] = b.tab[u]
  BY Zenon DEF Got, OneSlot
<1>2. /\ c \in FsType /\ c.disk = got.fs.disk /\ \A u \in Slots : u # s => c.tab[u] = got.fs.tab[u]
      /\ c.tab[s].num = nr /\ c.tab[s].start = ext
  BY Zenon DEF Filled, OneSlot
<1>3. /\ d.tab = c.tab /\ d.disk.dir = c.disk.dir /\ d.disk.imap = c.disk.imap
  BY Zenon DEF Synced, Wrote
<1>4. b.tab[s].cnt = 0
  <2>1. ~Hit(nr, b.tab[s], got.fs.tab[s])
    BY <1>1, Zenon DEF Hit
  <2> QED BY <2>1, Zenon DEF Got, Ok, Load
<1>5. s # 2
  <2>1. b.tab[2].cnt >= k /\ k \in Nat \ {0} /\ b.tab[2].cnt \in Int
    BY SlotTwo, Counts, Zenon DEF Sound, TabOk
  <2>2. b.tab[2].cnt # 0
    BY <2>1
  <2> QED BY <1>4, <2>2, Zenon
<1>6. nr \notin {0, 1, 2} /\ nr \in b.disk.imap /\ ext \in b.disk.smap /\ ext # 0
      /\ \A n \in Nodes : b.disk.node[n].start # ext
  BY Zenon DEF Fresh
<1>7. Writable(c.disk, c.tab[s])
  BY <1>1, <1>2, <1>6, Zenon DEF Writable, OwnStart
<1>8. DiskOk(c.disk)
  BY <1>1, <1>2, Zenon DEF Sound
<1> HIDE DEF s
<1>9. /\ DiskOk(d.disk) /\ d.disk.node[nr].start = ext
      /\ \A n \in Nodes : n # nr => d.disk.node[n].start = b.disk.node[n].start
  <2>1. /\ Synced(c, d, s, garbage) /\ c \in FsType /\ s \in Slots
        /\ DiskOk(c.disk) /\ Writable(c.disk, c.tab[s])
    BY <1>1, <1>2, <1>7, <1>8, Zenon DEF s
  <2>2. /\ DiskOk(d.disk) /\ d.disk.node[c.tab[s].num].start = c.tab[s].start
        /\ \A n \in Nodes : n # c.tab[s].num => d.disk.node[n].start = c.disk.node[n].start
    BY <2>1, SyncSound
  <2> QED BY <1>1, <1>2, <2>2, Zenon
<1>10. ASSUME NEW u \in Slots PROVE SlotOk(d.disk, u, d.tab[u])
  <2>1. CASE u = s
    <3>1. d.tab[u].num = nr /\ d.tab[u].start = ext
      BY <1>2, <1>3, <2>1, Zenon
    <3>2. nr \in d.disk.imap
      BY <1>1, <1>2, <1>3, <1>6, Zenon
    <3> QED BY <1>6, <1>9, <3>1, <3>2, Zenon DEF SlotOk
  <2>2. CASE u # s
    <3> DEFINE q == b.tab[u]
    <3>1. d.tab[u] = q /\ SlotOk(b.disk, u, q) /\ q.num # nr
      BY <1>1, <1>2, <1>3, <2>2, Zenon DEF Sound, TabOk
    <3>2. q.num \notin {0, 2} => q.num \in Nodes
      <4>1. b.disk.imap \subseteq Inodes
        BY FsFields, DiskFields, Zenon
      <4> QED BY <3>1, <4>1, NodeNumbers, Zenon DEF SlotOk
    <3>3. b.disk.imap \subseteq d.disk.imap
      BY <1>1, <1>2, <1>3, Zenon
    <3> HIDE DEF q
    <3> QED BY <1>9, <3>1, <3>2, <3>3, SlotStays, Zenon
  <2> QED BY <2>1, <2>2
<1>11. d.tab[2] = b.tab[2]
  BY <1>1, <1>2, <1>3, <1>5, SlotTwo, Zenon
<1>12. ASSUME NEW u \in Slots, b.tab[u].num # 0 PROVE d.tab[u].num # 0
  <2>1. CASE u = s
    BY <1>2, <1>3, <1>6, <2>1, Zenon
  <2>2. CASE u # s
    BY <1>1, <1>2, <1>3, <1>12, <2>2, Zenon
  <2> QED BY <2>1, <2>2
<1>13. TabOk(d, k)
  BY <1>10, <1>11, <1>12, SlotTwo, Zenon DEF Sound, TabOk
<1>14. Named(d.disk, nr) /\ Unnamed(d.disk, nr)
  <2>1. d.disk.dir = b.disk.dir /\ nr \in d.disk.imap
    BY <1>1, <1>2, <1>3, <1>6, Zenon
  <2>2. Unnamed(b.disk, nr)
    BY Zenon DEF Fresh
  <2> QED BY <1>6, <1>9, <2>1, <2>2, Zenon DEF Named, Unnamed
<1> QED BY <1>1, <1>5, <1>9, <1>12, <1>13, <1>14, Zenon DEF Sound, s

LEMMA WrittenWhole ==
  ASSUME NEW k, NEW fs, Whole(fs, k), NEW dir \in Slots, NEW nr, NEW name, NEW garbage, NEW gs,
         EntryWritten(fs, gs, dir, nr, name, garbage),
         Ok(fs) => /\ dir # 2 /\ fs.tab[dir].num # 0
                   /\ Named(fs.disk, nr) /\ Unnamed(fs.disk, nr)
  PROVE  Whole(gs, k) /\ (Ok(gs) <=> Ok(fs))
<1> DEFINE entry == [inode_nr |-> nr, name |-> name]
           e == fs.tab[dir].start
<1>1. PICK at, a, b :
        /\ EntrySet(fs, a, e, at, entry)
        /\ InHole(fs, a, b, dir, at) \/ AtEnd(fs, a, b, dir, at)
        /\ Synced(b, gs, dir, garbage)
  BY Zenon DEF EntryWritten
<1>2. entry.inode_nr = nr
  BY Zenon
<1> HIDE DEF entry
<1>3. a \in FsType /\ Wrote(fs, a, a.disk) /\ a.cause = fs.cause /\ a.tab = fs.tab
  BY <1>1, Zenon DEF EntrySet, Wrote
<1>4. b = a \/ Resized(a, b, dir, fs.tab[dir].size + 1)
  BY <1>1, Zenon DEF InHole, AtEnd
<1>5. /\ b \in FsType /\ b.cause = a.cause /\ b.writes = a.writes
      /\ b.tab[dir].num = a.tab[dir].num
  BY <1>3, <1>4, Zenon DEF Resized, OneSlot
<1>6. gs \in FsType /\ gs.cause = b.cause /\ Wrote(b, gs, gs.disk)
  BY <1>1, Zenon DEF Synced, Wrote
<1>7. Ok(gs) <=> Ok(fs)
  BY <1>3, <1>5, <1>6, Zenon DEF Ok
<1>8. ASSUME Ok(fs) PROVE DiskOk(a.disk) /\ Sound(gs, k)
  <2>1. Sound(fs, k) /\ dir # 2 /\ fs.tab[dir].num # 0 /\ fs \in FsType
    BY <1>8, Zenon DEF Whole
  <2>2. SlotOk(fs.disk, dir, fs.tab[dir])
    BY <2>1, Zenon DEF Sound, TabOk
  <2>3. fs.tab[dir].num \notin {0, 2} /\ e # 0
    BY <2>1, <2>2, Zenon DEF SlotOk
  <2> HIDE DEF e
  <2>4. Named(fs.disk, entry.inode_nr)
        /\ \A x \in Starts, i \in 1..DIR_SLOTS : fs.disk.dir[x][i].inode_nr # entry.inode_nr
    BY <1>2, <1>8, Zenon DEF Unnamed
  <2>5. DiskOk(a.disk) /\ a.disk.imap = fs.disk.imap /\ a.disk.node = fs.disk.node
    BY <1>1, <2>1, <2>3, <2>4, EntrySound, Zenon DEF Sound
  <2>6. TabOk(a, k)
    BY <1>3, <2>1, <2>5, TabMaps, Zenon DEF Sound
  <2>7. Sound(a, k)
    BY <2>5, <2>6, Zenon DEF Sound
  <2>8. Sound(b, k)
    <3>1. CASE b = a
      BY <2>7, <3>1, Zenon
    <3>2. CASE Resized(a, b, dir, fs.tab[dir].size + 1)
      <4> DEFINE n == fs.tab[dir].size + 1
      <4>1. Resized(a, b, dir, n)
        BY <3>2
      <4> HIDE DEF n
      <4> QED BY <2>7, <4>1, ResizedSound
    <3> QED BY <1>4, <3>1, <3>2
  <2>9. b.tab[dir].num \notin {0, 2}
    BY <1>3, <1>5, <2>3, Zenon
  <2>10. Sound(gs, k)
    BY <1>1, <1>5, <2>8, <2>9, SyncTab, Zenon
  <2> QED BY <2>5, <2>10
<1>9. WritesOk(a)
  <2>1. fs \in FsType /\ WritesOk(fs)
    BY Zenon DEF Whole
  <2> QED BY <1>3, <1>8, <2>1, WroteWhole, Zenon
<1>10. WritesOk(b)
  BY <1>5, <1>9, WritesSame, Zenon
<1>11. Ok(b) => DiskOk(gs.disk)
  BY <1>3, <1>5, <1>8, Zenon DEF Ok, Sound
<1>12. WritesOk(gs)
  BY <1>5, <1>6, <1>10, <1>11, WroteWhole, Zenon
<1> QED BY <1>6, <1>7, <1>8, <1>12, Zenon DEF Whole

(* The whole creation.  *)
LEMMA MadeWhole ==
  ASSUME NEW k \in Nat \ {0}, NEW fs, Whole(fs, k), NEW dir \in Slots,
         Ok(fs) => dir # 2 /\ fs.tab[dir].num # 0,
         NEW gs, NEW slot, NEW name, NEW mode, NEW garbage,
         InodeMade(fs, gs, slot, dir, name, mode, garbage)
  PROVE  /\ Whole(gs, k) /\ slot \in Slots
         /\ Ok(gs) => Ok(fs) /\ slot # 2 /\ gs.tab[slot].num # 0
<1>1. PICK nr, ext, a, b, got, c, d :
        /\ NrTaken(fs, a, nr) /\ ExtTaken(a, b, ext) /\ Got(b, nr, got) /\ slot = got.slot
        /\ Filled(got.fs, c, slot, nr, ext, mode) /\ Synced(c, d, slot, garbage)
        /\ EntryWritten(d, gs, dir, nr, name, garbage)
  BY Zenon DEF InodeMade
<1>2. nr \in Inodes /\ Wrote(fs, a, a.disk) /\ Wrote(a, b, b.disk)
      /\ a \in FsType /\ a.cause = fs.cause /\ b \in FsType /\ b.cause = a.cause
      /\ a.tab = fs.tab /\ b.tab = a.tab
  BY <1>1, Zenon DEF NrTaken, ExtTaken, Wrote
<1>3. fs \in FsType /\ WritesOk(fs)
  BY Zenon DEF Whole
<1>4. ASSUME Ok(fs)
      PROVE  /\ Sound(a, k) /\ Sound(b, k) /\ Fresh(b.disk, nr, ext)
             /\ \A s \in Slots : b.tab[s].num # nr
  BY <1>1, <1>3, <1>4, TakenSound, Zenon DEF Whole
<1>5. WritesOk(a)
  BY <1>2, <1>3, <1>4, WroteWhole, Zenon DEF Sound
<1>6. WritesOk(b)
  <2>1. Ok(a) => DiskOk(b.disk)
    BY <1>2, <1>4, Zenon DEF Ok, Sound
  <2> QED BY <1>2, <1>5, <2>1, WroteWhole, Zenon
<1>7. /\ slot \in Slots /\ got.fs \in FsType /\ got.fs.writes = b.writes
      /\ (Ok(got.fs) => Ok(b))
  BY <1>1, Zenon DEF Got, OneSlot, Ok
<1>8. /\ c \in FsType /\ c.writes = got.fs.writes /\ c.cause = got.fs.cause
  BY <1>1, Zenon DEF Filled, OneSlot
<1>9. /\ d \in FsType /\ Wrote(c, d, d.disk) /\ d.cause = c.cause
  BY <1>1, Zenon DEF Synced, Wrote
<1>10. WritesOk(c)
  BY <1>6, <1>7, <1>8, WritesSame, Zenon
<1>11. Ok(got.fs) => Ok(fs) /\ Ok(b)
  BY <1>2, <1>7, Zenon DEF Ok
<1>12. ASSUME Ok(got.fs)
       PROVE  /\ Sound(d, k) /\ slot \in Slots \ {2} /\ Named(d.disk, nr) /\ Unnamed(d.disk, nr)
              /\ \A s \in Slots : b.tab[s].num # 0 => d.tab[s].num # 0
  <2>1. /\ Sound(b, k) /\ Fresh(b.disk, nr, ext) /\ \A s \in Slots : b.tab[s].num # nr
    BY <1>4, <1>11, <1>12, Zenon
  <2>2. Filled(got.fs, c, got.slot, nr, ext, mode) /\ Synced(c, d, got.slot, garbage)
    BY <1>1, Zenon
  <2>3. b \in FsType /\ nr \in Inodes /\ Got(b, nr, got) /\ Ok(got.fs) /\ slot = got.slot
    BY <1>1, <1>2, <1>12, Zenon
  <2>4. /\ Sound(d, k) /\ got.slot \in Slots \ {2} /\ Named(d.disk, nr) /\ Unnamed(d.disk, nr)
        /\ \A s \in Slots : b.tab[s].num # 0 => d.tab[s].num # 0
    BY <2>1, <2>2, <2>3, FilledSound
  <2> QED BY <2>3, <2>4, Zenon
<1>13. Ok(d) <=> Ok(got.fs)
  BY <1>8, <1>9, Zenon DEF Ok
<1>14. WritesOk(d)
  <2>1. Ok(c) => DiskOk(d.disk)
    BY <1>8, <1>12, Zenon DEF Ok, Sound
  <2> QED BY <1>8, <1>9, <1>10, <2>1, WroteWhole, Zenon
<1>15. Whole(d, k)
  BY <1>9, <1>12, <1>13, <1>14, Zenon DEF Whole
<1>16. Ok(d) => /\ dir # 2 /\ d.tab[dir].num # 0
                /\ Named(d.disk, nr) /\ Unnamed(d.disk, nr)
  BY <1>2, <1>11, <1>12, <1>13, Zenon
<1>17. Whole(gs, k) /\ (Ok(gs) <=> Ok(d))
  BY <1>1, <1>15, <1>16, WrittenWhole, Zenon
<1>18. gs.tab[slot].num # 0
  <2>1. c.tab[slot].num = nr /\ d.tab = c.tab
    BY <1>1, Zenon DEF Filled, Synced, Wrote
  <2>2. SameCache(d, gs)
    BY <1>1, WrittenBeside, Zenon DEF Beside
  <2>3. gs.tab[slot].num = nr
    BY <1>7, <2>1, <2>2, Zenon DEF SameCache
  <2> QED BY <1>2, <2>3, NoZero, Zenon
<1> QED BY <1>7, <1>11, <1>12, <1>13, <1>17, <1>18, Zenon

(* What a walk finds may be got.  *)
LEMMA SlotNamed ==
  ASSUME NEW d, NEW s, NEW p, SlotOk(d, s, p), s # 2, p.num # 0
  PROVE  Named(d, p.num)
<1>1. p.num # 2
  BY Zenon DEF SlotOk
<1>2. p.num \in d.imap /\ p.start # 0 /\ p.start = d.node[p.num].start
  BY <1>1, Zenon DEF SlotOk
<1> QED BY <1>2, Zenon DEF Named

LEMMA FindsNamed ==
  ASSUME NEW r \in WalkType, NEW k, Sound(r.fs, k), Stands(r), NEW path, NEW nr,
         Finds(r, path, nr)
  PROVE  Named(r.fs.disk, nr)
<1> DEFINE p == r.fs.tab[r.at]
<1>1. r.at \in Slots /\ r.fs \in FsType
  BY WalkFields, Zenon
<1>2. SlotOk(r.fs.disk, r.at, p) /\ r.at # 2 /\ p.num # 0
  BY <1>1, Zenon DEF Sound, TabOk, Stands
<1>3. p.start \in Starts
  <2>1. p \in SlotType
    BY <1>1, FsFields
  <2> HIDE DEF p
  <2> QED BY <2>1 DEF SlotType
<1>4. EntriesOk(r.fs.disk)
  BY Zenon DEF Sound, DiskOk
<1>5. CASE nr = p.num
  <2> HIDE DEF p
  <2>1. Named(r.fs.disk, p.num)
    BY <1>2, SlotNamed, Zenon
  <2> QED BY <1>5, <2>1, Zenon
<1>6. ASSUME NEW i \in 1..DIR_SLOTS, r.fs.disk.dir[p.start][i].inode_nr = nr, nr \in Inodes
      PROVE  Named(r.fs.disk, nr)
  <2>1. r.fs.disk.dir[p.start][i].inode_nr # 0
    BY <1>6, NoZero, Zenon
  <2>2. Named(r.fs.disk, r.fs.disk.dir[p.start][i].inode_nr)
    BY <1>3, <1>4, <2>1, Zenon DEF EntriesOk
  <2> QED BY <1>6, <2>2, Zenon
<1> QED BY <1>5, <1>6, Zenon DEF Finds

(* A slot that may be written, and put again.  *)
Usable(fs, k, s) ==
  /\ s \in Slots
  /\ Ok(fs) => fs.tab[s].num # 0
  /\ s = 2 => Whole(fs, k + 1)

LEMMA WholeMore ==
  ASSUME NEW fs, NEW k, Whole(fs, k), Ok(fs) => fs.tab[2].cnt >= k + 1
  PROVE  Whole(fs, k + 1)
<1>1. ASSUME Ok(fs) PROVE Sound(fs, k + 1)
  <2>1. Sound(fs, k) /\ fs.tab[2].cnt >= k + 1
    BY <1>1, Zenon DEF Whole
  <2> QED BY <2>1, Zenon DEF Sound, TabOk
<1> QED BY <1>1, Zenon DEF Whole

LEMMA GotWhole ==
  ASSUME NEW k \in Nat \ {0}, NEW fs, Whole(fs, k), NEW num, Ok(fs) => Named(fs.disk, num),
         NEW got, Got(fs, num, got)
  PROVE  /\ Whole(got.fs, k) /\ got.fs.filp = fs.filp /\ Usable(got.fs, k, got.slot)
         /\ Ok(got.fs) => Ok(fs)
         /\ \A s \in Slots : Ok(got.fs) /\ fs.tab[s].num # 0 => got.fs.tab[s].num # 0
<1> DEFINE gs == got.fs
           t == got.slot
<1>1. /\ gs \in FsType /\ gs.filp = fs.filp /\ gs.writes = fs.writes /\ t \in Slots
      /\ gs.disk = fs.disk /\ \A s \in Slots : s # t => gs.tab[s] = fs.tab[s]
  BY Zenon DEF Got, OneSlot
<1>2. Ok(gs) => Ok(fs)
  BY Zenon DEF Got, Ok
<1>3. fs \in FsType /\ WritesOk(fs) /\ (Ok(fs) => Sound(fs, k))
  BY Zenon DEF Whole
<1>4. ASSUME Ok(gs)
      PROVE  /\ Sound(gs, k) /\ (t = 2 => gs.tab[2].cnt >= k + 1) /\ gs.tab[t].num = num
             /\ num # 0
  <2>1. Sound(fs, k) /\ Named(fs.disk, num) /\ Ok(got.fs)
    BY <1>2, <1>3, <1>4, Zenon
  <2>2. fs.disk.imap \subseteq Inodes
    BY <1>3, FsFields, DiskFields, Zenon
  <2>3. num # 0
    BY <2>1, <2>2, NoZero, Zenon DEF Named
  <2> QED BY <1>3, <2>1, <2>3, GotSound
<1> HIDE DEF gs, t
<1>5. WritesOk(gs)
  BY <1>1, <1>3, WritesSame, Zenon
<1>6. Whole(gs, k)
  BY <1>1, <1>4, <1>5, Zenon DEF Whole
<1>7. t = 2 => Whole(gs, k + 1)
  BY <1>4, <1>6, WholeMore, Zenon
<1>8. Usable(gs, k, t)
  BY <1>1, <1>4, <1>7, Zenon DEF Usable
<1>9. ASSUME NEW s \in Slots, Ok(gs), fs.tab[s].num # 0 PROVE gs.tab[s].num # 0
  <2>1. CASE s = t
    BY <1>4, <1>9, <2>1, Zenon
  <2>2. CASE s # t
    BY <1>1, <1>9, <2>2, Zenon
  <2> QED BY <2>1, <2>2
<1> QED BY <1>1, <1>2, <1>6, <1>8, <1>9, Zenon DEF gs, t

(* What the two halves of do_open hand over.  *)
PinWhole(fs, pin, k) ==
  /\ Whole(pin.fs, k) /\ pin.fs.filp = fs.filp /\ (Ok(pin.fs) => Ok(fs))
  /\ pin.slot = 0 \/ Usable(pin.fs, k, pin.slot)

LEMMA ExistingWhole ==
  ASSUME NEW k \in Nat \ {0}, NEW fs, Whole(fs, k), NEW path, PathOk(path)
  PROVE  PinWhole(fs, OpenExisting(fs, path), k)
<1> DEFINE r1 == strip_path(fs, path)
           r2 == strip_path(r1.fs, path)
           pin == OpenExisting(fs, path)
<1>1. /\ r1 \in WalkType /\ SameButTab(fs, r1.fs) /\ Whole(r1.fs, k)
      /\ Ok(r1.fs) => Ok(fs) /\ Stands(r1)
  BY WholeWalk, Zenon
<1>2. /\ r2 \in WalkType /\ SameButTab(r1.fs, r2.fs) /\ Whole(r2.fs, k)
      /\ Ok(r2.fs) => Ok(r1.fs) /\ Stands(r2)
  <2> HIDE DEF r1
  <2> QED BY <1>1, WholeWalk, Zenon
<1>3. \E nr : Sought(path, r1, r2, nr, pin)
  BY <1>1, <1>2, SeekIs, Zenon
<1> HIDE DEF r1, r2, pin
<1>4. PICK nr : Sought(path, r1, r2, nr, pin)
  BY <1>3, Zenon
<1>5. /\ r2.fs.filp = fs.filp /\ (Ok(r2.fs) => Ok(fs)) /\ r2.fs.disk = r1.fs.disk
  BY <1>1, <1>2, Zenon DEF SameButTab
<1>6. CASE pin.slot = 0 /\ pin.fs = r2.fs
  BY <1>2, <1>5, <1>6, Zenon DEF PinWhole, pin
<1>7. ASSUME nr # 0, Got(r2.fs, nr, pin) PROVE PinWhole(fs, pin, k)
  <2>1. Finds(r1, path, nr)
    BY <1>4, <1>7, Zenon DEF Sought
  <2>2. Ok(r2.fs) => Named(r2.fs.disk, nr)
    <3>1. Ok(r2.fs) => Sound(r1.fs, k) /\ Stands(r1)
      BY <1>1, <1>2, Zenon DEF Whole
    <3>2. Ok(r2.fs) => Named(r1.fs.disk, nr)
      BY <1>1, <2>1, <3>1, FindsNamed, Zenon
    <3> QED BY <1>5, <3>2, Zenon
  <2> DEFINE h == r2.fs
  <2>3. Whole(h, k) /\ (Ok(h) => Named(h.disk, nr)) /\ Got(h, nr, pin)
    BY <1>2, <1>7, <2>2, Zenon
  <2> HIDE DEF h
  <2>4. /\ Whole(pin.fs, k) /\ pin.fs.filp = h.filp /\ Usable(pin.fs, k, pin.slot)
        /\ Ok(pin.fs) => Ok(h)
    BY <2>3, GotWhole
  <2> QED BY <1>5, <2>4, Zenon DEF PinWhole, h
<1> QED BY <1>4, <1>6, <1>7, Zenon DEF Sought, pin

LEMMA CreatedWhole ==
  ASSUME NEW k \in Nat \ {0}, NEW fs, Whole(fs, k), NEW path, PathOk(path), Last(path) \in Names,
         NEW mode \in Modes, NEW garbage \in Nat,
         fs.disk.imap # Inodes, fs.disk.smap # Extents
  PROVE  PinWhole(fs, create_file(fs, path, mode, garbage), k)
<1> DEFINE r == strip_path(fs, path)
           pin == create_file(fs, path, mode, garbage)
<1>1. /\ r \in WalkType /\ SameButTab(fs, r.fs) /\ Whole(r.fs, k)
      /\ Ok(r.fs) => Ok(fs) /\ Stands(r)
  BY WholeWalk, Zenon
<1>2. r.fs.disk = fs.disk /\ r.fs.filp = fs.filp
  BY <1>1, Zenon DEF SameButTab
<1>3. r.fs.disk.imap # Inodes /\ r.fs.disk.smap # Extents
  BY <1>2, Zenon
<1>4. Created(fs, path, r, mode, garbage, pin)
  BY <1>1, <1>3, CreateIs, Zenon
<1> HIDE DEF r, pin
<1>5. CASE pin.slot = 0 /\ pin.fs = r.fs
  BY <1>1, <1>2, <1>5, Zenon DEF PinWhole, pin
<1>6. CASE InodeMade(r.fs, pin.fs, pin.slot, r.at, Last(path), mode, garbage)
  <2> DEFINE h == r.fs
             gs == pin.fs
             s == pin.slot
             a == r.at
             name == Last(path)
  <2>1. /\ Whole(h, k) /\ a \in Slots /\ (Ok(h) => a # 2 /\ h.tab[a].num # 0)
        /\ InodeMade(h, gs, s, a, name, mode, garbage)
    BY <1>1, <1>6, WalkFields, Zenon DEF Stands
  <2> HIDE DEF h, gs, s, a, name
  <2>2. /\ Whole(gs, k) /\ s \in Slots /\ (Ok(gs) => Ok(h) /\ s # 2 /\ gs.tab[s].num # 0)
    BY <2>1, MadeWhole
  <2>3. gs.filp = h.filp
    BY <2>1, MadeCache, Zenon DEF Whole
  <2>4. s = 2 => Whole(gs, k + 1)
    BY <2>2, Zenon DEF Whole
  <2> QED BY <1>1, <1>2, <2>2, <2>3, <2>4, Zenon DEF PinWhole, Usable, h, gs, s, pin
<1> QED BY <1>4, <1>5, <1>6, Zenon DEF Created, pin

LEMMA NewWhole ==
  ASSUME NEW k \in Nat \ {0}, NEW fs, Whole(fs, k), NEW path, PathOk(path), Last(path) \in Names,
         NEW garbage \in Nat, fs.disk.imap # Inodes, fs.disk.smap # Extents
  PROVE  PinWhole(fs, OpenNew(fs, path, garbage), k)
<1> DEFINE r == strip_path(fs, path)
           nr == Searched(r, path).nr
           hs == Searched(r, path).fs
           D == "reg"
           pin == create_file(r.fs, path, D, garbage)
           x == [slot |-> 0, fs |-> r.fs]
<1>1. /\ r \in WalkType /\ SameButTab(fs, r.fs) /\ Whole(r.fs, k)
      /\ Ok(r.fs) => Ok(fs)
  BY WholeWalk, Zenon
<1>2. r.fs.disk = fs.disk /\ r.fs.filp = fs.filp
  BY <1>1, Zenon DEF SameButTab
<1>3. hs = r.fs
  BY Zenon DEF Searched
<1>4. OpenNew(fs, path, garbage) = IF nr # 0 THEN x ELSE pin
  BY <1>3, Zenon DEF OpenNew, search_file
<1>5. x.slot = 0 /\ x.fs = r.fs
  BY Zenon
<1>6. D \in Modes
  BY DEF Modes
<1> HIDE DEF r, nr, hs, D
<1>7. PinWhole(r.fs, pin, k)
  <2> DEFINE h == r.fs
  <2>1. Whole(h, k) /\ h.disk.imap # Inodes /\ h.disk.smap # Extents
    BY <1>1, <1>2, Zenon
  <2> HIDE DEF h
  <2>2. PinWhole(h, create_file(h, path, D, garbage), k)
    BY <2>1, <1>6, CreatedWhole, Zenon
  <2> QED BY <2>2, Zenon DEF h
<1> HIDE DEF x, pin
<1>8. PinWhole(fs, x, k)
  BY <1>1, <1>2, <1>5, Zenon DEF PinWhole
<1>9. PinWhole(fs, pin, k)
  BY <1>1, <1>2, <1>7, Zenon DEF PinWhole
<1> QED BY <1>4, <1>8, <1>9, Zenon

LEMMA SameWhole ==
  ASSUME NEW fs, NEW k, Whole(fs, k), NEW gs \in FsType, gs.disk = fs.disk, gs.tab = fs.tab,
         gs.writes = fs.writes, Ok(gs) => Ok(fs)
  PROVE  Whole(gs, k)
<1>1. WritesOk(gs)
  BY WritesSame, Zenon DEF Whole
<1>2. Ok(gs) => Sound(gs, k)
  BY Zenon DEF Whole, Sound, TabOk
<1> QED BY <1>1, <1>2, Zenon DEF Whole

LEMMA PutWhole ==
  ASSUME NEW k \in Nat \ {0}, NEW fs, Whole(fs, k), NEW s, Usable(fs, k, s)
  PROVE  Whole(put_inode(fs, s), k) /\ (Ok(put_inode(fs, s)) <=> Ok(fs))
<1> DEFINE gs == put_inode(fs, s)
<1>1. fs \in FsType /\ s \in Slots
  BY Zenon DEF Whole, Usable
<1>2. OneSlot(fs, gs, s, fs.tab[s], gs.tab[s]) /\ gs.cause = fs.cause
  BY <1>1, PutInode, Zenon
<1>3. ASSUME Ok(fs) PROVE Sound(gs, k)
  <2>1. Sound(fs, k) /\ (s = 2 => fs.tab[2].cnt >= k + 1)
    BY <1>3, Zenon DEF Whole, Usable, Sound, TabOk
  <2> QED BY <1>1, <2>1, PutSound, Zenon
<1> HIDE DEF gs
<1>4. gs \in FsType /\ gs.writes = fs.writes /\ (Ok(gs) <=> Ok(fs))
  BY <1>2, Zenon DEF OneSlot, Ok
<1>5. WritesOk(gs)
  BY <1>4, WritesSame, Zenon DEF Whole
<1>6. Whole(gs, k)
  BY <1>3, <1>4, <1>5, Zenon DEF Whole
<1> QED BY <1>4, <1>6, Zenon DEF gs

LEMMA CloseWhole ==
  ASSUME NEW k \in Nat \ {0}, NEW fs, Whole(fs, k), NEW fd \in Fds,
         Usable(fs, k, fs.filp[fd].slot)
  PROVE  Whole(do_close(fs, fd), k)
<1> DEFINE s == fs.filp[fd].slot
           hs == put_inode(fs, s)
           gs == do_close(fs, fd)
<1>1. fs \in FsType /\ s \in Slots
  BY Zenon DEF Whole, Usable
<1>2. Whole(hs, k)
  <2> HIDE DEF s
  <2>1. Usable(fs, k, s)
    BY Zenon DEF s
  <2> QED BY <2>1, PutWhole, Zenon
<1>3. FdSet(hs, gs, fd, Closed) /\ gs.cause = hs.cause
  BY <1>1, CloseIs, Zenon
<1> HIDE DEF hs, gs
<1>4. gs \in FsType /\ gs.disk = hs.disk /\ gs.tab = hs.tab /\ gs.writes = hs.writes
      /\ (Ok(gs) => Ok(hs))
  BY <1>3, Zenon DEF FdSet, Ok
<1>5. Whole(gs, k)
  BY <1>2, <1>4, SameWhole, Zenon
<1> QED BY <1>5, Zenon DEF gs

LEMMA RdwtWhole ==
  ASSUME NEW k \in Nat \ {0}, NEW fs, Whole(fs, k), NEW fd \in Fds,
         Usable(fs, k, fs.filp[fd].slot), NEW io, NEW pos \in Nat, NEW grows,
         NEW garbage \in Nat
  PROVE  Whole(do_close(do_rdwt(fs, fd, io, pos, grows, garbage), fd), k)
<1> DEFINE gs == do_rdwt(fs, fd, io, pos, grows, garbage)
           s == fs.filp[fd].slot
<1>1. fs \in FsType /\ s \in Slots /\ (Ok(fs) => fs.tab[s].num # 0) /\ (s = 2 => Whole(fs, k + 1))
  BY Zenon DEF Whole, Usable
<1>2. Transferred(fs, gs, s, pos, garbage)
  BY <1>1, TransferIs, Zenon
<1> HIDE DEF gs
<1>3. Whole(gs, k) /\ (Ok(gs) <=> Ok(fs)) /\ gs.filp = fs.filp /\ SameCache(fs, gs)
  <2> HIDE DEF s
  <2> QED BY <1>1, <1>2, TransferredWhole, Zenon
<1>4. s = 2 => Whole(gs, k + 1)
  <2> DEFINE m == k + 1
  <2> SUFFICES ASSUME s = 2, Whole(fs, m) PROVE Whole(gs, m)
    BY <1>1, Zenon
  <2> HIDE DEF s, m
  <2> QED BY <1>1, <1>2, TransferredWhole, Zenon
<1>5. gs.filp[fd].slot = s
  BY <1>3, Zenon
<1> HIDE DEF s
<1>6. Usable(gs, k, s)
  <2>1. gs.tab[s].num = fs.tab[s].num
    BY <1>1, <1>3, Zenon DEF SameCache
  <2> QED BY <1>1, <1>3, <1>4, <2>1, Zenon DEF Usable
<1>7. Usable(gs, k, gs.filp[fd].slot)
  BY <1>5, <1>6, Zenon
<1>8. Whole(do_close(gs, fd), k)
  BY <1>3, <1>7, CloseWhole, Zenon
<1> QED BY <1>8, Zenon DEF gs

OpnWhole(fs, o, k) ==
  /\ Whole(o.fs, k) /\ (Ok(o.fs) => Ok(fs))
  /\ o.fd = -1 \/ (o.fd \in Fds /\ Usable(o.fs, k, o.fs.filp[o.fd].slot))

LEMMA OpenedWhole ==
  ASSUME NEW k \in Nat \ {0}, NEW fs, NEW pin, PinWhole(fs, pin, k),
         \E fd \in Fds : FdFree(fs, fd), NEW o, o = Opened(pin)
  PROVE  OpnWhole(fs, o, k) /\ (Ok(o.fs) => Ok(pin.fs)) /\ o.fs.tab = pin.fs.tab
<1>1. /\ Whole(pin.fs, k) /\ pin.fs \in FsType /\ pin.fs.filp = fs.filp
      /\ (Ok(pin.fs) => Ok(fs))
      /\ (pin.slot = 0 \/ Usable(pin.fs, k, pin.slot))
      /\ pin.slot \in {0} \union Slots
  BY Zenon DEF PinWhole, Usable, Whole
<1>2. \E fd \in Fds : FdFree(pin.fs, fd)
  BY <1>1, Zenon DEF FdFree
<1> DEFINE p == Opened(pin)
<1>3. HasOpened(pin, p)
  BY <1>1, <1>2, OpenedIs, Zenon
<1> HIDE DEF p
<1> DEFINE desc == [slot |-> pin.slot, of |-> pin.fs.tab[pin.slot].num,
                    mode |-> pin.fs.tab[pin.slot].mode]
<1>4. desc.slot = pin.slot
  BY Zenon
<1>5. \/ pin.slot = 0 /\ p.fd = -1 /\ p.fs = pin.fs
      \/ /\ pin.slot # 0 /\ p.fd \in Fds /\ FdSet(pin.fs, p.fs, p.fd, desc)
         /\ Ok(p.fs) => p.fs.cause = pin.fs.cause
  BY <1>3, Zenon DEF HasOpened
<1> HIDE DEF desc
<1>6. CASE pin.slot = 0 /\ p.fd = -1 /\ p.fs = pin.fs
  BY <1>1, <1>6, Zenon DEF OpnWhole, p
<1>7. ASSUME pin.slot # 0, p.fd \in Fds, FdSet(pin.fs, p.fs, p.fd, desc),
             Ok(p.fs) => p.fs.cause = pin.fs.cause
      PROVE  OpnWhole(fs, p, k) /\ (Ok(p.fs) => Ok(pin.fs)) /\ p.fs.tab = pin.fs.tab
  <2> DEFINE gs == p.fs
             hs == pin.fs
             s == pin.slot
  <2>1. /\ gs \in FsType /\ gs.disk = hs.disk /\ gs.tab = hs.tab /\ gs.writes = hs.writes
        /\ gs.filp[p.fd] = desc
    BY <1>7, Zenon DEF FdSet
  <2>2. Ok(gs) => Ok(hs)
    BY <1>7, Zenon DEF Ok
  <2>3. Whole(hs, k) /\ Usable(hs, k, s)
    BY <1>1, <1>7, Zenon
  <2> HIDE DEF gs, hs, s
  <2>4. Whole(gs, k)
    BY <2>1, <2>2, <2>3, SameWhole, Zenon
  <2>5. s = 2 => Whole(gs, k + 1)
    <3> DEFINE m == k + 1
    <3> SUFFICES ASSUME s = 2, Whole(hs, m) PROVE Whole(gs, m)
      BY <2>3, Zenon DEF Usable
    <3> HIDE DEF m
    <3> QED BY <2>1, <2>2, SameWhole, Zenon
  <2>6. Usable(gs, k, s)
    BY <2>1, <2>2, <2>3, <2>5, Zenon DEF Usable
  <2>7. gs.filp[p.fd].slot = s
    BY <1>4, <2>1, Zenon DEF s
  <2>8. Usable(gs, k, gs.filp[p.fd].slot)
    BY <2>6, <2>7, Zenon
  <2> QED BY <1>1, <1>7, <2>1, <2>2, <2>4, <2>8, Zenon DEF OpnWhole, gs, hs
<1>8. OpnWhole(fs, p, k) /\ (Ok(p.fs) => Ok(pin.fs)) /\ p.fs.tab = pin.fs.tab
  BY <1>5, <1>6, <1>7, Zenon DEF p
<1>9. o = p
  BY Zenon DEF p
<1> QED BY <1>8, <1>9, Zenon

LEMMA FailedWhole ==
  ASSUME NEW fs, NEW k, Whole(fs, k), NEW o, o.fd = -1, SameButTab(fs, o.fs), ~Ok(o.fs)
  PROVE  OpnWhole(fs, o, k)
<1>1. o.fs \in FsType /\ o.fs.writes = fs.writes
  BY Zenon DEF SameButTab
<1>2. WritesOk(o.fs)
  BY <1>1, WritesSame, Zenon DEF Whole
<1> QED BY <1>1, <1>2, Zenon DEF OpnWhole, Whole

LEMMA OpenWhole ==
  ASSUME NEW k \in Nat \ {0}, NEW fs, Whole(fs, k), NEW path, PathOk(path), NEW garbage
  PROVE  OpnWhole(fs, do_open(fs, path, FALSE, garbage), k)
<1> DEFINE pin == OpenExisting(fs, path)
           o == do_open(fs, path, FALSE, garbage)
<1>1. fs \in FsType /\ FALSE \in BOOLEAN
  BY Zenon DEF Whole
<1>2. OpenIs(fs, FALSE, path, garbage, o)
  BY <1>1, OpenCases, Zenon
<1>3. PinWhole(fs, pin, k)
  BY ExistingWhole, Zenon
<1> HIDE DEF pin, o
<1>4. CASE o.fd = -1 /\ SameButTab(fs, o.fs) /\ ~Ok(o.fs)
  BY <1>4, FailedWhole, Zenon DEF o
<1>5. CASE (\E fd \in Fds : FdFree(fs, fd)) /\ o = Opened(pin)
  BY <1>3, <1>5, OpenedWhole, Zenon DEF o
<1> QED BY <1>2, <1>4, <1>5, Zenon DEF OpenIs, pin

LEMMA OpenNewWhole ==
  ASSUME NEW k \in Nat \ {0}, NEW fs, Whole(fs, k), NEW path, PathOk(path),
         Last(path) \in Names, NEW garbage \in Nat,
         fs.disk.imap # Inodes, fs.disk.smap # Extents
  PROVE  OpnWhole(fs, do_open(fs, path, TRUE, garbage), k)
<1> DEFINE pin == OpenNew(fs, path, garbage)
           o == do_open(fs, path, TRUE, garbage)
<1>1. fs \in FsType /\ TRUE \in BOOLEAN
  BY Zenon DEF Whole
<1>2. OpenIs(fs, TRUE, path, garbage, o)
  BY <1>1, OpenCases, Zenon
<1>3. PinWhole(fs, pin, k)
  BY NewWhole, Zenon
<1> HIDE DEF pin, o
<1>4. CASE o.fd = -1 /\ SameButTab(fs, o.fs) /\ ~Ok(o.fs)
  BY <1>4, FailedWhole, Zenon DEF o
<1>5. CASE (\E fd \in Fds : FdFree(fs, fd)) /\ o = Opened(pin)
  BY <1>3, <1>5, OpenedWhole, Zenon DEF o
<1> QED BY <1>2, <1>4, <1>5, Zenon DEF OpenIs, pin

(* The open of the terminal loads no slot of another inode with nothing.  *)
LEMMA TtyNum ==
  ASSUME NEW k \in Nat \ {0}, NEW fs, Whole(fs, k), NEW s \in Slots, fs.tab[s].num # 0,
         NEW garbage, NEW o, o = do_open(fs, Tty, FALSE, garbage), Ok(o.fs)
  PROVE  o.fs.tab[s].num # 0
<1> DEFINE pin == OpenExisting(fs, Tty)
           x == [fs |-> fs, at |-> 1, found |-> TRUE]
           r1 == strip_path(fs, Tty)
           r2 == strip_path(r1.fs, Tty)
<1>1. fs \in FsType /\ FALSE \in BOOLEAN /\ (Ok(fs) => Sound(fs, k))
  BY Zenon DEF Whole
<1>2. OpenIs(fs, FALSE, Tty, garbage, o)
  BY <1>1, OpenCases, Zenon
<1>3. PinWhole(fs, pin, k)
  BY TtyPath, ExistingWhole, Zenon
<1>4. x \in WalkType /\ x.fs = fs /\ x.at = 1
  BY <1>1, SlotOne, WalkIs, Zenon
<1>5. r1 = x /\ r2 = x
  <2>1. r1 = x
    BY TtyPath, ShortWalk, Zenon
  <2> HIDE DEF x, r1
  <2>2. r2 = strip_path(fs, Tty)
    BY <2>1, <1>4, Zenon
  <2> QED BY <2>1, <2>2, Zenon DEF r1
<1>6. \E nr : Sought(Tty, r1, r2, nr, pin)
  BY <1>4, <1>5, SeekIs, Zenon
<1> HIDE DEF x, r1, r2, pin
<1>7. PICK nr : Sought(Tty, x, x, nr, pin)
  BY <1>5, <1>6, Zenon
<1>8. /\ Ok(pin.fs) /\ Ok(fs) /\ o.fs.tab = pin.fs.tab
  <2>1. (\E fd \in Fds : FdFree(fs, fd)) /\ o = Opened(pin)
    BY <1>2, Zenon DEF OpenIs, pin
  <2> DEFINE p == Opened(pin)
  <2>a. (Ok(p.fs) => Ok(pin.fs)) /\ p.fs.tab = pin.fs.tab
    BY <1>3, <2>1, OpenedWhole, Zenon
  <2> HIDE DEF p
  <2>b. o = p
    BY <2>1, Zenon DEF p
  <2>2. (Ok(o.fs) => Ok(pin.fs)) /\ o.fs.tab = pin.fs.tab
    BY <2>a, <2>b, Zenon
  <2> QED BY <1>3, <2>2, Zenon DEF PinWhole
<1>9. CASE pin.fs = fs
  BY <1>8, <1>9, Zenon
<1>10. ASSUME nr # 0, Got(fs, nr, pin) PROVE o.fs.tab[s].num # 0
  <2>1. Finds(x, Tty, nr)
    BY <1>7, <1>10, Zenon DEF Sought
  <2>2. Sound(x.fs, k) /\ Stands(x)
    BY <1>1, <1>4, <1>8, SlotTwo, Zenon DEF Stands, Sound, TabOk
  <2>3. Named(fs.disk, nr)
    <3>1. Named(x.fs.disk, nr)
      BY <1>4, <2>1, <2>2, FindsNamed, Zenon
    <3> QED BY <1>4, <3>1, Zenon
  <2>4. \A u \in Slots : Ok(pin.fs) /\ fs.tab[u].num # 0 => pin.fs.tab[u].num # 0
    BY <1>10, <2>3, GotWhole
  <2> QED BY <1>8, <2>4, Zenon
<1> QED BY <1>4, <1>7, <1>9, <1>10, Zenon DEF Sought

LEMMA NotFailedWhole ==
  ASSUME NEW fs, NEW k, NEW o, OpnWhole(fs, o, k), ~Failed(o)
  PROVE  Whole(o.fs, k) /\ o.fd \in Fds /\ Usable(o.fs, k, o.fs.filp[o.fd].slot) /\ Ok(o.fs)
<1>1. o.fd # -1 /\ Ok(o.fs)
  BY Zenon DEF Failed, Ok
<1> QED BY <1>1, Zenon DEF OpnWhole

LEMMA TouchedWhole ==
  ASSUME NEW fs, NEW k \in Nat \ {0}, NEW o, OpnWhole(fs, o, k), NEW garbage \in Nat
  PROVE  Whole(AndTouched(o, garbage).fs, k)
<1> DEFINE x == IF Failed(o) THEN o.fs ELSE AndWritten(o, o.fs, 1, garbage)
<1>1. AndTouched(o, garbage).fs = x
  BY Zenon DEF AndTouched
<1>2. CASE Failed(o)
  BY <1>1, <1>2, Zenon DEF OpnWhole
<1>3. CASE ~Failed(o)
  <2>1. Whole(o.fs, k) /\ o.fd \in Fds /\ Usable(o.fs, k, o.fs.filp[o.fd].slot)
    BY <1>3, NotFailedWhole, Zenon
  <2>2. 1 \in Nat
    OBVIOUS
  <2>3. Whole(AndWritten(o, o.fs, 1, garbage), k)
    BY <2>1, <2>2, RdwtWhole, Zenon DEF AndWritten
  <2> QED BY <1>1, <1>3, <2>3, Zenon
<1> QED BY <1>2, <1>3

LEMMA ReadWhole ==
  ASSUME NEW fs, NEW k \in Nat \ {0}, NEW o, OpnWhole(fs, o, k), NEW grows, NEW garbage \in Nat
  PROVE  Whole(AndRead(o, grows, garbage), k)
<1>1. CASE Failed(o)
  BY <1>1, Zenon DEF OpnWhole, AndRead
<1>2. CASE ~Failed(o)
  <2>1. Whole(o.fs, k) /\ o.fd \in Fds /\ Usable(o.fs, k, o.fs.filp[o.fd].slot)
    BY <1>2, NotFailedWhole, Zenon
  <2>2. 0 \in Nat
    OBVIOUS
  <2>3. Whole(do_close(do_rdwt(o.fs, o.fd, "READ", 0, grows, garbage), o.fd), k)
    BY <2>1, <2>2, RdwtWhole, Zenon
  <2> QED BY <1>2, <2>3, Zenon DEF AndRead
<1> QED BY <1>1, <1>2

(* vi: the slot of the first descriptor may still be put when the terminal *)
(* is open as well.                                                        *)
LEMMA EditedWhole ==
  ASSUME NEW fs, NEW k \in Nat \ {0}, NEW o, Opn(fs, o), OpnWhole(fs, o, k),
         NEW garbage \in Nat
  PROVE  Whole(AndEdited(o, garbage), k)
<1> DEFINE t == do_open(o.fs, Tty, FALSE, garbage)
<1>1. CASE Failed(o)
  BY <1>1, Zenon DEF OpnWhole, AndEdited
<1>2. CASE ~Failed(o)
  <2> DEFINE s == o.fs.filp[o.fd].slot
  <2>1. /\ Whole(o.fs, k) /\ o.fd \in Fds /\ Usable(o.fs, k, s)
        /\ Ok(o.fs) /\ Fine(o.fs)
    BY <1>2, NotFailedWhole, NotFailed, Zenon
  <2>2. OpnWhole(o.fs, t, k) /\ Opn(o.fs, t)
    BY <2>1, TtyPath, OpenWhole, OpenFine, Zenon
  <2>3. AndEdited(o, garbage) = AndTerminal(o, t, garbage)
    BY <1>2, Zenon DEF AndEdited
  <2>4. CASE Failed(t)
    BY <2>2, <2>3, <2>4, Zenon DEF OpnWhole, AndTerminal
  <2>5. CASE ~Failed(t)
    <3>1. Whole(t.fs, k) /\ Ok(t.fs) /\ t.fd \in Fds
      BY <2>2, <2>5, NotFailedWhole, Zenon
    <3>2. s \in Slots /\ o.fs.tab[s].num # 0 /\ (s = 2 => Whole(o.fs, k + 1))
      BY <2>1, Zenon DEF Usable
    <3>3. t.fs.tab[s].num # 0
      <4> DEFINE h == o.fs
      <4>1. Whole(h, k) /\ s \in Slots /\ h.tab[s].num # 0 /\ t = do_open(h, Tty, FALSE, garbage)
            /\ Ok(t.fs)
        BY <2>1, <3>1, <3>2, Zenon
      <4> HIDE DEF h, s, t
      <4> QED BY <4>1, TtyNum
    <3>4. s = 2 => Whole(t.fs, k + 1)
      <4> DEFINE m == k + 1
      <4> SUFFICES ASSUME s = 2, Whole(o.fs, m) PROVE Whole(t.fs, m)
        BY <3>2, Zenon
      <4>1. m \in Nat \ {0}
        OBVIOUS
      <4> HIDE DEF m, s
      <4>2. OpnWhole(o.fs, t, m)
        BY <4>1, TtyPath, OpenWhole, Zenon
      <4> HIDE DEF t
      <4> QED BY <4>2, Zenon DEF OpnWhole
    <3>5. t.fs.filp[o.fd] = o.fs.filp[o.fd]
      <4>1. t.fd # -1
        <5> HIDE DEF t
        <5> QED BY <2>5, Zenon DEF Failed
      <4>2. FdFree(o.fs, t.fd) /\ \A f \in Fds : f # t.fd => t.fs.filp[f] = o.fs.filp[f]
        <5> HIDE DEF t
        <5> QED BY <2>2, <4>1, Zenon DEF Opn
      <4>3. t.fd # o.fd
        <5>1. s # 0
          <6> HIDE DEF s
          <6> QED BY <3>2, NoZero, Zenon
        <5> HIDE DEF t
        <5> QED BY <4>2, <5>1, Zenon DEF FdFree
      <4> HIDE DEF t
      <4> QED BY <2>1, <4>2, <4>3, Zenon
    <3> HIDE DEF t
    <3>6. Usable(t.fs, k, t.fs.filp[o.fd].slot)
      <4>1. t.fs.filp[o.fd].slot = s
        BY <3>5, Zenon
      <4> HIDE DEF s
      <4>2. Usable(t.fs, k, s)
        BY <3>2, <3>3, <3>4, Zenon DEF Usable
      <4> QED BY <4>1, <4>2, Zenon
    <3>7. 2 \in Nat
      OBVIOUS
    <3>8. Whole(AndWritten(o, t.fs, 2, garbage), k)
      BY <2>1, <3>1, <3>6, <3>7, RdwtWhole, Zenon DEF AndWritten
    <3>9. AndTerminal(o, t, garbage) = AndWritten(o, t.fs, 2, garbage)
      BY <2>5, Zenon DEF AndTerminal
    <3> QED BY <2>3, <3>8, <3>9, Zenon DEF t
  <2> QED BY <2>4, <2>5
<1> QED BY <1>1, <1>2

LEMMA MadeDirWhole ==
  ASSUME NEW fs, NEW k \in Nat \ {0}, NEW path, PathOk(path), Last(path) \in Names,
         NEW garbage \in Nat, fs.disk.imap # Inodes, fs.disk.smap # Extents,
         NEW o, OpnWhole(fs, o, k), o.fs.disk = fs.disk
  PROVE  Whole(AndMade(o, path, garbage).fs, k)
<1>1. CASE o.fd # -1 \/ o.fs.cause # ""
  <2>1. AndMade(o, path, garbage) = [ok |-> FALSE, fs |-> o.fs]
    BY <1>1, Zenon DEF AndMade
  <2>2. AndMade(o, path, garbage).fs = o.fs
    BY <2>1
  <2> QED BY <2>2, Zenon DEF OpnWhole
<1>2. CASE ~(o.fd # -1 \/ o.fs.cause # "")
  <2> DEFINE D == "dir"
             made == create_file(o.fs, path, D, garbage)
             x == IF made.slot = 0 THEN made.fs ELSE put_inode(made.fs, made.slot)
  <2>1. AndMade(o, path, garbage) = PutMade(made)
    BY <1>2, Zenon DEF AndMade, do_mkdir
  <2>2. PutMade(made).fs = x
    BY Zenon DEF PutMade
  <2>3. D \in Modes
    BY DEF Modes
  <2>4. Whole(o.fs, k) /\ o.fs.disk.imap # Inodes /\ o.fs.disk.smap # Extents
    BY Zenon DEF OpnWhole
  <2> HIDE DEF D
  <2>5. PinWhole(o.fs, made, k)
    BY <2>3, <2>4, CreatedWhole, Zenon
  <2> HIDE DEF made
  <2>6. CASE made.slot = 0
    BY <2>1, <2>2, <2>5, <2>6, Zenon DEF PinWhole
  <2>7. CASE made.slot # 0
    <3>1. Whole(made.fs, k) /\ Usable(made.fs, k, made.slot)
      BY <2>5, <2>7, Zenon DEF PinWhole
    <3>2. Whole(put_inode(made.fs, made.slot), k)
      BY <3>1, PutWhole, Zenon
    <3> QED BY <2>1, <2>2, <2>7, <3>2, Zenon
  <2> QED BY <2>6, <2>7
<1> QED BY <1>1, <1>2

LEMMA LsWhole ==
  ASSUME NEW fs, NEW k \in Nat \ {0}, Whole(fs, k), NEW dir, PathOk(Append(dir, ""))
  PROVE  Whole(do_ls(fs, dir), k)
<1> DEFINE r == strip_path(fs, Append(dir, ""))
           C == "do_ls: dir_inode was never set"
           hs == Fail(r.fs, C)
<1>1. Whole(r.fs, k)
  BY WholeWalk, Zenon
<1>2. C \in Causes /\ C # ""
  BY DEF Causes
<1>3. do_ls(fs, dir) = IF r.found THEN r.fs ELSE hs
  BY Zenon DEF do_ls
<1> HIDE DEF r, C
<1>5. /\ hs \in FsType /\ hs.writes = r.fs.writes /\ hs.cause # ""
  BY <1>1, <1>2, FailIs, Zenon DEF Whole
<1> HIDE DEF hs
<1>6. Whole(hs, k)
  <2>1. WritesOk(hs)
    BY <1>1, <1>5, WritesSame, Zenon DEF Whole
  <2> QED BY <1>5, <2>1, Zenon DEF Whole, Ok
<1>7. CASE r.found
  BY <1>1, <1>3, <1>7, Zenon
<1>8. CASE ~r.found
  BY <1>3, <1>6, <1>8, Zenon
<1> QED BY <1>7, <1>8

LEMMA BootSound ==
  ASSUME NEW d \in DiskType, DiskOk(d), NEW tab, NEW fds, tab = Booted(d).tab,
         fds = Booted(d).filp
  PROVE  Sound(StateOf(d, tab, fds), 2)
<1> DEFINE X == StateOf(d, tab, fds)
<1>1. Boots(d, tab, fds)
  BY BootIs, Zenon
<1>2. X.disk = d /\ X.tab = tab
  BY Zenon DEF StateOf
<1>3. /\ tab[1].num = 1 /\ tab[1].start = d.node[1].start /\ tab[1].i_node_length = d.node[2].mode
      /\ tab[2].num = 2 /\ tab[2].cnt = 2 /\ tab[2].mode = d.node[2].mode
      /\ \A s \in Slots : s \notin {1, 2} => tab[s] = NoInode
  BY <1>1, Zenon DEF Boots
<1>4. /\ {1, 2} \subseteq d.imap /\ d.node[2].mode = "chr" /\ d.node[1].start # 0
  BY Zenon DEF DiskOk, NodesOk
<1>5. NoInode.num = 0
  BY Zenon DEF NoInode
<1> HIDE DEF X
<1>6. SlotOk(d, 1, tab[1])
  BY <1>3, <1>4, SlotTwo, Zenon DEF SlotOk
<1>7. SlotOk(d, 2, tab[2])
  BY <1>3, SlotTwo, Zenon DEF SlotOk
<1>8. ASSUME NEW s \in Slots, s \notin {1, 2} PROVE SlotOk(d, s, tab[s])
  <2>1. tab[s].num = 0
    BY <1>3, <1>5, <1>8, Zenon
  <2> QED BY <2>1, SlotTwo, Zenon DEF SlotOk
<1>9. ASSUME NEW s \in Slots PROVE SlotOk(d, s, tab[s])
  <2>1. CASE s = 1
    BY <1>6, <2>1, Zenon
  <2>2. CASE s = 2
    BY <1>7, <2>2, Zenon
  <2>3. CASE s \notin {1, 2}
    BY <1>8, <2>3, Zenon
  <2> QED BY <2>1, <2>2, <2>3, Zenon
<1>10. 2 >= 2
  OBVIOUS
<1>11. tab[1].num # 0 /\ tab[2].mode = "chr" /\ tab[2].cnt >= 2
  BY <1>3, <1>4, <1>10, SlotTwo, Zenon
<1>12. Sound(X, 2)
  BY <1>2, <1>3, <1>9, <1>11, Zenon DEF Sound, TabOk
<1> QED BY <1>12 DEF X

LEMMA MkfsSound == DiskOk(mkfs)
<1> DEFINE d == mkfs
<1>1. 1 \in d.imap /\ 2 \in d.imap /\ 1 \in d.smap
  BY MkfsIs
<1>2. d.node[1].start = 1 /\ d.node[2].start = 0 /\ d.node[2].mode = "chr"
  <2> DEFINE a == [mode |-> "dir", size |-> 4, start |-> 1]
             b == [mode |-> "chr", size |-> 0, start |-> 0]
  <2>1. d.node[1] = a /\ d.node[2] = b
    BY MkfsIs, Zenon
  <2>2. a.start = 1 /\ b.start = 0 /\ b.mode = "chr"
    BY Zenon
  <2> HIDE DEF a, b
  <2> QED BY <2>1, <2>2, Zenon
<1>3. \A n \in Nodes : n \notin {1, 2} => d.node[n].start = 0
  <2> DEFINE a == [mode |-> "none", size |-> 0, start |-> 0]
  <2>1. \A n \in Nodes : n \notin {1, 2} => d.node[n] = a
    BY MkfsIs, Zenon DEF Nodes
  <2>2. a.start = 0
    BY Zenon
  <2> HIDE DEF a
  <2> QED BY <2>1, <2>2, Zenon
<1>4. \A x \in Starts, i \in 1..DIR_SLOTS :
        /\ x = 1 /\ i = 1 => d.dir[x][i].inode_nr = 1
        /\ x = 1 /\ i = 2 => d.dir[x][i].inode_nr = 2
        /\ x # 1 \/ i \notin {1, 2} => d.dir[x][i].inode_nr = 0
  <2> DEFINE a == [inode_nr |-> 1, name |-> "."]
             b == [inode_nr |-> 2, name |-> "dev_tty0"]
  <2>1. \A x \in Starts, i \in 1..DIR_SLOTS :
          /\ x = 1 /\ i = 1 => d.dir[x][i] = a
          /\ x = 1 /\ i = 2 => d.dir[x][i] = b
          /\ x # 1 \/ i \notin {1, 2} => d.dir[x][i] = NoEntry
    BY MkfsIs, Zenon
  <2>2. a.inode_nr = 1 /\ b.inode_nr = 2 /\ NoEntry.inode_nr = 0
    BY Zenon DEF NoEntry
  <2> HIDE DEF a, b
  <2> QED BY <2>1, <2>2, Zenon
<1> HIDE DEF d
<1>5. Named(d, 1) /\ Named(d, 2)
  BY <1>1, <1>2, SlotTwo, Zenon DEF Named
<1>6. ASSUME NEW x \in Starts, NEW i \in 1..DIR_SLOTS, d.dir[x][i].inode_nr # 0
      PROVE  x = 1 /\ i \in {1, 2} /\ d.dir[x][i].inode_nr = i
  <2>1. x = 1 /\ i \in {1, 2}
    BY <1>4, <1>6, Zenon
  <2>2. CASE i = 1
    BY <1>4, <2>1, <2>2, Zenon
  <2>3. CASE i = 2
    BY <1>4, <2>1, <2>3, Zenon
  <2> QED BY <2>1, <2>2, <2>3, Zenon
<1>7. ASSUME NEW x \in Starts, NEW i \in 1..DIR_SLOTS, d.dir[x][i].inode_nr # 0
      PROVE  x # 0 /\ Named(d, d.dir[x][i].inode_nr)
  <2>1. x = 1 /\ i \in {1, 2} /\ d.dir[x][i].inode_nr = i
    BY <1>6, <1>7, Zenon
  <2>2. Named(d, i)
    BY <1>5, <2>1, Zenon
  <2> QED BY <2>1, <2>2, SlotTwo, Zenon
<1>8. ASSUME NEW x \in Starts, NEW f \in Starts, NEW i \in 1..DIR_SLOTS, NEW j \in 1..DIR_SLOTS,
             d.dir[x][i].inode_nr = d.dir[f][j].inode_nr, d.dir[x][i].inode_nr # 0
      PROVE  x = f /\ i = j
  <2>1. x = 1 /\ d.dir[x][i].inode_nr = i
    BY <1>6, <1>8, Zenon
  <2>2. d.dir[f][j].inode_nr # 0
    BY <1>8, Zenon
  <2>3. f = 1 /\ d.dir[f][j].inode_nr = j
    BY <1>6, <2>2, Zenon
  <2> QED BY <1>8, <2>1, <2>3, Zenon
<1>9. EntriesOk(d)
  BY <1>7, <1>8 DEF EntriesOk
<1>10. \A n \in Nodes : d.node[n].start # 0 => n = 1 /\ d.node[n].start = 1
  BY <1>2, <1>3, Zenon
<1>11. ASSUME NEW m \in Nodes, NEW n \in Nodes, d.node[m].start = d.node[n].start,
              d.node[m].start # 0
       PROVE  m = n
  BY <1>10, <1>11, Zenon
<1>12. \A n \in Nodes : d.node[n].start # 0 => n \in d.imap /\ d.node[n].start \in d.smap
  BY <1>1, <1>10, Zenon
<1>13. {1, 2} \subseteq d.imap /\ d.node[1].start # 0
  BY <1>1, <1>2, SlotTwo, Zenon
<1>14. NodesOk(d)
  BY <1>2, <1>11, <1>12, <1>13 DEF NodesOk
<1>15. DiskOk(d)
  BY <1>9, <1>14, Zenon DEF DiskOk
<1> QED BY <1>15 DEF d

(* What every command but a removal leaves behind.  *)
LEMMA CreatesWhole ==
  ASSUME Sane, Sound(FsState, 2), NEW fs, Creates(fs)
  PROVE  Whole(fs, 2)
<1> DEFINE X == FsState
<1>1. Fine(X) /\ X.disk = disk
  BY StateFields, Zenon DEF Fine, Sane
<1>2. session \in Sessions
  BY Zenon DEF Sane
<1>a. Whole(X, 2)
  <2>1. X.writes = <<>>
    BY StateFields, Zenon
  <2>2. DOMAIN <<>> = {}
    OBVIOUS
  <2>3. WritesOk(X)
    BY <2>1, <2>2, Zenon DEF WritesOk
  <2> QED BY <2>3, Zenon DEF Whole, Sane
<1>3. PICK path \in session.paths, g \in Garbage :
        Room /\ (fs = Touched(path, g).fs \/ fs = MadeDir(path, g).fs)
  BY Zenon DEF Creates
<1>4. PathOk(path) /\ Last(path) \in Names /\ g \in Nat
  BY <1>2, SessionPaths, FilePath, GarbageNat, Zenon
<1>5. X.disk.imap # Inodes /\ X.disk.smap # Extents
  BY <1>1, <1>3, Zenon DEF Room
<1>b. 2 \in Nat \ {0}
  OBVIOUS
<1> HIDE DEF X
<1>6. CASE fs = AndTouched(do_open(X, path, TRUE, g), g).fs
  <2>1. OpnWhole(X, do_open(X, path, TRUE, g), 2)
    BY <1>a, <1>b, <1>4, <1>5, OpenNewWhole, Zenon
  <2> QED BY <1>b, <1>4, <1>6, <2>1, TouchedWhole, Zenon
<1>7. CASE fs = AndMade(do_open(X, path, FALSE, g), path, g).fs
  <2>a. OpnWhole(X, do_open(X, path, FALSE, g), 2)
    BY <1>a, <1>b, <1>4, OpenWhole, Zenon
  <2>b. do_open(X, path, FALSE, g).fs.disk = X.disk
    BY <1>1, <1>4, OpenKeeps, Zenon
  <2>1. OpnWhole(X, do_open(X, path, FALSE, g), 2)
        /\ do_open(X, path, FALSE, g).fs.disk = X.disk
    BY <2>a, <2>b
  <2> QED BY <1>b, <1>4, <1>5, <1>7, <2>1, MadeDirWhole, Zenon
<1> QED BY <1>3, <1>6, <1>7, Zenon DEF Touched, MadeDir, X

LEMMA ResultWhole ==
  ASSUME Sane, Sound(FsState, 2), NEW fs, Result(fs), ~Removes(fs)
  PROVE  Whole(fs, 2)
<1> DEFINE X == FsState
<1>1. Fine(X)
  BY Zenon DEF Fine, Sane
<1>a. Whole(X, 2)
  <2>1. X.writes = <<>>
    BY StateFields, Zenon
  <2>2. DOMAIN <<>> = {}
    OBVIOUS
  <2>3. WritesOk(X)
    BY <2>1, <2>2, Zenon DEF WritesOk
  <2> QED BY <2>3, Zenon DEF Whole, Sane
<1>b. 2 \in Nat \ {0}
  OBVIOUS
<1>2. session \in Sessions /\ cwd \in Seq(Names)
  BY Zenon DEF Sane
<1>3. ASSUME NEW path \in session.paths
      PROVE  PathOk(path) /\ path \in Seq(Names)
  BY <1>2, SessionPaths, FilePath, Zenon
<1>4. CASE Creates(fs)
  BY <1>4, CreatesWhole
<1>6. CASE Transfers(fs)
  <2>1. PICK path \in session.paths, g \in Garbage, grows \in BOOLEAN :
          \/ fs = AndRead(do_open(X, path, FALSE, g), grows, g)
          \/ fs = AndEdited(do_open(X, path, FALSE, g), g)
    BY <1>6, Zenon DEF Transfers
  <2> HIDE DEF X
  <2>2. OpnWhole(X, do_open(X, path, FALSE, g), 2) /\ Opn(X, do_open(X, path, FALSE, g))
        /\ g \in Nat
    BY <1>1, <1>a, <1>b, <1>3, GarbageNat, OpenWhole, OpenFine, Zenon
  <2> QED BY <1>b, <2>1, <2>2, ReadWhole, EditedWhole, Zenon
<1>7. ASSUME NEW dir \in Seq(Names), fs = do_open(X, Append(dir, ""), FALSE, 0).fs
      PROVE  Whole(fs, 2)
  <2> HIDE DEF X
  <2>1. OpnWhole(X, do_open(X, Append(dir, ""), FALSE, 0), 2)
    BY <1>a, <1>b, DirPath, OpenWhole, Zenon
  <2> QED BY <1>7, <2>1, Zenon DEF OpnWhole
<1>8. CASE Descends(fs)
  BY <1>3, <1>7, <1>8, Zenon DEF Descends
<1>9. CASE Climbs(fs)
  <2>1. PICK parent : /\ parent = cwd \/ (parent = Front(cwd) /\ cwd # <<>>)
                      /\ fs = do_open(X, Append(parent, ""), FALSE, 0).fs
    BY <1>9, Zenon DEF Climbs
  <2>2. parent \in Seq(Names)
    BY <1>2, <2>1, FrontIs, Zenon
  <2> QED BY <1>7, <2>1, <2>2, Zenon
<1>10. CASE Lists(fs)
  <2>1. fs = do_ls(X, cwd)
    BY <1>10, Zenon DEF Lists
  <2> HIDE DEF X
  <2> QED BY <1>a, <1>b, <1>2, <2>1, DirPath, LsWhole, Zenon
<1> QED BY <1>4, <1>6, <1>8, <1>9, <1>10, Zenon DEF Result

(* The invariant of the sessions without removals.  *)
Kind == "rm" \notin session.commands

Safe == Sane /\ (Kind => Sound(FsState, 2))

LEMMA SafeStart ==
  ASSUME Init
  PROVE  Safe
<1>1. Sane
  BY SaneStart
<1>2. /\ disk = mkfs /\ inode_table = Booted(mkfs).tab /\ filp = Booted(mkfs).filp
  BY Zenon DEF Init
<1>3. Sound(StateOf(mkfs, inode_table, filp), 2)
  BY <1>2, MkfsIs, MkfsSound, BootSound, Zenon
<1> QED BY <1>1, <1>2, <1>3, StateIs, Zenon DEF Safe

LEMMA SoundPower ==
  ASSUME NEW d \in DiskType, DiskOk(d), PowerOn(d)
  PROVE  Sound(FsState, 2)'
<1>1. /\ disk' = d /\ inode_table' = Booted(d).tab /\ filp' = Booted(d).filp
  BY Zenon DEF PowerOn
<1>2. FsState' = StateOf(d, inode_table', filp')
  BY <1>1, Zenon DEF FsState, StateOf
<1>3. Sound(StateOf(d, inode_table', filp'), 2)
  BY <1>1, BootSound, Zenon
<1> QED BY <1>2, <1>3, Zenon DEF Sound, TabOk

LEMMA SoundEnds ==
  ASSUME Sound(FsState, 2), NEW fs, Whole(fs, 2), NEW c, NEW t, Ends(fs, c, t)
  PROVE  Sound(FsState, 2)'
<1>1. CASE ~Ok(fs)
  <2>1. UNCHANGED <<disk, inode_table, filp, cwd, told>>
    BY <1>1, Zenon DEF Ends, Ok
  <2>2. FsState' = FsState
    BY <2>1, Zenon DEF FsState
  <2> QED BY <2>2, Zenon DEF Sound, TabOk
<1>2. CASE Ok(fs)
  <2>1. disk' = fs.disk /\ inode_table' = fs.tab /\ filp' = fs.filp
    BY <1>2, Zenon DEF Ends, Ok
  <2>2. FsState'.disk = fs.disk /\ FsState'.tab = fs.tab
    BY <2>1, Zenon DEF FsState
  <2>3. Sound(fs, 2)
    BY <1>2, Zenon DEF Whole
  <2> QED BY <2>2, <2>3, Zenon DEF Sound, TabOk
<1> QED BY <1>1, <1>2

LEMMA SafeNext ==
  ASSUME Safe, [Next]_vars
  PROVE  Safe'
<1>0. Sane /\ Sane'
  BY SaneNext DEF Safe
<1> SUFFICES ASSUME Kind' PROVE Sound(FsState, 2)'
  BY <1>0, Zenon DEF Safe
<1>1. CASE Commanded
  <2>1. PICK fs, c, t : Result(fs) /\ Ends(fs, c, t)
    BY <1>1, Zenon DEF Commanded
  <2>2. session' = session
    BY <2>1, Zenon DEF Ends
  <2>3. Sound(FsState, 2) /\ ~Removes(fs)
    BY <2>2, Zenon DEF Safe, Kind, Removes
  <2>4. Whole(fs, 2)
    BY <1>0, <2>1, <2>3, ResultWhole
  <2> QED BY <2>1, <2>3, <2>4, SoundEnds
<1>2. CASE Cut
  <2>1. PICK fs : Creates(fs) /\ \E i \in DOMAIN fs.writes : PowerOn(fs.writes[i])
    BY <1>2, Zenon DEF Cut
  <2>2. PICK i \in DOMAIN fs.writes : PowerOn(fs.writes[i])
    BY <2>1
  <2>3. session' = session
    BY <2>2, Zenon DEF PowerOn
  <2>4. Sound(FsState, 2)
    BY <2>3, Zenon DEF Safe, Kind
  <2>5. Whole(fs, 2)
    BY <1>0, <2>1, <2>4, CreatesWhole
  <2>6. fs.writes[i] \in DiskType
    BY <2>5, WritesType, Zenon DEF Whole
  <2>7. DiskOk(fs.writes[i])
    BY <2>5, Zenon DEF Whole, WritesOk
  <2> QED BY <2>2, <2>6, <2>7, SoundPower, Zenon
<1>3. CASE PowerOn(disk)
  <2>1. disk \in DiskType
    BY <1>0, StateFields, FsFields, Zenon DEF Sane
  <2>2. session' = session
    BY <1>3, Zenon DEF PowerOn
  <2>3. DiskOk(disk)
    BY <2>2, StateFields, Zenon DEF Safe, Kind, Sound
  <2> QED BY <1>3, <2>1, <2>3, SoundPower, Zenon
<1>4. CASE UNCHANGED vars
  <2>1. /\ UNCHANGED session /\ FsState' = FsState
    BY <1>4, Zenon DEF vars, FsState
  <2> QED BY <2>1, Zenon DEF Safe, Kind, Sound, TabOk
<1> QED BY <1>1, <1>2, <1>3, <1>4, NextCases, Zenon

LEMMA SafeDisk ==
  ASSUME Safe
  PROVE  CrashSafe
<1> SUFFICES ASSUME "rm" \notin session.commands
             PROVE  /\ {EntryInode(e) : e \in Entries} \subseteq disk.imap
                    /\ \A e, f \in Entries : EntryInode(e) = EntryInode(f) => e = f
                    /\ \A e \in Entries : EntryInode(e) # 2 =>
                         disk.node[EntryInode(e)].start
                           \in disk.smap \ {disk.node[m].start : m \in Inodes \ {EntryInode(e)}}
  BY Zenon DEF CrashSafe
<1>1. EntriesOk(disk) /\ NodesOk(disk) /\ disk \in DiskType
  BY StateFields, FsFields, Zenon DEF Safe, Kind, Sound, DiskOk, Sane
<1>2. disk.imap \subseteq Inodes /\ disk.imap \subseteq Nodes
  BY <1>1, DiskFields, NodeNumbers, Zenon
<1>3. ASSUME NEW e \in Entries
      PROVE  /\ e[1] \in Nodes /\ e[2] \in 1..DIR_SLOTS /\ EntryInode(e) # 0
             /\ disk.node[e[1]].start \in Starts
             /\ e = <<e[1], e[2]>>
  <2>1. e \in disk.imap \X (1..DIR_SLOTS) /\ EntryInode(e) # 0
    BY Zenon DEF Entries
  <2>2. e[1] \in disk.imap /\ e[2] \in 1..DIR_SLOTS /\ e = <<e[1], e[2]>>
    BY <2>1
  <2>3. e[1] \in Nodes
    BY <1>2, <2>2, Zenon
  <2>4. disk.node \in [Nodes -> NodeType]
    BY <1>1, DiskFields, Zenon DEF Nodes
  <2>5. disk.node[e[1]] \in NodeType
    BY <2>3, <2>4, Zenon
  <2>6. disk.node[e[1]].start \in Starts
    BY <2>5, Zenon DEF NodeType
  <2> QED BY <2>1, <2>2, <2>3, <2>6, Zenon
<1>4. ASSUME NEW e \in Entries
      PROVE  Named(disk, EntryInode(e)) /\ disk.node[e[1]].start # 0
  <2> DEFINE x == disk.node[e[1]].start
             i == e[2]
  <2>1. x \in Starts /\ i \in 1..DIR_SLOTS /\ disk.dir[x][i].inode_nr # 0
    BY <1>3, Zenon DEF EntryInode
  <2> HIDE DEF x, i
  <2>2. x # 0 /\ Named(disk, disk.dir[x][i].inode_nr)
    BY <1>1, <2>1, Zenon DEF EntriesOk
  <2> QED BY <2>2, Zenon DEF x, i, EntryInode
<1>5. \A e \in Entries : EntryInode(e) \in disk.imap
  BY <1>4, Zenon DEF Named
<1>6. ASSUME NEW e \in Entries, NEW f \in Entries, EntryInode(e) = EntryInode(f)
      PROVE  e = f
  <2> DEFINE x == disk.node[e[1]].start
             i == e[2]
             y == disk.node[f[1]].start
             j == f[2]
  <2>1. /\ x \in Starts /\ i \in 1..DIR_SLOTS /\ y \in Starts /\ j \in 1..DIR_SLOTS
        /\ disk.dir[x][i].inode_nr # 0 /\ disk.dir[x][i].inode_nr = disk.dir[y][j].inode_nr
    BY <1>3, <1>6, Zenon DEF EntryInode
  <2>2. x # 0 /\ e[1] \in Nodes /\ f[1] \in Nodes
    BY <1>3, <1>4, Zenon
  <2> HIDE DEF x, i, y, j
  <2>3. x = y /\ i = j
    <3>1. \A u, v \in Starts, a, b \in 1..DIR_SLOTS :
            /\ disk.dir[u][a].inode_nr = disk.dir[v][b].inode_nr
            /\ disk.dir[u][a].inode_nr # 0
            => u = v /\ a = b
      BY <1>1, Zenon DEF EntriesOk
    <3>2. disk.dir[x][i].inode_nr = disk.dir[y][j].inode_nr /\ disk.dir[x][i].inode_nr # 0
          => x = y /\ i = j
      BY <2>1, <3>1
    <3> QED BY <2>1, <3>2, Zenon
  <2>4. e[1] = f[1]
    <3>1. \A m, n \in Nodes :
            disk.node[m].start = disk.node[n].start /\ disk.node[m].start # 0 => m = n
      BY <1>1, Zenon DEF NodesOk
    <3> QED BY <2>2, <2>3, <3>1, Zenon DEF x, y
  <2>5. e = <<e[1], e[2]>> /\ f = <<f[1], f[2]>>
    BY <1>3, Zenon
  <2> QED BY <2>3, <2>4, <2>5, Zenon DEF i, j
<1>7. ASSUME NEW e \in Entries, EntryInode(e) # 2
      PROVE  disk.node[EntryInode(e)].start
               \in disk.smap \ {disk.node[m].start : m \in Inodes \ {EntryInode(e)}}
  <2> DEFINE n == EntryInode(e)
  <2>1. n \in disk.imap /\ disk.node[n].start # 0
    BY <1>4, <1>7, Zenon DEF Named
  <2> HIDE DEF n
  <2>2. n \in Nodes /\ \A m \in Inodes : m \in Nodes
    BY <1>2, <2>1, NodeNumbers, Zenon
  <2>3. disk.node[n].start \in disk.smap
    BY <1>1, <2>1, <2>2, Zenon DEF NodesOk
  <2>4. \A m \in Inodes \ {n} : disk.node[m].start # disk.node[n].start
    <3>1. \A m, k \in Nodes :
            disk.node[m].start = disk.node[k].start /\ disk.node[m].start # 0 => m = k
      BY <1>1, Zenon DEF NodesOk
    <3> QED BY <2>1, <2>2, <3>1, Zenon
  <2> QED BY <2>3, <2>4, Zenon DEF n
<1> QED BY <1>5, <1>6, <1>7, Zenon

(* Whenever the power fails, in a session that removes nothing, the disk   *)
(* has no entry for a free inode and no two owners of a sector.            *)
THEOREM CrashSafeAlways == Spec => []CrashSafe
<1>1. Init => Safe
  BY SafeStart
<1>2. Safe /\ [Next]_vars => Safe'
  BY SafeNext
<1>3. Safe => CrashSafe
  BY SafeDisk
<1> QED BY <1>1, <1>2, <1>3, PTL DEF Spec

(* ------------------------------------------------------------------------ *)
(* The descriptors of files, and the counts of the slots they refer to.      *)

Sharing(fds, s) == {f \in Fds : fds[f].mode = "reg" /\ fds[f].slot = s}

Refs(fds, s) == Cardinality(Sharing(fds, s))

LEMMA RefsNat ==
  ASSUME NEW fds, NEW s
  PROVE  IsFiniteSet(Sharing(fds, s)) /\ Refs(fds, s) \in Nat
<1>1. IsFiniteSet(Fds)
  <2>1. 0 \in Int /\ NR_FILES - 1 \in Int
    BY Constants
  <2> QED BY <2>1, FS_Interval, Zenon DEF Fds
<1>2. Sharing(fds, s) \subseteq Fds
  BY Zenon DEF Sharing
<1>3. IsFiniteSet(Sharing(fds, s))
  BY <1>1, <1>2, FS_Subset, Zenon
<1> QED BY <1>3, FS_CardinalityType, Zenon DEF Refs

LEMMA NoRefs ==
  ASSUME NEW fds, NEW s, Refs(fds, s) = 0
  PROVE  \A f \in Fds : fds[f].mode = "reg" => fds[f].slot # s
<1>1. Sharing(fds, s) = {}
  BY RefsNat, FS_EmptySet, Zenon DEF Refs
<1> QED BY <1>1, Zenon DEF Sharing

LEMMA NoneShares ==
  ASSUME NEW fds, NEW s, \A f \in Fds : fds[f].mode = "reg" => fds[f].slot # s
  PROVE  Refs(fds, s) = 0
<1>1. Sharing(fds, s) = {}
  BY Zenon DEF Sharing
<1> QED BY <1>1, RefsNat, FS_EmptySet, Zenon DEF Refs

(* References other than that of fd.  *)
OtherRefs(fds, s, fd) == Cardinality(Sharing(fds, s) \ {fd})

LEMMA OtherNat ==
  ASSUME NEW fds, NEW s, NEW fd
  PROVE  /\ OtherRefs(fds, s, fd) \in Nat
         /\ Refs(fds, s) \in Nat
         /\ Refs(fds, s) <= OtherRefs(fds, s, fd) + 1
         /\ OtherRefs(fds, s, fd) <= Refs(fds, s)
         /\ fd \notin Sharing(fds, s) => OtherRefs(fds, s, fd) = Refs(fds, s)
<1> DEFINE S == Sharing(fds, s)
           T == S \ {fd}
<1>1. IsFiniteSet(S) /\ Refs(fds, s) \in Nat
  BY RefsNat, Zenon
<1>2. IsFiniteSet(T) /\ Cardinality(T) \in Nat
  BY <1>1, FS_Subset, FS_CardinalityType, Zenon
<1>3. Refs(fds, s) = Cardinality(S) /\ OtherRefs(fds, s, fd) = Cardinality(T)
  BY Zenon DEF Refs, OtherRefs
<1> HIDE DEF S
<1>4. CASE fd \in S
  <2>1. Cardinality(S \ {fd}) = Cardinality(S) - 1
    BY <1>1, <1>4, FS_RemoveElement, Zenon
  <2>2. Cardinality(T) = Cardinality(S) - 1
    BY <2>1
  <2> HIDE DEF T
  <2>3. Refs(fds, s) <= OtherRefs(fds, s, fd) + 1 /\ OtherRefs(fds, s, fd) <= Refs(fds, s)
    BY <1>1, <1>2, <1>3, <2>2
  <2> QED BY <1>1, <1>2, <1>3, <1>4, <2>3, Zenon DEF S
<1>5. CASE fd \notin S
  <2>1. T = S
    BY <1>5, Zenon
  <2> HIDE DEF T
  <2>2. OtherRefs(fds, s, fd) = Refs(fds, s)
    BY <1>3, <2>1, Zenon
  <2>3. Refs(fds, s) <= OtherRefs(fds, s, fd) + 1 /\ OtherRefs(fds, s, fd) <= Refs(fds, s)
    BY <1>1, <2>2
  <2> QED BY <1>1, <1>2, <1>3, <2>2, <2>3, Zenon
<1> QED BY <1>4, <1>5

(* One more descriptor of another number.  *)
LEMMA OtherMore ==
  ASSUME NEW fds, NEW gds, NEW s, NEW fd, NEW g \in Fds, g # fd,
         \A f \in Fds : f # g => gds[f] = fds[f]
  PROVE  /\ OtherRefs(gds, s, fd) \in Nat /\ OtherRefs(fds, s, fd) \in Nat
         /\ OtherRefs(gds, s, fd) <= OtherRefs(fds, s, fd) + 1
         /\ gds[g].slot # s => OtherRefs(gds, s, fd) <= OtherRefs(fds, s, fd)
<1> DEFINE S == Sharing(fds, s) \ {fd}
           T == Sharing(gds, s) \ {fd}
<1>1. OtherRefs(fds, s, fd) = Cardinality(S) /\ OtherRefs(gds, s, fd) = Cardinality(T)
  BY Zenon DEF OtherRefs
<1>2. IsFiniteSet(S) /\ IsFiniteSet(T)
  BY RefsNat, FS_Subset, Zenon
<1>3. Cardinality(S) \in Nat /\ Cardinality(T) \in Nat
  BY <1>2, FS_CardinalityType, Zenon
<1>4. T \subseteq S \union {g}
  BY Zenon DEF Sharing
<1>5. gds[g].slot # s => T \subseteq S
  BY Zenon DEF Sharing
<1> HIDE DEF S, T
<1>6. IsFiniteSet(S \union {g}) /\ Cardinality(S \union {g}) \in Nat
      /\ Cardinality(S \union {g}) <= Cardinality(S) + 1
  <2>1. /\ IsFiniteSet(S \union {g})
        /\ \/ Cardinality(S \union {g}) = Cardinality(S)
           \/ Cardinality(S \union {g}) = Cardinality(S) + 1
    BY <1>2, FS_AddElement, Zenon
  <2> DEFINE c == Cardinality(S)
             e == Cardinality(S \union {g})
  <2> HIDE DEF c, e
  <2>2. c \in Nat /\ (e = c \/ e = c + 1)
    BY <1>3, <2>1, Zenon DEF c, e
  <2>3. e \in Nat /\ e <= c + 1
    BY <2>2
  <2> QED BY <2>1, <2>3, Zenon DEF c, e
<1>7. Cardinality(T) <= Cardinality(S \union {g})
  BY <1>4, <1>6, FS_Subset, Zenon
<1>8. gds[g].slot # s => Cardinality(T) <= Cardinality(S)
  BY <1>2, <1>5, FS_Subset, Zenon
<1>9. Cardinality(T) <= Cardinality(S) + 1
  BY <1>3, <1>6, <1>7
<1> QED BY <1>1, <1>3, <1>8, <1>9, Zenon

(* Counts and references, one more and one less.  *)
LEMMA OneMore ==
  \A a \in Int, n \in Nat : a >= n => a + 1 >= n + 1 /\ a + 1 >= n /\ (a = 0 => n = 0)
OBVIOUS

LEMMA OneLess ==
  \A a \in Int, n \in Nat : a >= n + 1 => /\ a - 1 >= n /\ a >= n /\ a # 0
                                           /\ a + 1 >= (n + 1) + 1
OBVIOUS

LEMMA OneOfTwo ==
  \A a \in Int, n \in Nat : a >= (n + 1) + 1 => a - 1 >= n + 1
OBVIOUS

LEMMA OneNewer ==
  \A a \in Int, m, n \in Nat : a >= n + 1 /\ m <= n + 1 => a >= m /\ a + 1 >= m + 1
OBVIOUS

LEMMA NoMore ==
  \A a \in Int, m, n \in Nat : a >= n /\ m <= n => a >= m
OBVIOUS

LEMMA NoMoreSpare ==
  \A a \in Int, m, n \in Nat : a >= n + 1 /\ m <= n => a >= m + 1
OBVIOUS

LEMMA OneOfNone == \A n \in Nat : n = 0 => 1 >= n + 1 /\ 0 >= n /\ 1 >= n
OBVIOUS

LEMMA LastOne ==
  \A a \in Int, n \in Nat : a >= n + 1 /\ ~(a > 1) => n = 0 /\ a - 1 = 0
OBVIOUS

(* A slot other than the root's counts every descriptor of a file that has *)
(* it, and is in use for an inode that is marked; such a descriptor's slot *)
(* has the inode that was opened.                                          *)
Tied(fs) ==
  /\ \A s \in Slots : s # 1 => fs.tab[s].cnt >= Refs(fs.filp, s)
  /\ \A s \in Slots : s # 1 /\ fs.tab[s].cnt # 0 => fs.tab[s].num \in fs.disk.imap
  /\ \A fd \in Fds : fs.filp[fd].mode = "reg" =>
       /\ fs.filp[fd].slot \in Slots
       /\ fs.filp[fd].slot # 1 => /\ fs.tab[fs.filp[fd].slot].num = fs.filp[fd].of
                                  /\ fs.tab[fs.filp[fd].slot].mode = "reg"

(* A slot with a reference that no descriptor of a file accounts for.  *)
Spare(fs, s) == s # 1 => fs.tab[s].cnt >= Refs(fs.filp, s) + 1

Closable(fs, fd) ==
  LET s == fs.filp[fd].slot IN s # 1 => fs.tab[s].cnt >= OtherRefs(fs.filp, s, fd) + 1

(* No entry, nor the slot of the root, names an inode that is free.  *)
NoStaleEntry(d) ==
  \A x \in Starts, i \in 1..DIR_SLOTS :
    d.dir[x][i].inode_nr # 0 => d.dir[x][i].inode_nr \in d.imap

RootMarked(fs) == fs.tab[1].num \in fs.disk.imap

(* gs is fs but for what does not matter here.  *)
Alike(fs, gs) ==
  /\ gs \in FsType /\ gs.filp = fs.filp /\ gs.cause = fs.cause
  /\ fs.disk.imap \subseteq gs.disk.imap
  /\ \A s \in Slots : /\ gs.tab[s].num = fs.tab[s].num /\ gs.tab[s].cnt = fs.tab[s].cnt
                      /\ gs.tab[s].mode = fs.tab[s].mode

LEMMA AlikeTied ==
  ASSUME NEW fs, NEW gs, Alike(fs, gs)
  PROVE  /\ Tied(fs) => Tied(gs)
         /\ \A s \in Slots : Spare(fs, s) => Spare(gs, s)
         /\ \A fd \in Fds : fs.filp[fd].slot \in Slots /\ Closable(fs, fd) => Closable(gs, fd)
         /\ Ok(gs) <=> Ok(fs)
<1>1. /\ gs.filp = fs.filp /\ gs.cause = fs.cause
      /\ fs.disk.imap \subseteq gs.disk.imap
      /\ \A s \in Slots : /\ gs.tab[s].num = fs.tab[s].num /\ gs.tab[s].cnt = fs.tab[s].cnt
                          /\ gs.tab[s].mode = fs.tab[s].mode
  BY Zenon DEF Alike
<1>2. ASSUME Tied(fs) PROVE Tied(gs)
  <2>1. \A s \in Slots : s # 1 => gs.tab[s].cnt >= Refs(gs.filp, s)
    BY <1>1, <1>2, Zenon DEF Tied
  <2>2. \A s \in Slots : s # 1 /\ gs.tab[s].cnt # 0 => gs.tab[s].num \in gs.disk.imap
    BY <1>1, <1>2, Zenon DEF Tied
  <2>3. ASSUME NEW fd \in Fds, gs.filp[fd].mode = "reg"
        PROVE  /\ gs.filp[fd].slot \in Slots
               /\ gs.filp[fd].slot # 1 => /\ gs.tab[gs.filp[fd].slot].num = gs.filp[fd].of
                                          /\ gs.tab[gs.filp[fd].slot].mode = "reg"
    <3>1. /\ fs.filp[fd].slot \in Slots
          /\ fs.filp[fd].slot # 1 => /\ fs.tab[fs.filp[fd].slot].num = fs.filp[fd].of
                                     /\ fs.tab[fs.filp[fd].slot].mode = "reg"
      BY <1>1, <1>2, <2>3, Zenon DEF Tied
    <3> QED BY <1>1, <3>1, Zenon
  <2> QED BY <2>1, <2>2, <2>3, Zenon DEF Tied
<1>3. \A s \in Slots : Spare(fs, s) => Spare(gs, s)
  BY <1>1, Zenon DEF Spare
<1>4. ASSUME NEW fd \in Fds, fs.filp[fd].slot \in Slots, Closable(fs, fd)
      PROVE  Closable(gs, fd)
  <2> DEFINE s == fs.filp[fd].slot
             n == OtherRefs(fs.filp, s, fd)
  <2>1. /\ gs.tab[s].cnt = fs.tab[s].cnt /\ s = gs.filp[fd].slot
        /\ n = OtherRefs(gs.filp, s, fd)
    BY <1>1, <1>4, Zenon
  <2>2. s # 1 => fs.tab[s].cnt >= n + 1
    BY <1>4, Zenon DEF Closable
  <2> HIDE DEF s, n
  <2>3. s # 1 => gs.tab[s].cnt >= OtherRefs(gs.filp, s, fd) + 1
    BY <2>1, <2>2, Zenon
  <2> QED BY <2>1, <2>3, Zenon DEF Closable
<1> QED BY <1>1, <1>2, <1>3, <1>4, Zenon DEF Ok

LEMMA AlikeTwice ==
  ASSUME NEW a, NEW b, NEW c, Alike(a, b), Alike(b, c)
  PROVE  Alike(a, c)
<1>1. /\ b.filp = a.filp /\ b.cause = a.cause /\ a.disk.imap \subseteq b.disk.imap
      /\ \A s \in Slots : /\ b.tab[s].num = a.tab[s].num /\ b.tab[s].cnt = a.tab[s].cnt
                          /\ b.tab[s].mode = a.tab[s].mode
  BY Zenon DEF Alike
<1> QED BY <1>1, Zenon DEF Alike

LEMMA AlikeSame ==
  ASSUME NEW fs \in FsType
  PROVE  Alike(fs, fs)
BY Zenon DEF Alike

LEMMA WroteAlike ==
  ASSUME NEW fs, NEW gs, Wrote(fs, gs, gs.disk), fs.disk.imap \subseteq gs.disk.imap
  PROVE  Alike(fs, gs)
BY WroteFields, Zenon DEF Alike

LEMMA SyncedAlike ==
  ASSUME NEW fs, NEW gs, NEW s, NEW garbage, Synced(fs, gs, s, garbage)
  PROVE  Alike(fs, gs)
<1>1. Wrote(fs, gs, gs.disk) /\ gs.disk.imap = fs.disk.imap
  BY Zenon DEF Synced
<1> QED BY <1>1, WroteAlike, Zenon

LEMMA ResizedAlike ==
  ASSUME NEW fs, NEW gs, NEW s, NEW n, Resized(fs, gs, s, n)
  PROVE  Alike(fs, gs)
<1>1. /\ gs \in FsType /\ gs.disk = fs.disk /\ gs.filp = fs.filp /\ gs.cause = fs.cause
      /\ \A u \in Slots : u # s => gs.tab[u] = fs.tab[u]
      /\ gs.tab[s].num = fs.tab[s].num /\ gs.tab[s].cnt = fs.tab[s].cnt
      /\ gs.tab[s].mode = fs.tab[s].mode
  BY Zenon DEF Resized, OneSlot
<1>2. ASSUME NEW u \in Slots
      PROVE  /\ gs.tab[u].num = fs.tab[u].num /\ gs.tab[u].cnt = fs.tab[u].cnt
             /\ gs.tab[u].mode = fs.tab[u].mode
  <2>1. CASE u = s
    BY <1>1, <2>1, Zenon
  <2>2. CASE u # s
    BY <1>1, <2>2, Zenon
  <2> QED BY <2>1, <2>2
<1> QED BY <1>1, <1>2, Zenon DEF Alike

LEMMA EntryAlike ==
  ASSUME NEW fs, NEW gs, NEW e, NEW at, NEW entry, EntrySet(fs, gs, e, at, entry)
  PROVE  Alike(fs, gs)
<1>1. Wrote(fs, gs, gs.disk) /\ gs.disk.imap = fs.disk.imap
  BY Zenon DEF EntrySet
<1> QED BY <1>1, WroteAlike, Zenon

LEMMA WrittenAlike ==
  ASSUME NEW fs, NEW gs, NEW dir, NEW nr, NEW name, NEW garbage,
         EntryWritten(fs, gs, dir, nr, name, garbage)
  PROVE  Alike(fs, gs)
<1>1. PICK at, a, b :
        /\ EntrySet(fs, a, fs.tab[dir].start, at, [inode_nr |-> nr, name |-> name])
        /\ InHole(fs, a, b, dir, at) \/ AtEnd(fs, a, b, dir, at)
        /\ Synced(b, gs, dir, garbage)
  BY Zenon DEF EntryWritten
<1>2. Alike(fs, a)
  BY <1>1, EntryAlike, Zenon
<1>3. Alike(a, b)
  <2>1. CASE InHole(fs, a, b, dir, at)
    BY <2>1, <1>2, AlikeSame, Zenon DEF InHole, Alike
  <2>2. CASE AtEnd(fs, a, b, dir, at)
    <3>1. \E n : Resized(a, b, dir, n)
      BY <2>2, Zenon DEF AtEnd
    <3> QED BY <3>1, ResizedAlike, Zenon
  <2> QED BY <1>1, <2>1, <2>2, Zenon
<1>4. Alike(b, gs)
  BY <1>1, SyncedAlike, Zenon
<1> QED BY <1>2, <1>3, <1>4, AlikeTwice, Zenon

LEMMA RemovedAlike ==
  ASSUME NEW fs \in FsType, NEW gs, NEW dir, NEW nr, NEW garbage,
         EntryRemoved(fs, gs, dir, nr, garbage)
  PROVE  Alike(fs, gs)
<1>1. CASE gs = fs
  BY <1>1, AlikeSame, Zenon
<1>2. ASSUME NEW at, NEW a, NEW b, EntrySet(fs, a, fs.tab[dir].start, at, NoEntry),
             \/ gs = a
             \/ Resized(a, b, dir, Before(fs, fs.tab[dir], at)) /\ Synced(b, gs, dir, garbage)
      PROVE  Alike(fs, gs)
  <2>1. Alike(fs, a)
    BY <1>2, EntryAlike, Zenon
  <2>2. CASE gs = a
    BY <2>1, <2>2, Zenon
  <2>3. CASE Resized(a, b, dir, Before(fs, fs.tab[dir], at)) /\ Synced(b, gs, dir, garbage)
    <3>1. Alike(a, b) /\ Alike(b, gs)
      BY <2>3, ResizedAlike, SyncedAlike, Zenon
    <3> QED BY <2>1, <3>1, AlikeTwice, Zenon
  <2> QED BY <1>2, <2>2, <2>3, Zenon
<1> QED BY <1>1, <1>2, Zenon DEF EntryRemoved

LEMMA TransferredAlike ==
  ASSUME NEW fs \in FsType, NEW gs, NEW s, NEW pos, NEW garbage,
         Transferred(fs, gs, s, pos, garbage)
  PROVE  Alike(fs, gs)
<1>1. CASE gs = fs
  BY <1>1, AlikeSame, Zenon
<1>2. ASSUME NEW a, NEW n, Resized(fs, a, s, n), Synced(a, gs, s, garbage)
      PROVE  Alike(fs, gs)
  BY <1>2, ResizedAlike, SyncedAlike, AlikeTwice, Zenon
<1> QED BY <1>1, <1>2, Zenon DEF Transferred

(* A change of one slot that leaves its descriptors their inode.  *)
LEMMA SlotTied ==
  ASSUME NEW fs, Tied(fs), NEW gs, NEW s, OneSlot(fs, gs, s, fs.tab[s], gs.tab[s]),
         s # 1 => /\ gs.tab[s].cnt >= Refs(fs.filp, s)
                  /\ gs.tab[s].cnt # 0 => gs.tab[s].num \in fs.disk.imap
                  /\ Refs(fs.filp, s) # 0 => /\ gs.tab[s].num = fs.tab[s].num
                                             /\ gs.tab[s].mode = fs.tab[s].mode
  PROVE  Tied(gs) /\ \A u \in Slots : u # s /\ Spare(fs, u) => Spare(gs, u)
<1>1. /\ gs.filp = fs.filp /\ gs.disk = fs.disk
      /\ \A u \in Slots : u # s => gs.tab[u] = fs.tab[u]
  BY Zenon DEF OneSlot
<1>2. /\ \A u \in Slots : u # 1 => fs.tab[u].cnt >= Refs(fs.filp, u)
      /\ \A u \in Slots : u # 1 /\ fs.tab[u].cnt # 0 => fs.tab[u].num \in fs.disk.imap
  BY Zenon DEF Tied
<1>3. \A u \in Slots : u # 1 => gs.tab[u].cnt >= Refs(gs.filp, u)
  <2> SUFFICES ASSUME NEW u \in Slots, u # 1 PROVE gs.tab[u].cnt >= Refs(gs.filp, u)
    BY Zenon
  <2>1. CASE u = s
    BY <1>1, <2>1, Zenon
  <2>2. CASE u # s
    BY <1>1, <1>2, <2>2, Zenon
  <2> QED BY <2>1, <2>2
<1>4. \A u \in Slots : u # 1 /\ gs.tab[u].cnt # 0 => gs.tab[u].num \in gs.disk.imap
  <2> SUFFICES ASSUME NEW u \in Slots, u # 1, gs.tab[u].cnt # 0
               PROVE  gs.tab[u].num \in gs.disk.imap
    BY Zenon
  <2>1. CASE u = s
    BY <1>1, <2>1, Zenon
  <2>2. CASE u # s
    BY <1>1, <1>2, <2>2, Zenon
  <2> QED BY <2>1, <2>2
<1>5. ASSUME NEW fd \in Fds, gs.filp[fd].mode = "reg"
      PROVE  /\ gs.filp[fd].slot \in Slots
             /\ gs.filp[fd].slot # 1 => /\ gs.tab[gs.filp[fd].slot].num = gs.filp[fd].of
                                        /\ gs.tab[gs.filp[fd].slot].mode = "reg"
  <2> DEFINE u == fs.filp[fd].slot
  <2>1. /\ gs.filp[fd].slot = u /\ gs.filp[fd].of = fs.filp[fd].of
        /\ fs.filp[fd].mode = "reg"
    BY <1>1, <1>5, Zenon
  <2>2. /\ u \in Slots
        /\ u # 1 => fs.tab[u].num = fs.filp[fd].of /\ fs.tab[u].mode = "reg"
    BY <2>1, Zenon DEF Tied
  <2>3. Refs(fs.filp, u) # 0
    BY <2>1, NoRefs, Zenon
  <2> HIDE DEF u
  <2>4. u # 1 => gs.tab[u].num = fs.tab[u].num /\ gs.tab[u].mode = fs.tab[u].mode
    <3>1. CASE u = s
      BY <2>3, <3>1, Zenon
    <3>2. CASE u # s
      BY <1>1, <2>2, <3>2, Zenon
    <3> QED BY <3>1, <3>2
  <2> QED BY <2>1, <2>2, <2>4, Zenon
<1>6. \A u \in Slots : u # s /\ Spare(fs, u) => Spare(gs, u)
  BY <1>1, Zenon DEF Spare
<1> QED BY <1>3, <1>4, <1>5, <1>6, Zenon DEF Tied

(* A slot with two references that no descriptor accounts for.  *)
Twice(fs, s) == s # 1 => fs.tab[s].cnt >= (Refs(fs.filp, s) + 1) + 1

(* What one slot counts, and its references.  *)
LEMMA SlotCounts ==
  ASSUME NEW fs \in FsType, Tied(fs), NEW s \in Slots
  PROVE  /\ fs.tab[s].cnt \in Int /\ Refs(fs.filp, s) \in Nat
         /\ s # 1 => fs.tab[s].cnt >= Refs(fs.filp, s)
BY Counts, RefsNat, Zenon DEF Tied

(* To get an inode that is marked.  *)
LEMMA GotTied ==
  ASSUME NEW fs \in FsType, Tied(fs), RootMarked(fs), NEW num, num \in fs.disk.imap,
         NEW got, Got(fs, num, got), Ok(got.fs)
  PROVE  /\ got.fs \in FsType /\ Tied(got.fs) /\ RootMarked(got.fs) /\ got.slot \in Slots
         /\ Spare(got.fs, got.slot)
         /\ \A u \in Slots : Spare(fs, u) => Spare(got.fs, u)
         /\ Spare(fs, got.slot) => Twice(got.fs, got.slot)
<1> DEFINE gs == got.fs
           s == got.slot
           p == fs.tab[s]
           q == gs.tab[s]
           n == Refs(fs.filp, s)
<1>1. OneSlot(fs, gs, s, p, q)
  BY Zenon DEF Got
<1>2. /\ s \in Slots /\ gs \in FsType /\ gs.disk = fs.disk /\ gs.filp = fs.filp
      /\ \A u \in Slots : u # s => gs.tab[u] = fs.tab[u]
  BY <1>1, Zenon DEF OneSlot
<1>3. p.cnt \in Int /\ n \in Nat /\ (s # 1 => p.cnt >= n)
  BY <1>2, SlotCounts, Zenon
<1>4. q.num = num /\ (s # 1 => q.cnt >= n + 1 /\ q.cnt >= n)
  <2>1. CASE Hit(num, p, q)
    <3>1. q.cnt = p.cnt + 1 /\ q.num = num
      BY <2>1, Zenon DEF Hit, SameInode
    <3> QED BY <1>3, <3>1, OneMore, Zenon
  <2>2. CASE Load(fs, num, s, p, q)
    <3>1. q.cnt = 1 /\ p.cnt = 0 /\ q.num = num
      BY <2>2, Zenon DEF Load
    <3>2. s # 1 => n = 0
      BY <1>3, <3>1, OneMore, Zenon
    <3>3. s # 1 => q.cnt >= n + 1 /\ q.cnt >= n
      BY <1>3, <3>1, <3>2, OneOfNone, Zenon
    <3> QED BY <3>1, <3>3, Zenon
  <2> QED BY <2>1, <2>2, Zenon DEF Got, Ok
<1>5. s # 1 /\ n # 0 => q.num = p.num /\ q.mode = p.mode
  <2>1. CASE Hit(num, p, q)
    BY <2>1, Zenon DEF Hit, SameInode
  <2>2. CASE Load(fs, num, s, p, q)
    <3>1. p.cnt = 0
      BY <2>2, Zenon DEF Load
    <3> QED BY <1>3, <3>1, OneMore, Zenon
  <2> QED BY <2>1, <2>2, Zenon DEF Got, Ok
<1>6. Tied(gs) /\ \A u \in Slots : u # s /\ Spare(fs, u) => Spare(gs, u)
  <2>1. s # 1 => /\ q.cnt >= n
                 /\ q.cnt # 0 => q.num \in fs.disk.imap
                 /\ n # 0 => q.num = p.num /\ q.mode = p.mode
    BY <1>4, <1>5, Zenon
  <2> HIDE DEF gs, s
  <2> QED BY <1>1, <2>1, SlotTied, Zenon
<1>7. Spare(gs, s)
  BY <1>2, <1>4, Zenon DEF Spare
<1>8. Spare(fs, s) => Twice(gs, s)
  <2> SUFFICES ASSUME Spare(fs, s), s # 1 PROVE q.cnt >= (n + 1) + 1
    BY <1>2, Zenon DEF Twice
  <2>1. p.cnt >= n + 1 /\ p.cnt # 0
    BY <1>3, OneLess, Zenon DEF Spare
  <2>2. q.cnt = p.cnt + 1
    BY <2>1, Zenon DEF Got, Ok, Hit, Load
  <2> QED BY <1>3, <2>1, <2>2, OneLess, Zenon
<1>9. RootMarked(gs)
  <2>1. CASE s = 1
    BY <1>2, <1>4, <2>1, Zenon DEF RootMarked
  <2>2. CASE s # 1
    BY <1>2, <2>2, SlotOne, Zenon DEF RootMarked
  <2> QED BY <2>1, <2>2
<1>10. \A u \in Slots : Spare(fs, u) => Spare(gs, u)
  BY <1>6, <1>7, Zenon
<1> QED BY <1>2, <1>6, <1>7, <1>8, <1>9, <1>10, Zenon

(* To put a slot that no descriptor needs.  *)
LEMMA PutTied ==
  ASSUME NEW fs \in FsType, Tied(fs), RootMarked(fs), NEW s \in Slots, Spare(fs, s)
  PROVE  LET gs == put_inode(fs, s) IN
         /\ gs \in FsType /\ gs.disk = fs.disk /\ gs.filp = fs.filp /\ gs.cause = fs.cause
         /\ Tied(gs) /\ RootMarked(gs)
         /\ \A u \in Slots : u # s /\ Spare(fs, u) => Spare(gs, u)
         /\ Twice(fs, s) => Spare(gs, s)
<1> DEFINE gs == put_inode(fs, s)
           n == Refs(fs.filp, s)
           p == fs.tab[s]
           q == gs.tab[s]
<1>1. /\ OneSlot(fs, gs, s, p, q) /\ gs.cause = fs.cause /\ q.cnt = p.cnt - 1
      /\ SameInode(p, q)
  BY PutInode, Zenon
<1> HIDE DEF gs
<1>2. /\ gs \in FsType /\ gs.disk = fs.disk /\ gs.filp = fs.filp
      /\ \A u \in Slots : u # s => gs.tab[u] = fs.tab[u]
  BY <1>1, Zenon DEF OneSlot
<1>3. p.cnt \in Int /\ n \in Nat
  BY SlotCounts, Zenon
<1>4. s # 1 => p.cnt >= n + 1
  BY Zenon DEF Spare
<1>5. s # 1 => q.cnt >= n /\ p.cnt # 0
  BY <1>1, <1>3, <1>4, OneLess, Zenon
<1>6. q.num = p.num /\ q.mode = p.mode
  BY <1>1, Zenon DEF SameInode
<1>7. s # 1 => q.num \in fs.disk.imap
  BY <1>5, <1>6, Zenon DEF Tied
<1>8. Tied(gs) /\ \A u \in Slots : u # s /\ Spare(fs, u) => Spare(gs, u)
  <2>1. OneSlot(fs, gs, s, fs.tab[s], gs.tab[s])
    BY <1>1, Zenon
  <2> QED BY <1>5, <1>6, <1>7, <2>1, SlotTied, Zenon
<1>9. Twice(fs, s) => Spare(gs, s)
  <2> SUFFICES ASSUME Twice(fs, s), s # 1 PROVE q.cnt >= n + 1
    BY <1>2, Zenon DEF Spare
  <2>1. p.cnt >= (n + 1) + 1
    BY Zenon DEF Twice
  <2> QED BY <1>1, <1>3, <2>1, OneOfTwo, Zenon
<1>10. RootMarked(gs)
  <2>1. CASE s = 1
    BY <1>2, <1>6, <2>1, Zenon DEF RootMarked
  <2>2. CASE s # 1
    BY <1>2, <2>2, SlotOne, Zenon DEF RootMarked
  <2> QED BY <2>1, <2>2
<1> QED BY <1>1, <1>2, <1>8, <1>9, <1>10, Zenon DEF gs

(* The walks of a disk without stale entries.  *)
MarkedEntries(d) == {entry \in EntryType : entry.inode_nr # 0 => entry.inode_nr \in d.imap}

TiedAt(w) == Tied(w.fs) /\ RootMarked(w.fs) /\ Spare(w.fs, w.at)

TiedWalks(fs) ==
  {w \in WalkType : SameButTab(fs, w.fs) /\ (Ok(w.fs) => TiedAt(w))}

LEMMA TiedLook ==
  ASSUME NEW w \in WalkType, NEW num, num \in w.fs.disk.imap,
         NEW got, Got(w.fs, num, got), NEW r \in WalkType,
         WentIn(w, r, got) \/ Kept(w, r, got), Ok(r.fs), TiedAt(w)
  PROVE  TiedAt(r)
<1>0. w.fs \in FsType /\ w.at \in Slots /\ got.fs \in FsType /\ got.slot \in Slots
  BY WalkFields, Zenon DEF Got, OneSlot
<1>1. Ok(got.fs)
  <2>1. CASE WentIn(w, r, got)
    <3>1. r.fs = put_inode(got.fs, w.at)
      BY <2>1, Zenon DEF WentIn
    <3> DEFINE hs == put_inode(got.fs, w.at)
    <3>2. hs.cause = got.fs.cause
      BY <1>0, PutInode, Zenon
    <3> HIDE DEF hs
    <3>3. r.fs = hs
      BY <3>1, Zenon DEF hs
    <3> QED BY <3>2, <3>3, Zenon DEF Ok
  <2>2. CASE Kept(w, r, got)
    BY <2>2, Zenon DEF Kept
  <2> QED BY <2>1, <2>2
<1> DEFINE fs == w.fs
           at == w.at
           gs == got.fs
           s == got.slot
<1>2. /\ gs \in FsType /\ Tied(gs) /\ RootMarked(gs) /\ Spare(gs, s) /\ Spare(gs, at)
      /\ s = at => Twice(gs, s)
  <2>1. fs \in FsType /\ Tied(fs) /\ RootMarked(fs) /\ num \in fs.disk.imap
        /\ Got(fs, num, got) /\ Ok(got.fs) /\ Spare(fs, at) /\ at \in Slots
    BY <1>0, <1>1, Zenon DEF TiedAt
  <2> HIDE DEF fs, at
  <2>2. /\ got.fs \in FsType /\ Tied(got.fs) /\ RootMarked(got.fs)
        /\ Spare(got.fs, got.slot)
        /\ \A u \in Slots : Spare(fs, u) => Spare(got.fs, u)
        /\ Spare(fs, got.slot) => Twice(got.fs, got.slot)
    BY <2>1, GotTied, Zenon
  <2> QED BY <2>1, <2>2, Zenon
<1>3. CASE WentIn(w, r, got)
  <2> DEFINE hs == put_inode(gs, at)
  <2>1. r.fs = hs /\ r.at = s
    BY <1>3, Zenon DEF WentIn
  <2>2. at \in Slots /\ s \in Slots
    BY <1>0, Zenon
  <2> HIDE DEF gs, at, s
  <2>3. /\ Tied(hs) /\ RootMarked(hs)
        /\ \A u \in Slots : u # at /\ Spare(gs, u) => Spare(hs, u)
        /\ Twice(gs, at) => Spare(hs, at)
    BY <1>2, <2>2, PutTied, Zenon
  <2> HIDE DEF hs
  <2>4. Spare(hs, s)
    <3>1. CASE s = at
      BY <1>2, <2>3, <3>1, Zenon
    <3>2. CASE s # at
      BY <1>2, <2>2, <2>3, <3>2, Zenon
    <3> QED BY <3>1, <3>2
  <2> QED BY <2>1, <2>3, <2>4, Zenon DEF TiedAt
<1>4. CASE Kept(w, r, got)
  BY <1>2, <1>4, Zenon DEF Kept, TiedAt
<1> QED BY <1>3, <1>4

LEMMA TiedWalkSet ==
  ASSUME NEW fs \in FsType, NoStaleEntry(fs.disk)
  PROVE  WalkSet(TiedWalks(fs), MarkedEntries(fs.disk))
<1> DEFINE S == TiedWalks(fs)
           E == MarkedEntries(fs.disk)
<1>1. S \subseteq WalkType /\ E \subseteq EntryType
  BY Zenon DEF TiedWalks, MarkedEntries
<1>2. ASSUME NEW w \in S PROVE [w EXCEPT !.found = FALSE] \in S
  <2> DEFINE x == [w EXCEPT !.found = FALSE]
  <2>1. x \in WalkType /\ x.fs = w.fs /\ x.at = w.at
    BY <1>1, WithFound, Zenon
  <2> HIDE DEF x
  <2>2. x \in S
    BY <2>1, Zenon DEF TiedWalks, TiedAt
  <2> QED BY <2>2 DEF x
<1>3. ASSUME NEW w \in S, NEW e \in Starts, NEW i \in 1..DIR_SLOTS
      PROVE  w.fs.disk.dir[e][i] \in E
  <2>1. w \in WalkType /\ w.fs.disk = fs.disk
    BY Zenon DEF TiedWalks, SameButTab
  <2>2. w.fs.disk.dir[e][i] \in EntryType
    BY <2>1, AnyEntry, Zenon
  <2> QED BY <2>1, <2>2, Zenon DEF MarkedEntries, NoStaleEntry
<1>4. ASSUME NEW w \in S, NEW entry \in E, NEW r \in WalkType, LookedAt(w, entry, r)
      PROVE  r \in S
  <2>1. SameButTab(w.fs, r.fs) /\ SameButTab(fs, w.fs) /\ w \in WalkType /\ entry \in EntryType
    BY <1>1, <1>4, LookFrame, Zenon DEF TiedWalks
  <2>2. SameButTab(fs, r.fs) /\ (Ok(r.fs) => Ok(w.fs)) /\ w.fs.disk = fs.disk
    BY <2>1, Zenon DEF SameButTab
  <2>3. Ok(r.fs) => TiedAt(r)
    <3> SUFFICES ASSUME Ok(r.fs) PROVE TiedAt(r)
      OBVIOUS
    <3>1. TiedAt(w)
      BY <2>2, Zenon DEF TiedWalks
    <3>2. CASE r = w
      BY <3>1, <3>2, Zenon
    <3>3. ASSUME entry.inode_nr \in Inodes, NEW got, Got(w.fs, entry.inode_nr, got),
                 WentIn(w, r, got) \/ Kept(w, r, got)
          PROVE  TiedAt(r)
      <4>1. entry.inode_nr # 0
        BY <3>3, NoZero, Zenon
      <4>2. entry.inode_nr \in w.fs.disk.imap
        BY <2>2, <4>1, Zenon DEF MarkedEntries
      <4> QED BY <2>1, <3>1, <3>3, <4>2, TiedLook, Zenon
    <3> QED BY <1>4, <3>2, <3>3, Zenon DEF LookedAt
  <2> QED BY <2>2, <2>3, Zenon DEF TiedWalks
<1> HIDE DEF S, E
<1> QED BY <1>1, <1>2, <1>3, <1>4, Zenon DEF WalkSet, S, E

(* A state of FS in which descriptors, slots and maps agree.  *)
Linked(fs) == fs \in FsType /\ (Ok(fs) => Tied(fs) /\ RootMarked(fs))

LEMMA LinkedWalk ==
  ASSUME NEW fs, Linked(fs), NoStaleEntry(fs.disk), NEW path, PathOk(path),
         NEW r, r = strip_path(fs, path)
  PROVE  /\ r \in WalkType /\ SameButTab(fs, r.fs) /\ Linked(r.fs)
         /\ NoStaleEntry(r.fs.disk) /\ (Ok(r.fs) => TiedAt(r))
<1>1. r \in WalkType /\ SameButTab(fs, r.fs) /\ (Ok(r.fs) => TiedAt(r))
  <2>1. CASE ~Ok(fs)
    <3>1. strip_path(fs, path) \in CacheWalks(fs)
      BY <2>1, CacheWalk, Zenon DEF Linked
    <3>2. r \in WalkType /\ SameButTab(fs, r.fs)
      BY <3>1, Zenon DEF CacheWalks
    <3> QED BY <2>1, <3>2, Zenon DEF SameButTab
  <2>2. CASE Ok(fs)
    <3> DEFINE x == [fs |-> fs, at |-> 1, found |-> TRUE]
    <3>1. x \in WalkType /\ x.fs = fs /\ x.at = 1
      BY SlotOne, WalkIs, Zenon DEF Linked
    <3> HIDE DEF x
    <3>2. TiedAt(x)
      BY <2>2, <3>1, Zenon DEF TiedAt, Linked, Spare
    <3>3. x \in TiedWalks(fs)
      BY <3>1, <3>2, Zenon DEF TiedWalks, SameButTab, Linked
    <3>4. WalkSet(TiedWalks(fs), MarkedEntries(fs.disk))
      BY TiedWalkSet, Zenon DEF Linked
    <3>5. strip_path(fs, path) \in TiedWalks(fs)
      BY <3>3, <3>4, WalkIn, Zenon DEF x
    <3>6. r \in TiedWalks(fs)
      BY <3>5, Zenon
    <3> QED BY <3>6, Zenon DEF TiedWalks
  <2> QED BY <2>1, <2>2
<1>2. Linked(r.fs) /\ NoStaleEntry(r.fs.disk)
  BY <1>1, Zenon DEF Linked, SameButTab, TiedAt
<1> QED BY <1>1, <1>2, Zenon

(* What a search finds is marked.  *)
LEMMA FindsMarked ==
  ASSUME NEW r \in WalkType, TiedAt(r), NoStaleEntry(r.fs.disk), NEW path, NEW nr,
         Finds(r, path, nr)
  PROVE  nr \in r.fs.disk.imap /\ nr \in Inodes
<1> DEFINE d == r.fs.tab[r.at]
<1>0. r.at \in Slots /\ d \in SlotType /\ r.fs \in FsType
  BY WalkFields, Zenon
<1>1. nr \in Inodes /\ nr # 0
  BY NoZero, Zenon DEF Finds
<1>2. CASE nr = d.num
  <2>1. CASE r.at = 1
    BY <1>1, <1>2, <2>1, Zenon DEF TiedAt, RootMarked
  <2>2. CASE r.at # 1
    <3> DEFINE c == r.fs.tab[r.at].cnt
               n == Refs(r.fs.filp, r.at)
    <3>1. c \in Int /\ n \in Nat /\ c >= n + 1
      BY <1>0, <2>2, SlotCounts, Zenon DEF TiedAt, Spare
    <3> HIDE DEF c, n
    <3>2. c # 0
      BY <3>1, OneLess, Zenon
    <3> QED BY <1>0, <1>1, <1>2, <2>2, <3>2, Zenon DEF TiedAt, Tied, c
  <2> QED BY <2>1, <2>2
<1>3. CASE \E i \in 1..DIR_SLOTS : r.fs.disk.dir[d.start][i].inode_nr = nr
  <2>1. d.start \in Starts
    BY <1>0, SlotParts, Zenon
  <2> QED BY <1>1, <1>3, <2>1, Zenon DEF NoStaleEntry
<1> QED BY <1>2, <1>3, Zenon DEF Finds

LEMMA AlikeLinked ==
  ASSUME NEW fs, Linked(fs), NEW gs, Alike(fs, gs)
  PROVE  Linked(gs)
<1>1. Tied(fs) => Tied(gs)
  BY AlikeTied, Zenon
<1>2. gs \in FsType /\ (Ok(gs) <=> Ok(fs))
  BY Zenon DEF Alike, Ok
<1>3. RootMarked(fs) => RootMarked(gs)
  BY SlotOne, Zenon DEF Alike, RootMarked
<1> QED BY <1>1, <1>2, <1>3, Zenon DEF Linked

(* What get_inode hands over, or a creation: the slot is counted once more *)
(* than it has descriptors, and no inode has been freed.                   *)
LinkedPin(fs, pin) ==
  /\ Linked(pin.fs) /\ pin.fs.filp = fs.filp /\ (Ok(pin.fs) => Ok(fs))
  /\ fs.disk.imap \subseteq pin.fs.disk.imap
  /\ Ok(pin.fs) /\ pin.slot # 0 => pin.slot \in Slots /\ Spare(pin.fs, pin.slot)

LEMMA GotLinked ==
  ASSUME NEW fs, Linked(fs), NEW num, Ok(fs) => num \in fs.disk.imap,
         NEW got, Got(fs, num, got)
  PROVE  LinkedPin(fs, got)
<1> DEFINE gs == got.fs
<1>1. /\ gs \in FsType /\ gs.filp = fs.filp /\ gs.disk = fs.disk
  BY Zenon DEF Got, OneSlot
<1>2. Ok(gs) => Ok(fs)
  BY Zenon DEF Got, Ok
<1>3. ASSUME Ok(gs)
      PROVE  Tied(gs) /\ RootMarked(gs) /\ got.slot \in Slots /\ Spare(gs, got.slot)
  <2>1. fs \in FsType /\ Tied(fs) /\ RootMarked(fs) /\ num \in fs.disk.imap
    BY <1>2, <1>3, Zenon DEF Linked
  <2> QED BY <1>3, <2>1, GotTied, Zenon
<1> HIDE DEF gs
<1>4. Linked(gs)
  BY <1>1, <1>3, Zenon DEF Linked
<1> QED BY <1>1, <1>2, <1>3, <1>4, Zenon DEF LinkedPin, gs

(* A number that is marked for a new inode has no slot but the one that it *)
(* is given.                                                               *)
LEMMA MadeLinked ==
  ASSUME NEW fs, Linked(fs), NEW pin, NEW dir, NEW name, NEW mode, NEW garbage,
         InodeMade(fs, pin.fs, pin.slot, dir, name, mode, garbage)
  PROVE  LinkedPin(fs, pin)
<1> DEFINE gs == pin.fs
           slot == pin.slot
<1>1. PICK nr, ext, a, b, got, c, d :
        /\ NrTaken(fs, a, nr) /\ ExtTaken(a, b, ext) /\ Got(b, nr, got) /\ slot = got.slot
        /\ Filled(got.fs, c, slot, nr, ext, mode) /\ Synced(c, d, slot, garbage)
        /\ EntryWritten(d, gs, dir, nr, name, garbage)
  BY Zenon DEF InodeMade
<1> DEFINE hs == got.fs
<1>2. Alike(fs, a) /\ nr \in a.disk.imap /\ nr \notin fs.disk.imap
  <2>1. Wrote(fs, a, a.disk) /\ a.disk.imap = fs.disk.imap \union {nr} /\ nr \notin fs.disk.imap
    BY <1>1, Zenon DEF NrTaken
  <2> QED BY <2>1, WroteAlike, Zenon
<1>3. Alike(a, b) /\ b.disk.imap = a.disk.imap
  <2>1. Wrote(a, b, b.disk) /\ b.disk.imap = a.disk.imap
    BY <1>1, Zenon DEF ExtTaken
  <2> QED BY <2>1, WroteAlike, Zenon
<1>4. Alike(fs, b) /\ Linked(b) /\ nr \in b.disk.imap
  BY <1>2, <1>3, AlikeTwice, AlikeLinked, Zenon
<1>5. LinkedPin(b, got)
  BY <1>1, <1>4, GotLinked, Zenon
<1>6. /\ hs \in FsType /\ hs.filp = b.filp /\ hs.disk = b.disk
      /\ OneSlot(hs, c, slot, hs.tab[slot], c.tab[slot]) /\ c.cause = hs.cause
      /\ c.tab[slot].cnt = 1 /\ c.tab[slot].num = nr
  BY <1>1, Zenon DEF Got, OneSlot, Filled
<1>7. slot \in Slots /\ c \in FsType /\ c.filp = hs.filp /\ c.disk = hs.disk
      /\ \A u \in Slots : u # slot => c.tab[u] = hs.tab[u]
  BY <1>6, Zenon DEF OneSlot
<1>8. ASSUME Ok(c) PROVE Tied(c) /\ RootMarked(c) /\ Spare(c, slot)
  <2>1. Ok(hs) /\ Ok(b) /\ Ok(fs)
    BY <1>4, <1>5, <1>6, <1>8, Zenon DEF LinkedPin, Alike, Ok
  <2>2. Tied(hs) /\ RootMarked(hs) /\ Tied(b) /\ Tied(fs) /\ RootMarked(fs) /\ b \in FsType
    BY <1>4, <1>5, <2>1, Zenon DEF LinkedPin, Linked
  <2>3. ~Hit(nr, b.tab[slot], hs.tab[slot])
    <3> SUFFICES ASSUME Hit(nr, b.tab[slot], hs.tab[slot]) PROVE FALSE
      OBVIOUS
    <3>1. b.tab[slot].cnt # 0 /\ b.tab[slot].num = nr
      BY Zenon DEF Hit
    <3>2. fs.tab[slot].cnt # 0 /\ fs.tab[slot].num = nr
      BY <1>4, <1>7, <3>1, Zenon DEF Alike
    <3>3. fs.tab[slot].num \in fs.disk.imap
      <4>1. CASE slot = 1
        BY <2>2, <4>1, Zenon DEF RootMarked
      <4>2. CASE slot # 1
        BY <1>7, <2>2, <3>2, <4>2, Zenon DEF Tied
      <4> QED BY <4>1, <4>2
    <3> QED BY <1>2, <3>2, <3>3, Zenon
  <2>4. b.tab[slot].cnt = 0
    BY <1>1, <2>1, <2>3, Zenon DEF Got, Load, Ok
  <2>5. slot # 1 => Refs(c.filp, slot) = 0
    <3> DEFINE x == b.tab[slot].cnt
               n == Refs(b.filp, slot)
    <3>1. x \in Int /\ n \in Nat /\ (slot # 1 => x >= n)
      BY <1>7, <2>2, SlotCounts, Zenon
    <3>2. x = 0
      BY <2>4, Zenon
    <3> HIDE DEF x
    <3>3. slot # 1 => n = 0
      BY <3>1, <3>2, OneMore, Zenon
    <3> QED BY <1>6, <1>7, <3>3, Zenon
  <2>6. Refs(c.filp, slot) \in Nat
    BY RefsNat, Zenon
  <2>7. slot # 1 => c.tab[slot].cnt >= Refs(c.filp, slot) + 1 /\ c.tab[slot].cnt >= Refs(c.filp, slot)
    <3> DEFINE n == Refs(c.filp, slot)
    <3> HIDE DEF n
    <3>1. n \in Nat /\ (slot # 1 => n = 0)
      BY <2>5, <2>6, Zenon DEF n
    <3>2. slot # 1 => 1 >= n + 1 /\ 1 >= n
      BY <3>1, OneOfNone, Zenon
    <3> QED BY <1>6, <3>2, Zenon DEF n
  <2>8. Tied(c)
    <3>1. slot # 1 => /\ c.tab[slot].cnt >= Refs(hs.filp, slot)
                      /\ c.tab[slot].num \in hs.disk.imap
                      /\ Refs(hs.filp, slot) = 0
      BY <1>4, <1>6, <1>7, <2>5, <2>7, Zenon
    <3> HIDE DEF hs, slot
    <3> QED BY <1>6, <2>2, <3>1, SlotTied, Zenon
  <2>9. RootMarked(c)
    <3>1. CASE slot = 1
      BY <1>4, <1>6, <1>7, <3>1, Zenon DEF RootMarked
    <3>2. CASE slot # 1
      BY <1>7, <2>2, <3>2, SlotOne, Zenon DEF RootMarked
    <3> QED BY <3>1, <3>2
  <2> QED BY <2>7, <2>8, <2>9, Zenon DEF Spare
<1>9. Linked(c)
  BY <1>7, <1>8, Zenon DEF Linked
<1>10. Alike(c, d) /\ Alike(d, gs)
  BY <1>1, SyncedAlike, WrittenAlike, Zenon
<1>11. Alike(c, gs)
  BY <1>10, AlikeTwice, Zenon
<1>12. Linked(gs) /\ gs.filp = c.filp /\ (Ok(gs) <=> Ok(c)) /\ c.disk.imap \subseteq gs.disk.imap
  BY <1>9, <1>11, AlikeLinked, Zenon DEF Alike, Ok
<1>13. Ok(gs) => Spare(gs, slot)
  BY <1>7, <1>8, <1>11, <1>12, AlikeTied, Zenon
<1>14. gs.filp = fs.filp /\ fs.disk.imap \subseteq gs.disk.imap
  BY <1>4, <1>6, <1>7, <1>12, Zenon DEF Alike
<1>15. Ok(gs) => Ok(fs)
  BY <1>4, <1>5, <1>6, <1>12, Zenon DEF LinkedPin, Alike, Ok
<1> HIDE DEF gs, slot
<1> QED BY <1>7, <1>12, <1>13, <1>14, <1>15, Zenon DEF LinkedPin, gs, slot

LEMMA WalkPin ==
  ASSUME NEW fs, NEW r, SameButTab(fs, r.fs), NEW pin, LinkedPin(r.fs, pin)
  PROVE  LinkedPin(fs, pin)
<1>1. /\ r.fs.disk = fs.disk /\ r.fs.filp = fs.filp /\ (Ok(r.fs) => Ok(fs))
  BY Zenon DEF SameButTab
<1> QED BY <1>1, Zenon DEF LinkedPin

LEMMA NoPin ==
  ASSUME NEW fs, NEW r, SameButTab(fs, r.fs), Linked(r.fs), NEW pin, pin.slot = 0,
         pin.fs = r.fs
  PROVE  LinkedPin(fs, pin)
<1>1. /\ r.fs.disk = fs.disk /\ r.fs.filp = fs.filp /\ (Ok(r.fs) => Ok(fs))
  BY Zenon DEF SameButTab
<1> QED BY <1>1, Zenon DEF LinkedPin

(* The two walks of do_open, and the pin of each of its halves.  *)
LEMMA LinkedWalks ==
  ASSUME NEW fs, Linked(fs), NoStaleEntry(fs.disk), NEW path, PathOk(path),
         NEW r1, r1 = strip_path(fs, path), NEW r2, r2 = strip_path(r1.fs, path)
  PROVE  /\ r1 \in WalkType /\ SameButTab(fs, r1.fs) /\ Linked(r1.fs)
         /\ NoStaleEntry(r1.fs.disk) /\ (Ok(r1.fs) => TiedAt(r1))
         /\ r2 \in WalkType /\ SameButTab(fs, r2.fs) /\ Linked(r2.fs)
         /\ Ok(r2.fs) => Ok(r1.fs) /\ TiedAt(r2)
         /\ r2.fs.disk = r1.fs.disk
<1>1. /\ r1 \in WalkType /\ SameButTab(fs, r1.fs) /\ Linked(r1.fs)
      /\ NoStaleEntry(r1.fs.disk) /\ (Ok(r1.fs) => TiedAt(r1))
  BY LinkedWalk, Zenon
<1> DEFINE gs == r1.fs
<1>2. Linked(gs) /\ NoStaleEntry(gs.disk) /\ r2 = strip_path(gs, path)
  BY <1>1, Zenon
<1> HIDE DEF gs
<1>3. /\ r2 \in WalkType /\ SameButTab(gs, r2.fs) /\ Linked(r2.fs)
      /\ (Ok(r2.fs) => TiedAt(r2))
  BY <1>2, LinkedWalk, Zenon
<1>4. SameButTab(fs, r2.fs) /\ (Ok(r2.fs) => Ok(gs)) /\ r2.fs.disk = gs.disk
  BY <1>1, <1>3, Zenon DEF SameButTab, gs
<1> QED BY <1>1, <1>3, <1>4, Zenon DEF gs

LEMMA ExistingLinked ==
  ASSUME NEW fs, Linked(fs), NoStaleEntry(fs.disk), NEW path, PathOk(path)
  PROVE  LinkedPin(fs, OpenExisting(fs, path))
<1>1. PICK r1 : r1 = strip_path(fs, path)
  OBVIOUS
<1>2. PICK r2 : r2 = strip_path(r1.fs, path)
  OBVIOUS
<1> DEFINE pin == OpenExisting(fs, path)
<1>3. /\ r1 \in WalkType /\ NoStaleEntry(r1.fs.disk) /\ (Ok(r1.fs) => TiedAt(r1))
      /\ r2 \in WalkType /\ SameButTab(fs, r2.fs) /\ Linked(r2.fs)
      /\ Ok(r2.fs) => Ok(r1.fs) /\ TiedAt(r2)
      /\ r2.fs.disk = r1.fs.disk
  <2>1. /\ r1 \in WalkType /\ SameButTab(fs, r1.fs) /\ Linked(r1.fs)
        /\ NoStaleEntry(r1.fs.disk) /\ (Ok(r1.fs) => TiedAt(r1))
    BY <1>1, LinkedWalk, Zenon
  <2>2. /\ r2 \in WalkType /\ SameButTab(r1.fs, r2.fs) /\ Linked(r2.fs)
        /\ (Ok(r2.fs) => TiedAt(r2))
    BY <1>2, <2>1, LinkedWalk, Zenon
  <2>3. /\ SameButTab(fs, r2.fs) /\ (Ok(r2.fs) => Ok(r1.fs))
        /\ r2.fs.disk = r1.fs.disk
    BY <2>1, <2>2, Zenon DEF SameButTab
  <2> QED BY <2>1, <2>2, <2>3, Zenon
<1>4. \E nr : Sought(path, r1, r2, nr, pin)
  BY <1>1, <1>2, <1>3, SeekIs, Zenon
<1> HIDE DEF pin
<1>5. PICK nr : Sought(path, r1, r2, nr, pin)
  BY <1>4, Zenon
<1>6. ASSUME pin.slot = 0, pin.fs = r2.fs PROVE LinkedPin(fs, pin)
  BY <1>3, <1>6, NoPin, Zenon
<1>7. ASSUME nr # 0, Got(r2.fs, nr, pin) PROVE LinkedPin(fs, pin)
  <2>1. Finds(r1, path, nr)
    BY <1>5, <1>7, Zenon DEF Sought
  <2>2. Ok(r2.fs) => nr \in r2.fs.disk.imap
    BY <1>3, <2>1, FindsMarked, Zenon
  <2>3. LinkedPin(r2.fs, pin)
    BY <1>3, <1>7, <2>2, GotLinked, Zenon
  <2> QED BY <1>3, <2>3, WalkPin, Zenon
<1>8. LinkedPin(fs, pin)
  BY <1>5, <1>6, <1>7, Zenon DEF Sought
<1> QED BY <1>8, Zenon DEF pin

LEMMA CreatedLinked ==
  ASSUME NEW fs, Linked(fs), NoStaleEntry(fs.disk), NEW path, PathOk(path),
         Last(path) \in Names, NEW mode \in Modes, NEW garbage \in Nat,
         fs.disk.imap # Inodes, fs.disk.smap # Extents
  PROVE  LinkedPin(fs, create_file(fs, path, mode, garbage))
<1> DEFINE r == strip_path(fs, path)
           pin == create_file(fs, path, mode, garbage)
<1>1. r \in WalkType /\ SameButTab(fs, r.fs) /\ Linked(r.fs)
  BY LinkedWalk, Zenon
<1>2. r.fs.disk.imap # Inodes /\ r.fs.disk.smap # Extents
  BY <1>1, Zenon DEF SameButTab
<1>3. Created(fs, path, r, mode, garbage, pin)
  BY <1>1, <1>2, CreateIs, Zenon
<1> HIDE DEF r, pin
<1>4. ASSUME pin.slot = 0, pin.fs = r.fs PROVE LinkedPin(fs, pin)
  BY <1>1, <1>4, NoPin, Zenon
<1>5. ASSUME InodeMade(r.fs, pin.fs, pin.slot, r.at, Last(path), mode, garbage)
      PROVE  LinkedPin(fs, pin)
  <2>1. LinkedPin(r.fs, pin)
    BY <1>1, <1>5, MadeLinked, Zenon
  <2> QED BY <1>1, <2>1, WalkPin, Zenon
<1>6. LinkedPin(fs, pin)
  BY <1>3, <1>4, <1>5, Zenon DEF Created
<1> QED BY <1>6, Zenon DEF pin

LEMMA NewLinked ==
  ASSUME NEW fs, Linked(fs), NoStaleEntry(fs.disk), NEW path, PathOk(path),
         Last(path) \in Names, NEW garbage \in Nat,
         fs.disk.imap # Inodes, fs.disk.smap # Extents
  PROVE  LinkedPin(fs, OpenNew(fs, path, garbage))
<1> DEFINE r1 == strip_path(fs, path)
           r2 == strip_path(r1.fs, path)
           pin == OpenNew(fs, path, garbage)
<1>1. /\ r1 \in WalkType /\ SameButTab(fs, r1.fs) /\ Linked(r1.fs)
      /\ r2 \in WalkType /\ SameButTab(fs, r2.fs) /\ Linked(r2.fs)
  BY LinkedWalks, Zenon
<1>2. r2.fs.disk.imap # Inodes /\ r2.fs.disk.smap # Extents
  BY <1>1, Zenon DEF SameButTab
<1>3. \/ pin.slot = 0 /\ pin.fs = r1.fs
      \/ Created(r1.fs, path, r2, "reg", garbage, pin)
  BY <1>1, <1>2, OpenNewIs, Zenon
<1> HIDE DEF r1, r2, pin
<1>4. ASSUME pin.slot = 0, pin.fs = r1.fs PROVE LinkedPin(fs, pin)
  BY <1>1, <1>4, NoPin, Zenon
<1>5. ASSUME pin.slot = 0, pin.fs = r2.fs PROVE LinkedPin(fs, pin)
  BY <1>1, <1>5, NoPin, Zenon
<1>6. ASSUME InodeMade(r2.fs, pin.fs, pin.slot, r2.at, Last(path), "reg", garbage)
      PROVE  LinkedPin(fs, pin)
  <2>1. LinkedPin(r2.fs, pin)
    BY <1>1, <1>6, MadeLinked, Zenon
  <2> QED BY <1>1, <2>1, WalkPin, Zenon
<1>7. LinkedPin(fs, pin)
  BY <1>3, <1>4, <1>5, <1>6, Zenon DEF Created
<1> QED BY <1>7, Zenon DEF pin

(* A request that has opened a descriptor: it may be closed again.  *)
OpnLinked(fs, o) ==
  /\ Linked(o.fs) /\ fs.disk.imap \subseteq o.fs.disk.imap
  /\ Ok(o.fs) /\ o.fd # -1 => Closable(o.fs, o.fd)

(* A new descriptor of the slot u.  *)
LEMMA FdTied ==
  ASSUME NEW hs \in FsType, Tied(hs), RootMarked(hs), NEW u \in Slots, Spare(hs, u),
         NEW gs, NEW fd \in Fds, FdFree(hs, fd), NEW desc, FdSet(hs, gs, fd, desc),
         desc.slot = u, desc.of = hs.tab[u].num, desc.mode = hs.tab[u].mode
  PROVE  Tied(gs) /\ RootMarked(gs) /\ Closable(gs, fd)
<1>1. /\ gs.disk = hs.disk /\ gs.tab = hs.tab /\ gs.filp[fd] = desc
      /\ \A f \in Fds : f # fd => gs.filp[f] = hs.filp[f]
  BY Zenon DEF FdSet
<1>2. ASSUME NEW s \in Slots
      PROVE  /\ OtherRefs(gs.filp, s, fd) = Refs(hs.filp, s)
             /\ s # u => Refs(gs.filp, s) = Refs(hs.filp, s)
             /\ Refs(gs.filp, s) \in Nat /\ Refs(gs.filp, s) <= Refs(hs.filp, s) + 1
  <2>1. OtherRefs(gs.filp, s, fd) = OtherRefs(hs.filp, s, fd)
    <3> DEFINE a == hs.filp
               b == gs.filp
    <3>1. \A f \in Fds : f # fd => b[f] = a[f]
      BY <1>1, Zenon
    <3> HIDE DEF a, b
    <3>2. Sharing(b, s) \ {fd} = Sharing(a, s) \ {fd}
      BY <3>1, Zenon DEF Sharing
    <3> QED BY <3>2, Zenon DEF a, b, OtherRefs
  <2>2. OtherRefs(hs.filp, s, fd) = Refs(hs.filp, s)
    <3>1. fd \notin Sharing(hs.filp, s)
      BY NoZero, Zenon DEF Sharing, FdFree
    <3> QED BY <3>1, OtherNat, Zenon
  <2>3. ASSUME s # u PROVE OtherRefs(gs.filp, s, fd) = Refs(gs.filp, s)
    <3>1. fd \notin Sharing(gs.filp, s)
      BY <1>1, <2>3, Zenon DEF Sharing
    <3> QED BY <3>1, OtherNat, Zenon
  <2>4. /\ Refs(gs.filp, s) \in Nat /\ Refs(gs.filp, s) <= OtherRefs(gs.filp, s, fd) + 1
    BY OtherNat, Zenon
  <2> QED BY <2>1, <2>2, <2>3, <2>4, Zenon
<1>3. ASSUME NEW s \in Slots, s # 1 PROVE gs.tab[s].cnt >= Refs(gs.filp, s)
  <2> DEFINE c == hs.tab[s].cnt
             n == Refs(hs.filp, s)
             m == Refs(gs.filp, s)
  <2>1. c \in Int /\ n \in Nat /\ c >= n
    BY <1>3, SlotCounts, Zenon
  <2>2. m \in Nat /\ m <= n + 1 /\ (s # u => m = n)
    BY <1>2, <1>3, Zenon
  <2>3. s = u => c >= n + 1
    BY <1>3, Zenon DEF Spare
  <2> HIDE DEF c, n, m
  <2>4. c >= m
    BY <2>1, <2>2, <2>3, OneNewer, Zenon
  <2> QED BY <1>1, <2>4, Zenon DEF c, m
<1>4. \A s \in Slots : s # 1 /\ gs.tab[s].cnt # 0 => gs.tab[s].num \in gs.disk.imap
  BY <1>1, Zenon DEF Tied
<1>5. ASSUME NEW f \in Fds, gs.filp[f].mode = "reg"
      PROVE  /\ gs.filp[f].slot \in Slots
             /\ gs.filp[f].slot # 1 => /\ gs.tab[gs.filp[f].slot].num = gs.filp[f].of
                                       /\ gs.tab[gs.filp[f].slot].mode = "reg"
  <2>1. CASE f = fd
    BY <1>1, <1>5, <2>1, Zenon
  <2>2. CASE f # fd
    BY <1>1, <1>5, <2>2, Zenon DEF Tied
  <2> QED BY <2>1, <2>2
<1>6. Closable(gs, fd)
  <2>1. OtherRefs(gs.filp, u, fd) = Refs(hs.filp, u)
    BY <1>2, Zenon
  <2>2. gs.filp[fd].slot = u
    BY <1>1, Zenon
  <2> QED BY <1>1, <2>1, <2>2, Zenon DEF Closable, Spare
<1>7. RootMarked(gs)
  BY <1>1, Zenon DEF RootMarked
<1> QED BY <1>3, <1>4, <1>5, <1>6, <1>7, Zenon DEF Tied

LEMMA OpenedLinked ==
  ASSUME NEW fs, NEW pin, Pinned(fs, pin), LinkedPin(fs, pin),
         \E fd \in Fds : FdFree(fs, fd), NEW o, o = Opened(pin)
  PROVE  OpnLinked(fs, o)
<1> DEFINE hs == pin.fs
           gs == o.fs
           fd == o.fd
           desc == [slot |-> pin.slot, of |-> pin.fs.tab[pin.slot].num,
                    mode |-> pin.fs.tab[pin.slot].mode]
<1>1. /\ hs \in FsType /\ pin.slot \in {0} \union Slots /\ hs.filp = fs.filp
      /\ Linked(hs) /\ fs.disk.imap \subseteq hs.disk.imap
  BY Zenon DEF Pinned, LinkedPin
<1>2. HasOpened(pin, o)
  <2> DEFINE p == Opened(pin)
  <2>1. \E f \in Fds : FdFree(pin.fs, f)
    BY <1>1, Zenon DEF FdFree
  <2>2. HasOpened(pin, p)
    BY <1>1, <2>1, OpenedIs, Zenon
  <2> HIDE DEF p
  <2> QED BY <2>2, Zenon DEF p
<1>3. CASE o.fd = -1 /\ o.fs = pin.fs
  BY <1>1, <1>3, Zenon DEF OpnLinked
<1>4. ASSUME pin.slot # 0, fd \in Fds, FdFree(hs, fd), FdSet(hs, gs, fd, desc),
             Ok(gs) => gs.cause = hs.cause
      PROVE  OpnLinked(fs, o)
  <2>1. /\ gs \in FsType /\ gs.disk = hs.disk
    BY <1>4, Zenon DEF FdSet
  <2>2. /\ desc.slot = pin.slot /\ desc.of = hs.tab[pin.slot].num
        /\ desc.mode = hs.tab[pin.slot].mode
    BY Zenon
  <2> HIDE DEF desc
  <2>3. ASSUME Ok(gs) PROVE Tied(gs) /\ RootMarked(gs) /\ Closable(gs, fd)
    <3>1. Ok(hs)
      BY <1>4, <2>3, Zenon DEF Ok
    <3>2. /\ Tied(hs) /\ RootMarked(hs) /\ Spare(hs, pin.slot) /\ pin.slot \in Slots
      BY <1>4, <3>1, Zenon DEF LinkedPin, Linked
    <3> HIDE DEF hs, gs, fd
    <3> QED BY <1>1, <1>4, <2>2, <3>2, FdTied, Zenon
  <2>4. Linked(gs)
    BY <2>1, <2>3, Zenon DEF Linked
  <2> QED BY <1>1, <2>1, <2>3, <2>4, Zenon DEF OpnLinked
<1> QED BY <1>2, <1>3, <1>4, Zenon DEF HasOpened

LEMMA FailedLinked ==
  ASSUME NEW fs, NEW o, o.fd = -1, SameButTab(fs, o.fs), ~Ok(o.fs)
  PROVE  OpnLinked(fs, o)
<1>1. o.fs \in FsType /\ o.fs.disk = fs.disk
  BY Zenon DEF SameButTab
<1> QED BY <1>1, Zenon DEF OpnLinked, Linked

LEMMA OpenLinked ==
  ASSUME NEW fs, Linked(fs), Fine(fs), NoStaleEntry(fs.disk), NEW path, PathOk(path),
         NEW garbage
  PROVE  OpnLinked(fs, do_open(fs, path, FALSE, garbage))
<1> DEFINE pin == OpenExisting(fs, path)
           o == do_open(fs, path, FALSE, garbage)
<1>1. fs \in FsType /\ (Ok(fs) => Cache(fs)) /\ FALSE \in BOOLEAN
  BY Zenon DEF Fine
<1>2. OpenIs(fs, FALSE, path, garbage, o)
  BY <1>1, OpenCases, Zenon
<1>3. LinkedPin(fs, pin) /\ Pinned(fs, pin)
  BY <1>1, ExistingLinked, ExistingPinned, Zenon
<1> HIDE DEF pin, o
<1>4. CASE o.fd = -1 /\ SameButTab(fs, o.fs) /\ ~Ok(o.fs)
  BY <1>4, FailedLinked, Zenon DEF o
<1>5. CASE (\E fd \in Fds : FdFree(fs, fd)) /\ o = Opened(pin)
  BY <1>3, <1>5, OpenedLinked, Zenon DEF o
<1> QED BY <1>2, <1>4, <1>5, Zenon DEF OpenIs, pin

LEMMA OpenNewLinked ==
  ASSUME NEW fs, Linked(fs), Fine(fs), NoStaleEntry(fs.disk), NEW path, PathOk(path),
         Last(path) \in Names, NEW garbage \in Nat,
         fs.disk.imap # Inodes, fs.disk.smap # Extents
  PROVE  OpnLinked(fs, do_open(fs, path, TRUE, garbage))
<1> DEFINE pin == OpenNew(fs, path, garbage)
           o == do_open(fs, path, TRUE, garbage)
<1>1. fs \in FsType /\ (Ok(fs) => Cache(fs)) /\ TRUE \in BOOLEAN
  BY Zenon DEF Fine
<1>2. OpenIs(fs, TRUE, path, garbage, o)
  BY <1>1, OpenCases, Zenon
<1>3. LinkedPin(fs, pin) /\ Pinned(fs, pin)
  BY <1>1, NewLinked, NewPinned, Zenon
<1> HIDE DEF pin, o
<1>4. CASE o.fd = -1 /\ SameButTab(fs, o.fs) /\ ~Ok(o.fs)
  BY <1>4, FailedLinked, Zenon DEF o
<1>5. CASE (\E fd \in Fds : FdFree(fs, fd)) /\ o = Opened(pin)
  BY <1>3, <1>5, OpenedLinked, Zenon DEF o
<1> QED BY <1>2, <1>4, <1>5, Zenon DEF OpenIs, pin

(* What a close leaves of the references.  *)
LEMMA CloseLinked ==
  ASSUME NEW fs, Linked(fs), NEW fd \in Fds, fs.filp[fd].slot \in Slots,
         Ok(fs) => Closable(fs, fd)
  PROVE  Linked(do_close(fs, fd)) /\ do_close(fs, fd).disk = fs.disk
<1> DEFINE u == fs.filp[fd].slot
           hs == put_inode(fs, u)
           gs == do_close(fs, fd)
           d == Closed
<1>1. /\ OneSlot(fs, hs, u, fs.tab[u], hs.tab[u]) /\ hs.cause = fs.cause
      /\ hs.tab[u].cnt = fs.tab[u].cnt - 1 /\ SameInode(fs.tab[u], hs.tab[u])
  BY PutInode, Zenon DEF Linked
<1>2. FdSet(hs, gs, fd, d) /\ gs.cause = hs.cause
  BY CloseIs, Zenon DEF Linked
<1>3. d.mode # "reg"
  BY DEF Closed
<1> HIDE DEF hs, gs, d
<1>4. /\ gs \in FsType /\ gs.disk = fs.disk
      /\ \A s \in Slots : s # u => gs.tab[s] = fs.tab[s]
      /\ gs.tab[u].cnt = fs.tab[u].cnt - 1
      /\ gs.tab[u].num = fs.tab[u].num /\ gs.tab[u].mode = fs.tab[u].mode
      /\ gs.filp[fd] = d /\ \A f \in Fds : f # fd => gs.filp[f] = fs.filp[f]
  BY <1>1, <1>2, Zenon DEF FdSet, OneSlot, SameInode
<1>5. ASSUME Ok(gs) PROVE Tied(gs) /\ RootMarked(gs)
  <2>1. fs \in FsType /\ Tied(fs) /\ RootMarked(fs) /\ Closable(fs, fd) /\ u \in Slots
    BY <1>1, <1>2, <1>5, Zenon DEF Linked, Ok
  <2>2. ASSUME NEW s \in Slots, s # 1
        PROVE  /\ gs.tab[s].cnt >= Refs(gs.filp, s)
               /\ gs.tab[s].cnt # 0 => gs.tab[s].num \in gs.disk.imap
    <3> DEFINE c == fs.tab[s].cnt
               e == gs.tab[s].cnt
               n == Refs(fs.filp, s)
               k == OtherRefs(fs.filp, s, fd)
               m == Refs(gs.filp, s)
    <3>1. c \in Int /\ n \in Nat /\ c >= n
      BY <2>1, <2>2, SlotCounts, Zenon
    <3>2. k \in Nat /\ m \in Nat /\ k <= n
      BY OtherNat, Zenon
    <3>3. m = k
      <4>1. OtherRefs(gs.filp, s, fd) = k
        <5> DEFINE a == fs.filp
                   b == gs.filp
        <5>1. \A f \in Fds : f # fd => b[f] = a[f]
          BY <1>4, Zenon
        <5> HIDE DEF a, b
        <5>2. Sharing(b, s) \ {fd} = Sharing(a, s) \ {fd}
          BY <5>1, Zenon DEF Sharing
        <5> QED BY <5>2, Zenon DEF a, b, k, OtherRefs
      <4>2. fd \notin Sharing(gs.filp, s)
        BY <1>3, <1>4, Zenon DEF Sharing
      <4> QED BY <4>1, <4>2, OtherNat, Zenon
    <3>4. c # 0 => fs.tab[s].num \in fs.disk.imap
      BY <2>1, <2>2, Zenon DEF Tied
    <3>5. CASE s = u
      <4>1. c >= k + 1 /\ e = c - 1
        BY <1>4, <2>1, <2>2, <3>5, Zenon DEF Closable
      <4> HIDE DEF c, e, k, m, n
      <4>2. e >= m /\ c # 0
        BY <3>1, <3>2, <3>3, <4>1, OneLess, Zenon
      <4> QED BY <1>4, <3>4, <3>5, <4>2, Zenon DEF e, m
    <3>6. CASE s # u
      <4>1. e = c
        BY <1>4, <3>6, Zenon
      <4> HIDE DEF c, e, k, m, n
      <4>2. e >= m
        BY <3>1, <3>2, <3>3, <4>1, NoMore, Zenon
      <4> QED BY <1>4, <3>4, <3>6, <4>1, <4>2, Zenon DEF e, m
    <3> QED BY <3>5, <3>6
  <2>3. ASSUME NEW f \in Fds, gs.filp[f].mode = "reg"
        PROVE  /\ gs.filp[f].slot \in Slots
               /\ gs.filp[f].slot # 1 => /\ gs.tab[gs.filp[f].slot].num = gs.filp[f].of
                                         /\ gs.tab[gs.filp[f].slot].mode = "reg"
    <3> DEFINE s == fs.filp[f].slot
    <3>1. f # fd /\ gs.filp[f] = fs.filp[f]
      BY <1>3, <1>4, <2>3, Zenon
    <3>2. /\ s \in Slots
          /\ s # 1 => fs.tab[s].num = fs.filp[f].of /\ fs.tab[s].mode = "reg"
      BY <2>1, <2>3, <3>1, Zenon DEF Tied
    <3>3. gs.tab[s].num = fs.tab[s].num /\ gs.tab[s].mode = fs.tab[s].mode
      <4> HIDE DEF s
      <4>1. CASE s = u
        BY <1>4, <4>1, Zenon
      <4>2. CASE s # u
        BY <1>4, <3>2, <4>2, Zenon
      <4> QED BY <4>1, <4>2
    <3> QED BY <3>1, <3>2, <3>3, Zenon
  <2>4. RootMarked(gs)
    <3>1. gs.tab[1].num = fs.tab[1].num
      <4>1. CASE u = 1
        BY <1>4, <4>1, Zenon
      <4>2. CASE u # 1
        BY <1>4, <4>2, SlotOne, Zenon
      <4> QED BY <4>1, <4>2
    <3> QED BY <1>4, <2>1, <3>1, Zenon DEF RootMarked
  <2> QED BY <2>2, <2>3, <2>4, Zenon DEF Tied
<1>6. Linked(gs)
  BY <1>4, <1>5, Zenon DEF Linked
<1> QED BY <1>4, <1>6, Zenon DEF gs

(* A command that frees no inode.  *)
Grown(fs, gs) == Linked(gs) /\ fs.disk.imap \subseteq gs.disk.imap

LEMMA GrownTwice ==
  ASSUME NEW a, NEW b, NEW c, a.disk.imap \subseteq b.disk.imap, Grown(b, c)
  PROVE  Grown(a, c)
BY Zenon DEF Grown

LEMMA RdwtLinked ==
  ASSUME NEW fs, Linked(fs), NEW fd \in Fds, fs.filp[fd].slot \in Slots,
         Ok(fs) => Closable(fs, fd), NEW io, NEW pos \in Nat, NEW grows, NEW garbage \in Nat
  PROVE  Grown(fs, do_close(do_rdwt(fs, fd, io, pos, grows, garbage), fd))
<1> DEFINE gs == do_rdwt(fs, fd, io, pos, grows, garbage)
<1>1. Transferred(fs, gs, fs.filp[fd].slot, pos, garbage) /\ fs \in FsType
  BY TransferIs, Zenon DEF Linked
<1> HIDE DEF gs
<1>2. Alike(fs, gs)
  BY <1>1, TransferredAlike, Zenon
<1>3. gs.filp = fs.filp /\ (Ok(gs) <=> Ok(fs)) /\ fs.disk.imap \subseteq gs.disk.imap
  BY <1>2, Zenon DEF Alike, Ok
<1>4. Linked(gs) /\ (Ok(gs) => Closable(gs, fd))
  BY <1>2, <1>3, AlikeLinked, AlikeTied, Zenon
<1>5. Linked(do_close(gs, fd)) /\ do_close(gs, fd).disk = gs.disk
  BY <1>3, <1>4, CloseLinked, Zenon
<1> QED BY <1>3, <1>5, Zenon DEF Grown, gs

LEMMA OpnGrown ==
  ASSUME NEW fs, NEW o, OpnLinked(fs, o)
  PROVE  Grown(fs, o.fs)
BY Zenon DEF OpnLinked, Grown

LEMMA NotFailedLinked ==
  ASSUME NEW fs, NEW o, Opn(fs, o), OpnLinked(fs, o), ~Failed(o)
  PROVE  /\ Linked(o.fs) /\ fs.disk.imap \subseteq o.fs.disk.imap /\ Ok(o.fs) /\ Fine(o.fs)
         /\ o.fd \in Fds /\ o.fs.filp[o.fd].slot \in Slots /\ Closable(o.fs, o.fd)
<1>1. o.fd # -1 /\ Ok(o.fs)
  BY Zenon DEF Failed, Ok
<1>2. o.fd \in Fds /\ o.fs.filp[o.fd].slot \in Slots /\ Fine(o.fs)
  BY NotFailed, Zenon DEF HasFd
<1> QED BY <1>1, <1>2, Zenon DEF OpnLinked

LEMMA TouchedLinked ==
  ASSUME NEW fs, NEW o, Opn(fs, o), OpnLinked(fs, o), NEW garbage \in Nat
  PROVE  Grown(fs, AndTouched(o, garbage).fs)
<1> DEFINE x == IF Failed(o) THEN o.fs ELSE AndWritten(o, o.fs, 1, garbage)
<1>1. AndTouched(o, garbage).fs = x
  BY Zenon DEF AndTouched
<1>2. CASE Failed(o)
  BY <1>1, <1>2, OpnGrown, Zenon
<1>3. CASE ~Failed(o)
  <2>1. 1 \in Nat
    OBVIOUS
  <2>2. Grown(o.fs, AndWritten(o, o.fs, 1, garbage))
    BY <1>3, <2>1, NotFailedLinked, RdwtLinked, Zenon DEF AndWritten
  <2>3. Grown(fs, AndWritten(o, o.fs, 1, garbage))
    BY <1>3, <2>2, NotFailedLinked, GrownTwice, Zenon
  <2> QED BY <1>1, <1>3, <2>3, Zenon
<1> QED BY <1>2, <1>3

LEMMA ReadLinked ==
  ASSUME NEW fs, NEW o, Opn(fs, o), OpnLinked(fs, o), NEW grows, NEW garbage \in Nat
  PROVE  Grown(fs, AndRead(o, grows, garbage))
<1>1. CASE Failed(o)
  BY <1>1, OpnGrown, Zenon DEF AndRead
<1>2. CASE ~Failed(o)
  <2> DEFINE x == do_close(do_rdwt(o.fs, o.fd, "READ", 0, grows, garbage), o.fd)
             io == "READ"
  <2>1. 0 \in Nat
    OBVIOUS
  <2>2. Grown(o.fs, do_close(do_rdwt(o.fs, o.fd, io, 0, grows, garbage), o.fd))
    <3> HIDE DEF io
    <3> QED BY <1>2, <2>1, NotFailedLinked, RdwtLinked, Zenon
  <2>3. Grown(o.fs, x)
    BY <2>2, Zenon
  <2> HIDE DEF x, io
  <2>4. Grown(fs, x)
    BY <1>2, <2>3, NotFailedLinked, GrownTwice, Zenon
  <2> QED BY <1>2, <2>4, Zenon DEF AndRead, x
<1> QED BY <1>1, <1>2

(* The open of the terminal counts a slot once more for each descriptor    *)
(* that it gives it.                                                       *)
LEMMA TtyClosable ==
  ASSUME NEW fs, Linked(fs), NEW fd \in Fds, fs.filp[fd].slot \in Slots, Closable(fs, fd),
         Ok(fs), NEW garbage, NEW t, t = do_open(fs, Tty, FALSE, garbage), Ok(t.fs)
  PROVE  Closable(t.fs, fd)
<1> DEFINE pin == OpenExisting(fs, Tty)
           x == [fs |-> fs, at |-> 1, found |-> TRUE]
           r1 == strip_path(fs, Tty)
           r2 == strip_path(r1.fs, Tty)
           s == fs.filp[fd].slot
           p == Opened(pin)
<1>1. fs \in FsType /\ FALSE \in BOOLEAN
  BY Zenon DEF Linked
<1>2. x \in WalkType /\ x.fs = fs /\ x.at = 1
  BY <1>1, SlotOne, WalkIs, Zenon
<1>3. r1 = x /\ r2 = x
  <2>1. r1 = x
    BY TtyPath, ShortWalk, Zenon
  <2> HIDE DEF x, r1
  <2>2. r2 = strip_path(fs, Tty)
    BY <2>1, <1>2, Zenon
  <2> QED BY <2>1, <2>2, Zenon DEF r1
<1>4. \E nr : Sought(Tty, r1, r2, nr, pin)
  BY <1>2, <1>3, SeekIs, Zenon
<1>5. OpenIs(fs, FALSE, Tty, garbage, t)
  BY <1>1, OpenCases, Zenon
<1>6. (\E f \in Fds : FdFree(fs, f)) /\ t = p
  <2> HIDE DEF p
  <2> QED BY <1>5, Zenon DEF OpenIs, p
<1> HIDE DEF x, r1, r2, pin
<1>7. PICK nr : Sought(Tty, x, x, nr, pin)
  BY <1>3, <1>4, Zenon
<1>8. pin.fs \in FsType /\ pin.fs.filp = fs.filp /\ pin.slot \in {0} \union Slots
  <2>1. CASE pin.slot = 0 /\ pin.fs = fs
    BY <1>1, <2>1, Zenon
  <2>2. CASE Got(fs, nr, pin)
    BY <2>2, Zenon DEF Got, OneSlot
  <2> QED BY <1>2, <1>7, <2>1, <2>2, Zenon DEF Sought
<1>9. HasOpened(pin, t)
  <2>1. \E f \in Fds : FdFree(pin.fs, f)
    BY <1>6, <1>8, Zenon DEF FdFree
  <2>2. HasOpened(pin, p)
    BY <1>8, <2>1, OpenedIs, Zenon
  <2> HIDE DEF p
  <2> QED BY <1>6, <2>2, Zenon
<1> HIDE DEF p
<1>10. CASE pin.slot = 0
  <2>1. pin.fs = fs
    BY <1>2, <1>7, <1>8, <1>10, NoZero, Zenon DEF Sought, Got, OneSlot
  <2>2. t.fs = fs
    BY <1>9, <1>10, <2>1, Zenon DEF HasOpened
  <2> QED BY <2>2, Zenon
<1>11. CASE pin.slot # 0
  <2> DEFINE g == t.fd
             hs == pin.fs
             gs == t.fs
             desc == [slot |-> pin.slot, of |-> pin.fs.tab[pin.slot].num,
                      mode |-> pin.fs.tab[pin.slot].mode]
             c == fs.tab[s].cnt
             e == gs.tab[s].cnt
             n == OtherRefs(fs.filp, s, fd)
             m == OtherRefs(gs.filp, s, fd)
  <2>1. Got(fs, nr, pin)
    BY <1>2, <1>7, <1>11, Zenon DEF Sought
  <2>2. g \in Fds /\ FdFree(hs, g) /\ FdSet(hs, gs, g, desc) /\ (Ok(gs) => gs.cause = hs.cause)
    BY <1>9, <1>11, Zenon DEF HasOpened
  <2>3. desc.slot = pin.slot
    BY Zenon
  <2> HIDE DEF desc
  <2>4. /\ gs.tab = hs.tab /\ gs.filp[g].slot = pin.slot
        /\ \A f \in Fds : f # g => gs.filp[f] = fs.filp[f]
    BY <1>8, <2>2, <2>3, Zenon DEF FdSet
  <2>5. g # fd
    BY <1>8, <2>2, NoZero, Zenon DEF FdFree
  <2>6. gs.filp[fd].slot = s
    BY <2>4, <2>5, Zenon
  <2>7. m \in Nat /\ n \in Nat /\ m <= n + 1 /\ (pin.slot # s => m <= n)
    BY <2>2, <2>4, <2>5, OtherMore, Zenon
  <2>8. c \in Int /\ (s # 1 => c >= n + 1)
    BY <1>1, Counts, Zenon DEF Closable
  <2>9. ASSUME s # 1 PROVE e >= m + 1
    <3>1. CASE pin.slot = s
      <4>1. c # 0
        <5> HIDE DEF c, n
        <5> QED BY <2>7, <2>8, <2>9, OneLess, Zenon
      <4>2. Ok(hs)
        BY <2>2, Zenon DEF Ok
      <4>3. e = c + 1
        BY <2>1, <2>4, <3>1, <4>1, <4>2, Zenon DEF Got, Hit, Load, Ok
      <4> HIDE DEF c, e, m, n
      <4> QED BY <2>7, <2>8, <2>9, <4>3, OneNewer, Zenon
    <3>2. CASE pin.slot # s
      <4>1. e = c
        BY <2>1, <2>4, <3>2, Zenon DEF Got, OneSlot
      <4> HIDE DEF c, e, m, n
      <4> QED BY <2>7, <2>8, <2>9, <3>2, <4>1, NoMoreSpare, Zenon
    <3> QED BY <3>1, <3>2
  <2> QED BY <2>6, <2>9, Zenon DEF Closable
<1> QED BY <1>10, <1>11

LEMMA EditedLinked ==
  ASSUME NEW fs, NEW o, Opn(fs, o), OpnLinked(fs, o), NoStaleEntry(o.fs.disk),
         NEW garbage \in Nat
  PROVE  Grown(fs, AndEdited(o, garbage))
<1> DEFINE t == do_open(o.fs, Tty, FALSE, garbage)
<1>1. CASE Failed(o)
  BY <1>1, OpnGrown, Zenon DEF AndEdited
<1>2. CASE ~Failed(o)
  <2> DEFINE h == o.fs
             fd == o.fd
  <2>1. /\ Linked(h) /\ fs.disk.imap \subseteq h.disk.imap /\ Ok(h) /\ Fine(h)
        /\ fd \in Fds /\ h.filp[fd].slot \in Slots /\ Closable(h, fd)
    BY <1>2, NotFailedLinked, Zenon
  <2>2. AndEdited(o, garbage) = AndTerminal(o, t, garbage)
    BY <1>2, Zenon DEF AndEdited
  <2>3. t = do_open(h, Tty, FALSE, garbage) /\ NoStaleEntry(h.disk)
    BY Zenon
  <2> HIDE DEF h, t
  <2>4. Opn(h, t) /\ OpnLinked(h, t)
    BY <2>1, <2>3, TtyPath, OpenFine, OpenLinked, Zenon
  <2>5. CASE Failed(t)
    <3>1. AndTerminal(o, t, garbage) = t.fs
      BY <2>5, Zenon DEF AndTerminal
    <3>2. Grown(fs, t.fs)
      BY <2>1, <2>4, OpnGrown, GrownTwice, Zenon
    <3> QED BY <2>2, <3>1, <3>2, Zenon
  <2>6. CASE ~Failed(t)
    <3>1. t.fd # -1
      BY <2>6, Zenon DEF Failed
    <3>2. t.fd # fd
      <4>1. FdFree(h, t.fd)
        BY <2>4, <3>1, Zenon DEF Opn
      <4> QED BY <2>1, <4>1, NoZero, Zenon DEF FdFree
    <3> HIDE DEF fd
    <3>3. t.fs.filp[fd] = h.filp[fd]
      BY <2>1, <2>4, <3>1, <3>2, Zenon DEF Opn
    <3>4. /\ Linked(t.fs) /\ h.disk.imap \subseteq t.fs.disk.imap /\ Ok(t.fs)
      BY <2>4, <2>6, NotFailedLinked, Zenon
    <3>5. Closable(t.fs, fd)
      BY <2>1, <2>3, <3>4, TtyClosable, Zenon
    <3>6. 2 \in Nat /\ t.fs.filp[fd].slot \in Slots
      BY <2>1, <3>3
    <3>7. Grown(t.fs, AndWritten(o, t.fs, 2, garbage))
      BY <2>1, <3>4, <3>5, <3>6, RdwtLinked, Zenon DEF AndWritten, fd
    <3>8. fs.disk.imap \subseteq t.fs.disk.imap
      BY <2>1, <3>4, Zenon
    <3>9. Grown(fs, AndWritten(o, t.fs, 2, garbage))
      BY <3>7, <3>8, GrownTwice, Zenon
    <3>10. AndTerminal(o, t, garbage) = AndWritten(o, t.fs, 2, garbage)
      BY <2>6, Zenon DEF AndTerminal
    <3> QED BY <2>2, <3>9, <3>10, Zenon
  <2> QED BY <2>5, <2>6
<1> QED BY <1>1, <1>2

LEMMA MadeDirLinked ==
  ASSUME NEW fs, NEW path, PathOk(path), Last(path) \in Names,
         NEW garbage \in Nat, fs.disk.imap # Inodes, fs.disk.smap # Extents,
         NEW o, Opn(fs, o), OpnLinked(fs, o), o.fs.disk = fs.disk, NoStaleEntry(fs.disk)
  PROVE  Grown(fs, AndMade(o, path, garbage).fs)
<1>1. CASE o.fd # -1 \/ o.fs.cause # ""
  <2>1. AndMade(o, path, garbage) = [ok |-> FALSE, fs |-> o.fs]
    BY <1>1, Zenon DEF AndMade
  <2>2. AndMade(o, path, garbage).fs = o.fs
    BY <2>1
  <2> QED BY <2>2, OpnGrown, Zenon
<1>2. CASE ~(o.fd # -1 \/ o.fs.cause # "")
  <2> DEFINE D == "dir"
             made == create_file(o.fs, path, D, garbage)
             x == IF made.slot = 0 THEN made.fs ELSE put_inode(made.fs, made.slot)
             h == o.fs
  <2>1. AndMade(o, path, garbage) = PutMade(made)
    BY <1>2, Zenon DEF AndMade, do_mkdir
  <2>2. PutMade(made).fs = x
    BY Zenon DEF PutMade
  <2>3. D \in Modes
    BY DEF Modes
  <2>4. /\ h \in FsType /\ (Ok(h) => Cache(h)) /\ h.disk.imap # Inodes
        /\ h.disk.smap # Extents /\ Linked(h) /\ NoStaleEntry(h.disk)
        /\ fs.disk.imap \subseteq h.disk.imap
    BY Zenon DEF Opn, Fine, OpnLinked
  <2> HIDE DEF D, h
  <2>5. /\ Pinned(h, create_file(h, path, D, garbage))
        /\ LinkedPin(h, create_file(h, path, D, garbage))
    BY <2>3, <2>4, CreatedPinned, CreatedLinked, Zenon
  <2>6. Pinned(h, made) /\ LinkedPin(h, made)
    BY <2>5, Zenon DEF h
  <2> HIDE DEF made
  <2> DEFINE gs == made.fs
             s == made.slot
  <2>7. /\ Linked(gs) /\ fs.disk.imap \subseteq gs.disk.imap /\ s \in {0} \union Slots
        /\ Ok(gs) /\ s # 0 => Spare(gs, s)
    BY <2>4, <2>6, Zenon DEF Pinned, LinkedPin
  <2>8. CASE s = 0
    BY <2>1, <2>2, <2>7, <2>8, Zenon DEF Grown
  <2>9. CASE s # 0
    <3> HIDE DEF gs, s
    <3> DEFINE hs == put_inode(gs, s)
    <3>1. s \in Slots /\ gs \in FsType
      BY <2>7, <2>9, Zenon DEF Linked
    <3>2. hs \in FsType /\ hs.cause = gs.cause /\ hs.disk = gs.disk
      BY <3>1, PutInode, Zenon DEF OneSlot
    <3>3. ASSUME Ok(hs) PROVE Tied(hs) /\ RootMarked(hs)
      <4>1. Ok(gs)
        BY <3>2, <3>3, Zenon DEF Ok
      <4>2. Tied(gs) /\ RootMarked(gs) /\ Spare(gs, s)
        BY <2>7, <2>9, <4>1, Zenon DEF Linked
      <4> QED BY <3>1, <4>2, PutTied, Zenon
    <3>4. Grown(fs, hs)
      <4> HIDE DEF hs
      <4> QED BY <2>7, <3>2, <3>3, Zenon DEF Grown, Linked
    <3> QED BY <2>1, <2>2, <2>9, <3>4, Zenon DEF gs, s
  <2> QED BY <2>8, <2>9
<1> QED BY <1>1, <1>2

(* What a descriptor of a file, which it already was in fs, is promised.  *)
Keeps(fs, gs) ==
  \A fd \in Fds : /\ gs.filp[fd].mode = "reg" /\ gs.filp[fd].slot # 1
                  /\ gs.filp[fd] = fs.filp[fd] /\ fs.filp[fd].of \in fs.disk.imap
                  => fs.filp[fd].of \in gs.disk.imap

After(fs, gs) == gs \in FsType /\ (Ok(gs) => Tied(gs) /\ Keeps(fs, gs))

LEMMA GrownAfter ==
  ASSUME NEW fs, NEW gs, Grown(fs, gs)
  PROVE  After(fs, gs)
BY Zenon DEF Grown, Linked, After, Keeps

LEMMA LsLinked ==
  ASSUME NEW fs, Linked(fs), NoStaleEntry(fs.disk), NEW dir, PathOk(Append(dir, ""))
  PROVE  Grown(fs, do_ls(fs, dir))
<1> DEFINE path == Append(dir, "")
<1>1. PICK r : r = strip_path(fs, path)
  OBVIOUS
<1> DEFINE C == "do_ls: dir_inode was never set"
           hs == Fail(r.fs, C)
<1>2. do_ls(fs, dir) = IF r.found THEN r.fs ELSE hs
  BY <1>1, Zenon DEF do_ls
<1>3. PathOk(path)
  OBVIOUS
<1>4. C \in Causes /\ C # ""
  BY DEF Causes
<1> HIDE DEF C, path
<1>5. Linked(r.fs) /\ SameButTab(fs, r.fs)
  BY <1>1, <1>3, LinkedWalk, Zenon
<1>6. hs \in FsType /\ hs.disk = r.fs.disk /\ hs.cause # ""
  BY <1>4, <1>5, FailIs, Zenon DEF Linked
<1> HIDE DEF hs
<1>7. Grown(fs, r.fs) /\ Grown(fs, hs)
  BY <1>5, <1>6, Zenon DEF Grown, Linked, SameButTab, Ok
<1> QED BY <1>2, <1>7, Zenon

(* The count of a directory that is to be removed.  *)
LEMMA CountedTied ==
  ASSUME NEW hs \in FsType, Tied(hs), NEW s \in Slots, Spare(hs, s),
         hs.tab[s].num \in hs.disk.imap, NEW gs, Counted(hs, gs, s)
  PROVE  /\ Tied(gs) /\ Spare(gs, s) /\ gs.disk = hs.disk /\ gs.filp = hs.filp
         /\ gs.tab[s].num = hs.tab[s].num
<1>1. CASE gs = hs
  BY <1>1, Zenon
<1>2. ASSUME hs.tab[s].mode = "dir", OneSlot(hs, gs, s, hs.tab[s], gs.tab[s]),
             gs.tab[s].cnt = 1, SameInode(hs.tab[s], gs.tab[s])
      PROVE  /\ Tied(gs) /\ Spare(gs, s) /\ gs.disk = hs.disk /\ gs.filp = hs.filp
             /\ gs.tab[s].num = hs.tab[s].num
  <2>1. /\ gs.disk = hs.disk /\ gs.filp = hs.filp /\ gs.tab[s].num = hs.tab[s].num
        /\ gs.tab[s].mode = hs.tab[s].mode
    BY <1>2, Zenon DEF OneSlot, SameInode
  <2>2. s # 1 => Refs(hs.filp, s) = 0
    <3> SUFFICES ASSUME s # 1 PROVE Refs(hs.filp, s) = 0
      OBVIOUS
    <3>1. "dir" # "reg"
      OBVIOUS
    <3>2. \A f \in Fds : hs.filp[f].mode = "reg" => hs.filp[f].slot # s
      BY <1>2, <3>1, Zenon DEF Tied
    <3> QED BY <3>2, NoneShares, Zenon
  <2>3. s # 1 => gs.tab[s].cnt >= Refs(hs.filp, s) /\ gs.tab[s].cnt >= Refs(hs.filp, s) + 1
    BY <1>2, <2>2, RefsNat, OneOfNone, Zenon
  <2>4. Tied(gs)
    BY <1>2, <2>1, <2>3, SlotTied, Zenon
  <2> QED BY <2>1, <2>3, <2>4, Zenon DEF Spare
<1> QED BY <1>1, <1>2, Zenon DEF Counted

(* To free an inode whose slot nobody else has.  *)
LEMMA ReleasedTied ==
  ASSUME NEW fs \in FsType, Tied(fs), Cache(fs), NEW s \in Slots, Spare(fs, s),
         ~(fs.tab[s].cnt > 1), NEW dir, NEW gs, NEW garbage,
         Released(fs, gs, s, dir, fs.tab[s].num, garbage)
  PROVE  Tied(gs) /\ Keeps(fs, gs)
<1> DEFINE nr == fs.tab[s].num
           x == fs.tab[s].cnt
           n == Refs(fs.filp, s)
<1>1. PICK a, b, c, d :
        /\ NrFreed(fs, a, nr) /\ ExtFreed(a, b, fs.tab[s].start) /\ Cleared(b, c, s)
        /\ Synced(c, d, s, garbage) /\ EntryRemoved(put_inode(d, s), gs, dir, nr, garbage)
  BY Zenon DEF Released
<1> DEFINE e == put_inode(d, s)
<1>2. /\ d \in FsType /\ d.filp = fs.filp /\ d.disk.imap = fs.disk.imap \ {nr}
      /\ d.tab[s].cnt = x /\ d.tab[s].num = nr
      /\ \A u \in Slots : u # s => d.tab[u] = fs.tab[u]
  <2>1. a.tab = fs.tab /\ a.filp = fs.filp /\ a.disk.imap = fs.disk.imap \ {nr}
    BY <1>1, Zenon DEF NrFreed, Wrote
  <2>2. b.tab = a.tab /\ b.filp = a.filp /\ b.disk.imap = a.disk.imap
    BY <1>1, Zenon DEF ExtFreed, Wrote
  <2>3. /\ c.filp = b.filp /\ c.disk = b.disk
        /\ c.tab[s].cnt = b.tab[s].cnt /\ c.tab[s].num = b.tab[s].num
        /\ \A u \in Slots : u # s => c.tab[u] = b.tab[u]
    BY <1>1, Zenon DEF Cleared, OneSlot
  <2>4. d \in FsType /\ d.tab = c.tab /\ d.filp = c.filp /\ d.disk.imap = c.disk.imap
    BY <1>1, Zenon DEF Synced, Wrote
  <2> QED BY <2>1, <2>2, <2>3, <2>4, Zenon
<1>3. /\ e \in FsType /\ e.filp = fs.filp /\ e.disk.imap = fs.disk.imap \ {nr}
      /\ e.tab[s].cnt = x - 1
      /\ \A u \in Slots : u # s => e.tab[u] = fs.tab[u]
  <2>1. OneSlot(d, e, s, d.tab[s], e.tab[s]) /\ e.tab[s].cnt = d.tab[s].cnt - 1
    BY <1>2, PutInode, Zenon
  <2> HIDE DEF e
  <2> QED BY <1>2, <2>1, Zenon DEF OneSlot
<1>4. EntryRemoved(e, gs, dir, nr, garbage)
  BY <1>1, Zenon
<1> HIDE DEF e
<1>5. s # 1 => x # 0 /\ n = 0 /\ x - 1 = 0
  <2>1. x \in Int /\ n \in Nat /\ (s # 1 => x >= n + 1) /\ ~(x > 1)
    BY SlotCounts, Zenon DEF Spare
  <2> HIDE DEF x, n
  <2> QED BY <2>1, LastOne, OneLess, Zenon
<1>6. ASSUME NEW u \in Slots, u # s, u # 1, fs.tab[u].cnt # 0 PROVE fs.tab[u].num # nr
  <2>1. CASE s = 1
    BY <1>6, <2>1, Zenon DEF Cache
  <2>2. CASE s # 1
    BY <1>5, <1>6, <2>2, Zenon DEF Cache
  <2> QED BY <2>1, <2>2
<1>7. ASSUME NEW f \in Fds, fs.filp[f].mode = "reg", fs.filp[f].slot # 1
      PROVE  /\ fs.filp[f].slot \in Slots /\ fs.filp[f].slot # s
             /\ fs.tab[fs.filp[f].slot].cnt # 0
  <2> DEFINE u == fs.filp[f].slot
             y == fs.tab[u].cnt
             m == Refs(fs.filp, u)
  <2>1. u \in Slots /\ u # 1
    BY <1>7, Zenon DEF Tied
  <2>2. m # 0
    BY <1>7, NoRefs, Zenon
  <2>3. y \in Int /\ m \in Nat /\ y >= m
    BY <2>1, SlotCounts, Zenon
  <2>4. u # s
    BY <1>5, <2>1, <2>2, Zenon
  <2>5. y # 0
    <3> HIDE DEF y, m
    <3> QED BY <2>2, <2>3, OneMore, Zenon
  <2> QED BY <2>1, <2>4, <2>5, Zenon
<1> HIDE DEF nr
<1>8. Tied(e)
  <2>1. ASSUME NEW u \in Slots, u # 1 PROVE e.tab[u].cnt >= Refs(e.filp, u)
    <3>1. CASE u = s
      <4>1. n \in Nat /\ n = 0 /\ x - 1 = 0
        BY <1>5, <2>1, <3>1, RefsNat, Zenon
      <4> HIDE DEF x, n
      <4>2. x - 1 >= n
        BY <4>1, OneOfNone, Zenon
      <4> QED BY <1>3, <3>1, <4>2, Zenon DEF x, n
    <3>2. CASE u # s
      BY <1>3, <2>1, <3>2, Zenon DEF Tied
    <3> QED BY <3>1, <3>2
  <2>2. ASSUME NEW u \in Slots, u # 1, e.tab[u].cnt # 0 PROVE e.tab[u].num \in e.disk.imap
    <3>1. u # s
      BY <1>3, <1>5, <2>2, Zenon
    <3>2. e.tab[u] = fs.tab[u]
      BY <1>3, <3>1, Zenon
    <3>3. fs.tab[u].num \in fs.disk.imap /\ fs.tab[u].num # nr
      BY <1>6, <2>2, <3>1, <3>2, Zenon DEF Tied
    <3> QED BY <1>3, <3>2, <3>3, Zenon
  <2>3. ASSUME NEW f \in Fds, e.filp[f].mode = "reg"
        PROVE  /\ e.filp[f].slot \in Slots
               /\ e.filp[f].slot # 1 => /\ e.tab[e.filp[f].slot].num = e.filp[f].of
                                        /\ e.tab[e.filp[f].slot].mode = "reg"
    <3>1. e.filp[f] = fs.filp[f] /\ fs.filp[f].mode = "reg"
      BY <1>3, <2>3, Zenon
    <3>2. /\ fs.filp[f].slot \in Slots
          /\ fs.filp[f].slot # 1 => /\ fs.tab[fs.filp[f].slot].num = fs.filp[f].of
                                    /\ fs.tab[fs.filp[f].slot].mode = "reg"
      BY <3>1, Zenon DEF Tied
    <3>3. fs.filp[f].slot # 1 => e.tab[fs.filp[f].slot] = fs.tab[fs.filp[f].slot]
      BY <1>3, <1>7, <3>1, Zenon
    <3> QED BY <3>1, <3>2, <3>3, Zenon
  <2> QED BY <2>1, <2>2, <2>3, Zenon DEF Tied
<1>9. Alike(e, gs)
  BY <1>3, <1>4, RemovedAlike, Zenon
<1>10. Tied(gs) /\ gs.filp = fs.filp /\ fs.disk.imap \ {nr} \subseteq gs.disk.imap
  BY <1>3, <1>8, <1>9, AlikeTied, Zenon DEF Alike
<1>11. ASSUME NEW f \in Fds, fs.filp[f].mode = "reg", fs.filp[f].slot # 1
       PROVE  fs.filp[f].of \in fs.disk.imap \ {nr}
  <2> DEFINE u == fs.filp[f].slot
  <2>1. u \in Slots /\ u # s /\ u # 1 /\ fs.tab[u].cnt # 0
    BY <1>7, <1>11, Zenon
  <2>2. fs.tab[u].num = fs.filp[f].of
    BY <1>11, Zenon DEF Tied
  <2> HIDE DEF u
  <2>3. fs.tab[u].num \in fs.disk.imap /\ fs.tab[u].num # nr
    BY <1>6, <2>1, Zenon DEF Tied
  <2> QED BY <2>2, <2>3, Zenon
<1>12. Keeps(fs, gs)
  BY <1>10, <1>11, Zenon DEF Keeps
<1> QED BY <1>10, <1>12

LEMMA UnlinkAfter ==
  ASSUME NEW fs, Linked(fs), Fine(fs), NoStaleEntry(fs.disk), NEW path, PathOk(path),
         NEW garbage \in Nat
  PROVE  After(fs, do_unlink(fs, path, garbage).fs)
<1>1. PICK r1 : r1 = strip_path(fs, path)
  OBVIOUS
<1>2. PICK r2 : r2 = strip_path(r1.fs, path)
  OBVIOUS
<1>3. PICK t : t = Target(fs, path)
  OBVIOUS
<1>4. PICK u : u = Unlink(t, garbage)
  OBVIOUS
<1>5. do_unlink(fs, path, garbage) = u
  BY <1>3, <1>4, Zenon DEF do_unlink
<1>6. /\ r1 \in WalkType /\ SameButTab(fs, r1.fs) /\ Linked(r1.fs)
      /\ NoStaleEntry(r1.fs.disk) /\ (Ok(r1.fs) => TiedAt(r1))
  BY <1>1, LinkedWalk, Zenon
<1>7. r2 \in WalkType /\ SameButTab(r1.fs, r2.fs) /\ Linked(r2.fs)
  BY <1>2, <1>6, LinkedWalk, Zenon
<1>8. /\ SameButTab(fs, r2.fs) /\ (Ok(r2.fs) => Ok(r1.fs)) /\ r2.fs.disk = r1.fs.disk
      /\ r2.at \in Slots
  BY <1>6, <1>7, WalkFields, Zenon DEF SameButTab
<1>9. Targeted(path, r1, r2, t)
  BY <1>1, <1>2, <1>3, <1>6, <1>7, TargetIs, Zenon
<1>10. Fine(r2.fs)
  <2>1. /\ strip_path(fs, path) \in WalkType
        /\ strip_path(strip_path(fs, path).fs, path) \in WalkType
        /\ (Ok(strip_path(strip_path(fs, path).fs, path).fs)
              => Cache(strip_path(strip_path(fs, path).fs, path).fs))
    BY TwoWalks, Zenon DEF Fine
  <2> QED BY <1>1, <1>2, <1>7, <2>1, Zenon DEF Fine, Linked
<1>11. ASSUME t.nr # 0
       PROVE  /\ t.fs \in FsType /\ t.slot \in Slots /\ t.dir \in Slots
              /\ t.fs.disk = fs.disk /\ t.fs.filp = fs.filp
              /\ Fine(t.fs) /\ (Ok(t.fs) => Held(t.fs, t.slot))
              /\ Ok(t.fs) => /\ Tied(t.fs) /\ Spare(t.fs, t.slot)
                             /\ t.fs.tab[t.slot].num = t.nr /\ t.nr \in t.fs.disk.imap
  <2>1. PICK got : /\ Finds(r1, path, t.nr) /\ t.dir = r2.at
                   /\ Got(r2.fs, t.nr, got) /\ t.slot = got.slot /\ t.fs = got.fs
    BY <1>9, <1>11, Zenon DEF Targeted
  <2>2. t.nr \in Inodes /\ r2.fs \in FsType
    BY <1>10, <2>1, Zenon DEF Finds, Fine
  <2>3. Pinned(r2.fs, got)
    BY <2>1, <2>2, GotPinned, Zenon
  <2>4. /\ got.slot \in Slots /\ got.slot # 0 /\ got.fs \in FsType
        /\ got.fs.disk = fs.disk /\ got.fs.filp = fs.filp
    BY <1>8, <2>1, NoZero, Zenon DEF Got, OneSlot, SameButTab
  <2>5. Fine(got.fs) /\ (Ok(got.fs) => Held(got.fs, got.slot))
    BY <1>10, <2>3, <2>4, Zenon DEF Pinned, Fine
  <2>6. Ok(r2.fs) => t.nr \in r2.fs.disk.imap
    BY <1>6, <1>8, <2>1, FindsMarked, Zenon
  <2>7. LinkedPin(r2.fs, got)
    BY <1>7, <2>1, <2>6, GotLinked, Zenon
  <2>8. ASSUME Ok(got.fs)
        PROVE  /\ Tied(got.fs) /\ Spare(got.fs, got.slot)
               /\ got.fs.tab[got.slot].num = t.nr /\ t.nr \in got.fs.disk.imap
    <3>1. Ok(r2.fs) /\ Tied(got.fs) /\ Spare(got.fs, got.slot)
      BY <2>4, <2>7, <2>8, Zenon DEF LinkedPin, Linked
    <3>2. got.fs.tab[got.slot].num = t.nr
      BY <2>1, <2>8, Zenon DEF Got, Hit, Load, SameInode, Ok
    <3>3. got.fs.disk = r2.fs.disk
      BY <2>1, Zenon DEF Got, OneSlot
    <3> QED BY <2>6, <3>1, <3>2, <3>3, Zenon
  <2> QED BY <1>8, <2>1, <2>4, <2>5, <2>8, Zenon
<1>12. Unlinked(t, u, garbage)
  BY <1>4, <1>11, UnlinkIs, Zenon
<1>13. CASE t.nr = 0
  <2>1. u.fs = r1.fs \/ u.fs = r2.fs
    BY <1>9, <1>12, <1>13, NoZero, Zenon DEF Targeted, Unlinked, Finds
  <2>2. Grown(fs, r1.fs) /\ Grown(fs, r2.fs)
    BY <1>6, <1>7, <1>8, Zenon DEF Grown, SameButTab
  <2> QED BY <1>5, <2>1, <2>2, GrownAfter, Zenon
<1>14. CASE t.nr # 0
  <2> DEFINE hs == t.fs
             s == t.slot
  <2>1. PICK g : /\ Counted(hs, g, s)
                 /\ \/ u.fs = g
                    \/ ~(g.tab[s].cnt > 1) /\ Released(g, u.fs, s, t.dir, t.nr, garbage)
    BY <1>12, <1>14, Zenon DEF Unlinked
  <2>2. /\ hs \in FsType /\ s \in Slots /\ hs.disk = fs.disk /\ hs.filp = fs.filp
        /\ Fine(hs) /\ (Ok(hs) => Held(hs, s))
        /\ Ok(hs) => /\ Tied(hs) /\ Spare(hs, s)
                     /\ hs.tab[s].num = t.nr /\ t.nr \in hs.disk.imap
    BY <1>11, <1>14, Zenon
  <2> HIDE DEF hs, s
  <2>3. Fine(g) /\ (Ok(g) => Ok(hs))
    <3>1. CASE g = hs
      BY <2>2, <3>1, Zenon
    <3>2. ASSUME OneSlot(hs, g, s, hs.tab[s], g.tab[s]), g.cause = hs.cause, g.tab[s].cnt = 1,
                 SameInode(hs.tab[s], g.tab[s])
          PROVE  Fine(g) /\ (Ok(g) => Ok(hs))
      <4>1. g \in FsType /\ (Ok(g) => Ok(hs)) /\ g.tab[s].num = hs.tab[s].num
        BY <3>2, Zenon DEF OneSlot, Ok, SameInode
      <4>2. g.tab[s].cnt >= 0
        BY <3>2
      <4>3. Ok(g) => Cache(g)
        BY <2>2, <3>2, <4>1, <4>2, CacheCount, Zenon DEF Fine
      <4> QED BY <4>1, <4>3, Zenon DEF Fine
    <3> QED BY <2>1, <3>1, <3>2, Zenon DEF Counted
  <2>4. ASSUME Ok(g)
        PROVE  /\ Tied(g) /\ Spare(g, s) /\ g.disk = fs.disk /\ g.filp = fs.filp
               /\ g.tab[s].num = t.nr /\ Cache(g) /\ g \in FsType
    <3>1. /\ Tied(hs) /\ Spare(hs, s) /\ hs.tab[s].num = t.nr
          /\ hs.tab[s].num \in hs.disk.imap
      BY <2>2, <2>3, <2>4, Zenon
    <3>2. /\ Tied(g) /\ Spare(g, s) /\ g.disk = hs.disk /\ g.filp = hs.filp
          /\ g.tab[s].num = hs.tab[s].num
      BY <2>1, <2>2, <3>1, CountedTied, Zenon
    <3> QED BY <2>2, <2>3, <2>4, <3>1, <3>2, Zenon DEF Fine
  <2>5. CASE u.fs = g
    <3>1. Ok(g) => Keeps(fs, g)
      BY <2>4, Zenon DEF Keeps
    <3> QED BY <1>5, <2>3, <2>4, <2>5, <3>1, Zenon DEF After, Fine
  <2>6. ASSUME ~(g.tab[s].cnt > 1), Released(g, u.fs, s, t.dir, t.nr, garbage)
        PROVE  After(fs, u.fs)
    <3>1. u.fs \in FsType
      <4>1. Fine(do_unlink(fs, path, garbage).fs)
        BY UnlinkFine, Zenon
      <4> QED BY <1>5, <4>1, Zenon DEF Fine
    <3>2. Ok(u.fs) => Ok(g)
      <4>1. PICK a, b, c, d :
              /\ NrFreed(g, a, t.nr) /\ ExtFreed(a, b, g.tab[s].start) /\ Cleared(b, c, s)
              /\ Synced(c, d, s, garbage)
              /\ EntryRemoved(put_inode(d, s), u.fs, t.dir, t.nr, garbage)
        BY <2>6, Zenon DEF Released
      <4>2. d.cause = g.cause /\ d \in FsType
        BY <4>1, Zenon DEF NrFreed, ExtFreed, Cleared, Synced, Wrote
      <4> DEFINE e == put_inode(d, s)
      <4>3. e \in FsType /\ e.cause = d.cause
        BY <2>2, <4>2, PutInode, Zenon DEF OneSlot
      <4> HIDE DEF e
      <4>4. Alike(e, u.fs)
        BY <4>1, <4>3, RemovedAlike, Zenon DEF e
      <4> QED BY <4>2, <4>3, <4>4, Zenon DEF Alike, Ok
    <3>3. ASSUME Ok(u.fs) PROVE Tied(u.fs) /\ Keeps(fs, u.fs)
      <4>1. Released(g, u.fs, s, t.dir, g.tab[s].num, garbage)
        BY <2>4, <2>6, <3>2, <3>3, Zenon
      <4>2. Tied(u.fs) /\ Keeps(g, u.fs)
        BY <2>2, <2>4, <2>6, <3>2, <3>3, <4>1, ReleasedTied, Zenon
      <4>3. Keeps(fs, u.fs)
        BY <2>4, <3>2, <3>3, <4>2, Zenon DEF Keeps
      <4> QED BY <4>2, <4>3
    <3> QED BY <3>1, <3>3, Zenon DEF After
  <2> QED BY <1>5, <2>1, <2>5, <2>6, Zenon
<1> QED BY <1>13, <1>14

(* What every command leaves behind, on a disk without stale entries.  *)
NoStale == RootMarked(FsState) /\ NoStaleEntry(disk) /\ 2 \in disk.imap

Upheld == Sane /\ Tied(FsState)

LEMMA UpheldLinked ==
  ASSUME Upheld, NoStale
  PROVE  Fine(FsState) /\ Linked(FsState) /\ NoStaleEntry(FsState.disk)
BY StateFields, Zenon DEF Upheld, NoStale, Sane, Fine, Linked

LEMMA CreatesAfter ==
  ASSUME Upheld, NoStale, NEW fs, Creates(fs)
  PROVE  After(FsState, fs)
<1> DEFINE X == FsState
<1>1. Fine(X) /\ Linked(X) /\ NoStaleEntry(X.disk) /\ X.disk = disk
  BY UpheldLinked, StateFields, Zenon
<1>2. session \in Sessions
  BY Zenon DEF Upheld, Sane
<1>3. PICK path \in session.paths, g \in Garbage :
        Room /\ (fs = Touched(path, g).fs \/ fs = MadeDir(path, g).fs)
  BY Zenon DEF Creates
<1>4. PathOk(path) /\ Last(path) \in Names /\ g \in Nat
  BY <1>2, SessionPaths, FilePath, GarbageNat, Zenon
<1>5. X.disk.imap # Inodes /\ X.disk.smap # Extents
  BY <1>1, <1>3, Zenon DEF Room
<1> HIDE DEF X
<1>6. CASE fs = AndTouched(do_open(X, path, TRUE, g), g).fs
  <2>1. /\ Opn(X, do_open(X, path, TRUE, g)) /\ OpnLinked(X, do_open(X, path, TRUE, g))
    BY <1>1, <1>4, <1>5, OpenNewFine, OpenNewLinked, Zenon
  <2>2. Grown(X, fs)
    BY <1>4, <1>6, <2>1, TouchedLinked, Zenon
  <2> QED BY <2>2, GrownAfter, Zenon DEF X
<1>7. CASE fs = AndMade(do_open(X, path, FALSE, g), path, g).fs
  <2>1. /\ Opn(X, do_open(X, path, FALSE, g)) /\ do_open(X, path, FALSE, g).fs.disk = X.disk
        /\ OpnLinked(X, do_open(X, path, FALSE, g))
    BY <1>1, <1>4, OpenFine, OpenKeeps, OpenLinked, Zenon
  <2>2. Grown(X, fs)
    BY <1>1, <1>4, <1>5, <1>7, <2>1, MadeDirLinked, Zenon
  <2> QED BY <2>2, GrownAfter, Zenon DEF X
<1> QED BY <1>3, <1>6, <1>7, Zenon DEF Touched, MadeDir, X

LEMMA ResultAfter ==
  ASSUME Upheld, NoStale, NEW fs, Result(fs)
  PROVE  After(FsState, fs)
<1> DEFINE X == FsState
<1>1. Fine(X) /\ Linked(X) /\ NoStaleEntry(X.disk)
  BY UpheldLinked, Zenon
<1>2. session \in Sessions /\ cwd \in Seq(Names)
  BY Zenon DEF Upheld, Sane
<1>3. ASSUME NEW path \in session.paths
      PROVE  PathOk(path) /\ path \in Seq(Names)
  BY <1>2, SessionPaths, FilePath, Zenon
<1>4. CASE Creates(fs)
  BY <1>4, CreatesAfter
<1>5. CASE Removes(fs)
  <2>1. PICK path \in session.paths, g \in Garbage : fs = do_unlink(X, path, g).fs
    BY <1>5, Zenon DEF Removes
  <2> HIDE DEF X
  <2>2. After(X, do_unlink(X, path, g).fs)
    BY <1>1, <1>3, GarbageNat, UnlinkAfter, Zenon
  <2> QED BY <2>1, <2>2, Zenon DEF X
<1>6. CASE Transfers(fs)
  <2>1. PICK path \in session.paths, g \in Garbage, grows \in BOOLEAN :
          \/ fs = AndRead(do_open(X, path, FALSE, g), grows, g)
          \/ fs = AndEdited(do_open(X, path, FALSE, g), g)
    BY <1>6, Zenon DEF Transfers
  <2> HIDE DEF X
  <2>2. /\ Opn(X, do_open(X, path, FALSE, g)) /\ g \in Nat
        /\ OpnLinked(X, do_open(X, path, FALSE, g))
        /\ do_open(X, path, FALSE, g).fs.disk = X.disk
    BY <1>1, <1>3, GarbageNat, OpenFine, OpenLinked, OpenKeeps, Zenon
  <2>3. NoStaleEntry(do_open(X, path, FALSE, g).fs.disk)
    BY <1>1, <2>2, Zenon
  <2>4. Grown(X, fs)
    BY <2>1, <2>2, <2>3, ReadLinked, EditedLinked, Zenon
  <2> QED BY <2>4, GrownAfter, Zenon DEF X
<1>7. ASSUME NEW dir \in Seq(Names), fs = do_open(X, Append(dir, ""), FALSE, 0).fs
      PROVE  After(X, fs)
  <2> HIDE DEF X
  <2>1. OpnLinked(X, do_open(X, Append(dir, ""), FALSE, 0))
    BY <1>1, DirPath, OpenLinked, Zenon
  <2> QED BY <1>7, <2>1, OpnGrown, GrownAfter, Zenon
<1>8. CASE Descends(fs)
  BY <1>3, <1>7, <1>8, Zenon DEF Descends
<1>9. CASE Climbs(fs)
  <2>1. PICK parent : /\ parent = cwd \/ (parent = Front(cwd) /\ cwd # <<>>)
                      /\ fs = do_open(X, Append(parent, ""), FALSE, 0).fs
    BY <1>9, Zenon DEF Climbs
  <2>2. parent \in Seq(Names)
    BY <1>2, <2>1, FrontIs, Zenon
  <2> QED BY <1>7, <2>1, <2>2, Zenon
<1>10. CASE Lists(fs)
  <2>1. fs = do_ls(X, cwd)
    BY <1>10, Zenon DEF Lists
  <2> HIDE DEF X
  <2>2. Grown(X, do_ls(X, cwd))
    BY <1>1, <1>2, DirPath, LsLinked, Zenon
  <2> QED BY <2>1, <2>2, GrownAfter, Zenon DEF X
<1> QED BY <1>4, <1>5, <1>6, <1>8, <1>9, <1>10, Zenon DEF Result

LEMMA BootTied ==
  ASSUME NEW d \in DiskType, 2 \in d.imap, NEW tab, NEW fds, tab = Booted(d).tab,
         fds = Booted(d).filp
  PROVE  Tied(StateOf(d, tab, fds)) /\ \A f \in Fds : fds[f].mode # "reg"
<1> DEFINE X == StateOf(d, tab, fds)
           reg == "reg"
<1>1. Boots(d, tab, fds)
  BY BootIs, Zenon
<1>2. X.disk = d /\ X.tab = tab /\ X.filp = fds
  BY Zenon DEF StateOf
<1> HIDE DEF X
<1>3. ASSUME NEW f \in Fds PROVE fds[f].mode # reg
  <2> DEFINE a == [slot |-> 2, of |-> 2, mode |-> "chr"]
             b == Closed
  <2>1. fds[f] = a \/ fds[f] = b
    <3>1. f \in {0, 1} => fds[f] = a
      BY <1>1, Zenon DEF Boots
    <3>2. f \notin {0, 1} => fds[f] = b
      BY <1>1, Zenon DEF Boots
    <3> QED BY <3>1, <3>2, Zenon
  <2>2. a.mode # reg /\ b.mode # reg
    BY DEF Closed
  <2> HIDE DEF a, b, reg
  <2> QED BY <2>1, <2>2, Zenon
<1>4. \A s : Refs(fds, s) = 0
  BY <1>3, NoneShares, Zenon
<1>5. ASSUME NEW s \in Slots, s # 1
      PROVE  tab[s].cnt >= 0 /\ (tab[s].cnt # 0 => tab[s].num \in d.imap)
  <2>1. CASE s = 2
    <3>1. tab[2].num = 2 /\ tab[2].cnt = 2
      BY <1>1, Zenon DEF Boots
    <3>2. 2 >= 0
      OBVIOUS
    <3> QED BY <2>1, <3>1, <3>2, Zenon
  <2>2. CASE s # 2
    <3>1. tab[s] = NoInode
      BY <1>1, <1>5, <2>2, Zenon DEF Boots
    <3>2. 0 >= 0
      OBVIOUS
    <3> QED BY <3>1, <3>2, NoInodeIs, Zenon
  <2> QED BY <2>1, <2>2
<1>6. Tied(X)
  BY <1>2, <1>3, <1>4, <1>5, Zenon DEF Tied
<1> QED BY <1>3, <1>6 DEF X

(* One step of OpenFilesKept.  *)
StepKept ==
  \A fd \in Fds : filp'[fd].mode = "reg" /\ filp'[fd].slot # 1 =>
    /\ Refers(fd)'
    /\ filp'[fd] = filp[fd] /\ filp[fd].of \in disk.imap => filp[fd].of \in disk'.imap

LEMMA TiedRefers ==
  ASSUME NEW fs, Tied(fs), inode_table' = fs.tab, filp' = fs.filp,
         NEW fd \in Fds, fs.filp[fd].mode = "reg", fs.filp[fd].slot # 1
  PROVE  Refers(fd)'
<1> DEFINE s == fs.filp[fd].slot
<1>1. s \in Slots /\ fs.tab[s].num = fs.filp[fd].of /\ fs.tab[s].cnt >= Refs(fs.filp, s)
  BY Zenon DEF Tied
<1>2. Refs(fs.filp, s) = Cardinality({f \in Fds : fs.filp[f].mode = "reg" /\ fs.filp[f].slot = s})
  BY Zenon DEF Refs, Sharing
<1> QED BY <1>1, <1>2, Zenon DEF Refers

LEMMA EndsKept ==
  ASSUME Upheld, NEW fs, After(FsState, fs), NEW c, NEW t, Ends(fs, c, t)
  PROVE  Tied(FsState)' /\ StepKept
<1>1. CASE ~Ok(fs)
  <2>1. UNCHANGED <<disk, inode_table, filp>>
    BY <1>1, Zenon DEF Ends, Ok
  <2>2. FsState' = FsState
    BY <2>1, Zenon DEF FsState
  <2>3. /\ Tied(FsState) /\ inode_table' = FsState.tab /\ filp' = FsState.filp
        /\ FsState.filp = filp
    BY <2>1, StateFields, Zenon DEF Upheld
  <2>4. Tied(FsState)'
    BY <2>2, <2>3, Zenon DEF Tied, Refs, Sharing
  <2>5. StepKept
    BY <2>1, <2>3, TiedRefers, Zenon DEF StepKept
  <2> QED BY <2>4, <2>5
<1>2. CASE Ok(fs)
  <2>1. disk' = fs.disk /\ inode_table' = fs.tab /\ filp' = fs.filp
    BY <1>2, Zenon DEF Ends, Ok
  <2>2. /\ FsState'.disk = fs.disk /\ FsState'.tab = fs.tab /\ FsState'.filp = fs.filp
    BY <2>1, Zenon DEF FsState
  <2>3. Tied(fs) /\ Keeps(FsState, fs)
    BY <1>2, Zenon DEF After
  <2>4. Tied(FsState)'
    BY <2>2, <2>3, Zenon DEF Tied, Refs, Sharing
  <2>5. StepKept
    BY <2>1, <2>3, TiedRefers, StateFields, Zenon DEF StepKept, Keeps
  <2> QED BY <2>4, <2>5
<1> QED BY <1>1, <1>2

LEMMA PowerKept ==
  ASSUME NEW d \in DiskType, 2 \in d.imap, PowerOn(d)
  PROVE  Tied(FsState)' /\ StepKept
<1>1. /\ disk' = d /\ inode_table' = Booted(d).tab /\ filp' = Booted(d).filp
  BY Zenon DEF PowerOn
<1>2. FsState' = StateOf(d, inode_table', filp')
  BY <1>1, Zenon DEF FsState, StateOf
<1>3. Tied(StateOf(d, inode_table', filp')) /\ \A f \in Fds : filp'[f].mode # "reg"
  BY <1>1, BootTied, Zenon
<1>4. Tied(FsState)'
  BY <1>2, <1>3, Zenon DEF Tied, Refs, Sharing
<1> QED BY <1>3, <1>4, Zenon DEF StepKept

LEMMA UpheldNext ==
  ASSUME Upheld, NoStale, NoStale', [Next]_vars
  PROVE  Upheld' /\ [StepKept]_vars
<1>0. Sane /\ Sane'
  BY SaneNext DEF Upheld
<1>1. CASE Commanded
  <2>1. PICK fs, c, t : Result(fs) /\ Ends(fs, c, t)
    BY <1>1, Zenon DEF Commanded
  <2>2. After(FsState, fs)
    BY <2>1, ResultAfter
  <2>3. Tied(FsState)' /\ StepKept
    BY <2>1, <2>2, EndsKept
  <2> QED BY <1>0, <2>3 DEF Upheld
<1>2. CASE Cut
  <2>1. PICK fs : Creates(fs) /\ \E i \in DOMAIN fs.writes : PowerOn(fs.writes[i])
    BY <1>2, Zenon DEF Cut
  <2>2. PICK i \in DOMAIN fs.writes : PowerOn(fs.writes[i])
    BY <2>1
  <2>3. fs.writes[i] \in DiskType
    BY <1>0, <2>1, CreatesFine, WritesType, Zenon DEF Fine
  <2>4. 2 \in fs.writes[i].imap
    BY <2>2, Zenon DEF NoStale, PowerOn
  <2>5. Tied(FsState)' /\ StepKept
    BY <2>2, <2>3, <2>4, PowerKept
  <2> QED BY <1>0, <2>5 DEF Upheld
<1>3. CASE PowerOn(disk)
  <2>1. disk \in DiskType /\ 2 \in disk.imap
    BY <1>0, StateFields, FsFields, Zenon DEF Sane, NoStale
  <2>2. Tied(FsState)' /\ StepKept
    BY <1>3, <2>1, PowerKept
  <2> QED BY <1>0, <2>2 DEF Upheld
<1>4. CASE UNCHANGED vars
  <2>1. FsState' = FsState
    BY <1>4, Zenon DEF vars, FsState
  <2>2. Tied(FsState)'
    BY <2>1, Zenon DEF Upheld, Tied, Refs, Sharing
  <2> QED BY <1>0, <1>4, <2>2 DEF Upheld
<1> QED BY <1>1, <1>2, <1>3, <1>4, NextCases

LEMMA UpheldStart ==
  ASSUME Init
  PROVE  Upheld
<1>1. Sane
  BY SaneStart
<1>2. /\ disk = mkfs /\ inode_table = Booted(mkfs).tab /\ filp = Booted(mkfs).filp
  BY Zenon DEF Init
<1>3. mkfs \in DiskType /\ 2 \in mkfs.imap
  BY MkfsIs
<1>4. Tied(StateOf(mkfs, inode_table, filp))
  BY <1>2, <1>3, BootTied, Zenon
<1>5. Tied(FsState)
  <2> DEFINE X == StateOf(disk, inode_table, filp)
  <2>1. Tied(X)
    BY <1>2, <1>4, Zenon
  <2>2. FsState = X
    BY StateIs, Zenon
  <2> HIDE DEF X
  <2> QED BY <2>1, <2>2, Zenon
<1> QED BY <1>1, <1>5, Zenon DEF Upheld

(* On a disk without stale entries a descriptor of a file goes on          *)
(* referring to the inode that was opened, in a slot that counts all of    *)
(* them, and that inode is not freed.                                      *)
THEOREM OpenFilesKeptMarked == Spec /\ []NoStale => OpenFilesKept
<1>1. Init => Upheld
  BY UpheldStart
<1>2. Upheld /\ NoStale /\ NoStale' /\ [Next]_vars => Upheld' /\ [StepKept]_vars
  BY UpheldNext
<1>3. StepKept <=> \A fd \in Fds : filp'[fd].mode = "reg" /\ filp'[fd].slot # 1 =>
        /\ Refers(fd)'
        /\ filp'[fd] = filp[fd] /\ filp[fd].of \in disk.imap => filp[fd].of \in disk'.imap
  BY DEF StepKept
<1> QED BY <1>1, <1>2, <1>3, PTL DEF Spec, OpenFilesKept

LEMMA SafeStale ==
  ASSUME Safe, Kind
  PROVE  NoStale
<1>1. DiskOk(disk) /\ TabOk(FsState, 2)
  BY StateFields, Zenon DEF Safe, Sound
<1>2. NoStaleEntry(disk)
  BY <1>1, Zenon DEF DiskOk, EntriesOk, Named, NoStaleEntry
<1>3. RootMarked(FsState)
  <2> DEFINE p == FsState.tab[1]
  <2>1. SlotOk(FsState.disk, 1, p) /\ p.num # 0
    BY <1>1, SlotOne, Zenon DEF TabOk
  <2> HIDE DEF p
  <2>2. p.num # 2
    BY <2>1, SlotTwo, Zenon DEF SlotOk
  <2> QED BY <2>1, <2>2, Zenon DEF SlotOk, RootMarked, p
<1>4. 2 \in disk.imap
  BY <1>1, Zenon DEF DiskOk, NodesOk
<1> QED BY <1>2, <1>3, <1>4, Zenon DEF NoStale

LEMMA KindNext ==
  ASSUME Kind, [Next]_vars
  PROVE  Kind'
<1>1. session' = session
  BY NextCases, Zenon DEF Commanded, Cut, Ends, PowerOn, vars
<1> QED BY <1>1, Zenon DEF Kind

(* The same of every session that removes nothing, whatever else it does   *)
(* and wherever the power fails.                                           *)
THEOREM OpenFilesKeptKind == Spec /\ Kind => OpenFilesKept
<1>1. Init => Safe
  BY SafeStart
<1>2. Safe /\ [Next]_vars => Safe'
  BY SafeNext
<1>3. Kind /\ [Next]_vars => Kind'
  BY KindNext
<1>4. Safe /\ Kind => NoStale
  BY SafeStale
<1> QED BY <1>1, <1>2, <1>3, <1>4, OpenFilesKeptMarked, PTL DEF Spec
=============================================================================
