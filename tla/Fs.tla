--------------------------------- MODULE Fs ---------------------------------
(***************************************************************************)
(* Inodes, directories and path names (kernel/fs.c) under the system calls *)
(* that use them (kernel/sysfile.c): threads that create, open, write,     *)
(* link, unlink and close files and make and enter directories.  What a    *)
(* thread does to an inode between ilock() and iunlock() is one step where *)
(* it needs no second inode; what runs under itable.lock is one step.  The *)
(* calls run inside transactions of the log, which is a module of its own. *)
(*                                                                         *)
(* The entry of itable that caches an inode is named by the inode number:  *)
(* iget() never makes a second entry for one, and the table is taken to be *)
(* large enough.  Of the blocks of an inode the model keeps the number.    *)
(***************************************************************************)
EXTENDS Integers, FiniteSets, FiniteSetsExt, Functions, Sequences, TLC

CONSTANTS
  Thread,       \* single-threaded processes
  NINODES,      \* inodes of the file system
  NFILE, NOFILE,\* open files in the system, and descriptors of a process
  File,         \* names of directory entries
  None,
  MaxBlocks,    \* bound: blocks of a file
  Loads         \* the sets of system calls that threads make

ROOTINO == 1
Inum == 1..NINODES
Name == File \cup {".", ".."}
NoEntry == [x \in Name |-> 0]

ASSUME FsAssumption ==
  /\ {NINODES, NFILE, NOFILE} \subseteq Nat \ {0} /\ MaxBlocks \in Nat
  /\ None \notin Thread /\ {".", ".."} \cap File = {}

VARIABLES
  dinode,       \* the inodes on the disk, as the buffer cache has them
  ents,         \* the entries of a directory; 0 where there is none
  bitmap,       \* how many blocks are marked in use
  itable,       \* the in-memory inodes, with their reference counts
  lock,         \* the thread that holds ip->lock
  file, ofile,  \* the open files; per thread, its descriptors
  cwd,          \* per thread: the current directory
  th,           \* per thread: where it is in a system call
  load,         \* the calls of this behaviour
  late          \* history: an entry was written to a removed directory

files == <<file, ofile>>
vars == <<dinode, ents, bitmap, itable, lock, files, cwd, th, load, late>>

Pcs == {"idle", "walk", "open", "opened", "create", "exists", "new", "made",
        "link", "link2", "linkdup", "linkbad", "unlink", "unlink2", "unlink3", "unlinkbad",
        "chdir"}
OnDisk == [type : {"free", "file", "dir", "device"}, nlink : Nat, addrs : Nat]

\* Every variable has its type.
TypeOK ==
  /\ dinode \in [Inum -> OnDisk] /\ ents \in [Inum -> [Name -> 0..NINODES]]
  /\ bitmap \in Nat /\ late \in BOOLEAN
  /\ lock \in [Inum -> Thread \cup {None}]
  /\ \A i \in Inum : itable[i].ref \in Nat /\ itable[i].valid \in BOOLEAN
  /\ cwd \in [Thread -> Inum]
  /\ file \in [1..NFILE -> [ref : Nat, ip : Inum \cup {None}]]
  /\ ofile \in [Thread -> [1..NOFILE -> 0..NFILE]]
  /\ \A t \in Thread : th[t].pc \in Pcs /\ th[t].puts \in Seq(Inum)

Idle == [pc |-> "idle", call |-> None, path |-> <<>>, name |-> None,
         cur |-> None, ip |-> None, dp |-> None, puts |-> <<>>,
         freeing |-> "no"]
NoFile == [ref |-> 0, ip |-> None]
FreeInode == [type |-> "free", nlink |-> 0, addrs |-> 0]

\* An inode without an entry in the table; what a recycled entry still holds
\* is not read while valid is 0.
Uncached == [ref |-> 0, valid |-> FALSE] @@ FreeInode

\* A file system with an empty root directory, which is where every process
\* starts.
Init ==
  /\ dinode = [i \in Inum |->
       IF i = ROOTINO THEN [type |-> "dir", nlink |-> 1, addrs |-> 1]
                      ELSE FreeInode]
  /\ ents = [i \in Inum |->
       IF i = ROOTINO THEN [x \in Name |-> IF x \in File THEN 0 ELSE ROOTINO]
                      ELSE NoEntry]
  /\ bitmap = 1
  /\ itable = [i \in Inum |->
       [Uncached EXCEPT !.ref = IF i = ROOTINO THEN Cardinality(Thread)
                                               ELSE 0]]
  /\ lock = [i \in Inum |-> None]
  /\ cwd = [t \in Thread |-> ROOTINO]
  /\ file = [f \in 1..NFILE |-> NoFile]
  /\ ofile = [t \in Thread |-> [n \in 1..NOFILE |-> 0]]
  /\ th = [t \in Thread |-> Idle]
  /\ load \in Loads /\ late = FALSE

-----------------------------------------------------------------------------
(* The in-memory inode table *)

\* Thread t is at l and has no iput() to finish first.
At(t, l) == th[t].pc = l /\ th[t].puts = <<>>

\* t goes on with the fields of r changed.
Goto(t, r) == th' = [th EXCEPT ![t] = r @@ @]

\* The call returns, once the inodes of q are put.
Return(t, q) == th' = [th EXCEPT ![t] = [Idle EXCEPT !.puts = q]]

Unlocked(i) == lock[i] = None

\* Mutant: an entry found in the table is not counted.
IgetUncounted(tab, i) == [tab EXCEPT ![i].ref = IF @ = 0 THEN 1 ELSE @]

\* The table after iget(i), or idup() of the entry.
iget(tab, i) == [tab EXCEPT ![i].ref = @ + 1]

\* The inode as ilock() leaves it: read from the disk unless it is valid.
ilock(i) ==
  IF itable[i].valid THEN itable[i]
                     ELSE [valid |-> TRUE] @@ dinode[i] @@ itable[i]

\* The table after ilock(i), where the inode is then changed to ip.
Put(i, ip) == [itable EXCEPT ![i] = ip]

\* Mutant: the block numbers are not copied.
IupdateNoAddrs(ip) == [type |-> ip.type, nlink |-> ip.nlink, addrs |-> 0]

\* What iupdate() writes of ip.
iupdate(ip) == [type |-> ip.type, nlink |-> ip.nlink, addrs |-> ip.addrs]

\* n blocks are marked in use, or free; the disk is taken to be large enough.
balloc(n) == bitmap' = bitmap + n
bfree(n) == bitmap' = bitmap - n

\* The inode with one more block, and without its blocks.
bmap(ip) == [ip EXCEPT !.addrs = @ + 1]
itrunc(ip) == [ip EXCEPT !.addrs = 0]

\* iput() finds the last reference to an inode without links.
IputLast(i) == itable[i].ref = 1 /\ itable[i].valid /\ itable[i].nlink = 0

\* It locks the inode, and releases itable.lock.
IputFree(t) ==
  /\ th[t].puts # <<>> /\ th[t].freeing = "no"
  /\ LET i == Head(th[t].puts)
     IN  IputLast(i) /\ Unlocked(i) /\ lock' = [lock EXCEPT ![i] = t]
  /\ Goto(t, [freeing |-> "locked"])
  /\ UNCHANGED <<dinode, ents, bitmap, itable, files, cwd, load, late>>

\* itrunc(), type 0, iupdate(), not valid any more, unlock.
IputTrunc(t) ==
  /\ th[t].freeing = "locked"
  /\ LET i  == Head(th[t].puts)
         ip == [itrunc(itable[i]) EXCEPT !.type = "free", !.valid = FALSE]
     IN  /\ bfree(itable[i].addrs)
         /\ itable' = Put(i, ip)
         /\ dinode' = [dinode EXCEPT ![i] = iupdate(ip)]
         /\ ents' = [ents EXCEPT ![i] = NoEntry]
         /\ lock' = [lock EXCEPT ![i] = None]
  /\ Goto(t, [freeing |-> "done"])
  /\ UNCHANGED <<files, cwd, load, late>>

\* ip->ref--
iput(t) ==
  /\ th[t].puts # <<>>
  /\ LET i == Head(th[t].puts)
     IN  /\ th[t].freeing = "done" \/ (th[t].freeing = "no" /\ ~IputLast(i))
         /\ itable' = [itable EXCEPT ![i] =
              IF @.ref = 1 THEN Uncached ELSE [@ EXCEPT !.ref = @ - 1]]
  /\ Goto(t, [puts |-> Tail(th[t].puts), freeing |-> "no"])
  /\ UNCHANGED <<dinode, ents, bitmap, lock, files, cwd, load, late>>

-----------------------------------------------------------------------------
(* namex() *)

\* The calls of create(): open() with O_CREATE, mkdir() and mknod().
Makers == {"create", "mkdir", "mknod"}
Made(op) == [create |-> "file", mkdir |-> "dir", mknod |-> "device"][op]

\* The lookup in progress is nameiparent().
Parent(t) ==
  \/ th[t].call.op \in Makers \cup {"unlink"}
  \/ th[t].call.op = "link" /\ th[t].ip # None

\* nameiparent() stops before the last element.
AtLast(t) == Parent(t) /\ Len(th[t].path) = 1

\* The path after its first element.
skipelem(t) == Tail(th[t].path)

\* Where a path starts.
StartAt(t, c) == IF c.abs THEN ROOTINO ELSE cwd[t]

\* Where the call goes on with the inode that the lookup found.
After(op) == IF op \in Makers THEN "create" ELSE op

\* The lookup fails: the inode it has reached is put, and so is the link
\* that sys_link() has already counted.
WalkFail(t) ==
  IF th[t].ip # None
    THEN Goto(t, [pc |-> "linkbad", path |-> <<>>, cur |-> None,
                  puts |-> <<th[t].cur>>])
    ELSE Return(t, <<th[t].cur>>)

\* Bound: nothing is created while another such call could find no inode.
EnoughInodes ==
  Cardinality({i \in Inum : dinode[i].type = "free"}) >= Cardinality(Thread)

\* A system call with a path starts.
Start(t) ==
  /\ At(t, "idle")
  /\ \E c \in load :
       /\ c.op \notin {"dup", "close", "write"}
       /\ c.op \in Makers => EnoughInodes
       /\ itable' = iget(itable, StartAt(t, c))
       /\ Goto(t, [pc |-> "walk", call |-> c, path |-> c.path,
                   cur |-> StartAt(t, c)])
  /\ UNCHANGED <<dinode, ents, bitmap, lock, files, cwd, load, late>>

\* One element of the path: lock, look it up, unlock, put.  nameiparent()
\* returns the directory of the last element, namei() the inode it names.
namex(t) ==
  LET d  == th[t].cur
      dp == ilock(d)
      i  == ents[d][Head(th[t].path)]
  IN  /\ At(t, "walk") /\ th[t].path # <<>> /\ Unlocked(d)
      /\ \/ /\ dp.type = "dir" /\ AtLast(t)
            /\ itable' = Put(d, dp)
            /\ Goto(t, [pc |-> IF th[t].ip # None THEN "link2"
                                                  ELSE After(th[t].call.op),
                        path |-> <<>>, dp |-> d, cur |-> None,
                        name |-> Head(th[t].path)])
         \/ /\ dp.type = "dir" /\ ~AtLast(t) /\ i # 0
            /\ itable' = iget(Put(d, dp), i)
            /\ IF Len(th[t].path) > 1
                 THEN Goto(t, [path |-> skipelem(t), cur |-> i,
                               puts |-> <<d>>])
                 ELSE Goto(t, [pc |-> After(th[t].call.op), path |-> <<>>,
                               ip |-> i, cur |-> None, puts |-> <<d>>])
         \/ /\ dp.type # "dir" \/ (~AtLast(t) /\ i = 0)
            /\ itable' = Put(d, dp) /\ WalkFail(t)
      /\ UNCHANGED <<dinode, ents, bitmap, lock, files, cwd, load, late>>

\* A path without elements names the directory it starts at, which has no
\* parent to return.
NamexEmpty(t) ==
  /\ At(t, "walk") /\ th[t].path = <<>>
  /\ IF Parent(t) THEN WalkFail(t)
                  ELSE Goto(t, [pc |-> After(th[t].call.op), cur |-> None,
                                ip |-> th[t].cur])
  /\ UNCHANGED <<dinode, ents, bitmap, itable, lock, files, cwd, load, late>>

-----------------------------------------------------------------------------
(* sys_open(), create(), sys_mkdir() *)

\* The inode number in the entry that the call is about, or 0.
dirlookup(t) == ents[th[t].dp][th[t].name]

\* The entries after dirlink() of i in d, as the call names it.
dirlink(t, d, i) == [ents EXCEPT ![d][th[t].name] = i]

\* The history of dirlink() into dp.
Late(dp) == late' = (late \/ dp.nlink = 0)

\* open() of an existing file, or of a directory that is not to be written.
OpenLock(t) ==
  LET i == th[t].ip
  IN  /\ At(t, "open") /\ Unlocked(i)
      /\ itable' = Put(i, ilock(i))
      /\ \/ /\ ilock(i).type = "dir" /\ th[t].call.trunc
            /\ Return(t, <<i>>) /\ UNCHANGED lock
         \/ /\ ilock(i).type # "dir" \/ ~th[t].call.trunc
            /\ Goto(t, [pc |-> "opened"])
            /\ lock' = [lock EXCEPT ![i] = t]
      /\ UNCHANGED <<dinode, ents, bitmap, files, cwd, load, late>>

\* The first free file, the first free descriptor.
FreeFiles == {f \in 1..NFILE : file[f].ref = 0}
FreeFds(t) == {n \in 1..NOFILE : ofile[t][n] = 0}

\* The inode is locked: take a file and a descriptor, and truncate.
sys_open(t) ==
  LET i  == th[t].ip
      ip == IF th[t].call.trunc /\ itable[i].type = "file"
              THEN itrunc(itable[i]) ELSE itable[i]
      f  == Min(FreeFiles)
  IN  /\ At(t, "opened")
      /\ lock' = [lock EXCEPT ![i] = None]
      /\ \/ /\ FreeFiles # {} /\ FreeFds(t) # {}
            /\ file' = [file EXCEPT ![f] = [ref |-> 1, ip |-> i]]
            /\ ofile' = [ofile EXCEPT ![t][Min(FreeFds(t))] = f]
            /\ bfree(itable[i].addrs - ip.addrs)
            /\ itable' = Put(i, ip)
            /\ dinode' = [dinode EXCEPT ![i] = iupdate(ip)]
            /\ Return(t, <<>>)
         \/ /\ FreeFiles = {} \/ FreeFds(t) = {}
            /\ Return(t, <<i>>) /\ UNCHANGED <<files, bitmap, itable, dinode>>
      /\ UNCHANGED <<ents, cwd, load, late>>

\* The inode that ialloc() takes; the file system is large enough.
ialloc == Min({i \in Inum : dinode[i].type = "free"})

\* create(): the name exists, or ialloc() makes an inode of the type.
create(t) ==
  LET d  == th[t].dp
      dp == ilock(d)
      i  == dirlookup(t)
  IN  /\ At(t, "create") /\ Unlocked(d)
      /\ \/ /\ i # 0
            /\ itable' = iget(Put(d, dp), i)
            /\ Goto(t, [pc |-> "exists", ip |-> i, dp |-> None,
                        puts |-> <<d>>])
            /\ UNCHANGED <<dinode, lock>>
         \/ /\ i = 0
            /\ dinode' = [dinode EXCEPT ![ialloc] =
                 [FreeInode EXCEPT !.type = Made(th[t].call.op)]]
            /\ itable' = iget(Put(d, dp), ialloc)
            /\ Goto(t, [pc |-> "new", ip |-> ialloc])
            /\ lock' = [lock EXCEPT ![d] = t]
      /\ UNCHANGED <<ents, bitmap, files, cwd, load, late>>

\* create() of a name that exists: not a directory, and only for open().
CreateExists(t) ==
  LET i == th[t].ip
  IN  /\ At(t, "exists") /\ Unlocked(i)
      /\ itable' = Put(i, ilock(i))
      /\ \/ /\ th[t].call.op = "create" /\ ilock(i).type # "dir"
            /\ Goto(t, [pc |-> "opened"])
            /\ lock' = [lock EXCEPT ![i] = t]
         \/ /\ th[t].call.op # "create" \/ ilock(i).type = "dir"
            /\ Return(t, <<i>>) /\ UNCHANGED lock
      /\ UNCHANGED <<dinode, ents, bitmap, files, cwd, load, late>>

\* create(), with dp locked: lock the new inode, give it one link, write "."
\* and "..", and enter it in dp, which is put.
CreateNew(t) ==
  LET d  == th[t].dp
      i  == th[t].ip
      isdir == ilock(i).type = "dir"
      dp == [itable[d] EXCEPT !.nlink = IF isdir THEN @ + 1 ELSE @]
      ip == [ilock(i) EXCEPT !.nlink = 1, !.addrs = IF isdir THEN 1 ELSE 0]
      dots == [NoEntry EXCEPT !["."] = i, ![".."] = d]
  IN  /\ At(t, "new") /\ Unlocked(i)
      /\ itable' = [itable EXCEPT ![d] = dp, ![i] = ip]
      /\ dinode' = [dinode EXCEPT ![d] = iupdate(dp), ![i] = iupdate(ip)]
      /\ balloc(ip.addrs)
      /\ ents' = [dirlink(t, d, i) EXCEPT ![i] = IF isdir THEN dots
                                                         ELSE NoEntry]
      /\ lock' = [lock EXCEPT ![d] = None, ![i] = t]
      /\ Late(itable[d])
      /\ Goto(t, [pc |-> IF th[t].call.op = "create" THEN "opened"
                                                     ELSE "made",
                  dp |-> None, puts |-> <<d>>])
      /\ UNCHANGED <<files, cwd, load>>

\* sys_mkdir() and sys_mknod(): iunlockput(ip)
sys_mkdir(t) ==
  /\ At(t, "made")
  /\ lock' = [lock EXCEPT ![th[t].ip] = None]
  /\ Return(t, <<th[t].ip>>)
  /\ UNCHANGED <<dinode, ents, bitmap, itable, files, cwd, load, late>>

-----------------------------------------------------------------------------
(* sys_link() *)

\* The file gets its link first; then its new parent is looked up.
sys_link(t) ==
  LET i  == th[t].ip
      ip == [ilock(i) EXCEPT !.nlink = @ + 1]
  IN  /\ At(t, "link") /\ Unlocked(i)
      /\ \/ /\ ip.type = "dir"
            /\ itable' = Put(i, ilock(i))
            /\ Return(t, <<i>>) /\ UNCHANGED dinode
         \/ /\ ip.type # "dir"
            /\ dinode' = [dinode EXCEPT ![i] = iupdate(ip)]
            /\ itable' = iget(Put(i, ip), StartAt(t, th[t].call))
            /\ Goto(t, [pc |-> "walk", path |-> th[t].call.new,
                        cur |-> StartAt(t, th[t].call)])
      /\ UNCHANGED <<ents, bitmap, lock, files, cwd, load, late>>

\* dirlink() in the new parent, which fails if the name is there; dirlookup()
\* has taken a reference to the inode of that name.
LinkEntry(t) ==
  LET d  == th[t].dp
      dp == ilock(d)
      i  == dirlookup(t)
  IN  /\ At(t, "link2") /\ Unlocked(d)
      /\ \/ /\ i = 0
            /\ ents' = dirlink(t, d, th[t].ip)
            /\ itable' = Put(d, dp)
            /\ Late(dp) /\ Return(t, <<d, th[t].ip>>)
            /\ UNCHANGED lock
         \/ /\ i # 0
            /\ itable' = iget(Put(d, dp), i)
            /\ Goto(t, [pc |-> "linkdup", puts |-> <<i>>])
            /\ lock' = [lock EXCEPT ![d] = t]
            /\ UNCHANGED <<ents, late>>
      /\ UNCHANGED <<dinode, bitmap, files, cwd, load>>

\* iunlockput(dp); goto bad
LinkDup(t) ==
  /\ At(t, "linkdup")
  /\ lock' = [lock EXCEPT ![th[t].dp] = None]
  /\ Goto(t, [pc |-> "linkbad", dp |-> None, puts |-> <<th[t].dp>>])
  /\ UNCHANGED <<dinode, ents, bitmap, itable, files, cwd, load, late>>

\* Mutant: the link is not taken back.
LinkBadKeepsLink(t) ==
  /\ At(t, "linkbad") /\ Unlocked(th[t].ip)
  /\ itable' = Put(th[t].ip, ilock(th[t].ip))
  /\ Return(t, <<th[t].ip>>)
  /\ UNCHANGED <<dinode, ents, bitmap, lock, files, cwd, load, late>>

\* bad: the link is taken back.
LinkBad(t) ==
  LET i  == th[t].ip
      ip == [ilock(i) EXCEPT !.nlink = @ - 1]
  IN  /\ At(t, "linkbad") /\ Unlocked(i)
      /\ itable' = Put(i, ip)
      /\ dinode' = [dinode EXCEPT ![i] = iupdate(ip)]
      /\ Return(t, <<i>>)
      /\ UNCHANGED <<ents, bitmap, lock, files, cwd, load, late>>

-----------------------------------------------------------------------------
(* sys_unlink() *)

\* Nothing but "." and "..".
isdirempty(i) == \A x \in File : ents[i][x] = 0

\* Lock the parent and look the name up; "." and ".." cannot be unlinked.
sys_unlink(t) ==
  LET d  == th[t].dp
      dp == ilock(d)
      i  == dirlookup(t)
  IN  /\ At(t, "unlink") /\ Unlocked(d)
      /\ \/ /\ th[t].name \in {".", ".."} \/ i = 0
            /\ itable' = Put(d, dp)
            /\ Return(t, <<d>>) /\ UNCHANGED lock
         \/ /\ th[t].name \in File /\ i # 0
            /\ itable' = iget(Put(d, dp), i)
            /\ lock' = [lock EXCEPT ![d] = t]
            /\ Goto(t, [pc |-> "unlink2", ip |-> i])
      /\ UNCHANGED <<dinode, ents, bitmap, files, cwd, load, late>>

\* Lock the inode too; clear the entry, unless it is a directory in use, and
\* put the parent.
UnlinkEntry(t) ==
  LET d  == th[t].dp
      i  == th[t].ip
      ip == ilock(i)
      dp == [itable[d] EXCEPT !.nlink = IF ip.type = "dir" THEN @ - 1 ELSE @]
  IN  /\ At(t, "unlink2") /\ Unlocked(i)
      /\ \/ /\ ip.type = "dir" /\ ~isdirempty(i)
            /\ itable' = Put(i, ip)
            /\ Goto(t, [pc |-> "unlinkbad", ip |-> None, puts |-> <<i>>])
            /\ UNCHANGED <<dinode, ents, lock>>
         \/ /\ ip.type # "dir" \/ isdirempty(i)
            /\ ents' = [ents EXCEPT ![d][th[t].name] = 0]
            /\ itable' = [itable EXCEPT ![d] = dp, ![i] = ip]
            /\ dinode' = [dinode EXCEPT ![d] = iupdate(dp)]
            /\ lock' = [lock EXCEPT ![d] = None, ![i] = t]
            /\ Goto(t, [pc |-> "unlink3", dp |-> None, puts |-> <<d>>])
      /\ UNCHANGED <<bitmap, files, cwd, load, late>>

\* bad: iunlockput(dp)
UnlinkBad(t) ==
  /\ At(t, "unlinkbad")
  /\ lock' = [lock EXCEPT ![th[t].dp] = None]
  /\ Return(t, <<th[t].dp>>)
  /\ UNCHANGED <<dinode, ents, bitmap, itable, files, cwd, load, late>>

\* Mutant: iput() where iunlockput() is needed.
UnlinkInodeLocked(t) ==
  LET i  == th[t].ip
      ip == [itable[i] EXCEPT !.nlink = @ - 1]
  IN  /\ At(t, "unlink3")
      /\ itable' = Put(i, ip)
      /\ dinode' = [dinode EXCEPT ![i] = iupdate(ip)]
      /\ Return(t, <<i>>)
      /\ UNCHANGED <<ents, bitmap, lock, files, cwd, load, late>>

\* ip->nlink--; iupdate(ip); iunlockput(ip)
UnlinkInode(t) ==
  LET i  == th[t].ip
      ip == [itable[i] EXCEPT !.nlink = @ - 1]
  IN  /\ At(t, "unlink3")
      /\ itable' = Put(i, ip)
      /\ dinode' = [dinode EXCEPT ![i] = iupdate(ip)]
      /\ lock' = [lock EXCEPT ![i] = None]
      /\ Return(t, <<i>>)
      /\ UNCHANGED <<ents, bitmap, files, cwd, load, late>>

-----------------------------------------------------------------------------
(* sys_chdir(), and the calls on descriptors *)

\* The old directory is put, unless the new one is not a directory.
sys_chdir(t) ==
  LET i == th[t].ip
  IN  /\ At(t, "chdir") /\ Unlocked(i)
      /\ itable' = Put(i, ilock(i))
      /\ \/ ilock(i).type # "dir" /\ Return(t, <<i>>) /\ UNCHANGED cwd
         \/ /\ ilock(i).type = "dir"
            /\ cwd' = [cwd EXCEPT ![t] = i] /\ Return(t, <<cwd[t]>>)
      /\ UNCHANGED <<dinode, ents, bitmap, lock, files, load, late>>

\* The descriptors that are open.
argfd(t) == {n \in 1..NOFILE : ofile[t][n] # 0}

filedup(f) == file' = [file EXCEPT ![f].ref = @ + 1]

\* fdalloc(f); filedup(f)
sys_dup(t) ==
  /\ At(t, "idle") /\ \E c \in load : c.op = "dup"
  /\ FreeFds(t) # {}
  /\ \E n \in argfd(t) :
       /\ ofile' = [ofile EXCEPT ![t][Min(FreeFds(t))] = ofile[t][n]]
       /\ filedup(ofile[t][n])
  /\ UNCHANGED <<dinode, ents, bitmap, itable, lock, cwd, th, load, late>>

\* The last reference puts the inode.
fileclose(t, f) ==
  \/ file[f].ref > 1 /\ file' = [file EXCEPT ![f].ref = @ - 1] /\ UNCHANGED th
  \/ /\ file[f].ref = 1 /\ file' = [file EXCEPT ![f] = NoFile]
     /\ Return(t, <<file[f].ip>>)

sys_close(t) ==
  /\ At(t, "idle") /\ \E c \in load : c.op = "close"
  /\ \E n \in argfd(t) :
       ofile' = [ofile EXCEPT ![t][n] = 0] /\ fileclose(t, ofile[t][n])
  /\ UNCHANGED <<dinode, ents, bitmap, itable, lock, cwd, load, late>>

\* writei() past the end of the file.
writei(i) ==
  LET ip == bmap(ilock(i))
  IN  /\ ip.type = "file" /\ ip.addrs <= MaxBlocks
      /\ balloc(1)
      /\ itable' = Put(i, ip)
      /\ dinode' = [dinode EXCEPT ![i] = iupdate(ip)]

\* ilock(); writei(); iunlock()
filewrite(t) ==
  /\ At(t, "idle") /\ \E c \in load : c.op = "write"
  /\ \E n \in argfd(t) :
       LET i == file[ofile[t][n]].ip IN Unlocked(i) /\ writei(i)
  /\ UNCHANGED <<ents, lock, files, cwd, th, load, late>>

-----------------------------------------------------------------------------
Step(t) ==
  \/ Start(t) \/ namex(t) \/ IputFree(t) \/ IputTrunc(t) \/ iput(t)
  \/ OpenLock(t) \/ sys_open(t) \/ create(t) \/ CreateExists(t)
  \/ CreateNew(t) \/ sys_mkdir(t) \/ sys_link(t) \/ LinkEntry(t)
  \/ LinkDup(t) \/ LinkBad(t) \/ sys_unlink(t) \/ UnlinkEntry(t)
  \/ UnlinkBad(t) \/ UnlinkInode(t) \/ sys_chdir(t) \/ NamexEmpty(t)
  \/ sys_dup(t) \/ sys_close(t) \/ filewrite(t)

Next == \E t \in Thread : Step(t)

Spec == Init /\ [][Next]_vars

-----------------------------------------------------------------------------
(* Properties *)

\* The inodes a thread relies on: its directory, its open files, and those
\* of the call in progress.
Held(t) ==
  ({cwd[t], th[t].cur, th[t].ip, th[t].dp} \ {None})
    \cup {file[f].ip : f \in Range(ofile[t]) \ {0}}

\* iget(), ilock() and iput(): an inode that a thread has a reference to, by
\* a descriptor, as its current directory or in the middle of a call, stays
\* allocated and in the table, whoever unlinks it; ilock() does not find a
\* free inode ("ilock: no type").
HeldStaysAllocated ==
  \A t \in Thread : \A i \in Held(t) :
    itable[i].ref > 0 /\ dinode[i].type # "free"

\* iput(): "ref == 1 means no other process can have ip locked, so this
\* acquiresleep() won't block", which it may not do under itable.lock.
IputNeverBlocks ==
  \A t \in Thread :
    th[t].puts # <<>> /\ th[t].freeing = "no" /\ IputLast(Head(th[t].puts))
      => Unlocked(Head(th[t].puts))

\* Threads that have changed the entry, or the count, and not yet the other.
InFlight(i) ==
  {t \in Thread : /\ th[t].ip = i
                  /\ th[t].pc \in {"unlink3", "walk", "link2", "linkdup",
                                   "linkbad"}}

\* The directory is not in the tree any more.
Removed(d) ==
  dinode[d].nlink = 0 \/ \E t \in InFlight(d) : th[t].pc = "unlink3"

\* The entries that count as links of i: "." does not, and neither does the
\* ".." of a removed directory.
Entries(i) ==
  {<<d, x>> \in Inum \X (Name \ {"."}) :
     /\ dinode[d].type = "dir" /\ ents[d][x] = i
     /\ x = ".." => ~Removed(d)}

\* create(), sys_link() and sys_unlink(): the link count of every inode is the
\* number of entries that name it, but for the calls in progress, as long as
\* nobody wrote an entry to a removed directory.
LinkCountExact ==
  ~late => \A i \in Inum :
    dinode[i].nlink = Cardinality(Entries(i)) + Cardinality(InFlight(i))

\* balloc(), bfree(), itrunc(), iput(): the blocks marked in use are those of
\* the inodes; none is freed twice or lost.
BlocksAccounted ==
  bitmap = FoldFunction(+, 0, [i \in Inum |-> dinode[i].addrs])

\* iput(): an inode that no directory names and no thread uses is freed.
NoInodeLost ==
  \A i \in Inum :
    dinode[i].type # "free" => Entries(i) # {} \/ itable[i].ref > 0
=============================================================================
