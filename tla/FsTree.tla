------------------------------- MODULE FsTree -------------------------------
(***************************************************************************)
(* Inodes, the inode cache, directories and path names: fs.c from ialloc   *)
(* to nameiparent, and the calls of sysfile.c that change the tree.        *)
(*                                                                         *)
(* A step is what a process does between two points where it may have to   *)
(* wait for an inode lock, or one critical section of icache.lock.  What   *)
(* it still holds across steps is in ic[e].lock.  A directory is a         *)
(* function from names to inode numbers; what files contain is FileData's. *)
(* All changes of one call are in one transaction (Log), so a crash takes  *)
(* the disk back to a state in which no call was under way.                *)
(***************************************************************************)
EXTENDS Integers, Sequences, FiniteSets, FiniteSetsExt, TLC

CONSTANTS
  Procs,
  ninodes,      \* sb.ninodes: inode numbers are 1..ninodes - 1
  NINODE,       \* entries of the inode cache
  Names,        \* names of files other than . and ..
  Calls         \* per process: the calls it makes

ASSUME FsTreeAssumption ==
  Procs \subseteq Nat \ {0} /\ ninodes \in Nat \ {0, 1} /\ NINODE \in Nat \ {0}

Inums == 1..(ninodes - 1)
ROOTINO == 1
Entries == 1..NINODE
Nobody == 0
NoEntry == 0
DirNames == Names \cup {".", ".."}

VARIABLES
  di,         \* disk inodes: type, nlink, and the directory's entries
  ic,         \* inode cache: inum, ref, lock, valid, type, nlink
  t,          \* per process: its place in a call, and its local variables
  cwd, file,  \* per process: cache entries of p->cwd and of an open file
  ops,        \* processes between begin_op() and end_op()
  panicked    \* "no", or the kind of panic: resources "exhausted", or "assertion"

fsVars == <<di, ic>>
vars == <<fsVars, t, cwd, file, ops, panicked>>

NoEnts == [n \in DirNames |-> 0]
T_NONE == "none"      \* type 0 of a free inode
FreeInode == [type |-> T_NONE, nlink |-> 0, ents |-> NoEnts]
FreeEntry == [inum |-> 0, ref |-> 0, lock |-> Nobody, valid |-> FALSE,
              type |-> T_NONE, nlink |-> 0]
Idle == [pc |-> "idle"]

\* After mkfs and boot: a root directory, in which every process starts.
Boot(d) ==
  /\ di = d
  /\ ic = [e \in Entries |-> IF e # 1 THEN FreeEntry
             ELSE [FreeEntry EXCEPT !.inum = ROOTINO, !.ref = Cardinality(Procs)]]
  /\ t = [p \in Procs |-> Idle]
  /\ cwd = [p \in Procs |-> 1] /\ file = [p \in Procs |-> NoEntry]
  /\ ops = {} /\ panicked = "no"

Root == [type |-> "T_DIR", nlink |-> 1,
         ents |-> [NoEnts EXCEPT !["."] = ROOTINO, ![".."] = ROOTINO]]
Init == Boot([i \in Inums |-> IF i = ROOTINO THEN Root ELSE FreeInode])

\* p goes to a place of its call, with new values of some local variables.
Goto(p, place, locals) == t' = [t EXCEPT ![p] = locals @@ [pc |-> place] @@ @]
At(p, place) == t[p].pc = place /\ panicked = "no"
iputThen(p, e, place, locals) == Goto(p, "iput", locals @@ [put |-> e, ret |-> place])

-----------------------------------------------------------------------------
\* iget(): the entry, and the cache afterwards.
Cached(c, i) == {e \in Entries : c[e].ref > 0 /\ c[e].inum = i}
Empty(c) == {e \in Entries : c[e].ref = 0}
igetFails(c, i) == Cached(c, i) = {} /\ Empty(c) = {}
igetEntry(c, i) == IF Cached(c, i) # {} THEN Min(Cached(c, i)) ELSE Min(Empty(c))
\* Mutant: an entry is reused though it is still referenced for another inode.
igetShared(c, i) == [c EXCEPT ![igetEntry(c, i)].inum = i, ![igetEntry(c, i)].ref = 1]
iget(c, i) ==
  LET e == igetEntry(c, i) IN
  IF Cached(c, i) # {} THEN [c EXCEPT ![e].ref = @ + 1]
  ELSE [c EXCEPT ![e].inum = i, ![e].ref = 1, ![e].valid = FALSE]

\* The entry as ilock() leaves it, apart from the lock: read in if not valid.
Loaded(e) ==
  IF ic[e].valid THEN ic[e]
  ELSE [ic[e] EXCEPT !.valid = TRUE, !.type = di[ic[e].inum].type,
                     !.nlink = di[ic[e].inum].nlink]
Unlocked(e) == ic[e].lock = Nobody
Panic(why) == panicked' = why /\ UNCHANGED <<fsVars, t, cwd, file, ops>>
\* ilock() of e, with the panic "ilock: no type"; then Rest.
ilock(e, Rest) ==
  /\ Unlocked(e)
  /\ \/ Loaded(e).type = T_NONE /\ Panic("assertion")
     \/ Loaded(e).type # T_NONE /\ Rest
\* Rest, which uses iget(c, i), unless that panics with "iget: no inodes".
igetOr(c, i, Rest) ==
  \/ igetFails(c, i) /\ Panic("exhausted")
  \/ ~igetFails(c, i) /\ Rest /\ UNCHANGED panicked

\* dirlookup(): the inode number of name n in a directory, or 0.
Lookup(e, n) == di[ic[e].inum].ents[n]

iputFrees(e) == ic[e].valid /\ ic[e].nlink = 0 /\ ic[e].ref = 1

iput(p) ==
  LET e == t[p].put IN
  /\ At(p, "iput") /\ Unlocked(e)
  /\ IF iputFrees(e)
     THEN /\ di' = [di EXCEPT ![ic[e].inum] = FreeInode]
          /\ ic' = [ic EXCEPT ![e].valid = FALSE, ![e].type = T_NONE]
     ELSE UNCHANGED fsVars
  /\ Goto(p, "iput_ref", <<>>)
  /\ UNCHANGED <<cwd, file, ops, panicked>>

iput_ref(p) ==
  /\ At(p, "iput_ref")
  /\ ic' = [ic EXCEPT ![t[p].put].ref = @ - 1]
  /\ Goto(p, t[p].ret, [put |-> NoEntry])
  /\ UNCHANGED <<di, cwd, file, ops, panicked>>

-----------------------------------------------------------------------------
\* namex() begins at the root or in p->cwd.  A path is a sequence of names.
Walk(p, path, locals) ==
  IF path.abs
  THEN igetOr(ic, ROOTINO, /\ ic' = iget(ic, ROOTINO)
                           /\ Goto(p, "walk", locals @@ [ip |-> igetEntry(ic, ROOTINO),
                                                         path |-> path.elems]))
  ELSE /\ ic' = [ic EXCEPT ![cwd[p]].ref = @ + 1]
       /\ Goto(p, "walk", locals @@ [ip |-> cwd[p], path |-> path.elems])
       /\ UNCHANGED panicked

\* A system call starts with begin_op() and its first path; fileclose() gives
\* back the inode of the open file.
Parents == {"create", "mkdir", "mknod", "unlink"}
begin_op(p, c) ==
  /\ At(p, "idle") /\ c.op # "close"
  /\ ops' = ops \cup {p}
  /\ Walk(p, c.path, [call |-> c, parent |-> c.op \in Parents, fail |-> "end",
                      next |-> IF c.op \in {"mkdir", "mknod"} THEN "create" ELSE c.op])
  /\ UNCHANGED <<di, cwd, file>>

fileclose(p, c) ==
  /\ At(p, "idle") /\ c.op = "close" /\ file[p] # NoEntry
  /\ ops' = ops \cup {p}
  /\ iputThen(p, file[p], "end", <<>>)
  /\ file' = [file EXCEPT ![p] = NoEntry]
  /\ UNCHANGED <<fsVars, cwd, panicked>>

\* One round of the loop in namex(), with ip locked meanwhile.
walk(p) ==
  LET e == t[p].ip
      path == t[p].path
      i == Lookup(e, Head(path))
      last == t[p].parent /\ Len(path) = 1
      c == [ic EXCEPT ![e] = Loaded(e)]
  IN
  /\ At(p, "walk") /\ path # <<>>
  /\ ilock(e,
       \/ /\ Loaded(e).type # "T_DIR" \/ (~last /\ i = 0)
          /\ ic' = c /\ iputThen(p, e, t[p].fail, [ip |-> NoEntry])
          /\ UNCHANGED panicked
       \/ /\ Loaded(e).type = "T_DIR" /\ last
          /\ ic' = c /\ Goto(p, t[p].next, [ip |-> NoEntry, dp |-> e, name |-> Head(path)])
          /\ UNCHANGED panicked
       \/ /\ Loaded(e).type = "T_DIR" /\ ~last /\ i # 0
          /\ igetOr(c, i, /\ ic' = iget(c, i)
                          /\ iputThen(p, e, "walk", [ip |-> igetEntry(c, i),
                                                     path |-> Tail(path)])))
  /\ UNCHANGED <<di, cwd, file, ops>>

walk_end(p) ==
  /\ At(p, "walk") /\ t[p].path = <<>>
  /\ IF t[p].parent THEN iputThen(p, t[p].ip, t[p].fail, [ip |-> NoEntry])
     ELSE Goto(p, t[p].next, <<>>)
  /\ UNCHANGED <<fsVars, cwd, file, ops, panicked>>

end_op(p) ==
  /\ At(p, "end")
  /\ ops' = ops \ {p}
  /\ t' = [t EXCEPT ![p] = Idle]
  /\ UNCHANGED <<fsVars, cwd, file, panicked>>

-----------------------------------------------------------------------------
\* The end of sys_open(), with ip locked: filealloc() and fdalloc() fail if the
\* process has a file open already.
OpenFile(p, e) ==
  \/ /\ file[p] = NoEntry
     /\ file' = [file EXCEPT ![p] = e] /\ Goto(p, "end", [ip |-> NoEntry])
  \/ /\ file[p] # NoEntry
     /\ iputThen(p, e, "end", [ip |-> NoEntry]) /\ UNCHANGED file

\* sys_open() without O_CREATE.
open(p) ==
  LET e == t[p].ip IN
  /\ At(p, "open")
  /\ ilock(e, /\ IF Loaded(e).type = "T_DIR" /\ t[p].call.omode # "O_RDONLY"
                 THEN iputThen(p, e, "end", [ip |-> NoEntry]) /\ UNCHANGED file
                 ELSE OpenFile(p, e)
              /\ ic' = [ic EXCEPT ![e] = Loaded(e)]
              /\ UNCHANGED panicked)
  /\ UNCHANGED <<di, cwd, ops>>

chdir(p) ==
  LET e == t[p].ip IN
  /\ At(p, "chdir")
  /\ ilock(e, /\ IF Loaded(e).type = "T_DIR"
                 THEN /\ cwd' = [cwd EXCEPT ![p] = e]
                      /\ iputThen(p, cwd[p], "end", [ip |-> NoEntry])
                 ELSE iputThen(p, e, "end", [ip |-> NoEntry]) /\ UNCHANGED cwd
              /\ ic' = [ic EXCEPT ![e] = Loaded(e)]
              /\ UNCHANGED panicked)
  /\ UNCHANGED <<di, file, ops>>

-----------------------------------------------------------------------------
\* create(): the name exists, or ialloc() allocates an inode and dp stays locked.
FreeInums == {i \in Inums : di[i].type = T_NONE}
FileType(op) == CASE op = "create" -> "T_FILE" [] op = "mkdir" -> "T_DIR" [] op = "mknod" -> "T_DEV"
create(p) ==
  LET e == t[p].dp
      i == Lookup(e, t[p].name)
      c == [ic EXCEPT ![e] = Loaded(e)]
  IN
  /\ At(p, "create")
  /\ ilock(e,
       \/ /\ i # 0 /\ UNCHANGED di
          /\ igetOr(c, i, /\ ic' = iget(c, i)
                          /\ iputThen(p, e, "create_found", [ip |-> igetEntry(c, i),
                                                             dp |-> NoEntry]))
       \/ /\ i = 0 /\ FreeInums # {}
          /\ di' = [di EXCEPT ![Min(FreeInums)] =
                      [FreeInode EXCEPT !.type = FileType(t[p].call.op)]]
          /\ ic' = [c EXCEPT ![e].lock = p]
          /\ Goto(p, "create_iget", [inum |-> Min(FreeInums)])
          /\ UNCHANGED panicked
       \/ i = 0 /\ FreeInums = {} /\ Panic("exhausted"))
  /\ UNCHANGED <<cwd, file, ops>>

create_iget(p) ==
  /\ At(p, "create_iget")
  /\ igetOr(ic, t[p].inum, /\ ic' = iget(ic, t[p].inum)
                           /\ Goto(p, "create_ip", [ip |-> igetEntry(ic, t[p].inum)]))
  /\ UNCHANGED <<di, cwd, file, ops>>

\* The new inode is locked, filled in and linked; then dp is given back while ip
\* stays locked.
create_ip(p) ==
  LET e == t[p].ip
      d == t[p].dp
      isdir == FileType(t[p].call.op) = "T_DIR"
      n == ic[d].nlink + (IF isdir THEN 1 ELSE 0)
  IN
  /\ At(p, "create_ip")
  /\ ilock(e,
       /\ ic' = [ic EXCEPT ![e] = [Loaded(e) EXCEPT !.nlink = 1, !.lock = p],
                           ![d].nlink = n, ![d].lock = Nobody]
       /\ di' = [di EXCEPT
            ![ic[e].inum].nlink = 1,
            ![ic[e].inum].ents = IF isdir THEN [NoEnts EXCEPT !["."] = ic[e].inum,
                                                              ![".."] = ic[d].inum]
                                 ELSE NoEnts,
            ![ic[d].inum].nlink = n,
            ![ic[d].inum].ents[t[p].name] = ic[e].inum]
       /\ iputThen(p, d, "create_done", [dp |-> NoEntry])
       /\ UNCHANGED panicked)
  /\ UNCHANGED <<cwd, file, ops>>

\* Back in sys_open(), sys_mkdir() or sys_mknod() with ip locked.
create_done(p) ==
  LET e == t[p].ip IN
  /\ At(p, "create_done")
  /\ IF t[p].call.op = "create" THEN OpenFile(p, e)
     ELSE iputThen(p, e, "end", [ip |-> NoEntry]) /\ UNCHANGED file
  /\ ic' = [ic EXCEPT ![e].lock = Nobody]
  /\ UNCHANGED <<di, cwd, ops, panicked>>

create_found(p) ==
  LET e == t[p].ip IN
  /\ At(p, "create_found")
  /\ ilock(e, /\ IF t[p].call.op = "create" /\ Loaded(e).type = "T_FILE"
                 THEN OpenFile(p, e)
                 ELSE iputThen(p, e, "end", [ip |-> NoEntry]) /\ UNCHANGED file
              /\ ic' = [ic EXCEPT ![e] = Loaded(e)]
              /\ UNCHANGED panicked)
  /\ UNCHANGED <<di, cwd, ops>>

-----------------------------------------------------------------------------
\* sys_unlink(): the entry is found with dp locked, and dp stays locked until
\* the entry is gone; ip stays locked while dp is given back.
unlink(p) ==
  LET e == t[p].dp
      i == Lookup(e, t[p].name)
      c == [ic EXCEPT ![e] = Loaded(e)]
  IN
  /\ At(p, "unlink")
  /\ ilock(e,
       \/ /\ t[p].name \in {".", ".."} \/ i = 0
          /\ ic' = c /\ iputThen(p, e, "end", [dp |-> NoEntry])
          /\ UNCHANGED panicked
       \/ /\ t[p].name \notin {".", ".."} /\ i # 0
          /\ igetOr(c, i, /\ ic' = [iget(c, i) EXCEPT ![e].lock = p]
                          /\ Goto(p, "unlink_ip", [ip |-> igetEntry(c, i)])))
  /\ UNCHANGED <<di, cwd, file, ops>>

isdirempty(e) == \A n \in Names : Lookup(e, n) = 0

unlink_ip(p) ==
  LET e == t[p].ip
      d == t[p].dp
      isdir == Loaded(e).type = "T_DIR"
      n == ic[d].nlink - (IF isdir THEN 1 ELSE 0)
  IN
  /\ At(p, "unlink_ip")
  /\ ilock(e,
       \/ Loaded(e).nlink < 1 /\ Panic("assertion")
       \/ /\ Loaded(e).nlink >= 1 /\ isdir /\ ~isdirempty(e)
          /\ ic' = [ic EXCEPT ![e] = Loaded(e)]
          /\ iputThen(p, e, "unlink_bad", [ip |-> NoEntry])
          /\ UNCHANGED <<di, panicked>>
       \/ /\ Loaded(e).nlink >= 1 /\ ~(isdir /\ ~isdirempty(e))
          /\ di' = [di EXCEPT ![ic[d].inum].nlink = n, ![ic[d].inum].ents[t[p].name] = 0]
          /\ ic' = [ic EXCEPT ![e] = [Loaded(e) EXCEPT !.lock = p],
                              ![d].nlink = n, ![d].lock = Nobody]
          /\ iputThen(p, d, "unlink_done", [dp |-> NoEntry])
          /\ UNCHANGED panicked)
  /\ UNCHANGED <<cwd, file, ops>>

unlink_bad(p) ==
  /\ At(p, "unlink_bad")
  /\ ic' = [ic EXCEPT ![t[p].dp].lock = Nobody]
  /\ iputThen(p, t[p].dp, "end", [dp |-> NoEntry])
  /\ UNCHANGED <<di, cwd, file, ops, panicked>>

unlink_done(p) ==
  LET e == t[p].ip IN
  /\ At(p, "unlink_done")
  /\ ic' = [ic EXCEPT ![e].nlink = @ - 1, ![e].lock = Nobody]
  /\ di' = [di EXCEPT ![ic[e].inum].nlink = ic[e].nlink - 1]
  /\ iputThen(p, e, "end", [ip |-> NoEntry])
  /\ UNCHANGED <<cwd, file, ops, panicked>>

-----------------------------------------------------------------------------
link_count(e) == [di EXCEPT ![ic[e].inum].nlink = Loaded(e).nlink + 1]

link(p) ==
  LET e == t[p].ip
      c == [ic EXCEPT ![e] = [Loaded(e) EXCEPT !.nlink = @ + 1]]
  IN
  /\ At(p, "link")
  /\ ilock(e,
       \/ /\ Loaded(e).type = "T_DIR"
          /\ ic' = [ic EXCEPT ![e] = Loaded(e)]
          /\ iputThen(p, e, "end", [ip |-> NoEntry])
          /\ UNCHANGED <<di, panicked>>
       \/ /\ Loaded(e).type # "T_DIR"
          /\ di' = link_count(e)
          /\ ic' = c
          /\ Goto(p, "link_walk", [old |-> e, ip |-> NoEntry])
          /\ UNCHANGED panicked)
  /\ UNCHANGED <<cwd, file, ops>>

link_walk(p) ==
  /\ At(p, "link_walk")
  /\ Walk(p, t[p].call.new, [parent |-> TRUE, fail |-> "link_bad", next |-> "link_new"])
  /\ UNCHANGED <<di, cwd, file, ops>>

\* dirlink(): with dp locked, an entry of that name is looked up and given back.
link_new(p) ==
  LET e == t[p].dp
      i == Lookup(e, t[p].name)
      c == [ic EXCEPT ![e] = Loaded(e)]
  IN
  /\ At(p, "link_new")
  /\ ilock(e,
       \/ /\ i # 0 /\ UNCHANGED di
          /\ igetOr(c, i, /\ ic' = [iget(c, i) EXCEPT ![e].lock = p]
                          /\ iputThen(p, igetEntry(c, i), "link_exists", <<>>))
       \/ /\ i = 0
          /\ di' = [di EXCEPT ![ic[e].inum].ents[t[p].name] = ic[t[p].old].inum]
          /\ ic' = c /\ iputThen(p, e, "link_done", [dp |-> NoEntry])
          /\ UNCHANGED panicked)
  /\ UNCHANGED <<cwd, file, ops>>

link_exists(p) ==
  /\ At(p, "link_exists")
  /\ ic' = [ic EXCEPT ![t[p].dp].lock = Nobody]
  /\ iputThen(p, t[p].dp, "link_bad", [dp |-> NoEntry])
  /\ UNCHANGED <<di, cwd, file, ops, panicked>>

link_done(p) ==
  /\ At(p, "link_done")
  /\ iputThen(p, t[p].old, "end", [old |-> NoEntry])
  /\ UNCHANGED <<fsVars, cwd, file, ops, panicked>>

link_bad(p) ==
  LET e == t[p].old IN
  /\ At(p, "link_bad")
  /\ ilock(e, /\ di' = [di EXCEPT ![ic[e].inum].nlink = Loaded(e).nlink - 1]
              /\ ic' = [ic EXCEPT ![e] = [Loaded(e) EXCEPT !.nlink = @ - 1]]
              /\ iputThen(p, e, "end", [old |-> NoEntry])
              /\ UNCHANGED panicked)
  /\ UNCHANGED <<cwd, file, ops>>

-----------------------------------------------------------------------------
\* A crash while no call is under way: the disk is kept, memory is not.
crash ==
  /\ ops = {} /\ panicked = "no"
  /\ di' = di
  /\ ic' = [e \in Entries |-> IF e # 1 THEN FreeEntry
              ELSE [FreeEntry EXCEPT !.inum = ROOTINO, !.ref = Cardinality(Procs)]]
  /\ t' = [p \in Procs |-> Idle]
  /\ cwd' = [p \in Procs |-> 1] /\ file' = [p \in Procs |-> NoEntry]
  /\ UNCHANGED <<ops, panicked>>

Step(p) ==
  \/ iput(p) \/ iput_ref(p) \/ walk(p) \/ walk_end(p) \/ end_op(p)
  \/ open(p) \/ chdir(p) \/ create(p) \/ create_iget(p) \/ create_ip(p)
  \/ create_done(p) \/ create_found(p)
  \/ unlink(p) \/ unlink_ip(p) \/ unlink_bad(p) \/ unlink_done(p)
  \/ link(p) \/ link_walk(p) \/ link_new(p) \/ link_exists(p) \/ link_done(p) \/ link_bad(p)

Next ==
  \/ crash
  \/ \E p \in Procs : Step(p) \/ \E c \in Calls[p] : begin_op(p, c) \/ fileclose(p, c)

Spec == Init /\ [][Next]_vars

-----------------------------------------------------------------------------
\* fs.c counts every pointer to a cached inode: ip->ref is the number of current
\* directories, open files and local variables of system calls that hold the
\* entry, so an entry is recycled only when nobody can still use it; and no
\* inode is in the cache twice.
Locals == {"ip", "dp", "old", "put"}
InodeRefsCounted ==
  /\ \A e \in Entries :
       ic[e].ref =
         Cardinality({p \in Procs : cwd[p] = e}) + Cardinality({p \in Procs : file[p] = e})
         + Cardinality({x \in Procs \X Locals :
                          x[2] \in DOMAIN t[x[1]] /\ t[x[1]][x[2]] = e})
  /\ \A e, f \in Entries :
       ic[e].ref > 0 /\ ic[f].ref > 0 /\ ic[e].inum = ic[f].inum => e = f

\* The entries of directories that are in the tree, "." aside.
Links(i) ==
  Cardinality({x \in Inums \X (DirNames \ {"."}) :
    di[x[1]].type = "T_DIR" /\ di[x[1]].nlink > 0 /\ di[x[1]].ents[x[2]] = i})



\* p waits for an inode lock that q holds.
WaitsFor(p, q) ==
  \/ t[p].pc = "iput" /\ ic[t[p].put].lock = q
  \/ t[p].pc \in {"create", "unlink", "link_new"} /\ ic[t[p].dp].lock = q
  \/ t[p].pc = "link_bad" /\ ic[t[p].old].lock = q
  \/ /\ t[p].pc \in {"walk", "open", "chdir", "create_ip", "create_found", "unlink_ip", "link"}
     /\ ic[t[p].ip].lock = q

\* Processes never wait for each other's inode locks in a circle: usertests.c has
\* a "concurrent link/unlink/create test, to look for deadlocks".
NoLockCycle ==
  \A S \in SUBSET Procs \ {{}} : \E p \in S : \A q \in S : ~WaitsFor(p, q)
=============================================================================
