------------------------------- MODULE Inodes -------------------------------
(***************************************************************************)
(* Files, directories and path names of xv6 (signal/alarm: fs.c,           *)
(* sysfile.c, file.c).  Processes make system calls on one tree.  What an  *)
(* inode holds is read and written under its sleep-lock; its cache entry's *)
(* count of references is not, so every lookup, link and put of another    *)
(* process can come between two locked sections of a call.  A section that *)
(* takes one lock and gives it back is one step; a lock held while another *)
(* is taken is held in the state.                                          *)
(***************************************************************************)
EXTENDS Integers, FiniteSets, Sequences

CONSTANTS
  Procs, Inums, Root,
  Trees,        \* the directories to begin with, [Inums -> entries]; see TreeOK
  Paths,        \* path names: sequences of elements, "/" first if absolute
  MaxCalls      \* calls made in a behaviour

NoOne == "none"
NoInode == 0
Dots == {".", ".."}
Named(entries) == DOMAIN entries \ Dots

(* A file has no entries; a directory has the two dots and is named once.  *)
DirsOf(t) == {i \in Inums : "." \in DOMAIN t[i]}
EntriesOf(t) == UNION {{d} \X Named(t[d]) : d \in Inums}
NamesOf(t, i) == {e \in EntriesOf(t) : t[e[1]][e[2]] = i}
ChildrenIn(t, d) == {t[d][n] : n \in Named(t[d])}
NoCircle(t) == \A S \in (SUBSET Inums) \ {{}} : \E d \in S : ChildrenIn(t, d) \cap S = {}
TreeOK(t) ==
  /\ t = [i \in Inums |-> [n \in DOMAIN t[i] |-> t[i][n]]]
  /\ \A i \in Inums : \A n \in DOMAIN t[i] : t[i][n] \in Inums
  /\ IsFiniteSet(EntriesOf(t))
  /\ Root \in DirsOf(t) /\ t[Root][".."] = Root /\ NamesOf(t, Root) = {}
  /\ NoCircle(t)
  /\ \A i \in Inums : i \notin DirsOf(t) => DOMAIN t[i] = {}
  /\ \A d \in DirsOf(t) :
       /\ t[d]["."] = d /\ ".." \in DOMAIN t[d]
       /\ d # Root => \E n \in Named(t[t[d][".."]]) : NamesOf(t, d) = {<<t[d][".."], n>>}

ASSUME InodesAssumption ==
  /\ IsFiniteSet(Procs) /\ NoOne \notin Procs
  /\ Inums \subseteq Nat \ {NoInode} /\ IsFiniteSet(Inums) /\ Root \in Inums
  /\ \A t \in Trees : TreeOK(t)
  /\ Paths \subseteq Seq(STRING)
  /\ MaxCalls \in Nat

VARIABLES
  type, nlink, ents,  \* of each inode, on the disk and in the cache alike
  ref, valid,         \* of its cache entry; free if ref is 0
  lock,               \* who holds its sleep-lock
  cwd, file,          \* of each process; file is its one open descriptor, or NoInode
  pc,                 \* "idle", "walk" or where its call is
  call,               \* what a successful walk leads to
  path,               \* what namex has left to look up
  ip, dp,             \* its references, as in the code
  todo,               \* puts and unlocks that come before the next step of pc
  calls,              \* made so far
  panic,
  orphaned            \* history: a directory was freed that is still the ".." of another

disk == <<type, nlink, ents>>
cache == <<ref, valid, lock>>
proc == <<cwd, file, pc, call, path, ip, dp, todo, calls>>
vars == <<disk, cache, proc, panic, orphaned>>

Init ==
  \E t \in Trees :
    /\ ents = t
    /\ type = [i \in Inums |-> IF i \in DirsOf(t) THEN "dir"
                               ELSE IF NamesOf(t, i) # {} THEN "file" ELSE "free"]
    /\ nlink = [i \in Inums |->
                  (IF i = Root THEN 1 ELSE Cardinality(NamesOf(t, i)))
                  + Cardinality({d \in DirsOf(t) \ {Root} : t[d][".."] = i})]
    /\ cwd \in [Procs -> DirsOf(t)]
    /\ ref = [i \in Inums |-> Cardinality({p \in Procs : cwd[p] = i})]
    /\ valid = [i \in Inums |-> ref[i] > 0]
    /\ lock = [i \in Inums |-> NoOne]
    /\ file = [p \in Procs |-> NoInode]
    /\ pc = [p \in Procs |-> "idle"]
    /\ call = [p \in Procs |-> "none"]
    /\ path = [p \in Procs |-> <<>>]
    /\ ip = [p \in Procs |-> NoInode] /\ dp = [p \in Procs |-> NoInode]
    /\ todo = [p \in Procs |-> <<>>]
    /\ calls = 0
    /\ panic = "no"
    /\ orphaned = FALSE

-----------------------------------------------------------------------------
(* A step of p at label l, when what its last step left to do is done.     *)
At(p, l) == panic = "no" /\ pc[p] = l /\ todo[p] = <<>>
Free(i) == lock[i] = NoOne

Put(i) == <<"put", i>>
Drop(i) == <<"drop", i>>
Unlock(i) == <<"unlock", i>>

(* p goes on at label l with inodes i and d after the deferred steps s. *)
Move(p, l, i, d, s) ==
  /\ pc' = [pc EXCEPT ![p] = l]
  /\ ip' = [ip EXCEPT ![p] = i]
  /\ dp' = [dp EXCEPT ![p] = d]
  /\ todo' = [todo EXCEPT ![p] = s]
Go(p, l, i, d, s) == Move(p, l, i, d, s) /\ UNCHANGED <<call, path>>
Done(p, s) ==
  /\ Move(p, "idle", NoInode, NoInode, s)
  /\ call' = [call EXCEPT ![p] = "none"] /\ path' = [path EXCEPT ![p] = <<>>]

(* iget and idup: one more reference; a new cache entry is not valid. *)
Taken(i) == [ref EXCEPT ![i] = @ + 1]

(* ilock reads the inode into the cache; of a free one it says "no type". *)
Loaded(i) == valid' = [valid EXCEPT ![i] = TRUE]
CanLoad(i) == type[i] # "free"
Panic(what) == panic' = what /\ UNCHANGED <<disk, cache, proc>>

-----------------------------------------------------------------------------
(* iput.  Its first half needs the sleep-lock, as ilock does: the last     *)
(* reference to an inode without links frees it.  The count goes down      *)
(* after the lock is given back, when other puts may have seen it.  (Bugs: *)
(* the links are not looked at; the references are not.)                   *)
FreesLinked(i) == valid[i] /\ ref[i] = 1
FreesHeld(i) == valid[i] /\ nlink[i] = 0
Frees(i) == valid[i] /\ nlink[i] = 0 /\ ref[i] = 1

iput(p, i) ==
  /\ Free(i)
  /\ type' = IF Frees(i) THEN [type EXCEPT ![i] = "free"] ELSE type
  /\ ents' = IF Frees(i) THEN [ents EXCEPT ![i] = [n \in {} |-> Root]] ELSE ents
  /\ valid' = IF Frees(i) THEN [valid EXCEPT ![i] = FALSE] ELSE valid
  /\ todo' = [todo EXCEPT ![p] = <<Drop(i)>> \o Tail(@)]
  /\ UNCHANGED <<nlink, ref, lock>>

(* The next iget of a dropped entry starts with valid = 0. *)
drop(p, i) ==
  /\ ref' = [ref EXCEPT ![i] = @ - 1]
  /\ valid' = IF ref[i] = 1 THEN [valid EXCEPT ![i] = FALSE] ELSE valid
  /\ todo' = [todo EXCEPT ![p] = Tail(@)]
  /\ UNCHANGED <<disk, lock>>

iunlock(p, i) ==
  /\ lock' = [lock EXCEPT ![i] = NoOne]
  /\ todo' = [todo EXCEPT ![p] = Tail(@)]
  /\ UNCHANGED <<disk, ref, valid>>

Deferred(p) ==
  /\ panic = "no" /\ todo[p] # <<>>
  /\ LET i == Head(todo[p])[2] IN
     CASE Head(todo[p])[1] = "put" -> iput(p, i)
       [] Head(todo[p])[1] = "drop" -> drop(p, i)
       [] Head(todo[p])[1] = "unlock" -> iunlock(p, i)
  /\ UNCHANGED <<cwd, file, pc, call, path, ip, dp, calls, panic>>

-----------------------------------------------------------------------------
(* namex: from the root or the current directory, one element a step. *)
WantsParent(c) == c \in {"create", "mkdir", "unlink", "link2"}

(* Where a call goes on when its walk fails. *)
Failed(p, c, s) ==
  IF c = "link2" THEN Go(p, "linkbad", ip[p], NoInode, s) ELSE Done(p, s)

(* The walk is at i with rest to go, after it has done s.  link2 keeps the *)
(* old file in ip and walks with dp, so every walk does.                   *)
Arrive(p, c, i, rest, s) ==
  IF rest = <<>> /\ WantsParent(c) THEN Failed(p, c, Append(s, Put(i)))
  ELSE /\ call' = [call EXCEPT ![p] = c]
       /\ path' = [path EXCEPT ![p] = rest]
       /\ IF rest = <<>> THEN Move(p, c, i, NoInode, s)
          ELSE Move(p, "walk", ip[p], i, s)

Start(p, c, name) ==
  LET abs == name # <<>> /\ Head(name) = "/"
      from == IF abs THEN Root ELSE cwd[p]
  IN /\ ref' = Taken(from)
     /\ Arrive(p, c, from, IF abs THEN Tail(name) ELSE name, <<>>)

begin(p, c, name) ==
  /\ At(p, "idle") /\ calls < MaxCalls
  /\ calls' = calls + 1
  /\ Start(p, c, name)
  /\ UNCHANGED <<disk, valid, lock, cwd, file, panic>>

namex(p) ==
  LET i == dp[p]  rest == path[p]  c == call[p] IN
  /\ At(p, "walk") /\ Free(i)
  /\ IF ~CanLoad(i) THEN Panic("no type")
     ELSE
       /\ Loaded(i)
       /\ IF type[i] # "dir"
          THEN Failed(p, c, <<Put(i)>>) /\ UNCHANGED ref
          ELSE IF WantsParent(c) /\ Len(rest) = 1
          THEN Go(p, c, ip[p], i, <<>>) /\ UNCHANGED ref
          ELSE IF Head(rest) \notin DOMAIN ents[i]
          THEN Failed(p, c, <<Put(i)>>) /\ UNCHANGED ref
          ELSE LET next == ents[i][Head(rest)] IN
               /\ ref' = Taken(next)
               /\ Arrive(p, c, next, Tail(rest), <<Put(i)>>)
       /\ UNCHANGED <<disk, lock, cwd, file, calls, panic>>

-----------------------------------------------------------------------------
(* The last part of open, with ip locked: a file structure and a           *)
(* descriptor, or the reference goes back.                                 *)
TakeFd(p) ==
  IF file[p] = NoInode
  THEN file' = [file EXCEPT ![p] = ip[p]] /\ Done(p, <<>>)
  ELSE Done(p, <<Put(ip[p])>>) /\ UNCHANGED file

(* open of what exists; "write" is any mode but O_RDONLY. *)
sys_open(p, mode) ==
  /\ At(p, mode) /\ Free(ip[p])
  /\ IF ~CanLoad(ip[p]) THEN Panic("no type")
     ELSE /\ Loaded(ip[p])
          /\ IF type[ip[p]] = "dir" /\ mode = "write"
             THEN Done(p, <<Put(ip[p])>>) /\ UNCHANGED file
             ELSE TakeFd(p)
          /\ UNCHANGED <<disk, ref, lock, cwd, calls, panic>>

(* create, of a file for open with O_CREATE or of a directory for mkdir,   *)
(* with the parent locked: ialloc takes the first free inode.              *)
Name(p) == Head(path[p])
FreeInodes == {i \in Inums : type[i] = "free"}
ialloc == CHOOSE i \in FreeInodes : \A j \in FreeInodes : i <= j

create(p) ==
  LET d == dp[p] IN
  /\ pc[p] \in {"create", "mkdir"} /\ At(p, pc[p]) /\ Free(d)
  /\ IF Name(p) \in DOMAIN ents[d]
     THEN LET i == ents[d][Name(p)] IN
          /\ ref' = Taken(i)
          /\ Go(p, "found", i, NoInode, <<Put(d)>>)
          /\ UNCHANGED <<disk, lock, panic>>
     ELSE IF FreeInodes = {}
     THEN panic' = "no inodes" /\ UNCHANGED <<disk, ref, lock, pc, call, path, ip, dp, todo>>
     ELSE /\ type' = [type EXCEPT ![ialloc] = IF pc[p] = "mkdir" THEN "dir" ELSE "file"]
          /\ nlink' = [nlink EXCEPT ![ialloc] = 0]
          /\ ref' = Taken(ialloc)
          /\ lock' = [lock EXCEPT ![d] = p]
          /\ Go(p, "made", ialloc, d, <<>>)
          /\ UNCHANGED <<ents, panic>>
  /\ UNCHANGED <<valid, cwd, file, calls>>

(* A new directory gets its dots, the parent a link for the second one. *)
DotsOf(i, d) == [n \in Dots |-> IF n = "." THEN i ELSE d]
With(d, n, i) == [m \in DOMAIN ents[d] \cup {n} |-> IF m = n THEN i ELSE ents[d][m]]

link_new(p) ==
  LET i == ip[p]  d == dp[p] IN
  /\ At(p, "made") /\ Free(i)
  /\ Loaded(i)
  /\ IF type[i] = "dir"
     THEN /\ nlink' = [nlink EXCEPT ![i] = 1, ![d] = @ + 1]
          /\ ents' = [ents EXCEPT ![i] = DotsOf(i, d), ![d] = With(d, Name(p), i)]
     ELSE /\ nlink' = [nlink EXCEPT ![i] = 1]
          /\ ents' = [ents EXCEPT ![d] = With(d, Name(p), i)]
  /\ lock' = [lock EXCEPT ![d] = NoOne, ![i] = p]
  /\ Go(p, "filled", i, NoInode, <<Put(d)>>)
  /\ UNCHANGED <<type, ref, cwd, file, calls, panic>>

created(p) ==
  /\ At(p, "filled")
  /\ lock' = [lock EXCEPT ![ip[p]] = NoOne]
  /\ IF call[p] = "create" THEN TakeFd(p)
     ELSE Done(p, <<Put(ip[p])>>) /\ UNCHANGED file
  /\ UNCHANGED <<disk, ref, valid, cwd, calls, panic>>

found(p) ==
  /\ At(p, "found") /\ Free(ip[p])
  /\ IF ~CanLoad(ip[p]) THEN Panic("no type")
     ELSE /\ Loaded(ip[p])
          /\ IF call[p] = "create" /\ type[ip[p]] = "file" THEN TakeFd(p)
             ELSE Done(p, <<Put(ip[p])>>) /\ UNCHANGED file
          /\ UNCHANGED <<disk, ref, lock, cwd, calls, panic>>

-----------------------------------------------------------------------------
(* unlink: find the entry with the parent locked, lock what it names,      *)
(* erase it, give the parent back, and only then count the link.           *)
(* (Bug: the dots may be unlinked.)                                        *)
UnlinkDots(p) ==
  LET d == dp[p] IN
  /\ At(p, "unlink") /\ Free(d)
  /\ IF Name(p) \notin DOMAIN ents[d]
     THEN Done(p, <<Put(d)>>) /\ UNCHANGED <<ref, lock>>
     ELSE LET i == ents[d][Name(p)] IN
          /\ ref' = Taken(i)
          /\ lock' = [lock EXCEPT ![d] = p]
          /\ Go(p, "erase", i, d, <<>>)
  /\ UNCHANGED <<disk, valid, cwd, file, calls, panic>>

sys_unlink(p) ==
  LET d == dp[p] IN
  /\ At(p, "unlink") /\ Free(d)
  /\ IF Name(p) \in Dots \/ Name(p) \notin DOMAIN ents[d]
     THEN Done(p, <<Put(d)>>) /\ UNCHANGED <<ref, lock>>
     ELSE LET i == ents[d][Name(p)] IN
          /\ ref' = Taken(i)
          /\ lock' = [lock EXCEPT ![d] = p]
          /\ Go(p, "erase", i, d, <<>>)
  /\ UNCHANGED <<disk, valid, cwd, file, calls, panic>>

isdirempty(i) == Named(ents[i]) = {}
Without(d, n) == [m \in DOMAIN ents[d] \ {n} |-> ents[d][m]]

erase(p) ==
  LET i == ip[p]  d == dp[p] IN
  /\ At(p, "erase") /\ Free(i)
  /\ IF ~CanLoad(i) THEN Panic("no type")
     ELSE IF nlink[i] < 1 THEN Panic("nlink < 1")
     ELSE
       /\ Loaded(i)
       /\ IF type[i] = "dir" /\ ~isdirempty(i)
          THEN /\ Done(p, <<Put(i), Unlock(d), Put(d)>>)
               /\ UNCHANGED <<ents, nlink, lock>>
          ELSE /\ ents' = [ents EXCEPT ![d] = Without(d, Name(p))]
               /\ nlink' = IF type[i] = "dir" THEN [nlink EXCEPT ![d] = @ - 1] ELSE nlink
               /\ lock' = [lock EXCEPT ![d] = NoOne, ![i] = p]
               /\ Go(p, "unlinked", i, NoInode, <<Put(d)>>)
       /\ UNCHANGED <<type, ref, cwd, file, calls, panic>>

unlinked(p) ==
  /\ At(p, "unlinked")
  /\ nlink' = [nlink EXCEPT ![ip[p]] = @ - 1]
  /\ lock' = [lock EXCEPT ![ip[p]] = NoOne]
  /\ Done(p, <<Put(ip[p])>>)
  /\ UNCHANGED <<type, ents, ref, valid, cwd, file, calls, panic>>

-----------------------------------------------------------------------------
(* link: count the link, then look up where it goes; if it cannot be made, *)
(* count it out again.  (Bug: iunlock for iunlockput, sysfile.c:135.)      *)
KeepOld(p) ==
  LET i == ip[p] IN
  /\ At(p, "link") /\ Free(i)
  /\ IF ~CanLoad(i) THEN Panic("no type")
     ELSE
       /\ Loaded(i)
       /\ IF type[i] = "dir"
          THEN Done(p, <<>>) /\ UNCHANGED <<nlink, ref>>
          ELSE /\ nlink' = [nlink EXCEPT ![i] = @ + 1]
               /\ \E new \in Paths : Start(p, "link2", new)
       /\ UNCHANGED <<type, ents, lock, cwd, file, calls, panic>>

sys_link(p) ==
  LET i == ip[p] IN
  /\ At(p, "link") /\ Free(i)
  /\ IF ~CanLoad(i) THEN Panic("no type")
     ELSE
       /\ Loaded(i)
       /\ IF type[i] = "dir"
          THEN Done(p, <<Put(i)>>) /\ UNCHANGED <<nlink, ref>>
          ELSE /\ nlink' = [nlink EXCEPT ![i] = @ + 1]
               /\ \E new \in Paths : Start(p, "link2", new)
       /\ UNCHANGED <<type, ents, lock, cwd, file, calls, panic>>

(* dirlink puts what it finds under the name with the directory locked. *)
dirlink(p) ==
  LET i == ip[p]  d == dp[p] IN
  /\ At(p, "link2") /\ Free(d)
  /\ IF Name(p) \in DOMAIN ents[d]
     THEN LET x == ents[d][Name(p)] IN
          /\ ref' = Taken(x)
          /\ lock' = [lock EXCEPT ![d] = p]
          /\ Go(p, "linkbad", i, NoInode, <<Put(x), Unlock(d), Put(d)>>)
          /\ UNCHANGED ents
     ELSE /\ ents' = [ents EXCEPT ![d] = With(d, Name(p), i)]
          /\ Done(p, <<Put(d), Put(i)>>)
          /\ UNCHANGED <<ref, lock>>
  /\ UNCHANGED <<type, nlink, valid, cwd, file, calls, panic>>

linkbad(p) ==
  /\ At(p, "linkbad") /\ Free(ip[p])
  /\ nlink' = [nlink EXCEPT ![ip[p]] = @ - 1]
  /\ Done(p, <<Put(ip[p])>>)
  /\ UNCHANGED <<type, ents, ref, valid, lock, cwd, file, calls, panic>>

-----------------------------------------------------------------------------
sys_chdir(p) ==
  LET i == ip[p] IN
  /\ At(p, "chdir") /\ Free(i)
  /\ IF ~CanLoad(i) THEN Panic("no type")
     ELSE /\ Loaded(i)
          /\ IF type[i] # "dir" THEN Done(p, <<Put(i)>>) /\ UNCHANGED cwd
             ELSE Done(p, <<Put(cwd[p])>>) /\ cwd' = [cwd EXCEPT ![p] = i]
          /\ UNCHANGED <<disk, ref, lock, file, calls, panic>>

sys_close(p) ==
  /\ At(p, "idle") /\ file[p] # NoInode
  /\ file' = [file EXCEPT ![p] = NoInode]
  /\ Done(p, <<Put(file[p])>>)
  /\ UNCHANGED <<disk, cache, cwd, calls, panic>>

Step(p) ==
  \/ Deferred(p) \/ namex(p)
  \/ \E mode \in {"open", "write"} : sys_open(p, mode)
  \/ create(p) \/ link_new(p) \/ created(p) \/ found(p)
  \/ sys_unlink(p) \/ erase(p) \/ unlinked(p)
  \/ sys_link(p) \/ dirlink(p) \/ linkbad(p)
  \/ sys_chdir(p)

Operations == {"open", "write", "create", "mkdir", "unlink", "link", "chdir"}

(* History: a directory is freed that is the parent of another. *)
Orphaning ==
  \E i, d \in Inums : /\ i # d /\ type[i] = "dir" /\ type'[i] = "free"
                       /\ ".." \in DOMAIN ents[d] /\ ents[d][".."] = i

Next ==
  /\ \E p \in Procs :
       \/ \E c \in Operations, name \in Paths : begin(p, c, name)
       \/ sys_close(p) \/ Step(p)
  /\ orphaned' = (orphaned \/ Orphaning)

Spec == Init /\ [][Next]_vars

-----------------------------------------------------------------------------
(* Properties *)

(* ip->ref counts the pointers there are to the inode: current             *)
(* directories, open files and what the calls in progress hold             *)
(* (fs.c:123-128), in its locals and among its deferred puts, of which     *)
(* there are never more than three.  Nothing is put twice, and no path     *)
(* forgets a put.                                                          *)
Target(s, k) ==
  IF k \in 1..Len(s) /\ s[k][1] # "unlock" THEN s[k][2] ELSE NoInode
Nth(k) == [p \in Procs |-> Target(todo[p], k)]
Users(f, i) == Cardinality({p \in Procs : f[p] = i})
Pointers(i) ==
  Users(cwd, i) + Users(file, i) + Users(ip, i) + Users(dp, i)
  + Users(Nth(1), i) + Users(Nth(2), i) + Users(Nth(3), i)

RefsExact == \A i \in Inums : ref[i] = Pointers(i)

(* An inode has at least as many links as names, at every moment of link,  *)
(* unlink and create: none is freed while a directory names it, and        *)
(* unlink's panic (sysfile.c:211) is out of reach.  This holds until the   *)
(* parent of a directory still in use is freed: see LinksAlways.           *)
Covered ==
  /\ LET entries == EntriesOf(ents) IN
     \A i \in Inums :
       LET names == {e \in entries : ents[e[1]][e[2]] = i}
       IN  nlink[i] >= Cardinality(names) /\ (names # {} => type[i] # "free")
  /\ panic # "nlink < 1"
LinksCover == ~orphaned => Covered

(* What a process keeps between its calls, its current directory and its   *)
(* open file, iput does not free under it (fs.c:337-348), unlinked or not. *)
HeldLive ==
  \A p \in Procs : /\ type[cwd[p]] = "dir"
                   /\ file[p] # NoInode => type[file[p]] # "free"

(* Where processes wait for each other's sleep-locks one of them is in     *)
(* iput, which asks for a lock whatever the caller holds (fs.c:335).  What *)
(* ilock asks for while it holds a directory is always a child of it       *)
(* (sysfile.c:204, 281): lookups alone never deadlock (fs.c:150).          *)
WaitsFor(p) ==
  IF panic # "no" \/ (pc[p] = "idle" /\ todo[p] = <<>>) THEN {}
  ELSE IF todo[p] # <<>> THEN {i \in {Head(todo[p])[2]} : Head(todo[p])[1] = "put"}
  ELSE IF pc[p] \in {"filled", "unlinked"} THEN {}
  ELSE IF pc[p] \in {"walk", "create", "mkdir", "unlink", "link2"} THEN {dp[p]}
  ELSE {ip[p]}
InPut(p) == todo[p] # <<>> /\ Head(todo[p])[1] = "put"
Stuck(S) == \A p \in S : \E i \in WaitsFor(p) : lock[i] \in S
DeadlockInPut ==
  ~orphaned => \A S \in (SUBSET Procs) \ {{}} : Stuck(S) => \E p \in S : InPut(p)

(* What the code says of itself and does not keep: README.md, findings.    *)

(* The last reference to an inode without links frees it (fs.c:328-329).   *)
LastPutFrees == \A i \in Inums : nlink[i] = 0 /\ ref[i] = 0 => type[i] = "free"

(* nlink counts the links to the inode (fs.c:102), whatever was removed     *)
(* before.                                                                 *)
LinksAlways == Covered

(* No name leads to a free inode, of which ilock panics (fs.c:309).        *)
TypeThere == panic # "no type"

(* Lookups lock one inode at a time, which avoids deadlock (fs.c:148-151). *)
NoDeadlock == \A S \in (SUBSET Procs) \ {{}} : ~Stuck(S)
=============================================================================
