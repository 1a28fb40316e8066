---------------------------- MODULE InodesProofs ----------------------------
(***************************************************************************)
(* Inodes: for any processes, inodes, paths and trees to begin with, its   *)
(* types, that ref counts the pointers, that iput frees nothing that a     *)
(* process keeps, that links suffice for names, and that lookups alone do  *)
(* not deadlock.                                                           *)
(***************************************************************************)
EXTENDS Inodes, FiniteSetTheorems, SequenceTheorems, WellFoundedInduction, TLAPS

Steps == {"put", "drop", "unlock"} \X Inums
Calls == Operations \cup {"link2", "none"}
HasDp == {"walk", "create", "mkdir", "unlink", "link2", "made", "erase"}
HasIp == {"open", "write", "link", "chdir", "found", "filled", "unlinked",
          "linkbad", "made", "erase", "link2"}
Labels == HasDp \cup HasIp \cup {"idle"}

(* The inodes and their cache entries. *)
Types ==
  /\ type \in [Inums -> {"free", "file", "dir"}]
  /\ nlink \in [Inums -> Int]
  /\ ents = [i \in Inums |-> ents[i]]
  /\ \A i \in Inums : \A n \in DOMAIN ents[i] : ents[i][n] \in Inums
  /\ ref \in [Inums -> Int]
  /\ valid \in [Inums -> BOOLEAN]
  /\ lock \in [Inums -> Procs \cup {NoOne}]
  /\ cwd \in [Procs -> Inums]
  /\ file \in [Procs -> Inums \cup {NoInode}]

(* What a process has in its locals at each label. *)
Shape(p) ==
  /\ ip[p] \in IF pc[p] \in HasIp \/ (pc[p] = "walk" /\ call[p] = "link2")
               THEN Inums ELSE {NoInode}
  /\ dp[p] \in IF pc[p] \in HasDp THEN Inums ELSE {NoInode}
  /\ pc[p] \in HasDp => path[p] # <<>>
  /\ pc[p] = "walk" => call[p] \in Operations \cup {"link2"}
  /\ Len(todo[p]) <= 3

Control ==
  /\ pc \in [Procs -> Labels]
  /\ call \in [Procs -> Calls]
  /\ path \in [Procs -> Seq(STRING)]
  /\ ip \in [Procs -> Inums \cup {NoInode}]
  /\ dp \in [Procs -> Inums \cup {NoInode}]
  /\ todo \in [Procs -> Seq(Steps)]
  /\ \A p \in Procs : Shape(p)

(* A new inode is in use as long as create works on it. *)
NewLive == \A p \in Procs : pc[p] \in {"made", "filled"} => type[ip[p]] # "free"

(* The inductive invariant. *)
IInv == Types /\ Control /\ RefsExact /\ NewLive /\ HeldLive

-----------------------------------------------------------------------------
(* Counting.  One is 1 if a pointer points to i, Has the pointers of p.    *)
One(x, i) == IF x = i THEN 1 ELSE 0
Listed(s, i) == One(Target(s, 1), i) + One(Target(s, 2), i) + One(Target(s, 3), i)
Local(p, i) == One(ip[p], i) + One(dp[p], i) + Listed(todo[p], i)

LEMMA OneType ==
  ASSUME NEW x, NEW i PROVE One(x, i) \in Int /\ Listed(x, i) \in Int
  BY DEF One, Listed

LEMMA LocalType ==
  ASSUME NEW p, NEW i PROVE Local(p, i) \in Int /\ Local(p, i)' \in Int
  BY OneType DEF Local

(* A pointer of p moves. *)
LEMMA UsersMove ==
  ASSUME NEW p \in Procs, NEW f, NEW g, NEW i, \A q \in Procs \ {p} : g[q] = f[q]
  PROVE  /\ Users(f, i) \in Nat /\ Users(g, i) \in Nat
         /\ Users(g, i) = Users(f, i) - One(f[p], i) + One(g[p], i)
  <1> DEFINE F == {q \in Procs : f[q] = i}
             G == {q \in Procs : g[q] = i}
             R == {q \in Procs \ {p} : f[q] = i}
  <1>1. IsFiniteSet(R)
    BY FS_Subset, InodesAssumption
  <1>2. PICK n : n = Cardinality(R)
    OBVIOUS
  <1>3. n \in Nat
    BY <1>1, <1>2, FS_CardinalityType
  <1>4. p \notin R /\ Cardinality(R \cup {p}) = n + 1
    BY <1>1, <1>2, FS_AddElement
  <1>5. F = IF f[p] = i THEN R \cup {p} ELSE R
    OBVIOUS
  <1>6. G = IF g[p] = i THEN R \cup {p} ELSE R
    OBVIOUS
  <1>7. Cardinality(F) = n + One(f[p], i)
    BY <1>2, <1>3, <1>4, <1>5 DEF One
  <1>8. Cardinality(G) = n + One(g[p], i)
    BY <1>2, <1>3, <1>4, <1>6 DEF One
  <1>9. One(f[p], i) \in Nat /\ One(g[p], i) \in Nat
    BY DEF One
  <1> HIDE DEF F, G
  <1>10. /\ Cardinality(F) \in Nat /\ Cardinality(G) \in Nat
         /\ Cardinality(G) = Cardinality(F) - One(f[p], i) + One(g[p], i)
    BY <1>3, <1>7, <1>8, <1>9
  <1> QED BY <1>10 DEF Users, F, G

(* A step of p leaves the pointers of the others. *)
Elsewhere(p) ==
  \A q \in Procs \ {p} :
    /\ pc'[q] = pc[q] /\ call'[q] = call[q] /\ path'[q] = path[q]
    /\ ip'[q] = ip[q] /\ dp'[q] = dp[q] /\ todo'[q] = todo[q]

LEMMA PointersMove ==
  ASSUME NEW p \in Procs, Elsewhere(p), NEW i,
         \A q \in Procs \ {p} : cwd'[q] = cwd[q] /\ file'[q] = file[q]
  PROVE  /\ Pointers(i) \in Nat
         /\ Pointers(i)' = Pointers(i) - Local(p, i) + Local(p, i)'
              - One(cwd[p], i) + One(cwd'[p], i) - One(file[p], i) + One(file'[p], i)
  <1>1. /\ Users(cwd, i) \in Nat /\ Users(cwd', i) \in Nat
        /\ Users(cwd', i) = Users(cwd, i) - One(cwd[p], i) + One(cwd'[p], i)
    BY UsersMove
  <1>2. /\ Users(file, i) \in Nat /\ Users(file', i) \in Nat
        /\ Users(file', i) = Users(file, i) - One(file[p], i) + One(file'[p], i)
    BY UsersMove
  <1>3. /\ Users(ip, i) \in Nat /\ Users(ip', i) \in Nat
        /\ Users(ip', i) = Users(ip, i) - One(ip[p], i) + One(ip'[p], i)
    BY UsersMove DEF Elsewhere
  <1>4. /\ Users(dp, i) \in Nat /\ Users(dp', i) \in Nat
        /\ Users(dp', i) = Users(dp, i) - One(dp[p], i) + One(dp'[p], i)
    BY UsersMove DEF Elsewhere
  <1>5. ASSUME NEW k
        PROVE  /\ Users(Nth(k), i) \in Nat /\ Users(Nth(k)', i) \in Nat
               /\ Users(Nth(k)', i) = Users(Nth(k), i)
                    - One(Target(todo[p], k), i) + One(Target(todo'[p], k), i)
    <2> DEFINE f == Nth(k)
               g == Nth(k)'
    <2>1. \A q \in Procs : f[q] = Target(todo[q], k) /\ g[q] = Target(todo'[q], k)
      BY DEF Nth
    <2>2. \A q \in Procs \ {p} : g[q] = f[q]
      BY <2>1 DEF Elsewhere
    <2>3. f[p] = Target(todo[p], k) /\ g[p] = Target(todo'[p], k)
      BY <2>1
    <2> HIDE DEF f, g
    <2>4. /\ Users(f, i) \in Nat /\ Users(g, i) \in Nat
          /\ Users(g, i) = Users(f, i) - One(f[p], i) + One(g[p], i)
      BY <2>2, UsersMove
    <2> QED BY <2>3, <2>4 DEF f, g
  <1>6. /\ Pointers(i) = Users(cwd, i) + Users(file, i) + Users(ip, i) + Users(dp, i)
             + Users(Nth(1), i) + Users(Nth(2), i) + Users(Nth(3), i)
        /\ Pointers(i)' = Users(cwd', i) + Users(file', i) + Users(ip', i) + Users(dp', i)
             + Users(Nth(1)', i) + Users(Nth(2)', i) + Users(Nth(3)', i)
    BY DEF Pointers, Users
  <1>7. Local(p, i)' = One(ip'[p], i) + One(dp'[p], i) + One(Target(todo'[p], 1), i)
            + One(Target(todo'[p], 2), i) + One(Target(todo'[p], 3), i)
    BY OneType DEF Local, Listed, One, Target
  <1>8. /\ One(cwd[p], i) \in Int /\ One(cwd'[p], i) \in Int
        /\ One(file[p], i) \in Int /\ One(file'[p], i) \in Int
        /\ One(ip[p], i) \in Int /\ One(ip'[p], i) \in Int
        /\ One(dp[p], i) \in Int /\ One(dp'[p], i) \in Int
        /\ \A k : One(Target(todo[p], k), i) \in Int /\ One(Target(todo'[p], k), i) \in Int
    BY OneType
  <1> QED BY <1>1, <1>2, <1>3, <1>4, <1>5, <1>6, <1>7, <1>8 DEF Local, Listed

-----------------------------------------------------------------------------
(* Where control goes.  Settles: p comes to l with inodes i and d, after s. *)
LEMMA Settles ==
  ASSUME Control, NEW p \in Procs, NEW l \in Labels, NEW i, NEW d, NEW s \in Seq(Steps),
         NEW c \in Calls, NEW r \in Seq(STRING), Len(s) <= 3,
         Move(p, l, i, d, s),
         call' = [call EXCEPT ![p] = c], path' = [path EXCEPT ![p] = r],
         i \in IF l \in HasIp \/ (l = "walk" /\ c = "link2") THEN Inums ELSE {NoInode},
         d \in IF l \in HasDp THEN Inums ELSE {NoInode},
         l \in HasDp => r # <<>>,
         l = "walk" => c # "none"
  PROVE  /\ Control' /\ Elsewhere(p)
         /\ pc'[p] = l /\ ip'[p] = i /\ dp'[p] = d /\ todo'[p] = s
  <1>1. i \in Inums \cup {NoInode} /\ d \in Inums \cup {NoInode}
    OBVIOUS
  <1>2. /\ pc' \in [Procs -> Labels] /\ call' \in [Procs -> Calls]
        /\ path' \in [Procs -> Seq(STRING)]
        /\ ip' \in [Procs -> Inums \cup {NoInode}] /\ dp' \in [Procs -> Inums \cup {NoInode}]
        /\ todo' \in [Procs -> Seq(Steps)]
    BY <1>1 DEF Control, Move
  <1>3. /\ pc'[p] = l /\ ip'[p] = i /\ dp'[p] = d /\ todo'[p] = s
        /\ call'[p] = c /\ path'[p] = r
    BY DEF Control, Move
  <1>4. Elsewhere(p)
    BY DEF Control, Move, Elsewhere
  <1>5. Shape(p)'
    BY <1>3 DEF Shape, Calls
  <1>6. ASSUME NEW q \in Procs \ {p} PROVE Shape(q)'
    BY <1>4 DEF Shape, Elsewhere, Control
  <1> QED BY <1>2, <1>3, <1>4, <1>5, <1>6 DEF Control

(* The same when call and path stay. *)
LEMMA Goes ==
  ASSUME Control, NEW p \in Procs, NEW l \in Labels, NEW i, NEW d, NEW s \in Seq(Steps),
         Len(s) <= 3, Go(p, l, i, d, s),
         i \in IF l \in HasIp \/ (l = "walk" /\ call[p] = "link2") THEN Inums ELSE {NoInode},
         d \in IF l \in HasDp THEN Inums ELSE {NoInode},
         l \in HasDp => path[p] # <<>>,
         l = "walk" => call[p] # "none"
  PROVE  /\ Control' /\ Elsewhere(p)
         /\ pc'[p] = l /\ ip'[p] = i /\ dp'[p] = d /\ todo'[p] = s
  <1>1. PICK c \in Calls : c = call[p]
    BY DEF Control
  <1>2. PICK r \in Seq(STRING) : r = path[p]
    BY DEF Control
  <1>3. call' = [call EXCEPT ![p] = c] /\ path' = [path EXCEPT ![p] = r]
    BY <1>1, <1>2 DEF Control, Go
  <1>4. /\ i \in IF l \in HasIp \/ (l = "walk" /\ c = "link2") THEN Inums ELSE {NoInode}
        /\ l \in HasDp => r # <<>>
        /\ l = "walk" => c # "none"
    BY <1>1, <1>2
  <1>5. Move(p, l, i, d, s)
    BY DEF Go
  <1> QED BY <1>3, <1>4, <1>5, Settles

(* The call is over. *)
LEMMA Ends ==
  ASSUME Control, NEW p \in Procs, NEW s \in Seq(Steps), Len(s) <= 3, Done(p, s)
  PROVE  /\ Control' /\ Elsewhere(p)
         /\ pc'[p] = "idle" /\ ip'[p] = NoInode /\ dp'[p] = NoInode /\ todo'[p] = s
  <1>1. /\ "idle" \in Labels /\ "idle" \notin HasIp /\ "idle" \notin HasDp
        /\ "none" \in Calls /\ <<>> \in Seq(STRING)
    BY DEF Labels, HasIp, HasDp, Calls
  <1> QED BY <1>1, Settles DEF Done

(* Short lists of deferred steps. *)
LEMMA Lists ==
  ASSUME NEW i \in Inums
  PROVE  /\ Put(i) \in Steps /\ Drop(i) \in Steps /\ Unlock(i) \in Steps
         /\ <<>> \in Seq(Steps) /\ Len(<<>>) = 0
         /\ \A x \in Steps : <<x>> \in Seq(Steps) /\ Len(<<x>>) = 1
         /\ \A x, y \in Steps : Append(<<x>>, y) \in Seq(Steps) /\ Len(Append(<<x>>, y)) = 2
         /\ \A x \in Steps : Append(<<>>, x) \in Seq(Steps) /\ Len(Append(<<>>, x)) = 1
         /\ \A x, y, z \in Steps : <<x, y, z>> \in Seq(Steps) /\ Len(<<x, y, z>>) = 3
  BY DEF Put, Drop, Unlock, Steps

(* The pointers in them. *)
LEMMA OneNone ==
  ASSUME NEW x \in Inums PROVE One(NoInode, x) = 0
  BY InodesAssumption DEF One

LEMMA ListedNone ==
  ASSUME NEW x \in Inums PROVE Listed(<<>>, x) = 0
  <1>1. \A k : Target(<<>>, k) = NoInode
    BY DEF Target
  <1> QED BY <1>1, OneNone DEF Listed

LEMMA ListedOne ==
  ASSUME NEW x \in Inums, NEW i \in Inums
  PROVE  Listed(<<Put(i)>>, x) = One(i, x)
  <1> DEFINE s == <<Put(i)>>
  <1>1. Len(s) = 1 /\ s[1][1] # "unlock" /\ s[1][2] = i
    BY DEF Put
  <1> HIDE DEF s
  <1>2. Target(s, 1) = i /\ Target(s, 2) = NoInode /\ Target(s, 3) = NoInode
    BY <1>1 DEF Target
  <1> QED BY <1>2, OneNone, OneType DEF Listed, s

LEMMA ListedTwo ==
  ASSUME NEW x \in Inums, NEW s, Len(s) = 2,
         NEW i \in Inums, NEW j \in Inums, s[1] = Put(i), s[2] = Put(j)
  PROVE  Listed(s, x) = One(i, x) + One(j, x)
  <1>1. Target(s, 1) = i /\ Target(s, 2) = j /\ Target(s, 3) = NoInode
    BY DEF Target, Put
  <1> QED BY <1>1, OneNone, OneType DEF Listed

LEMMA ListedThree ==
  ASSUME NEW x \in Inums, NEW i \in Inums, NEW j \in Inums
  PROVE  Listed(<<Put(i), Unlock(j), Put(j)>>, x) = One(i, x) + One(j, x)
  <1> DEFINE s == <<Put(i), Unlock(j), Put(j)>>
  <1>1. Len(s) = 3 /\ s[1] = Put(i) /\ s[2] = Unlock(j) /\ s[3] = Put(j)
    OBVIOUS
  <1> HIDE DEF s
  <1>2. Target(s, 1) = i /\ Target(s, 2) = NoInode /\ Target(s, 3) = j
    BY <1>1 DEF Target, Put, Unlock
  <1> QED BY <1>2, OneNone, OneType DEF Listed, s

(* What namex still has to put, and one put more. *)
Owed == {<<>>} \cup {<<Put(j)>> : j \in Inums}

LEMMA ListedMore ==
  ASSUME NEW x \in Inums, NEW s \in Owed, NEW i \in Inums
  PROVE  /\ s \in Seq(Steps) /\ Len(s) <= 3
         /\ Append(s, Put(i)) \in Seq(Steps) /\ Len(Append(s, Put(i))) <= 3
         /\ Listed(Append(s, Put(i)), x) = Listed(s, x) + One(i, x)
  <1>1. CASE s = <<>>
    <2>1. Append(s, Put(i)) = <<Put(i)>>
      BY <1>1
    <2>2. <<Put(i)>> \in Seq(Steps) /\ Len(<<Put(i)>>) = 1 /\ s \in Seq(Steps) /\ Len(s) = 0
      BY <1>1, Lists
    <2> QED BY <1>1, <2>1, <2>2, ListedNone, ListedOne, OneType
  <1>2. ASSUME NEW j \in Inums, s = <<Put(j)>>
        PROVE  /\ s \in Seq(Steps) /\ Len(s) <= 3
               /\ Append(s, Put(i)) \in Seq(Steps) /\ Len(Append(s, Put(i))) <= 3
               /\ Listed(Append(s, Put(i)), x) = Listed(s, x) + One(i, x)
    <2> DEFINE t == Append(s, Put(i))
    <2>1. /\ s \in Seq(Steps) /\ Len(s) = 1 /\ s[1] = Put(j)
          /\ Put(i) \in Steps
      BY <1>2, Lists
    <2>5. /\ t \in Seq(Steps) /\ Len(t) = Len(s) + 1 /\ t[Len(s) + 1] = Put(i)
          /\ \A k \in 1..Len(s) : t[k] = s[k]
      <3>1. s \in Seq(Steps) /\ Put(i) \in Steps
        BY <2>1
      <3> QED BY ONLY <3>1, AppendProperties
    <2>2. t \in Seq(Steps) /\ Len(t) = 2 /\ t[1] = Put(j) /\ t[2] = Put(i)
      BY <2>1, <2>5
    <2> HIDE DEF t
    <2>3. Listed(t, x) = One(j, x) + One(i, x)
      BY <2>2, ListedTwo
    <2>4. Listed(s, x) = One(j, x)
      BY <1>2, ListedOne
    <2> QED BY <2>1, <2>2, <2>3, <2>4 DEF t
  <1> QED BY <1>1, <1>2 DEF Owed

(* The pointers p has in its locals after a step. *)
LEMMA LocalIs ==
  ASSUME NEW p, NEW x, NEW i, NEW d, NEW s, ip'[p] = i, dp'[p] = d, todo'[p] = s
  PROVE  Local(p, x)' = One(i, x) + One(d, x) + Listed(s, x)
  BY DEF Local, One, Listed, Target

(* link2 keeps the old file in ip, another walk has nothing there. *)
Keeps(p, c) == ip[p] \in IF c = "link2" THEN Inums ELSE {NoInode}

(* A walk fails. *)
LEMMA Fails ==
  ASSUME Control, NEW p \in Procs, NEW c \in Operations \cup {"link2"},
         NEW s \in Seq(Steps), Len(s) <= 3,
         Keeps(p, c), Failed(p, c, s)
  PROVE  /\ Control' /\ Elsewhere(p)
         /\ pc'[p] \in {"idle", "linkbad"}
         /\ ip'[p] = ip[p] /\ dp'[p] = NoInode /\ todo'[p] = s
  <1>1. CASE c = "link2"
    <2>1. "linkbad" \in Labels \cap HasIp /\ "linkbad" \notin HasDp
      BY DEF Labels, HasIp, HasDp
    <2>2. Go(p, "linkbad", ip[p], NoInode, s)
      BY <1>1 DEF Failed
    <2>3. PICK i \in Inums : i = ip[p]
      BY <1>1 DEF Keeps
    <2> QED BY <2>1, <2>2, <2>3, Goes
  <1>2. CASE c # "link2"
    <2>1. Done(p, s) /\ ip[p] = NoInode
      BY <1>2 DEF Failed, Keeps
    <2> QED BY <2>1, Ends
  <1> QED BY <1>1, <1>2

(* A walk comes to i. *)
LEMMA Arrives ==
  ASSUME Control, NEW p \in Procs, NEW c \in Operations \cup {"link2"},
         NEW i \in Inums, NEW rest \in Seq(STRING), NEW s \in Owed,
         Keeps(p, c), Arrive(p, c, i, rest, s)
  PROVE  /\ Control' /\ Elsewhere(p)
         /\ pc'[p] \notin {"made", "filled"}
         /\ \A x \in Inums : Local(p, x)' = One(ip[p], x) + One(i, x) + Listed(s, x)
  <1>1. /\ s \in Seq(Steps) /\ Len(s) <= 3
        /\ Append(s, Put(i)) \in Seq(Steps) /\ Len(Append(s, Put(i))) <= 3
    BY ListedMore
  <1>2. ASSUME NEW x \in Inums
        PROVE  /\ One(NoInode, x) = 0
               /\ Listed(Append(s, Put(i)), x) = Listed(s, x) + One(i, x)
               /\ One(ip[p], x) \in Int /\ One(i, x) \in Int /\ Listed(s, x) \in Int
    BY OneNone, ListedMore, OneType
  <1>3. c \in Labels /\ c \in Calls
    BY DEF Operations, Labels, HasIp, HasDp, Calls
  <1>4. PICK o : o = ip[p]
    OBVIOUS
  <1>5. CASE rest = <<>> /\ WantsParent(c)
    <2>1. Failed(p, c, Append(s, Put(i)))
      BY <1>5 DEF Arrive
    <2>2. /\ Control' /\ Elsewhere(p) /\ pc'[p] \in {"idle", "linkbad"}
          /\ ip'[p] = o /\ dp'[p] = NoInode /\ todo'[p] = Append(s, Put(i))
      BY <1>1, <1>4, <2>1, Fails
    <2>3. ASSUME NEW x \in Inums
          PROVE  Local(p, x)' = One(ip[p], x) + One(i, x) + Listed(s, x)
      <3>1. PICK t : t = Append(s, Put(i))
        OBVIOUS
      <3>2. ip'[p] = o /\ dp'[p] = NoInode /\ todo'[p] = t
        BY <2>2, <3>1
      <3>3. Local(p, x)' = One(o, x) + One(NoInode, x) + Listed(t, x)
        BY <3>2, LocalIs
      <3> QED BY <1>2, <1>4, <3>1, <3>3
    <2> QED BY <2>2, <2>3
  <1>6. CASE ~(rest = <<>> /\ WantsParent(c)) /\ rest = <<>>
    <2>1. /\ Move(p, c, i, NoInode, s)
          /\ call' = [call EXCEPT ![p] = c] /\ path' = [path EXCEPT ![p] = rest]
      BY <1>6 DEF Arrive
    <2>2. c \in {"open", "write", "link", "chdir"}
      BY <1>6 DEF WantsParent, Operations
    <2>3. c \in HasIp /\ c \notin HasDp /\ c # "walk" /\ c \notin {"made", "filled"} /\ ip[p] = NoInode
      BY <2>2 DEF HasIp, HasDp, Keeps
    <2>4. /\ Control' /\ Elsewhere(p)
          /\ pc'[p] = c /\ ip'[p] = i /\ dp'[p] = NoInode /\ todo'[p] = s
      <3>1. /\ i \in IF c \in HasIp \/ (c = "walk" /\ c = "link2") THEN Inums ELSE {NoInode}
            /\ NoInode \in IF c \in HasDp THEN Inums ELSE {NoInode}
            /\ c \in HasDp => rest # <<>>
            /\ c = "walk" => c # "none"
        BY <2>3
      <3> QED BY <1>1, <1>3, <2>1, <3>1, Settles
    <2>5. ASSUME NEW x \in Inums
          PROVE  Local(p, x)' = One(ip[p], x) + One(i, x) + Listed(s, x)
      <3>1. Local(p, x)' = One(i, x) + One(NoInode, x) + Listed(s, x)
        BY <2>4, LocalIs
      <3> QED BY <1>2, <2>3, <3>1
    <2> QED BY <2>3, <2>4, <2>5
  <1>7. CASE rest # <<>>
    <2>1. /\ Move(p, "walk", o, i, s)
          /\ call' = [call EXCEPT ![p] = c] /\ path' = [path EXCEPT ![p] = rest]
      BY <1>4, <1>7 DEF Arrive
    <2>2. "walk" \in Labels \cap HasDp /\ "walk" \notin HasIp /\ c # "none"
      BY DEF Labels, HasIp, HasDp, Operations
    <2>4. o \in IF "walk" \in HasIp \/ ("walk" = "walk" /\ c = "link2") THEN Inums ELSE {NoInode}
      BY <1>4, <2>2 DEF Keeps
    <2>5. /\ Control' /\ Elsewhere(p)
          /\ pc'[p] = "walk" /\ ip'[p] = o /\ dp'[p] = i /\ todo'[p] = s
      <3>1. /\ i \in IF "walk" \in HasDp THEN Inums ELSE {NoInode}
            /\ "walk" \in HasDp => rest # <<>>
            /\ "walk" = "walk" => c # "none"
            /\ "walk" \in Labels
        BY <1>7, <2>2
      <3> QED BY <1>1, <1>3, <2>1, <2>4, <3>1, Settles
    <2>6. ASSUME NEW x \in Inums
          PROVE  Local(p, x)' = One(ip[p], x) + One(i, x) + Listed(s, x)
      <3>1. Local(p, x)' = One(o, x) + One(i, x) + Listed(s, x)
        BY <2>5, LocalIs
      <3> QED BY <1>2, <1>4, <3>1
    <2> QED BY <2>5, <2>6
  <1> QED BY <1>5, <1>6, <1>7

-----------------------------------------------------------------------------
(* Keeping the count.  A step of p whose change of ref is that of its      *)
(* pointers.                                                               *)
LEMMA RefsKept ==
  ASSUME RefsExact, NEW p \in Procs, Elsewhere(p),
         \A q \in Procs \ {p} : cwd'[q] = cwd[q] /\ file'[q] = file[q],
         \A x \in Inums :
           ref'[x] = ref[x] - Local(p, x) + Local(p, x)'
              - One(cwd[p], x) + One(cwd'[p], x) - One(file[p], x) + One(file'[p], x)
  PROVE  RefsExact'
  <1>1. ASSUME NEW x \in Inums PROVE ref'[x] = Pointers(x)'
    BY PointersMove DEF RefsExact
  <1> QED BY <1>1 DEF RefsExact

LEMMA TakenIs ==
  ASSUME ref \in [Inums -> Int], NEW i \in Inums, ref' = Taken(i)
  PROVE  /\ ref' \in [Inums -> Int]
         /\ \A x \in Inums : ref'[x] = ref[x] + One(i, x)
  BY DEF Taken, One

(* A step at a label, with nothing deferred. *)
LEMMA AtFacts ==
  ASSUME Control, NEW p \in Procs, NEW l, At(p, l)
  PROVE  /\ pc[p] = l /\ todo[p] = <<>> /\ Shape(p)
         /\ \A x \in Inums : Local(p, x) = One(ip[p], x) + One(dp[p], x)
  <1>1. pc[p] = l /\ todo[p] = <<>> /\ Shape(p)
    BY DEF At, Control
  <1>2. ASSUME NEW x \in Inums PROVE Local(p, x) = One(ip[p], x) + One(dp[p], x)
    BY <1>1, ListedNone, OneType DEF Local
  <1> QED BY <1>1, <1>2

(* A step that changes no type, current directory or file. *)
LEMMA Quiet ==
  ASSUME IInv, NEW p \in Procs, Types', Control', Elsewhere(p),
         UNCHANGED <<type, cwd, file>>,
         pc'[p] \notin {"made", "filled"} \/ type'[ip'[p]] # "free",
         \A x \in Inums : ref'[x] = ref[x] - Local(p, x) + Local(p, x)'
  PROVE  IInv'
  <1>1. RefsExact'
    <2>1. ASSUME NEW x \in Inums
          PROVE  ref'[x] = ref[x] - Local(p, x) + Local(p, x)'
                   - One(cwd[p], x) + One(cwd'[p], x) - One(file[p], x) + One(file'[p], x)
      <3>1. /\ ref[x] \in Int /\ One(cwd[p], x) \in Int /\ One(file[p], x) \in Int
            /\ Local(p, x) \in Int /\ Local(p, x)' \in Int
        BY OneType, LocalType DEF IInv, Types
      <3> QED BY <3>1
    <2> QED BY <2>1, RefsKept DEF IInv
  <1>2. NewLive'
    BY DEF IInv, NewLive, Elsewhere
  <1>3. HeldLive'
    BY DEF IInv, HeldLive
  <1> QED BY <1>1, <1>2, <1>3 DEF IInv

(* A panic stops all. *)
LEMMA Stops ==
  ASSUME IInv, UNCHANGED <<disk, cache, proc>>
  PROVE  IInv'
  <1> USE DEF disk, cache, proc
  <1>1. Types'
    BY DEF IInv, Types
  <1>2. Control'
    BY DEF IInv, Control, Shape
  <1>3. RefsExact'
    BY DEF IInv, RefsExact, Pointers, Users, Nth, Target
  <1>4. NewLive' /\ HeldLive'
    BY DEF IInv, NewLive, HeldLive
  <1> QED BY <1>1, <1>2, <1>3, <1>4 DEF IInv

(* A walk begins: the one more reference is a pointer of p. *)
LEMMA Starts ==
  ASSUME Types, Control, NEW p \in Procs, NEW c \in Operations \cup {"link2"},
         NEW name \in Paths,
         Keeps(p, c), Start(p, c, name)
  PROVE  /\ Control' /\ Elsewhere(p) /\ pc'[p] \notin {"made", "filled"}
         /\ ref' \in [Inums -> Int]
         /\ \A x \in Inums : ref'[x] = ref[x] - One(ip[p], x) + Local(p, x)'
  <1> DEFINE abs == name # <<>> /\ Head(name) = "/"
  <1>1. PICK from : from = IF abs THEN Root ELSE cwd[p]
    OBVIOUS
  <1>2. PICK rest : rest = IF abs THEN Tail(name) ELSE name
    OBVIOUS
  <1>3. ref' = Taken(from) /\ Arrive(p, c, from, rest, <<>>)
    BY <1>1, <1>2 DEF Start
  <1>4. from \in Inums
    BY <1>1, InodesAssumption DEF Types
  <1>5. rest \in Seq(STRING)
    <2>1. name \in Seq(STRING)
      BY InodesAssumption
    <2>2. CASE abs
      <3>1. name # <<>> /\ rest = Tail(name)
        BY <1>2, <2>2
      <3> QED BY ONLY <2>1, <3>1, HeadTailProperties
    <2>3. CASE ~abs
      BY <1>2, <2>1, <2>3
    <2> QED BY <2>2, <2>3
  <1>6. /\ Control' /\ Elsewhere(p) /\ pc'[p] \notin {"made", "filled"}
        /\ \A x \in Inums : Local(p, x)' = One(ip[p], x) + One(from, x) + Listed(<<>>, x)
    <2>1. <<>> \in Owed
      BY DEF Owed
    <2> QED BY <1>3, <1>4, <1>5, <2>1, Arrives
  <1>7. ref' \in [Inums -> Int] /\ \A x \in Inums : ref'[x] = ref[x] + One(from, x)
    BY <1>3, <1>4, TakenIs DEF Types
  <1>8. ASSUME NEW x \in Inums
        PROVE  ref'[x] = ref[x] - One(ip[p], x) + Local(p, x)'
    <2>1. /\ ref[x] \in Int /\ One(ip[p], x) \in Int /\ One(from, x) \in Int
          /\ Listed(<<>>, x) = 0
      BY OneType, ListedNone DEF Types
    <2> QED BY <1>6, <1>7, <2>1
  <1> QED BY <1>6, <1>7, <1>8

-----------------------------------------------------------------------------
(* A call begins. *)
LEMMA BeginStep ==
  ASSUME IInv, NEW p \in Procs, NEW c \in Operations, NEW name \in Paths, begin(p, c, name)
  PROVE  IInv'
  <1>0. At(p, "idle") /\ Start(p, c, name) /\ UNCHANGED <<disk, valid, lock, cwd, file>>
    BY DEF begin
  <1>1. /\ Shape(p) /\ pc[p] = "idle"
        /\ \A x \in Inums : Local(p, x) = One(ip[p], x) + One(dp[p], x)
    BY <1>0, AtFacts DEF IInv
  <1>2. ip[p] = NoInode /\ dp[p] = NoInode
    BY <1>1 DEF Shape, HasIp, HasDp
  <1>3. Keeps(p, c)
    BY <1>2 DEF Operations, Keeps
  <1>4. /\ Control' /\ Elsewhere(p) /\ pc'[p] \notin {"made", "filled"}
        /\ ref' \in [Inums -> Int]
        /\ \A x \in Inums : ref'[x] = ref[x] - One(ip[p], x) + Local(p, x)'
    BY <1>0, <1>3, Starts DEF IInv
  <1>5. Types'
    BY <1>0, <1>4 DEF IInv, Types, disk
  <1>6. ASSUME NEW x \in Inums PROVE ref'[x] = ref[x] - Local(p, x) + Local(p, x)'
    <2>1. Local(p, x) = One(ip[p], x)
      BY <1>1, <1>2, OneNone
    <2> QED BY <1>4, <2>1
  <1> QED BY <1>0, <1>4, <1>5, <1>6, Quiet DEF disk

(* The call is over but for the put of the inode it had. *)
LEMMA PutsBack ==
  ASSUME IInv, NEW p \in Procs, ip[p] \in Inums, dp[p] = NoInode, todo[p] = <<>>,
         Done(p, <<Put(ip[p])>>), UNCHANGED <<type, ref, cwd, file>>, Types'
  PROVE  IInv'
  <1>1. PICK i \in Inums : i = ip[p]
    OBVIOUS
  <1>2. PICK s : s = <<Put(i)>>
    OBVIOUS
  <1>3. s \in Seq(Steps) /\ Len(s) = 1
    BY <1>2, Lists
  <1>4. /\ Control' /\ Elsewhere(p)
        /\ pc'[p] = "idle" /\ ip'[p] = NoInode /\ dp'[p] = NoInode /\ todo'[p] = s
    <2>1. Done(p, s) /\ Len(s) <= 3
      BY <1>1, <1>2, <1>3
    <2> QED BY <1>3, <2>1, Ends DEF IInv
  <1>5. ASSUME NEW x \in Inums PROVE ref'[x] = ref[x] - Local(p, x) + Local(p, x)'
    <2>1. Local(p, x)' = One(NoInode, x) + One(NoInode, x) + Listed(s, x)
      BY <1>4, LocalIs
    <2>2. /\ Listed(s, x) = One(i, x) /\ Listed(<<>>, x) = 0 /\ One(NoInode, x) = 0
          /\ One(i, x) \in Int /\ ref[x] \in Int
      BY <1>2, ListedOne, ListedNone, OneNone, OneType DEF IInv, Types
    <2>3. Local(p, x) = One(i, x)
      BY <1>1, <2>2 DEF Local
    <2> QED BY <2>1, <2>2, <2>3
  <1> QED BY <1>4, <1>5, Quiet

(* The inode goes to a file structure, or back. *)
LEMMA TakesFd ==
  ASSUME IInv, NEW p \in Procs, ip[p] \in Inums, dp[p] = NoInode, todo[p] = <<>>,
         TakeFd(p), UNCHANGED <<disk, ref, cwd>>,
         valid' \in [Inums -> BOOLEAN], lock' \in [Inums -> Procs \cup {NoOne}],
         type[ip[p]] # "free"
  PROVE  IInv'
  <1>1. CASE file[p] = NoInode
    <2>1. file' = [file EXCEPT ![p] = ip[p]] /\ Done(p, <<>>)
      BY <1>1 DEF TakeFd
    <2>2. /\ Control' /\ Elsewhere(p)
          /\ pc'[p] = "idle" /\ ip'[p] = NoInode /\ dp'[p] = NoInode /\ todo'[p] = <<>>
      <3>1. <<>> \in Seq(Steps) /\ Len(<<>>) <= 3
        OBVIOUS
      <3> QED BY <2>1, <3>1, Ends DEF IInv
    <2>3. Types'
      BY <2>1 DEF IInv, Types, disk
    <2>4. /\ file'[p] = ip[p]
          /\ \A q \in Procs \ {p} : cwd'[q] = cwd[q] /\ file'[q] = file[q]
      BY <2>1 DEF IInv, Types
    <2>5. RefsExact'
      <3>1. PICK i \in Inums : i = ip[p]
        OBVIOUS
      <3>2. ASSUME NEW x \in Inums
            PROVE  ref'[x] = ref[x] - Local(p, x) + Local(p, x)'
                     - One(cwd[p], x) + One(cwd'[p], x) - One(file[p], x) + One(file'[p], x)
        <4>1. Local(p, x)' = One(NoInode, x) + One(NoInode, x) + Listed(<<>>, x)
          BY <2>2, LocalIs
        <4>2. /\ Listed(<<>>, x) = 0 /\ One(NoInode, x) = 0
              /\ One(i, x) \in Int /\ ref[x] \in Int /\ One(cwd[p], x) \in Int
          BY ListedNone, OneNone, OneType DEF IInv, Types
        <4>3. Local(p, x) = One(i, x)
          BY <3>1, <4>2 DEF Local
        <4>4. One(file[p], x) = 0 /\ One(file'[p], x) = One(i, x) /\ cwd'[p] = cwd[p]
          BY <1>1, <2>4, <3>1, <4>2
        <4> QED BY <4>1, <4>2, <4>3, <4>4
      <3> QED BY <2>2, <2>4, <3>2, RefsKept DEF IInv
    <2>6. NewLive'
      BY <2>2 DEF IInv, NewLive, Elsewhere, disk
    <2>7. HeldLive'
      BY <2>4 DEF IInv, HeldLive, disk
    <2> QED BY <2>2, <2>3, <2>5, <2>6, <2>7 DEF IInv
  <1>2. CASE file[p] # NoInode
    <2>1. Done(p, <<Put(ip[p])>>) /\ UNCHANGED file
      BY <1>2 DEF TakeFd
    <2>2. Types'
      BY <2>1 DEF IInv, Types, disk
    <2> QED BY <2>1, <2>2, PutsBack DEF disk
  <1> QED BY <1>1, <1>2

LEMMA LoadedIs ==
  ASSUME Types, NEW i \in Inums, Loaded(i) PROVE valid' \in [Inums -> BOOLEAN]
  BY DEF Types, Loaded

(* The steps that end a call with ip. *)
LEMMA OpenStep ==
  ASSUME IInv, NEW p \in Procs, NEW mode \in {"open", "write"}, sys_open(p, mode)
  PROVE  IInv'
  <1>1. /\ Shape(p) /\ pc[p] = mode /\ todo[p] = <<>>
    BY AtFacts DEF IInv, sys_open
  <1>2. ip[p] \in Inums /\ dp[p] = NoInode
    BY <1>1 DEF Shape, HasIp, HasDp
  <1>3. CASE ~CanLoad(ip[p])
    BY <1>3, Stops DEF sys_open, Panic
  <1>4. CASE CanLoad(ip[p])
    <2>1. Loaded(ip[p]) /\ UNCHANGED <<disk, ref, lock, cwd, calls, panic>>
      BY <1>4 DEF sys_open
    <2>2. valid' \in [Inums -> BOOLEAN]
      BY <1>2, <2>1, LoadedIs DEF IInv
    <2>3. CASE type[ip[p]] = "dir" /\ mode = "write"
      <3>1. Done(p, <<Put(ip[p])>>) /\ UNCHANGED file
        BY <1>4, <2>3 DEF sys_open
      <3>2. Types'
        BY <2>1, <2>2, <3>1 DEF IInv, Types, disk
      <3> QED BY <1>1, <1>2, <2>1, <3>1, <3>2, PutsBack DEF disk
    <2>4. CASE ~(type[ip[p]] = "dir" /\ mode = "write")
      <3>1. TakeFd(p)
        BY <1>4, <2>4 DEF sys_open
      <3>2. lock' \in [Inums -> Procs \cup {NoOne}] /\ type[ip[p]] # "free"
        BY <1>4, <2>1 DEF IInv, Types, CanLoad
      <3> QED BY <1>1, <1>2, <2>1, <2>2, <3>1, <3>2, TakesFd
    <2> QED BY <2>3, <2>4
  <1> QED BY <1>3, <1>4

LEMMA FoundStep ==
  ASSUME IInv, NEW p \in Procs, found(p)
  PROVE  IInv'
  <1>1. /\ Shape(p) /\ pc[p] = "found" /\ todo[p] = <<>>
    BY AtFacts DEF IInv, found
  <1>2. ip[p] \in Inums /\ dp[p] = NoInode
    BY <1>1 DEF Shape, HasIp, HasDp
  <1>3. CASE ~CanLoad(ip[p])
    BY <1>3, Stops DEF found, Panic
  <1>4. CASE CanLoad(ip[p])
    <2>1. Loaded(ip[p]) /\ UNCHANGED <<disk, ref, lock, cwd, calls, panic>>
      BY <1>4 DEF found
    <2>2. valid' \in [Inums -> BOOLEAN]
      BY <1>2, <2>1, LoadedIs DEF IInv
    <2>3. CASE ~(call[p] = "create" /\ type[ip[p]] = "file")
      <3>1. Done(p, <<Put(ip[p])>>) /\ UNCHANGED file
        BY <1>4, <2>3 DEF found
      <3>2. Types'
        BY <2>1, <2>2, <3>1 DEF IInv, Types, disk
      <3> QED BY <1>1, <1>2, <2>1, <3>1, <3>2, PutsBack DEF disk
    <2>4. CASE call[p] = "create" /\ type[ip[p]] = "file"
      <3>1. TakeFd(p)
        BY <1>4, <2>4 DEF found
      <3>2. lock' \in [Inums -> Procs \cup {NoOne}] /\ type[ip[p]] # "free"
        BY <1>4, <2>1 DEF IInv, Types, CanLoad
      <3> QED BY <1>1, <1>2, <2>1, <2>2, <3>1, <3>2, TakesFd
    <2> QED BY <2>3, <2>4
  <1> QED BY <1>3, <1>4

LEMMA CreatedStep ==
  ASSUME IInv, NEW p \in Procs, created(p)
  PROVE  IInv'
  <1>1. /\ Shape(p) /\ pc[p] = "filled" /\ todo[p] = <<>>
    BY AtFacts DEF IInv, created
  <1>2. ip[p] \in Inums /\ dp[p] = NoInode
    BY <1>1 DEF Shape, HasIp, HasDp
  <1>3. UNCHANGED <<disk, ref, valid, cwd, calls, panic>>
    BY DEF created
  <1>4. lock' \in [Inums -> Procs \cup {NoOne}] /\ valid' \in [Inums -> BOOLEAN]
    BY <1>2, <1>3 DEF IInv, Types, created
  <1>5. CASE call[p] = "create"
    <2>1. TakeFd(p) /\ type[ip[p]] # "free"
      BY <1>1, <1>5 DEF created, IInv, NewLive
    <2> QED BY <1>1, <1>2, <1>3, <1>4, <2>1, TakesFd
  <1>6. CASE call[p] # "create"
    <2>1. Done(p, <<Put(ip[p])>>) /\ UNCHANGED file
      BY <1>6 DEF created
    <2>2. Types'
      BY <1>3, <1>4, <2>1 DEF IInv, Types, disk
    <2> QED BY <1>1, <1>2, <1>3, <2>1, <2>2, PutsBack DEF disk
  <1> QED BY <1>5, <1>6

(* namex: a failing walk puts dp; one that goes on puts it for the next. *)
LEMMA NamexStep ==
  ASSUME IInv, NEW p \in Procs, namex(p)
  PROVE  IInv'
  <1>1. /\ Shape(p) /\ pc[p] = "walk" /\ todo[p] = <<>>
        /\ \A x \in Inums : Local(p, x) = One(ip[p], x) + One(dp[p], x)
    BY AtFacts DEF IInv, namex
  <1>2. PICK i \in Inums : i = dp[p]
    BY <1>1 DEF Shape, HasDp
  <1>3. PICK c \in Operations \cup {"link2"} : c = call[p]
    BY <1>1 DEF Shape
  <1>4. PICK rest \in Seq(STRING) : rest = path[p]
    BY DEF IInv, Control
  <1>5. rest # <<>>
    BY <1>1, <1>4 DEF Shape, HasDp
  <1>6. PICK o : o = ip[p]
    OBVIOUS
  <1>7. Keeps(p, c)
    BY <1>1, <1>3 DEF Shape, HasIp, Keeps
  <1>8. CASE ~CanLoad(i)
    <2>1. Panic("no type")
      BY <1>2, <1>8 DEF namex
    <2> QED BY <2>1, Stops DEF Panic
  <1>9. CASE CanLoad(i)
    <2>1. Loaded(i) /\ UNCHANGED <<disk, lock, cwd, file, calls, panic>>
      BY <1>2, <1>9 DEF namex
    <2>2. valid' \in [Inums -> BOOLEAN]
      BY <2>1, LoadedIs DEF IInv
    <2>3. ASSUME ref' \in [Inums -> Int] PROVE Types'
      BY <2>1, <2>2, <2>3 DEF IInv, Types, disk
    <2>4. ASSUME Failed(p, c, <<Put(i)>>), UNCHANGED ref PROVE IInv'
      <3>1. PICK s : s = <<Put(i)>>
        OBVIOUS
      <3>2. s \in Seq(Steps) /\ Len(s) <= 3
        BY <3>1, Lists
      <3>3. Failed(p, c, s)
        BY <2>4, <3>1
      <3>4. /\ Control' /\ Elsewhere(p) /\ pc'[p] \in {"idle", "linkbad"}
            /\ ip'[p] = o /\ dp'[p] = NoInode /\ todo'[p] = s
        BY <1>6, <1>7, <3>2, <3>3, Fails DEF IInv
      <3>5. Types'
        BY <2>3, <2>4 DEF IInv, Types
      <3>6. ASSUME NEW x \in Inums PROVE ref'[x] = ref[x] - Local(p, x) + Local(p, x)'
        <4>1. Local(p, x)' = One(o, x) + One(NoInode, x) + Listed(s, x)
          BY <3>4, LocalIs
        <4>2. /\ One(NoInode, x) = 0 /\ Listed(s, x) = One(i, x)
              /\ One(o, x) \in Int /\ One(i, x) \in Int /\ ref[x] \in Int
          BY <3>1, OneNone, ListedOne, OneType DEF IInv, Types
        <4>3. Local(p, x) = One(o, x) + One(i, x)
          BY <1>1, <1>2, <1>6
        <4> QED BY <2>4, <4>1, <4>2, <4>3
      <3> QED BY <2>1, <3>4, <3>5, <3>6, Quiet DEF disk
    <2>5. CASE type[i] # "dir" \/ (~(WantsParent(c) /\ Len(rest) = 1) /\ Head(rest) \notin DOMAIN ents[i])
      <3>1. Failed(p, c, <<Put(i)>>) /\ UNCHANGED ref
        BY <1>2, <1>3, <1>4, <1>9, <2>5 DEF namex
      <3> QED BY <2>4, <3>1
    <2>6. CASE type[i] = "dir" /\ WantsParent(c) /\ Len(rest) = 1
      <3>1. Go(p, c, o, i, <<>>) /\ UNCHANGED ref
        BY <1>2, <1>3, <1>4, <1>6, <1>9, <2>6 DEF namex
      <3>2. /\ c \in HasDp /\ c \in Labels /\ c # "walk" /\ c \notin {"made", "filled"}
            /\ c \in HasIp => c = "link2"
            /\ c = "link2" => c \in HasIp
        BY <2>6 DEF WantsParent, HasDp, HasIp, Labels
      <3>3. /\ o \in IF c \in HasIp \/ (c = "walk" /\ call[p] = "link2") THEN Inums ELSE {NoInode}
            /\ i \in IF c \in HasDp THEN Inums ELSE {NoInode}
            /\ c \in HasDp => path[p] # <<>>
            /\ c = "walk" => call[p] # "none"
        BY <1>4, <1>5, <1>6, <1>7, <3>2 DEF Keeps
      <3>4. <<>> \in Seq(Steps) /\ Len(<<>>) <= 3
        OBVIOUS
      <3>5. /\ Control' /\ Elsewhere(p)
            /\ pc'[p] = c /\ ip'[p] = o /\ dp'[p] = i /\ todo'[p] = <<>>
        BY <3>1, <3>2, <3>3, <3>4, Goes DEF IInv
      <3>6. Types'
        BY <2>3, <3>1 DEF IInv, Types
      <3>7. ASSUME NEW x \in Inums PROVE ref'[x] = ref[x] - Local(p, x) + Local(p, x)'
        <4>1. Local(p, x)' = One(o, x) + One(i, x) + Listed(<<>>, x)
          BY <3>5, LocalIs
        <4>2. /\ Listed(<<>>, x) = 0
              /\ One(o, x) \in Int /\ One(i, x) \in Int /\ ref[x] \in Int
          BY ListedNone, OneType DEF IInv, Types
        <4>3. Local(p, x) = One(o, x) + One(i, x)
          BY <1>1, <1>2, <1>6
        <4> QED BY <3>1, <4>1, <4>2, <4>3
      <3> QED BY <2>1, <3>2, <3>5, <3>6, <3>7, Quiet DEF disk
    <2>7. CASE /\ type[i] = "dir" /\ ~(WantsParent(c) /\ Len(rest) = 1)
               /\ Head(rest) \in DOMAIN ents[i]
      <3>1. PICK next \in Inums : next = ents[i][Head(rest)]
        BY <2>7 DEF IInv, Types
      <3>2. PICK left : left = Tail(rest)
        OBVIOUS
      <3>3. left \in Seq(STRING)
        BY ONLY <1>5, <3>2, HeadTailProperties
      <3>4. PICK s : s = <<Put(i)>>
        OBVIOUS
      <3>5. ref' = Taken(next) /\ Arrive(p, c, next, left, s)
        BY <1>2, <1>3, <1>4, <1>9, <2>7, <3>1, <3>2, <3>4 DEF namex
      <3>7. s \in Owed
        BY <3>4 DEF Owed
      <3>8. /\ Control' /\ Elsewhere(p) /\ pc'[p] \notin {"made", "filled"}
            /\ \A x \in Inums : Local(p, x)' = One(ip[p], x) + One(next, x) + Listed(s, x)
        BY <1>7, <3>3, <3>5, <3>7, Arrives DEF IInv
      <3>9. ref' \in [Inums -> Int] /\ \A x \in Inums : ref'[x] = ref[x] + One(next, x)
        BY <3>5, TakenIs DEF IInv, Types
      <3>10. Types'
        BY <2>3, <3>9
      <3>11. ASSUME NEW x \in Inums PROVE ref'[x] = ref[x] - Local(p, x) + Local(p, x)'
        <4>1. /\ Listed(s, x) = One(i, x) /\ One(o, x) \in Int /\ One(i, x) \in Int
              /\ One(next, x) \in Int /\ ref[x] \in Int
          BY <3>4, ListedOne, OneType DEF IInv, Types
        <4>2. /\ Local(p, x) = One(o, x) + One(i, x)
              /\ Local(p, x)' = One(o, x) + One(next, x) + Listed(s, x)
          BY <1>1, <1>2, <1>6, <3>8
        <4> QED BY <3>9, <4>1, <4>2
      <3> QED BY <2>1, <3>8, <3>10, <3>11, Quiet DEF disk
    <2> QED BY <2>5, <2>6, <2>7
  <1> QED BY <1>8, <1>9

-----------------------------------------------------------------------------
(* The rest of unlink, link and the calls without a name. *)
LEMMA UnlinkedStep ==
  ASSUME IInv, NEW p \in Procs, unlinked(p)
  PROVE  IInv'
  <1>1. /\ Shape(p) /\ pc[p] = "unlinked" /\ todo[p] = <<>>
    BY AtFacts DEF IInv, unlinked
  <1>2. ip[p] \in Inums /\ dp[p] = NoInode
    BY <1>1 DEF Shape, HasIp, HasDp
  <1>3. Done(p, <<Put(ip[p])>>) /\ UNCHANGED <<type, ref, cwd, file>>
    BY DEF unlinked
  <1>4. Types'
    BY <1>2 DEF IInv, Types, unlinked
  <1> QED BY <1>1, <1>2, <1>3, <1>4, PutsBack

LEMMA LinkbadStep ==
  ASSUME IInv, NEW p \in Procs, linkbad(p)
  PROVE  IInv'
  <1>1. /\ Shape(p) /\ pc[p] = "linkbad" /\ todo[p] = <<>>
    BY AtFacts DEF IInv, linkbad
  <1>2. ip[p] \in Inums /\ dp[p] = NoInode
    BY <1>1 DEF Shape, HasIp, HasDp
  <1>3. Done(p, <<Put(ip[p])>>) /\ UNCHANGED <<type, ref, cwd, file>>
    BY DEF linkbad
  <1>4. Types'
    BY <1>2 DEF IInv, Types, linkbad
  <1> QED BY <1>1, <1>2, <1>3, <1>4, PutsBack

(* p has put what it had and taken another; only cwd may change hands. *)
LEMMA ChdirStep ==
  ASSUME IInv, NEW p \in Procs, sys_chdir(p)
  PROVE  IInv'
  <1>1. /\ Shape(p) /\ pc[p] = "chdir" /\ todo[p] = <<>>
        /\ \A x \in Inums : Local(p, x) = One(ip[p], x) + One(dp[p], x)
    BY AtFacts DEF IInv, sys_chdir
  <1>2. PICK i \in Inums : i = ip[p]
    BY <1>1 DEF Shape, HasIp
  <1>3. dp[p] = NoInode
    BY <1>1 DEF Shape, HasDp
  <1>4. CASE ~CanLoad(i)
    BY <1>2, <1>4, Stops DEF sys_chdir, Panic
  <1>5. CASE CanLoad(i)
    <2>1. Loaded(i) /\ UNCHANGED <<disk, ref, lock, file>>
      BY <1>2, <1>5 DEF sys_chdir
    <2>2. valid' \in [Inums -> BOOLEAN]
      BY <2>1, LoadedIs DEF IInv
    <2>3. CASE type[i] # "dir"
      <3>1. Done(p, <<Put(ip[p])>>) /\ UNCHANGED cwd
        BY <1>2, <1>5, <2>3 DEF sys_chdir
      <3>2. Types'
        BY <2>1, <2>2, <3>1 DEF IInv, Types, disk
      <3> QED BY <1>1, <1>2, <1>3, <2>1, <3>1, <3>2, PutsBack DEF disk
    <2>4. CASE type[i] = "dir"
      <3>1. Done(p, <<Put(cwd[p])>>) /\ cwd' = [cwd EXCEPT ![p] = i]
        BY <1>2, <1>5, <2>4 DEF sys_chdir
      <3>2. PICK w \in Inums : w = cwd[p]
        BY DEF IInv, Types
      <3>3. PICK s : s = <<Put(w)>>
        OBVIOUS
      <3>4. s \in Seq(Steps) /\ Len(s) <= 3 /\ Done(p, s)
        BY <3>1, <3>2, <3>3, Lists
      <3>5. /\ Control' /\ Elsewhere(p)
            /\ pc'[p] = "idle" /\ ip'[p] = NoInode /\ dp'[p] = NoInode /\ todo'[p] = s
        BY <3>4, Ends DEF IInv
      <3>6. Types'
        BY <2>1, <2>2, <3>1 DEF IInv, Types, disk
      <3>7. /\ cwd'[p] = i
            /\ \A q \in Procs \ {p} : cwd'[q] = cwd[q] /\ file'[q] = file[q]
        BY <2>1, <3>1 DEF IInv, Types
      <3>8. RefsExact'
        <4>1. ASSUME NEW x \in Inums
              PROVE  ref'[x] = ref[x] - Local(p, x) + Local(p, x)'
                       - One(cwd[p], x) + One(cwd'[p], x) - One(file[p], x) + One(file'[p], x)
          <5>1. Local(p, x)' = One(NoInode, x) + One(NoInode, x) + Listed(s, x)
            BY <3>5, LocalIs
          <5>2. /\ Listed(s, x) = One(w, x) /\ One(NoInode, x) = 0
                /\ One(i, x) \in Int /\ One(w, x) \in Int /\ ref[x] \in Int
                /\ One(file[p], x) \in Int
            BY <3>3, ListedOne, OneNone, OneType DEF IInv, Types
          <5>3. Local(p, x) = One(i, x)
            BY <1>1, <1>2, <1>3, <5>2
          <5>4. One(cwd[p], x) = One(w, x) /\ One(cwd'[p], x) = One(i, x) /\ file' = file /\ ref' = ref
            BY <2>1, <3>2, <3>7
          <5> QED BY <5>1, <5>2, <5>3, <5>4
        <4> QED BY <3>5, <3>7, <4>1, RefsKept DEF IInv
      <3>9. NewLive' /\ HeldLive'
        BY <2>1, <2>4, <3>5, <3>7 DEF IInv, NewLive, HeldLive, Elsewhere, disk
      <3> QED BY <3>5, <3>6, <3>8, <3>9 DEF IInv
    <2> QED BY <2>3, <2>4
  <1> QED BY <1>4, <1>5

LEMMA CloseStep ==
  ASSUME IInv, NEW p \in Procs, sys_close(p)
  PROVE  IInv'
  <1>1. /\ Shape(p) /\ pc[p] = "idle" /\ todo[p] = <<>>
        /\ \A x \in Inums : Local(p, x) = One(ip[p], x) + One(dp[p], x)
    BY AtFacts DEF IInv, sys_close
  <1>2. ip[p] = NoInode /\ dp[p] = NoInode
    BY <1>1 DEF Shape, HasIp, HasDp
  <1>3. PICK i \in Inums : i = file[p]
    BY DEF sys_close, IInv, Types
  <1>4. PICK s : s = <<Put(i)>>
    OBVIOUS
  <1>5. /\ file' = [file EXCEPT ![p] = NoInode] /\ Done(p, s)
        /\ UNCHANGED <<disk, cache, cwd>>
    BY <1>3, <1>4 DEF sys_close
  <1>6. s \in Seq(Steps) /\ Len(s) <= 3
    BY <1>4, Lists
  <1>7. /\ Control' /\ Elsewhere(p)
        /\ pc'[p] = "idle" /\ ip'[p] = NoInode /\ dp'[p] = NoInode /\ todo'[p] = s
    BY <1>5, <1>6, Ends DEF IInv
  <1>8. Types'
    BY <1>5 DEF IInv, Types, disk, cache
  <1>9. /\ file'[p] = NoInode
        /\ \A q \in Procs \ {p} : cwd'[q] = cwd[q] /\ file'[q] = file[q]
    BY <1>5 DEF IInv, Types
  <1>10. RefsExact'
    <2>1. ASSUME NEW x \in Inums
          PROVE  ref'[x] = ref[x] - Local(p, x) + Local(p, x)'
                   - One(cwd[p], x) + One(cwd'[p], x) - One(file[p], x) + One(file'[p], x)
      <3>1. Local(p, x)' = One(NoInode, x) + One(NoInode, x) + Listed(s, x)
        BY <1>7, LocalIs
      <3>2. /\ Listed(s, x) = One(i, x) /\ One(NoInode, x) = 0
            /\ One(i, x) \in Int /\ One(cwd[p], x) \in Int /\ ref[x] \in Int
        BY <1>4, ListedOne, OneNone, OneType DEF IInv, Types
      <3>3. Local(p, x) = 0
        BY <1>1, <1>2, <3>2
      <3>4. One(file[p], x) = One(i, x) /\ One(file'[p], x) = 0 /\ cwd' = cwd /\ ref' = ref
        BY <1>3, <1>5, <1>9, <3>2 DEF cache
      <3> QED BY <3>1, <3>2, <3>3, <3>4
    <2> QED BY <1>7, <1>9, <2>1, RefsKept DEF IInv
  <1>11. NewLive' /\ HeldLive'
    BY <1>5, <1>7, <1>9 DEF IInv, NewLive, HeldLive, Elsewhere, disk
  <1> QED BY <1>7, <1>8, <1>10, <1>11 DEF IInv

(* The same for a step whose pointers are counted by hand. *)
LEMMA EndsQuiet ==
  ASSUME IInv, NEW p \in Procs, NEW s \in Seq(Steps), Len(s) <= 3, Done(p, s),
         Types', UNCHANGED <<type, cwd, file>>,
         \A x \in Inums : ref'[x] = ref[x] - Local(p, x) + Listed(s, x)
  PROVE  IInv'
  <1>1. /\ Control' /\ Elsewhere(p)
        /\ pc'[p] = "idle" /\ ip'[p] = NoInode /\ dp'[p] = NoInode /\ todo'[p] = s
    BY Ends DEF IInv
  <1>2. ASSUME NEW x \in Inums PROVE ref'[x] = ref[x] - Local(p, x) + Local(p, x)'
    <2>1. Local(p, x)' = One(NoInode, x) + One(NoInode, x) + Listed(s, x)
      BY <1>1, LocalIs
    <2>2. One(NoInode, x) = 0 /\ Listed(s, x) \in Int
      BY OneNone, OneType
    <2> QED BY <2>1, <2>2
  <1> QED BY <1>1, <1>2, Quiet

(* What a step that goes on at l must find, and leaves in dp. *)
Fits(p, l, d) ==
  /\ l \in HasIp /\ d \in IF l \in HasDp THEN Inums ELSE {NoInode}
  /\ l \in HasDp => path[p] # <<>>
  /\ l # "walk"

LEMMA GoesQuiet ==
  ASSUME IInv, NEW p \in Procs, NEW l \in Labels, NEW i \in Inums,
         NEW d \in Inums \cup {NoInode}, NEW s \in Seq(Steps), Len(s) <= 3,
         Go(p, l, i, d, s), Fits(p, l, d),
         l \notin {"made", "filled"} \/ type[i] # "free",
         Types', UNCHANGED <<type, cwd, file>>,
         \A x \in Inums : ref'[x] = ref[x] - Local(p, x) + One(i, x) + One(d, x) + Listed(s, x)
  PROVE  IInv'
  <1>1. /\ Control' /\ Elsewhere(p)
        /\ pc'[p] = l /\ ip'[p] = i /\ dp'[p] = d /\ todo'[p] = s
    <2>1. /\ i \in IF l \in HasIp \/ (l = "walk" /\ call[p] = "link2") THEN Inums ELSE {NoInode}
          /\ d \in IF l \in HasDp THEN Inums ELSE {NoInode}
          /\ l \in HasDp => path[p] # <<>>
          /\ l = "walk" => call[p] # "none"
      BY DEF Fits
    <2> QED BY <2>1, Goes DEF IInv
  <1>2. ASSUME NEW x \in Inums PROVE ref'[x] = ref[x] - Local(p, x) + Local(p, x)'
    <2>1. Local(p, x)' = One(i, x) + One(d, x) + Listed(s, x)
      BY <1>1, LocalIs
    <2>2. /\ One(i, x) \in Int /\ One(d, x) \in Int /\ Listed(s, x) \in Int
          /\ ref[x] \in Int /\ Local(p, x) \in Int
      BY OneType, LocalType DEF IInv, Types
    <2> QED BY <2>1, <2>2
  <1> QED BY <1>1, <1>2, Quiet

(* One more reference than before. *)
LEMMA RefType ==
  ASSUME Types, NEW i \in Inums, NEW x \in Inums
  PROVE  /\ ref[x] \in Int /\ One(NoInode, x) = 0 /\ One(i, x) \in Int
         /\ Listed(<<>>, x) = 0 /\ Listed(<<Put(i)>>, x) = One(i, x)
         /\ <<>> \in Seq(Steps) /\ Len(<<>>) <= 3
         /\ <<Put(i)>> \in Seq(Steps) /\ Len(<<Put(i)>>) <= 3
  BY OneNone, OneType, ListedNone, ListedOne, Lists DEF Types

LEMMA UnlinkStep ==
  ASSUME IInv, NEW p \in Procs, sys_unlink(p)
  PROVE  IInv'
  <1>1. /\ Shape(p) /\ pc[p] = "unlink" /\ todo[p] = <<>>
        /\ \A x \in Inums : Local(p, x) = One(ip[p], x) + One(dp[p], x)
    BY AtFacts DEF IInv, sys_unlink
  <1>2. PICK d \in Inums : d = dp[p]
    BY <1>1 DEF Shape, HasDp
  <1>3. ip[p] = NoInode /\ path[p] # <<>>
    BY <1>1 DEF Shape, HasIp, HasDp
  <1>4. \A x \in Inums : Local(p, x) = One(d, x)
    BY <1>1, <1>2, <1>3, OneNone, OneType
  <1>5. UNCHANGED <<disk, valid, cwd, file>>
    BY DEF sys_unlink
  <1>6. CASE Name(p) \in Dots \/ Name(p) \notin DOMAIN ents[d]
    <2>1. Done(p, <<Put(d)>>) /\ UNCHANGED <<ref, lock>>
      BY <1>2, <1>6 DEF sys_unlink
    <2>2. Types'
      BY <1>5, <2>1 DEF IInv, Types, disk
    <2>3. PICK s \in Seq(Steps) : s = <<Put(d)>> /\ Len(s) <= 3
      BY RefType DEF IInv
    <2>4. ASSUME NEW x \in Inums PROVE ref'[x] = ref[x] - Local(p, x) + Listed(s, x)
      <3>1. Listed(s, x) = One(d, x) /\ ref[x] \in Int /\ One(d, x) \in Int /\ ref' = ref
        BY <2>1, <2>3, RefType DEF IInv
      <3> QED BY <1>4, <3>1
    <2> QED BY <1>5, <2>1, <2>2, <2>3, <2>4, EndsQuiet DEF disk
  <1>7. CASE ~(Name(p) \in Dots \/ Name(p) \notin DOMAIN ents[d])
    <2>1. PICK i \in Inums : i = ents[d][Name(p)]
      BY <1>7 DEF IInv, Types
    <2>2. ref' = Taken(i) /\ lock' = [lock EXCEPT ![d] = p] /\ Go(p, "erase", i, d, <<>>)
      BY <1>2, <1>7, <2>1 DEF sys_unlink
    <2>3. ref' \in [Inums -> Int] /\ \A x \in Inums : ref'[x] = ref[x] + One(i, x)
      BY <2>2, TakenIs DEF IInv, Types
    <2>4. Types'
      BY <1>5, <2>2, <2>3 DEF IInv, Types, disk
    <2>5. "erase" \in Labels /\ Fits(p, "erase", d)
      BY <1>3 DEF Labels, HasIp, HasDp, Fits
    <2>6. ASSUME NEW x \in Inums
          PROVE  ref'[x] = ref[x] - Local(p, x) + One(i, x) + One(d, x) + Listed(<<>>, x)
      <3>1. ref[x] \in Int /\ One(i, x) \in Int /\ One(d, x) \in Int /\ Listed(<<>>, x) = 0
        BY RefType DEF IInv
      <3> QED BY <1>4, <2>3, <3>1
    <2>7. PICK s \in Seq(Steps) : s = <<>> /\ Len(s) <= 3
      BY RefType DEF IInv
    <2>8. PICK l \in Labels : l = "erase"
      BY <2>5
    <2>9. /\ l \notin {"made", "filled"} \/ type[i] # "free"
          /\ Go(p, l, i, d, s) /\ Fits(p, l, d) /\ d \in Inums \cup {NoInode}
          /\ UNCHANGED <<type, cwd, file>>
          /\ \A x \in Inums :
               ref'[x] = ref[x] - Local(p, x) + One(i, x) + One(d, x) + Listed(s, x)
      BY <1>5, <2>2, <2>5, <2>6, <2>7, <2>8 DEF disk
    <2> QED BY <2>4, <2>7, <2>9, GoesQuiet
  <1> QED BY <1>6, <1>7

LEMMA EraseStep ==
  ASSUME IInv, NEW p \in Procs, erase(p)
  PROVE  IInv'
  <1>1. /\ Shape(p) /\ pc[p] = "erase" /\ todo[p] = <<>>
        /\ \A x \in Inums : Local(p, x) = One(ip[p], x) + One(dp[p], x)
    BY AtFacts DEF IInv, erase
  <1>2. PICK i \in Inums : i = ip[p]
    BY <1>1 DEF Shape, HasIp
  <1>3. PICK d \in Inums : d = dp[p]
    BY <1>1 DEF Shape, HasDp
  <1>4. \A x \in Inums : Local(p, x) = One(i, x) + One(d, x)
    BY <1>1, <1>2, <1>3
  <1>5. CASE ~CanLoad(i) \/ nlink[i] < 1
    BY <1>2, <1>5, Stops DEF erase, Panic
  <1>6. CASE ~(~CanLoad(i) \/ nlink[i] < 1)
    <2>1. Loaded(i) /\ UNCHANGED <<type, ref, cwd, file>>
      BY <1>2, <1>6 DEF erase
    <2>2. valid' \in [Inums -> BOOLEAN]
      BY <2>1, LoadedIs DEF IInv
    <2>3. CASE type[i] = "dir" /\ ~isdirempty(i)
      <3>1. Done(p, <<Put(i), Unlock(d), Put(d)>>) /\ UNCHANGED <<ents, nlink, lock>>
        BY <1>2, <1>3, <1>6, <2>3 DEF erase
      <3>2. Types'
        BY <2>1, <2>2, <3>1 DEF IInv, Types
      <3>3. PICK s \in Seq(Steps) : s = <<Put(i), Unlock(d), Put(d)>> /\ Len(s) <= 3
        <4>1. Put(i) \in Steps /\ Unlock(d) \in Steps /\ Put(d) \in Steps
          BY Lists
        <4>2. <<Put(i), Unlock(d), Put(d)>> \in Seq(Steps) /\ Len(<<Put(i), Unlock(d), Put(d)>>) = 3
          BY <4>1, Lists
        <4>3. PICK s : s = <<Put(i), Unlock(d), Put(d)>>
          OBVIOUS
        <4>4. s \in Seq(Steps) /\ Len(s) <= 3
          BY <4>2, <4>3
        <4> QED BY <4>3, <4>4
      <3>4. ASSUME NEW x \in Inums PROVE ref'[x] = ref[x] - Local(p, x) + Listed(s, x)
        <4>1. /\ Listed(s, x) = One(i, x) + One(d, x) /\ ref[x] \in Int
              /\ One(i, x) \in Int /\ One(d, x) \in Int /\ ref' = ref
          BY <2>1, <3>3, ListedThree, RefType DEF IInv
        <4> QED BY <1>4, <4>1
      <3> QED BY <2>1, <3>1, <3>2, <3>3, <3>4, EndsQuiet
    <2>4. CASE ~(type[i] = "dir" /\ ~isdirempty(i))
      <3>1. /\ ents' = [ents EXCEPT ![d] = Without(d, Name(p))]
            /\ nlink' = IF type[i] = "dir" THEN [nlink EXCEPT ![d] = @ - 1] ELSE nlink
            /\ lock' = [lock EXCEPT ![d] = NoOne, ![i] = p]
            /\ Go(p, "unlinked", i, NoInode, <<Put(d)>>)
        BY <1>2, <1>3, <1>6, <2>4 DEF erase
      <3>2. PICK rest : rest = Without(d, Name(p))
        OBVIOUS
      <3>3. \A n \in DOMAIN rest : rest[n] \in Inums
        BY <3>2 DEF IInv, Types, Without
      <3>4. /\ ents' = [k \in Inums |-> ents'[k]]
            /\ \A k \in Inums : \A n \in DOMAIN ents'[k] : ents'[k][n] \in Inums
        BY <3>1, <3>2, <3>3 DEF IInv, Types
      <3>5. nlink' \in [Inums -> Int] /\ lock' \in [Inums -> Procs \cup {NoOne}]
        BY <3>1 DEF IInv, Types
      <3>6. Types'
        BY <2>1, <2>2, <3>4, <3>5 DEF IInv, Types
      <3>7. "unlinked" \in Labels /\ Fits(p, "unlinked", NoInode)
        BY DEF Labels, HasIp, HasDp, Fits
      <3>8. PICK s \in Seq(Steps) : s = <<Put(d)>> /\ Len(s) <= 3
        BY RefType DEF IInv
      <3>9. ASSUME NEW x \in Inums
            PROVE  ref'[x] = ref[x] - Local(p, x) + One(i, x) + One(NoInode, x) + Listed(s, x)
        <4>1. /\ ref[x] \in Int /\ One(i, x) \in Int /\ One(d, x) \in Int
              /\ Listed(s, x) = One(d, x) /\ One(NoInode, x) = 0 /\ ref' = ref
          BY <2>1, <3>8, RefType DEF IInv
        <4> QED BY <1>4, <4>1
      <3>10. PICK l \in Labels : l = "unlinked"
        BY <3>7
      <3>11. PICK o \in Inums \cup {NoInode} : o = NoInode
        OBVIOUS
      <3>12. /\ l \notin {"made", "filled"} \/ type[i] # "free"
             /\ Go(p, l, i, o, s) /\ Fits(p, l, o) /\ UNCHANGED <<type, cwd, file>>
             /\ \A x \in Inums :
                  ref'[x] = ref[x] - Local(p, x) + One(i, x) + One(o, x) + Listed(s, x)
        BY <2>1, <3>1, <3>7, <3>8, <3>9, <3>10, <3>11
      <3> QED BY <3>6, <3>8, <3>12, GoesQuiet
    <2> QED BY <2>3, <2>4
  <1> QED BY <1>5, <1>6

LEMMA LinkStep ==
  ASSUME IInv, NEW p \in Procs, sys_link(p)
  PROVE  IInv'
  <1>1. /\ Shape(p) /\ pc[p] = "link" /\ todo[p] = <<>>
        /\ \A x \in Inums : Local(p, x) = One(ip[p], x) + One(dp[p], x)
    BY AtFacts DEF IInv, sys_link
  <1>2. PICK i \in Inums : i = ip[p]
    BY <1>1 DEF Shape, HasIp
  <1>3. dp[p] = NoInode
    BY <1>1 DEF Shape, HasDp
  <1>4. CASE ~CanLoad(i)
    BY <1>2, <1>4, Stops DEF sys_link, Panic
  <1>5. CASE CanLoad(i)
    <2>1. Loaded(i) /\ UNCHANGED <<type, ents, lock, cwd, file>>
      BY <1>2, <1>5 DEF sys_link
    <2>2. valid' \in [Inums -> BOOLEAN]
      BY <2>1, LoadedIs DEF IInv
    <2>3. CASE type[i] = "dir"
      <3>1. Done(p, <<Put(ip[p])>>) /\ UNCHANGED <<nlink, ref>>
        BY <1>2, <1>5, <2>3 DEF sys_link
      <3>2. Types'
        BY <2>1, <2>2, <3>1 DEF IInv, Types
      <3> QED BY <1>1, <1>2, <1>3, <2>1, <3>1, <3>2, PutsBack
    <2>4. CASE type[i] # "dir"
      <3>1. PICK new \in Paths : Start(p, "link2", new)
        BY <1>2, <1>5, <2>4 DEF sys_link
      <3>2. nlink' = [nlink EXCEPT ![i] = @ + 1]
        BY <1>2, <1>5, <2>4 DEF sys_link
      <3>3. PICK c \in Operations \cup {"link2"} : c = "link2"
        OBVIOUS
      <3>4. Keeps(p, c) /\ Start(p, c, new)
        BY <1>2, <3>1, <3>3 DEF Keeps
      <3>5. /\ Control' /\ Elsewhere(p) /\ pc'[p] \notin {"made", "filled"}
            /\ ref' \in [Inums -> Int]
            /\ \A x \in Inums : ref'[x] = ref[x] - One(ip[p], x) + Local(p, x)'
        BY <3>4, Starts DEF IInv
      <3>6. Types'
        <4>1. nlink' \in [Inums -> Int]
          BY <3>2 DEF IInv, Types
        <4>2. UNCHANGED <<type, ents, lock, cwd, file>> /\ ref' \in [Inums -> Int]
          BY <2>1, <3>5
        <4> QED BY <2>2, <4>1, <4>2 DEF IInv, Types
      <3>7. ASSUME NEW x \in Inums PROVE ref'[x] = ref[x] - Local(p, x) + Local(p, x)'
        <4>1. Local(p, x) = One(ip[p], x)
          BY <1>1, <1>3, OneNone, OneType
        <4> QED BY <3>5, <4>1
      <3> QED BY <2>1, <3>5, <3>6, <3>7, Quiet
    <2> QED BY <2>3, <2>4
  <1> QED BY <1>4, <1>5

(* What dirlink looks up it puts, like the parent and the new link. *)
LEMMA DirlinkStep ==
  ASSUME IInv, NEW p \in Procs, dirlink(p)
  PROVE  IInv'
  <1>1. /\ Shape(p) /\ pc[p] = "link2" /\ todo[p] = <<>>
        /\ \A x \in Inums : Local(p, x) = One(ip[p], x) + One(dp[p], x)
    BY AtFacts DEF IInv, dirlink
  <1>2. PICK i \in Inums : i = ip[p]
    BY <1>1 DEF Shape, HasIp
  <1>3. PICK d \in Inums : d = dp[p]
    BY <1>1 DEF Shape, HasDp
  <1>4. \A x \in Inums : Local(p, x) = One(i, x) + One(d, x)
    BY <1>1, <1>2, <1>3
  <1>5. UNCHANGED <<type, nlink, valid, cwd, file>>
    BY DEF dirlink
  <1>6. CASE Name(p) \in DOMAIN ents[d]
    <2>1. PICK x \in Inums : x = ents[d][Name(p)]
      BY <1>6 DEF IInv, Types
    <2>2. /\ ref' = Taken(x) /\ lock' = [lock EXCEPT ![d] = p] /\ UNCHANGED ents
          /\ Go(p, "linkbad", i, NoInode, <<Put(x), Unlock(d), Put(d)>>)
      BY <1>2, <1>3, <1>6, <2>1 DEF dirlink
    <2>3. ref' \in [Inums -> Int] /\ \A y \in Inums : ref'[y] = ref[y] + One(x, y)
      BY <2>2, TakenIs DEF IInv, Types
    <2>4. Types'
      BY <1>5, <2>2, <2>3 DEF IInv, Types
    <2>5. PICK s : s = <<Put(x), Unlock(d), Put(d)>>
      OBVIOUS
    <2>6. s \in Seq(Steps) /\ Len(s) <= 3
      <3>1. Put(x) \in Steps /\ Unlock(d) \in Steps /\ Put(d) \in Steps
        BY Lists
      <3>2. <<Put(x), Unlock(d), Put(d)>> \in Seq(Steps) /\ Len(<<Put(x), Unlock(d), Put(d)>>) = 3
        BY <3>1, Lists
      <3> QED BY <2>5, <3>2
    <2>7. PICK l \in Labels : l = "linkbad"
      BY DEF Labels, HasIp
    <2>8. PICK o \in Inums \cup {NoInode} : o = NoInode
      OBVIOUS
    <2>9. Fits(p, l, o)
      BY <2>7, <2>8 DEF Fits, HasIp, HasDp
    <2>10. ASSUME NEW y \in Inums
           PROVE  ref'[y] = ref[y] - Local(p, y) + One(i, y) + One(o, y) + Listed(s, y)
      <3>1. /\ ref[y] \in Int /\ One(i, y) \in Int /\ One(d, y) \in Int /\ One(x, y) \in Int
            /\ Listed(s, y) = One(x, y) + One(d, y) /\ One(o, y) = 0
        BY <2>5, <2>8, ListedThree, RefType, OneType DEF IInv
      <3> QED BY <1>4, <2>3, <3>1
    <2>11. /\ l \notin {"made", "filled"} \/ type[i] # "free"
           /\ Go(p, l, i, o, s) /\ UNCHANGED <<type, cwd, file>>
      BY <1>5, <2>2, <2>5, <2>7, <2>8
    <2> QED BY <2>4, <2>6, <2>9, <2>10, <2>11, GoesQuiet
  <1>7. CASE Name(p) \notin DOMAIN ents[d]
    <2>1. /\ ents' = [ents EXCEPT ![d] = With(d, Name(p), i)]
          /\ Done(p, <<Put(d), Put(i)>>) /\ UNCHANGED <<ref, lock>>
      BY <1>2, <1>3, <1>7 DEF dirlink
    <2>2. PICK w : w = With(d, Name(p), i)
      OBVIOUS
    <2>3. \A n \in DOMAIN w : w[n] \in Inums
      BY <2>2 DEF IInv, Types, With
    <2>4. /\ ents' = [k \in Inums |-> ents'[k]]
          /\ \A k \in Inums : \A n \in DOMAIN ents'[k] : ents'[k][n] \in Inums
      BY <2>1, <2>2, <2>3 DEF IInv, Types
    <2>5. Types'
      BY <1>5, <2>1, <2>4 DEF IInv, Types
    <2>6. PICK s : s = <<Put(d), Put(i)>>
      OBVIOUS
    <2>7. s \in Seq(Steps) /\ Len(s) = 2 /\ s[1] = Put(d) /\ s[2] = Put(i)
      <3>1. Put(d) \in Steps /\ Put(i) \in Steps
        BY Lists
      <3> QED BY <2>6, <3>1
    <2>8. ASSUME NEW y \in Inums PROVE ref'[y] = ref[y] - Local(p, y) + Listed(s, y)
      <3>1. Listed(s, y) = One(d, y) + One(i, y)
        BY <2>7, ListedTwo
      <3>2. /\ ref[y] \in Int /\ One(i, y) \in Int /\ One(d, y) \in Int /\ ref' = ref
        BY <2>1, RefType, OneType DEF IInv
      <3> QED BY <1>4, <3>1, <3>2
    <2>9. Len(s) <= 3 /\ Done(p, s) /\ UNCHANGED <<type, cwd, file>>
      BY <1>5, <2>1, <2>6, <2>7
    <2> QED BY <2>5, <2>7, <2>8, <2>9, EndsQuiet
  <1> QED BY <1>6, <1>7

-----------------------------------------------------------------------------
(* create.  A new directory's dots are entries, not references. *)
LEMMA LinkNewStep ==
  ASSUME IInv, NEW p \in Procs, link_new(p)
  PROVE  IInv'
  <1>1. /\ Shape(p) /\ pc[p] = "made" /\ todo[p] = <<>>
        /\ \A x \in Inums : Local(p, x) = One(ip[p], x) + One(dp[p], x)
    BY AtFacts DEF IInv, link_new
  <1>2. PICK i \in Inums : i = ip[p]
    BY <1>1 DEF Shape, HasIp
  <1>3. PICK d \in Inums : d = dp[p]
    BY <1>1 DEF Shape, HasDp
  <1>4. \A x \in Inums : Local(p, x) = One(i, x) + One(d, x)
    BY <1>1, <1>2, <1>3
  <1>5. type[i] # "free"
    BY <1>1, <1>2 DEF IInv, NewLive
  <1>6. UNCHANGED <<type, ref, cwd, file>> /\ Loaded(i)
    BY <1>2 DEF link_new
  <1>7. valid' \in [Inums -> BOOLEAN]
    BY <1>6, LoadedIs DEF IInv
  <1>8. lock' \in [Inums -> Procs \cup {NoOne}]
    BY <1>2, <1>3 DEF link_new, IInv, Types
  <1>9. nlink' \in [Inums -> Int]
    BY <1>2, <1>3 DEF link_new, IInv, Types
  <1>10. /\ ents' = [k \in Inums |-> ents'[k]]
         /\ \A k \in Inums : \A n \in DOMAIN ents'[k] : ents'[k][n] \in Inums
    <2>1. PICK w : w = With(d, Name(p), i)
      OBVIOUS
    <2>2. \A n \in DOMAIN w : w[n] \in Inums
      BY <2>1 DEF IInv, Types, With
    <2>3. PICK e : e = DotsOf(i, d)
      OBVIOUS
    <2>4. \A n \in DOMAIN e : e[n] \in Inums
      BY <2>3 DEF DotsOf
    <2>5. \/ ents' = [ents EXCEPT ![i] = e, ![d] = w]
          \/ ents' = [ents EXCEPT ![d] = w]
      BY <1>2, <1>3, <2>1, <2>3 DEF link_new
    <2> QED BY <2>2, <2>4, <2>5 DEF IInv, Types
  <1>11. Types'
    BY <1>6, <1>7, <1>8, <1>9, <1>10 DEF IInv, Types
  <1>12. PICK s \in Seq(Steps) : s = <<Put(d)>> /\ Len(s) <= 3
    BY RefType DEF IInv
  <1>13. PICK l \in Labels : l = "filled"
    BY DEF Labels, HasIp
  <1>14. PICK o \in Inums \cup {NoInode} : o = NoInode
    OBVIOUS
  <1>15. Go(p, l, i, o, s)
    BY <1>2, <1>3, <1>12, <1>13, <1>14 DEF link_new
  <1>16. Fits(p, l, o)
    BY <1>13, <1>14 DEF Fits, HasIp, HasDp
  <1>17. ASSUME NEW x \in Inums
         PROVE  ref'[x] = ref[x] - Local(p, x) + One(i, x) + One(o, x) + Listed(s, x)
    <2>1. /\ ref[x] \in Int /\ One(i, x) \in Int /\ One(d, x) \in Int
          /\ Listed(s, x) = One(d, x) /\ One(o, x) = 0 /\ ref' = ref
      BY <1>6, <1>12, <1>14, RefType DEF IInv
    <2> QED BY <1>4, <2>1
  <1>18. UNCHANGED <<type, cwd, file>> /\ (l \notin {"made", "filled"} \/ type[i] # "free")
    BY <1>5, <1>6
  <1> QED BY <1>11, <1>12, <1>15, <1>16, <1>17, <1>18, GoesQuiet

(* ialloc finds a free inode where there is one. *)
LEMMA AllocFree ==
  ASSUME FreeInodes # {} PROVE ialloc \in FreeInodes
  <1>1. FreeInodes \subseteq Nat
    BY InodesAssumption DEF FreeInodes
  <1>2. PICK i \in FreeInodes : \A j \in FreeInodes : ~(<<j, i>> \in OpToRel(<, Nat))
    BY <1>1, NatLessThanWellFounded, WFMin
  <1>3. \A j \in FreeInodes : ~(j < i)
    BY <1>1, <1>2 DEF OpToRel
  <1>4. \A j \in FreeInodes : i <= j
    BY <1>1, <1>3
  <1> QED BY <1>4 DEF ialloc

LEMMA CreateStep ==
  ASSUME IInv, NEW p \in Procs, create(p)
  PROVE  IInv'
  <1>1. At(p, pc[p]) /\ pc[p] \in {"create", "mkdir"} /\ UNCHANGED <<valid, cwd, file>>
    BY DEF create
  <1>2. /\ Shape(p) /\ todo[p] = <<>>
        /\ \A x \in Inums : Local(p, x) = One(ip[p], x) + One(dp[p], x)
    <2>1. PICK l : l = pc[p]
      OBVIOUS
    <2>2. At(p, l)
      BY <1>1, <2>1
    <2> QED BY <2>2, AtFacts DEF IInv
  <1>3. PICK d \in Inums : d = dp[p]
    BY <1>1, <1>2 DEF Shape, HasDp
  <1>4. ip[p] = NoInode /\ path[p] # <<>>
    BY <1>1, <1>2 DEF Shape, HasIp, HasDp
  <1>5. \A x \in Inums : Local(p, x) = One(d, x)
    BY <1>2, <1>3, <1>4, OneNone, OneType
  <1>6. CASE Name(p) \in DOMAIN ents[d]
    <2>1. PICK i \in Inums : i = ents[d][Name(p)]
      BY <1>6 DEF IInv, Types
    <2>2. /\ ref' = Taken(i) /\ Go(p, "found", i, NoInode, <<Put(d)>>)
          /\ UNCHANGED <<disk, lock>>
      BY <1>3, <1>6, <2>1 DEF create
    <2>3. ref' \in [Inums -> Int] /\ \A x \in Inums : ref'[x] = ref[x] + One(i, x)
      BY <2>2, TakenIs DEF IInv, Types
    <2>4. Types'
      BY <1>1, <2>2, <2>3 DEF IInv, Types, disk
    <2>5. PICK s \in Seq(Steps) : s = <<Put(d)>> /\ Len(s) <= 3
      BY RefType DEF IInv
    <2>6. PICK l \in Labels : l = "found"
      BY DEF Labels, HasIp
    <2>7. PICK o \in Inums \cup {NoInode} : o = NoInode
      OBVIOUS
    <2>8. Fits(p, l, o)
      BY <2>6, <2>7 DEF Fits, HasIp, HasDp
    <2>9. ASSUME NEW x \in Inums
          PROVE  ref'[x] = ref[x] - Local(p, x) + One(i, x) + One(o, x) + Listed(s, x)
      <3>1. /\ ref[x] \in Int /\ One(i, x) \in Int /\ One(d, x) \in Int
            /\ Listed(s, x) = One(d, x) /\ One(o, x) = 0
        BY <2>5, <2>7, RefType DEF IInv
      <3> QED BY <1>5, <2>3, <3>1
    <2>10. /\ l \notin {"made", "filled"} \/ type[i] # "free"
           /\ Go(p, l, i, o, s) /\ UNCHANGED <<type, cwd, file>>
      BY <1>1, <2>2, <2>5, <2>6, <2>7 DEF disk
    <2> QED BY <2>4, <2>5, <2>8, <2>9, <2>10, GoesQuiet
  <1>7. CASE Name(p) \notin DOMAIN ents[d] /\ FreeInodes = {}
    <2>1. UNCHANGED <<type, nlink, ents, ref, valid, lock, cwd, file, pc, call, path, ip, dp, todo>>
      BY <1>1, <1>3, <1>7 DEF create, disk
    <2>2. UNCHANGED calls
      BY DEF create
    <2> QED BY <2>1, <2>2, Stops DEF disk, cache, proc
  <1>8. CASE Name(p) \notin DOMAIN ents[d] /\ FreeInodes # {}
    <2>1. PICK i \in Inums : i = ialloc /\ type[i] = "free"
      BY <1>8, AllocFree DEF FreeInodes
    <2>2. /\ type' = [type EXCEPT ![i] = IF pc[p] = "mkdir" THEN "dir" ELSE "file"]
          /\ nlink' = [nlink EXCEPT ![i] = 0]
          /\ ref' = Taken(i)
          /\ lock' = [lock EXCEPT ![d] = p]
          /\ Go(p, "made", i, d, <<>>)
          /\ UNCHANGED ents
      BY <1>3, <1>8, <2>1 DEF create
    <2>3. ref' \in [Inums -> Int] /\ \A x \in Inums : ref'[x] = ref[x] + One(i, x)
      BY <2>2, TakenIs DEF IInv, Types
    <2>4. type' \in [Inums -> {"free", "file", "dir"}] /\ type'[i] # "free"
      BY <2>2 DEF IInv, Types
    <2>5. \A x \in Inums \ {i} : type'[x] = type[x]
      BY <2>2 DEF IInv, Types
    <2>6. nlink' \in [Inums -> Int] /\ lock' \in [Inums -> Procs \cup {NoOne}]
      BY <2>2 DEF IInv, Types
    <2>7. Types'
      BY <1>1, <2>2, <2>3, <2>4, <2>6 DEF IInv, Types
    <2>8. /\ Control' /\ Elsewhere(p)
          /\ pc'[p] = "made" /\ ip'[p] = i /\ dp'[p] = d /\ todo'[p] = <<>>
      <3>1. PICK l \in Labels : l = "made"
        BY DEF Labels, HasIp
      <3>2. PICK s \in Seq(Steps) : s = <<>> /\ Len(s) <= 3
        BY RefType DEF IInv
      <3>3. /\ i \in IF l \in HasIp \/ (l = "walk" /\ call[p] = "link2") THEN Inums ELSE {NoInode}
            /\ d \in IF l \in HasDp THEN Inums ELSE {NoInode}
            /\ l \in HasDp => path[p] # <<>>
            /\ l = "walk" => call[p] # "none"
        BY <1>4, <3>1 DEF HasIp, HasDp
      <3>4. Go(p, l, i, d, s)
        BY <2>2, <3>1, <3>2
      <3> QED BY <3>1, <3>2, <3>3, <3>4, Goes DEF IInv
    <2>9. RefsExact'
      <3>1. ASSUME NEW x \in Inums
            PROVE  ref'[x] = ref[x] - Local(p, x) + Local(p, x)'
                     - One(cwd[p], x) + One(cwd'[p], x) - One(file[p], x) + One(file'[p], x)
        <4>1. Local(p, x)' = One(i, x) + One(d, x) + Listed(<<>>, x)
          BY <2>8, LocalIs
        <4>2. /\ ref[x] \in Int /\ One(i, x) \in Int /\ One(d, x) \in Int
              /\ Listed(<<>>, x) = 0 /\ One(cwd[p], x) \in Int /\ One(file[p], x) \in Int
              /\ cwd' = cwd /\ file' = file
          BY <1>1, RefType, OneType DEF IInv
        <4> QED BY <1>5, <2>3, <4>1, <4>2
      <3> QED BY <1>1, <2>8, <3>1, RefsKept DEF IInv
    <2>10. NewLive'
      <3>1. ASSUME NEW q \in Procs, pc'[q] \in {"made", "filled"} PROVE type'[ip'[q]] # "free"
        <4>1. CASE q = p
          BY <2>4, <2>8, <4>1
        <4>2. CASE q # p
          <5>1. ip'[q] = ip[q] /\ pc'[q] = pc[q]
            BY <2>8, <4>2 DEF Elsewhere
          <5>2. type[ip[q]] # "free" /\ Shape(q)
            BY <3>1, <5>1 DEF IInv, NewLive, Control
          <5>3. ip[q] \in Inums \ {i}
            BY <2>1, <3>1, <5>1, <5>2 DEF Shape, HasIp
          <5> QED BY <2>5, <5>1, <5>2, <5>3
        <4> QED BY <4>1, <4>2
      <3> QED BY <3>1 DEF NewLive
    <2>11. HeldLive'
      <3>1. ASSUME NEW q \in Procs
            PROVE  type'[cwd'[q]] = "dir" /\ (file'[q] # NoInode => type'[file'[q]] # "free")
        <4>1. cwd' = cwd /\ file' = file /\ cwd[q] \in Inums /\ file[q] \in Inums \cup {NoInode}
          BY <1>1 DEF IInv, Types
        <4>2. type[cwd[q]] = "dir" /\ (file[q] # NoInode => type[file[q]] # "free")
          BY DEF IInv, HeldLive
        <4> QED BY <2>1, <2>5, <4>1, <4>2
      <3> QED BY <3>1 DEF HeldLive
    <2> QED BY <2>7, <2>8, <2>9, <2>10, <2>11 DEF IInv
  <1> QED BY <1>6, <1>7, <1>8

-----------------------------------------------------------------------------
(* Deferred steps.  A put becomes a drop, still a pointer; a drop and an   *)
(* unlock go.                                                              *)
LEMMA ListedDrop ==
  ASSUME NEW x \in Inums, NEW i \in Inums, NEW s \in Seq(Steps), s # <<>>, s[1] = Put(i)
  PROVE  /\ <<Drop(i)>> \o Tail(s) \in Seq(Steps) /\ Len(<<Drop(i)>> \o Tail(s)) = Len(s)
         /\ Listed(<<Drop(i)>> \o Tail(s), x) = Listed(s, x)
  <1>1. PICK u : u = Tail(s)
    OBVIOUS
  <1>2. u \in Seq(Steps) /\ Len(u) = Len(s) - 1 /\ \A k \in 1..Len(u) : u[k] = s[k + 1]
    BY ONLY <1>1, s \in Seq(Steps), s # <<>>, HeadTailProperties
  <1>3. PICK h : h = <<Drop(i)>>
    OBVIOUS
  <1>4. h \in Seq(Steps) /\ Len(h) = 1 /\ h[1] = Drop(i)
    BY <1>3, Lists
  <1>5. PICK t : t = h \o u
    OBVIOUS
  <1>6. /\ t \in Seq(Steps) /\ Len(t) = Len(h) + Len(u)
        /\ \A k \in 1..(Len(h) + Len(u)) : t[k] = IF k <= Len(h) THEN h[k] ELSE u[k - Len(h)]
    BY ONLY <1>2, <1>4, <1>5, ConcatProperties
  <1>7. Len(s) \in Nat /\ Len(s) >= 1
    BY ONLY s \in Seq(Steps), s # <<>>, LenProperties, EmptySeq
  <1>8. Len(t) = Len(s) /\ t[1] = Drop(i) /\ \A k \in 2..Len(s) : t[k] = s[k]
    <2>1. Len(t) = Len(s) /\ t[1] = Drop(i)
      BY <1>2, <1>4, <1>6, <1>7
    <2>2. ASSUME NEW k \in 2..Len(s) PROVE t[k] = s[k]
      <3>1. k \in 1..(Len(h) + Len(u)) /\ ~(k <= Len(h)) /\ k - Len(h) = k - 1
        BY <1>2, <1>4, <1>7
      <3>2. t[k] = u[k - 1]
        BY <1>6, <3>1
      <3>3. k - 1 \in 1..Len(u) /\ (k - 1) + 1 = k
        BY <1>2, <1>7
      <3> QED BY <1>2, <3>2, <3>3
    <2> QED BY <2>1, <2>2
  <1>9. Target(t, 1) = i /\ Target(s, 1) = i
    BY <1>7, <1>8 DEF Target, Put, Drop
  <1>10. Target(t, 2) = Target(s, 2) /\ Target(t, 3) = Target(s, 3)
    BY <1>7, <1>8 DEF Target
  <1>11. Listed(t, x) = Listed(s, x)
    BY <1>9, <1>10 DEF Listed
  <1> QED BY <1>1, <1>3, <1>5, <1>6, <1>8, <1>11

LEMMA ListedTail ==
  ASSUME NEW x \in Inums, NEW s \in Seq(Steps), s # <<>>, Len(s) <= 3
  PROVE  /\ Tail(s) \in Seq(Steps) /\ Len(Tail(s)) <= 3
         /\ Listed(Tail(s), x) = Listed(s, x) - One(Target(s, 1), x)
  <1>1. PICK t : t = Tail(s)
    OBVIOUS
  <1>2. t \in Seq(Steps) /\ Len(t) = Len(s) - 1 /\ \A k \in 1..Len(t) : t[k] = s[k + 1]
    BY ONLY <1>1, s \in Seq(Steps), s # <<>>, HeadTailProperties
  <1>3. Len(s) \in Nat /\ Len(s) >= 1
    BY ONLY s \in Seq(Steps), s # <<>>, LenProperties, EmptySeq
  <1>4. Target(t, 1) = Target(s, 2)
    BY <1>2, <1>3 DEF Target
  <1>5. Target(t, 2) = Target(s, 3)
    BY <1>2, <1>3 DEF Target
  <1>6. Target(t, 3) = NoInode
    BY <1>2, <1>3 DEF Target
  <1>7. One(NoInode, x) = 0 /\ \A y : One(y, x) \in Int
    BY OneNone, OneType
  <1>8. Listed(t, x) = Listed(s, x) - One(Target(s, 1), x)
    BY <1>4, <1>5, <1>6, <1>7 DEF Listed
  <1> QED BY <1>1, <1>2, <1>3, <1>8

(* Only the deferred steps of p change. *)
LEMMA Defers ==
  ASSUME Control, NEW p \in Procs, NEW t \in Seq(Steps), Len(t) <= 3,
         todo' = [todo EXCEPT ![p] = t], UNCHANGED <<pc, call, path, ip, dp>>
  PROVE  /\ Control' /\ Elsewhere(p) /\ todo'[p] = t
         /\ \A x \in Inums : Local(p, x)' = Local(p, x) - Listed(todo[p], x) + Listed(t, x)
  <1>1. /\ todo' \in [Procs -> Seq(Steps)] /\ todo'[p] = t
        /\ \A q \in Procs \ {p} : todo'[q] = todo[q]
    BY DEF Control
  <1>2. ASSUME NEW q \in Procs PROVE Shape(q)'
    <2>1. Shape(q)
      BY DEF Control
    <2>2. Len(todo'[q]) <= 3
      BY <1>1, <2>1 DEF Shape
    <2> QED BY <2>1, <2>2 DEF Shape
  <1>3. Control'
    BY <1>1, <1>2 DEF Control
  <1>4. Elsewhere(p)
    BY <1>1 DEF Elsewhere
  <1>5. ASSUME NEW x \in Inums
        PROVE  Local(p, x)' = Local(p, x) - Listed(todo[p], x) + Listed(t, x)
    <2>1. PICK a : a = ip[p]
      OBVIOUS
    <2>2. PICK b : b = dp[p]
      OBVIOUS
    <2>3. Local(p, x)' = One(a, x) + One(b, x) + Listed(t, x)
      BY <1>1, <2>1, <2>2, LocalIs
    <2>4. Local(p, x) = One(a, x) + One(b, x) + Listed(todo[p], x)
      BY <2>1, <2>2 DEF Local
    <2>5. One(a, x) \in Int /\ One(b, x) \in Int /\ Listed(t, x) \in Int /\ Listed(todo[p], x) \in Int
      BY OneType
    <2> QED BY <2>3, <2>4, <2>5
  <1> QED BY <1>1, <1>3, <1>4, <1>5

LEMMA UsersHas ==
  ASSUME NEW f, NEW i
  PROVE  Users(f, i) \in Nat /\ \A q \in Procs : f[q] = i => Users(f, i) >= 1
  <1> DEFINE S == {p \in Procs : f[p] = i}
  <1>1. IsFiniteSet(S)
    BY FS_Subset, InodesAssumption
  <1>2. Cardinality(S) \in Nat /\ (Cardinality(S) = 0 <=> S = {})
    BY <1>1, FS_CardinalityType, FS_EmptySet
  <1>3. ASSUME NEW q \in Procs, f[q] = i PROVE S # {}
    BY <1>3
  <1> HIDE DEF S
  <1>4. Cardinality(S) \in Nat /\ \A q \in Procs : f[q] = i => Cardinality(S) >= 1
    BY <1>2, <1>3
  <1> QED BY <1>4 DEF Users, S

(* The last pointer to an inode is in the put that frees it. *)
LEMMA LastPointer ==
  ASSUME RefsExact, NEW p \in Procs, NEW i \in Inums, Target(todo[p], 1) = i, ref[i] = 1
  PROVE  /\ \A q \in Procs : cwd[q] # i /\ file[q] # i /\ ip[q] # i /\ dp[q] # i
         /\ \A q \in Procs, k \in 1..3 : Target(todo[q], k) = i => q = p /\ k = 1
  <1>1. Nth(1)[p] = i /\ Users(Nth(1), i) >= 1
    <2>1. Nth(1)[p] = i
      BY DEF Nth
    <2> QED BY <2>1, UsersHas
  <1>2. Pointers(i) = 1
    BY DEF RefsExact
  <1>3. /\ Users(cwd, i) \in Nat /\ Users(file, i) \in Nat /\ Users(ip, i) \in Nat
        /\ Users(dp, i) \in Nat /\ Users(Nth(1), i) \in Nat /\ Users(Nth(2), i) \in Nat
        /\ Users(Nth(3), i) \in Nat
    BY UsersHas
  <1>4. /\ Users(cwd, i) = 0 /\ Users(file, i) = 0 /\ Users(ip, i) = 0 /\ Users(dp, i) = 0
        /\ Users(Nth(1), i) = 1 /\ Users(Nth(2), i) = 0 /\ Users(Nth(3), i) = 0
    <2>1. PICK a, b, c, d, e, f, g : /\ a = Users(cwd, i) /\ b = Users(file, i) /\ c = Users(ip, i)
                                    /\ d = Users(dp, i) /\ e = Users(Nth(1), i)
                                    /\ f = Users(Nth(2), i) /\ g = Users(Nth(3), i)
      OBVIOUS
    <2>2. a + b + c + d + e + f + g = 1
      BY <1>2, <2>1 DEF Pointers
    <2>3. a \in Nat /\ b \in Nat /\ c \in Nat /\ d \in Nat /\ e \in Nat /\ f \in Nat /\ g \in Nat
      BY <1>3, <2>1
    <2>4. e >= 1
      BY <1>1, <2>1
    <2>5. a = 0 /\ b = 0 /\ c = 0 /\ d = 0 /\ e = 1 /\ f = 0 /\ g = 0
      BY ONLY <2>2, <2>3, <2>4
    <2> QED BY <2>1, <2>5
  <1>5. ASSUME NEW q \in Procs PROVE cwd[q] # i /\ file[q] # i /\ ip[q] # i /\ dp[q] # i
    <2>1. /\ cwd[q] = i => Users(cwd, i) >= 1
          /\ file[q] = i => Users(file, i) >= 1
          /\ ip[q] = i => Users(ip, i) >= 1
          /\ dp[q] = i => Users(dp, i) >= 1
      BY UsersHas
    <2> QED BY <1>4, <2>1
  <1>6. ASSUME NEW q \in Procs, Target(todo[q], 1) = i PROVE q = p
    <2>1. PICK S : S = {r \in Procs : Nth(1)[r] = i}
      OBVIOUS
    <2>2. IsFiniteSet(S) /\ Cardinality(S) = 1
      BY <1>4, <2>1, FS_Subset, InodesAssumption DEF Users
    <2>3. \E r : S = {r}
      BY <2>2, FS_Singleton
    <2>4. p \in S /\ q \in S
      BY <1>1, <1>6, <2>1 DEF Nth
    <2> QED BY <2>3, <2>4
  <1>7. ASSUME NEW q \in Procs, NEW k \in {2, 3}, Target(todo[q], k) = i PROVE FALSE
    <2>1. Nth(k)[q] = i
      BY <1>7 DEF Nth
    <2>2. Users(Nth(k), i) >= 1
      BY <2>1, UsersHas
    <2> QED BY <1>4, <2>2
  <1>8. \A q \in Procs, k \in 1..3 : Target(todo[q], k) = i => q = p /\ k = 1
    BY <1>6, <1>7
  <1> QED BY <1>5, <1>8

LEMMA DeferredStep ==
  ASSUME IInv, NEW p \in Procs, Deferred(p)
  PROVE  IInv'
  <1>1. /\ todo[p] # <<>> /\ UNCHANGED <<cwd, file, pc, call, path, ip, dp, calls, panic>>
    BY DEF Deferred
  <1>2. PICK s \in Seq(Steps) : s = todo[p]
    BY DEF IInv, Control
  <1>3. s # <<>> /\ Len(s) <= 3
    BY <1>1, <1>2 DEF IInv, Control, Shape
  <1>4. Len(s) \in Nat /\ Len(s) >= 1
    BY ONLY <1>3, s \in Seq(Steps), LenProperties, EmptySeq
  <1>5. Head(s) = s[1] /\ s[1] \in Steps
    <2>1. 1 \in 1..Len(s)
      BY <1>4
    <2> QED BY <2>1, ElementOfSeq
  <1>6. PICK k \in {"put", "drop", "unlock"}, i \in Inums : s[1] = <<k, i>>
    BY <1>5 DEF Steps
  <1>7. Target(s, 1) = IF k = "unlock" THEN NoInode ELSE i
    BY <1>4, <1>6 DEF Target
  <1>0. PICK h : h = Head(todo[p]) /\ h[1] = k /\ h[2] = i
    BY <1>2, <1>5, <1>6
  <1>20. /\ k = "put" => iput(p, i)
         /\ k = "drop" => drop(p, i)
         /\ k = "unlock" => iunlock(p, i)
    BY <1>0 DEF Deferred
  <1>8. PICK t : t = IF k = "put" THEN <<Drop(i)>> \o Tail(s) ELSE Tail(s)
    OBVIOUS
  <1>9. todo' = [todo EXCEPT ![p] = t]
    <2>1. CASE k = "put"
      BY <1>2, <1>8, <1>20, <2>1 DEF iput, IInv, Control
    <2>2. CASE k = "drop"
      BY <1>2, <1>8, <1>20, <2>2 DEF drop, IInv, Control
    <2>3. CASE k = "unlock"
      BY <1>2, <1>8, <1>20, <2>3 DEF iunlock, IInv, Control
    <2> QED BY <2>1, <2>2, <2>3
  <1>10. t \in Seq(Steps) /\ Len(t) <= 3
    <2>1. CASE k = "put"
      <3>1. s[1] = Put(i) /\ i \in Inums
        BY <1>6, <2>1 DEF Put
      <3>2. <<Drop(i)>> \o Tail(s) \in Seq(Steps) /\ Len(<<Drop(i)>> \o Tail(s)) = Len(s)
        BY <1>3, <3>1, ListedDrop
      <3> QED BY <1>3, <1>8, <2>1, <3>2
    <2>2. CASE k # "put"
      BY <1>3, <1>6, <1>8, <2>2, ListedTail
    <2> QED BY <2>1, <2>2
  <1>11. /\ Control' /\ Elsewhere(p) /\ todo'[p] = t
         /\ \A x \in Inums : Local(p, x)' = Local(p, x) - Listed(s, x) + Listed(t, x)
    BY <1>1, <1>2, <1>9, <1>10, Defers DEF IInv
  <1>12. CASE k = "put"
    <2>1. iput(p, i)
      BY <1>12, <1>20
    <2>2. UNCHANGED <<nlink, ref, lock>>
      BY <2>1 DEF iput
    <2>3. ASSUME NEW x \in Inums PROVE Listed(t, x) = Listed(s, x)
      BY <1>3, <1>6, <1>8, <1>12, ListedDrop DEF Put
    <2>4. CASE ~Frees(i)
      <3>1. UNCHANGED <<type, ents, valid>>
        BY <2>1, <2>4 DEF iput
      <3>2. Types'
        BY <1>1, <2>2, <3>1 DEF IInv, Types
      <3>3. ASSUME NEW x \in Inums PROVE ref'[x] = ref[x] - Local(p, x) + Local(p, x)'
        <4>1. ref[x] \in Int /\ Local(p, x) \in Int /\ Listed(s, x) \in Int
          BY OneType, LocalType DEF IInv, Types
        <4> QED BY <1>11, <2>2, <2>3, <4>1
      <3>4. pc'[p] \notin {"made", "filled"} \/ type'[ip'[p]] # "free"
        BY <1>1, <3>1 DEF IInv, NewLive
      <3> QED BY <1>1, <1>11, <3>1, <3>2, <3>3, <3>4, Quiet
    <2>5. CASE Frees(i)
      <3>1. /\ type' = [type EXCEPT ![i] = "free"]
            /\ ents' = [ents EXCEPT ![i] = [n \in {} |-> Root]]
            /\ valid' = [valid EXCEPT ![i] = FALSE]
        BY <2>1, <2>5 DEF iput
      <3>2. \A q \in Procs : cwd[q] # i /\ file[q] # i /\ ip[q] # i
        <4>1. Target(todo[p], 1) = i /\ ref[i] = 1
          BY <1>2, <1>7, <1>12, <2>5 DEF Frees
        <4> QED BY <4>1, LastPointer DEF IInv
      <3>3. Types'
        <4>1. type' \in [Inums -> {"free", "file", "dir"}] /\ valid' \in [Inums -> BOOLEAN]
          BY <3>1 DEF IInv, Types
        <4>2. /\ ents' = [m \in Inums |-> ents'[m]]
              /\ \A m \in Inums : \A n \in DOMAIN ents'[m] : ents'[m][n] \in Inums
          BY <3>1 DEF IInv, Types
        <4> QED BY <1>1, <2>2, <4>1, <4>2 DEF IInv, Types
      <3>4. RefsExact'
        <4>1. ASSUME NEW x \in Inums
              PROVE  ref'[x] = ref[x] - Local(p, x) + Local(p, x)'
                       - One(cwd[p], x) + One(cwd'[p], x) - One(file[p], x) + One(file'[p], x)
          <5>1. /\ ref[x] \in Int /\ Local(p, x) \in Int /\ Listed(s, x) \in Int
                /\ One(cwd[p], x) \in Int /\ One(file[p], x) \in Int
            BY OneType, LocalType DEF IInv, Types
          <5> QED BY <1>1, <1>11, <2>2, <2>3, <5>1
        <4> QED BY <1>1, <1>11, <4>1, RefsKept DEF IInv
      <3>5. NewLive'
        <4>1. ASSUME NEW q \in Procs, pc'[q] \in {"made", "filled"} PROVE type'[ip'[q]] # "free"
          <5>1. ip[q] \in Inums \ {i}
            BY <1>1, <3>2, <4>1 DEF IInv, Control, Shape, HasIp
          <5>2. type[ip[q]] # "free"
            BY <1>1, <4>1 DEF IInv, NewLive
          <5> QED BY <1>1, <3>1, <5>1, <5>2 DEF IInv, Types
        <4> QED BY <4>1 DEF NewLive
      <3>6. HeldLive'
        <4>1. ASSUME NEW q \in Procs
              PROVE  type'[cwd'[q]] = "dir" /\ (file'[q] # NoInode => type'[file'[q]] # "free")
          <5>1. cwd[q] \in Inums \ {i} /\ file[q] \in (Inums \cup {NoInode}) \ {i}
            BY <3>2 DEF IInv, Types
          <5>2. type[cwd[q]] = "dir" /\ (file[q] # NoInode => type[file[q]] # "free")
            BY DEF IInv, HeldLive
          <5> QED BY <1>1, <3>1, <5>1, <5>2 DEF IInv, Types
        <4> QED BY <4>1 DEF HeldLive
      <3> QED BY <1>11, <3>3, <3>4, <3>5, <3>6 DEF IInv
    <2> QED BY <2>4, <2>5
  <1>13. ASSUME k # "put" PROVE \A x \in Inums : Listed(t, x) = Listed(s, x) - One(Target(s, 1), x)
    BY <1>3, <1>8, <1>13, ListedTail
  <1>14. CASE k = "drop"
    <2>1. drop(p, i)
      BY <1>14, <1>20
    <2>2. UNCHANGED <<type, nlink, ents, lock>> /\ ref' = [ref EXCEPT ![i] = @ - 1]
      BY <2>1 DEF drop, disk
    <2>3. valid' \in [Inums -> BOOLEAN]
      BY <2>1 DEF drop, IInv, Types
    <2>4. ref' \in [Inums -> Int] /\ \A x \in Inums : ref'[x] = ref[x] - One(i, x)
      BY <2>2 DEF IInv, Types, One
    <2>5. Types'
      BY <1>1, <2>2, <2>3, <2>4 DEF IInv, Types
    <2>6. ASSUME NEW x \in Inums PROVE ref'[x] = ref[x] - Local(p, x) + Local(p, x)'
      <3>1. Listed(t, x) = Listed(s, x) - One(i, x)
        BY <1>7, <1>13, <1>14
      <3>2. ref[x] \in Int /\ Local(p, x) \in Int /\ Listed(s, x) \in Int /\ One(i, x) \in Int
        BY OneType, LocalType DEF IInv, Types
      <3> QED BY <1>11, <2>4, <3>1, <3>2
    <2>7. pc'[p] \notin {"made", "filled"} \/ type'[ip'[p]] # "free"
      BY <1>1, <2>2 DEF IInv, NewLive
    <2> QED BY <1>1, <1>11, <2>2, <2>5, <2>6, <2>7, Quiet
  <1>15. CASE k = "unlock"
    <2>1. iunlock(p, i)
      BY <1>15, <1>20
    <2>2. UNCHANGED <<type, nlink, ents, ref, valid>> /\ lock' = [lock EXCEPT ![i] = NoOne]
      BY <2>1 DEF iunlock, disk
    <2>3. lock' \in [Inums -> Procs \cup {NoOne}]
      BY <2>2 DEF IInv, Types
    <2>4. Types'
      BY <1>1, <2>2, <2>3 DEF IInv, Types
    <2>5. ASSUME NEW x \in Inums PROVE ref'[x] = ref[x] - Local(p, x) + Local(p, x)'
      <3>1. Listed(t, x) = Listed(s, x) - One(NoInode, x)
        BY <1>7, <1>13, <1>15
      <3>2. /\ ref[x] \in Int /\ Local(p, x) \in Int /\ Listed(s, x) \in Int
            /\ One(NoInode, x) = 0
        BY OneType, OneNone, LocalType DEF IInv, Types
      <3> QED BY <1>11, <2>2, <3>1, <3>2
    <2>6. pc'[p] \notin {"made", "filled"} \/ type'[ip'[p]] # "free"
      BY <1>1, <2>2 DEF IInv, NewLive
    <2> QED BY <1>1, <1>11, <2>2, <2>4, <2>5, <2>6, Quiet
  <1> QED BY <1>12, <1>14, <1>15

-----------------------------------------------------------------------------
(* The first state: nobody points to anything but the current directories. *)
LEMMA InitIInv ==
  ASSUME Init PROVE IInv
  <1>1. PICK t \in Trees :
          /\ ents = t
          /\ type = [i \in Inums |-> IF i \in DirsOf(t) THEN "dir"
                                     ELSE IF NamesOf(t, i) # {} THEN "file" ELSE "free"]
          /\ nlink = [i \in Inums |->
                        (IF i = Root THEN 1 ELSE Cardinality(NamesOf(t, i)))
                        + Cardinality({d \in DirsOf(t) \ {Root} : t[d][".."] = i})]
          /\ cwd \in [Procs -> DirsOf(t)]
          /\ ref = [i \in Inums |-> Cardinality({p \in Procs : cwd[p] = i})]
          /\ valid = [i \in Inums |-> ref[i] > 0]
          /\ lock = [i \in Inums |-> NoOne]
          /\ file = [p \in Procs |-> NoInode]
          /\ pc = [p \in Procs |-> "idle"]
          /\ call = [p \in Procs |-> "none"]
          /\ path = [p \in Procs |-> <<>>]
          /\ ip = [p \in Procs |-> NoInode] /\ dp = [p \in Procs |-> NoInode]
          /\ todo = [p \in Procs |-> <<>>]
    BY DEF Init
  <1>2. /\ t = [i \in Inums |-> [n \in DOMAIN t[i] |-> t[i][n]]]
        /\ \A i \in Inums : \A n \in DOMAIN t[i] : t[i][n] \in Inums
        /\ IsFiniteSet(EntriesOf(t))
    BY InodesAssumption DEF TreeOK
  <1>3. \A i \in Inums : ref[i] = Users(cwd, i)
    BY <1>1 DEF Users
  <1>4. Types
    <2>1. nlink \in [Inums -> Int]
      <3>1. ASSUME NEW i \in Inums
            PROVE  /\ Cardinality(NamesOf(t, i)) \in Int
                   /\ Cardinality({d \in DirsOf(t) \ {Root} : t[d][".."] = i}) \in Int
        <4>1. NamesOf(t, i) \subseteq EntriesOf(t)
          BY DEF NamesOf
        <4>2. {d \in DirsOf(t) \ {Root} : t[d][".."] = i} \subseteq Inums
          BY DEF DirsOf
        <4>3. Cardinality(NamesOf(t, i)) \in Nat
          BY <1>2, <4>1, FS_Subset, FS_CardinalityType
        <4>4. Cardinality({d \in DirsOf(t) \ {Root} : t[d][".."] = i}) \in Nat
          BY <4>2, InodesAssumption, FS_Subset, FS_CardinalityType
        <4> QED BY <4>3, <4>4
      <3>2. nlink = [i \in Inums |->
                       (IF i = Root THEN 1 ELSE Cardinality(NamesOf(t, i)))
                       + Cardinality({d \in DirsOf(t) \ {Root} : t[d][".."] = i})]
        BY <1>1
      <3> QED BY <3>1, <3>2
    <2>2. type \in [Inums -> {"free", "file", "dir"}]
      BY <1>1
    <2>3. ents = [i \in Inums |-> ents[i]] /\ \A i \in Inums : \A n \in DOMAIN ents[i] : ents[i][n] \in Inums
      BY <1>1, <1>2
    <2>4. ref \in [Inums -> Int]
      <3>1. \A i \in Inums : Users(cwd, i) \in Int
        BY UsersHas
      <3> QED BY <1>1, <3>1 DEF Users
    <2>5. valid \in [Inums -> BOOLEAN] /\ lock \in [Inums -> Procs \cup {NoOne}]
      BY <1>1
    <2>6. cwd \in [Procs -> Inums] /\ file \in [Procs -> Inums \cup {NoInode}]
      BY <1>1 DEF DirsOf
    <2> QED BY <2>1, <2>2, <2>3, <2>4, <2>5, <2>6 DEF Types
  <1>5. Control
    <2>1. /\ pc \in [Procs -> Labels] /\ call \in [Procs -> Calls]
          /\ path \in [Procs -> Seq(STRING)]
          /\ ip \in [Procs -> Inums \cup {NoInode}] /\ dp \in [Procs -> Inums \cup {NoInode}]
          /\ todo \in [Procs -> Seq(Steps)]
      BY <1>1 DEF Labels, Calls
    <2>2. ASSUME NEW p \in Procs PROVE Shape(p)
      BY <1>1 DEF Shape, HasIp, HasDp
    <2> QED BY <2>1, <2>2 DEF Control
  <1>6. RefsExact
    <2>1. ASSUME NEW i \in Inums, NEW f, \A p \in Procs : f[p] = NoInode PROVE Users(f, i) = 0
      <3>1. {p \in Procs : f[p] = i} = {}
        BY <2>1, InodesAssumption
      <3> QED BY <3>1, FS_EmptySet DEF Users
    <2>2. \A k : \A p \in Procs : Nth(k)[p] = NoInode
      BY <1>1 DEF Nth, Target
    <2>3. ASSUME NEW i \in Inums PROVE ref[i] = Pointers(i)
      <3>1. Users(file, i) = 0 /\ Users(ip, i) = 0 /\ Users(dp, i) = 0
        BY <1>1, <2>1
      <3>2. Users(Nth(1), i) = 0 /\ Users(Nth(2), i) = 0 /\ Users(Nth(3), i) = 0
        BY <2>1, <2>2
      <3>3. Users(cwd, i) \in Nat
        BY UsersHas
      <3> QED BY <1>3, <3>1, <3>2, <3>3 DEF Pointers
    <2> QED BY <2>3 DEF RefsExact
  <1>7. NewLive
    BY <1>1 DEF NewLive
  <1>8. HeldLive
    BY <1>1 DEF HeldLive, DirsOf
  <1> QED BY <1>4, <1>5, <1>6, <1>7, <1>8 DEF IInv

(* Every step keeps the invariant. *)
LEMMA NextIInv ==
  ASSUME IInv, [Next]_vars PROVE IInv'
  <1>1. CASE UNCHANGED vars
    BY <1>1, Stops DEF vars
  <1>2. CASE Next
    <2>1. PICK p \in Procs :
            \/ \E c \in Operations, name \in Paths : begin(p, c, name)
            \/ sys_close(p) \/ Step(p)
      BY <1>2 DEF Next
    <2>2. ASSUME NEW c \in Operations, NEW name \in Paths, begin(p, c, name) PROVE IInv'
      BY <2>2, BeginStep
    <2>3. CASE sys_close(p)
      BY <2>3, CloseStep
    <2>4. CASE Deferred(p)
      BY <2>4, DeferredStep
    <2>5. CASE namex(p)
      BY <2>5, NamexStep
    <2>6. ASSUME NEW mode \in {"open", "write"}, sys_open(p, mode) PROVE IInv'
      BY <2>6, OpenStep
    <2>7. CASE create(p)
      BY <2>7, CreateStep
    <2>8. CASE link_new(p)
      BY <2>8, LinkNewStep
    <2>9. CASE created(p)
      BY <2>9, CreatedStep
    <2>10. CASE found(p)
      BY <2>10, FoundStep
    <2>11. CASE sys_unlink(p)
      BY <2>11, UnlinkStep
    <2>12. CASE erase(p)
      BY <2>12, EraseStep
    <2>13. CASE unlinked(p)
      BY <2>13, UnlinkedStep
    <2>14. CASE sys_link(p)
      BY <2>14, LinkStep
    <2>15. CASE dirlink(p)
      BY <2>15, DirlinkStep
    <2>16. CASE linkbad(p)
      BY <2>16, LinkbadStep
    <2>17. CASE sys_chdir(p)
      BY <2>17, ChdirStep
    <2> QED BY <2>1, <2>2, <2>3, <2>4, <2>5, <2>6, <2>7, <2>8, <2>9, <2>10, <2>11, <2>12,
               <2>13, <2>14, <2>15, <2>16, <2>17 DEF Step
  <1> QED BY <1>1, <1>2

LEMMA Invariance == Spec => []IInv
  <1> QED BY InitIInv, NextIInv, PTL DEF Spec

-----------------------------------------------------------------------------
(* The variables have their types, and a process has what its label needs  *)
(* in ip, dp and path: no handler uses a local it does not hold            *)
(* (sysfile.c, fs.c:594).                                                  *)
THEOREM TypeCorrect == Spec => [](Types /\ Control)
  <1>1. IInv => Types /\ Control
    BY DEF IInv
  <1> QED BY <1>1, Invariance, PTL

(* ref counts the pointers to an inode exactly, whatever calls run at the  *)
(* same time and wherever they fail (fs.c:123-128): every path of          *)
(* sysfile.c puts what it took, once.                                      *)
THEOREM ReferencesExact == Spec => []RefsExact
  <1>1. IInv => RefsExact
    BY DEF IInv
  <1> QED BY <1>1, Invariance, PTL

(* iput frees no current directory and no open file (fs.c:337-348).        *)
THEOREM KeptLive == Spec => []HeldLive
  <1>1. IInv => HeldLive
    BY DEF IInv
  <1> QED BY <1>1, Invariance, PTL

-----------------------------------------------------------------------------
(* Locks, entries and links.  Held is true in every state, Tree as long as *)
(* no parent of a directory in use has been freed.                         *)

(* What a call knows of the inodes it works on. *)
Linking(p) == pc[p] \in {"link2", "linkbad"} \/ (pc[p] = "walk" /\ call[p] = "link2")

Kinds ==
  \A p \in Procs : /\ pc[p] \in HasDp \ {"walk"} => type[dp[p]] = "dir"
                   /\ Linking(p) => type[ip[p]] = "file"

OnlyDirs == \A i \in Inums : type[i] # "dir" => DOMAIN ents[i] = {}

(* Who holds a sleep-lock; an unlock is deferred once, at the end of a call. *)
Holds(p, i) ==
  \/ pc[p] \in {"erase", "made"} /\ dp[p] = i
  \/ pc[p] \in {"filled", "unlinked"} /\ ip[p] = i
  \/ \E k \in 1..Len(todo[p]) : todo[p][k] = Unlock(i)

LockOwners == \A i \in Inums, p \in Procs : lock[i] = p <=> Holds(p, i)

Unlocks(p) ==
  \A k \in 1..Len(todo[p]) :
    todo[p][k][1] = "unlock" => /\ pc[p] \in {"idle", "linkbad"}
                                /\ \A m \in 1..Len(todo[p]) : todo[p][m][1] = "unlock" => m = k

(* What unlink found, or create did not find, stays so as long as it has  *)
(* the directory locked.                                                   *)
Sought ==
  \A p \in Procs :
    /\ pc[p] = "erase" => Name(p) \in Named(ents[dp[p]]) /\ ents[dp[p]][Name(p)] = ip[p]
    /\ pc[p] = "made" => Name(p) \notin DOMAIN ents[dp[p]]

Held == /\ Kinds /\ OnlyDirs /\ LockOwners /\ (\A p \in Procs : Unlocks(p)) /\ Sought
        /\ IsFiniteSet(EntriesOf(ents))

(* An inode that is in use and that no create is just making. *)
Known(i) == type[i] # "free" /\ \A p \in Procs : pc[p] = "made" => ip[p] # i

(* Where p can get at i without looking it up. *)
Reaches(p, i) ==
  \/ cwd[p] = i \/ file[p] = i \/ dp[p] = i \/ (ip[p] = i /\ pc[p] # "made")
  \/ \E k \in 1..Len(todo[p]) : todo[p][k] = Put(i)

ReachKnown == \A p \in Procs, i \in Inums : Reaches(p, i) => Known(i)
EntsKnown == \A d \in Inums : \A n \in DOMAIN ents[d] : Known(ents[d][n])
RootKnown == Known(Root) /\ type[Root] = "dir"

(* Creates make different inodes, empty, under names that are not the dots. *)
Makers ==
  \A p \in Procs : pc[p] = "made" =>
    /\ Name(p) \notin Dots /\ DOMAIN ents[ip[p]] = {}
    /\ \A q \in Procs \ {p} : pc[q] = "made" => ip[q] # ip[p]

(* The dots of a directory. *)
Dotted ==
  \A d \in Inums :
    /\ "." \in DOMAIN ents[d] => ents[d]["."] = d
    /\ ".." \in DOMAIN ents[d] => type[ents[d][".."]] = "dir"
    /\ type[d] = "dir" => \/ Dots \subseteq DOMAIN ents[d]
                          \/ \E p \in Procs : pc[p] = "made" /\ ip[p] = d

(* What the links of i are for: its names, the ".." of the directories     *)
(* named in it, the root's own, and the calls that have counted a link and *)
(* not yet entered it, or erased a name and not yet counted it out.        *)
SubsIn(t, kind, i) == {e \in EntriesOf(t) : e[1] = i /\ kind[t[e[1]][e[2]]] = "dir"}
Uses(t, kind, i) ==
  One(Root, i) + Cardinality(NamesOf(t, i)) + Cardinality(SubsIn(t, kind, i))
Counted == [p \in Procs |-> IF pc[p] = "unlinked" \/ Linking(p) THEN ip[p] ELSE NoInode]

Links == \A i \in Inums : nlink[i] >= Uses(ents, type, i) + Users(Counted, i)

Tree == /\ ReachKnown /\ EntsKnown /\ RootKnown /\ Makers /\ Dotted /\ Links
        /\ NoCircle(ents) /\ panic # "nlink < 1"

(* The stronger invariant. *)
JInv == IInv /\ Held /\ (~orphaned => Tree)

-----------------------------------------------------------------------------
(* Where a step leads, when it leads to no lock. *)
Locking == {"erase", "made", "filled", "unlinked"}
Plain(s) == \A k \in 1..Len(s) : s[k][1] # "unlock"

(* p does c from now on, "none" if nothing, and holds no lock. *)
Calm(p, c) ==
  /\ Elsewhere(p)
  /\ pc'[p] \notin Locking /\ Plain(todo'[p])
  /\ pc'[p] \in HasDp \ {"walk"} => type[dp'[p]] = "dir"
  /\ Linking(p)' <=> c = "link2"
  /\ c = "link2" => ip'[p] = ip[p]

LEMMA Moved ==
  ASSUME Control, NEW p \in Procs, NEW l, NEW i, NEW d, NEW s, NEW c, NEW r,
         Move(p, l, i, d, s),
         call' = [call EXCEPT ![p] = c], path' = [path EXCEPT ![p] = r]
  PROVE  /\ Elsewhere(p)
         /\ pc'[p] = l /\ ip'[p] = i /\ dp'[p] = d /\ todo'[p] = s
         /\ call'[p] = c /\ path'[p] = r
  BY DEF Control, Move, Elsewhere

LEMMA GoMoved ==
  ASSUME Control, NEW p \in Procs, NEW l, NEW i, NEW d, NEW s, Go(p, l, i, d, s)
  PROVE  /\ Elsewhere(p)
         /\ pc'[p] = l /\ ip'[p] = i /\ dp'[p] = d /\ todo'[p] = s
         /\ call'[p] = call[p] /\ path'[p] = path[p]
  BY DEF Control, Go, Move, Elsewhere

LEMMA DoneMoved ==
  ASSUME Control, NEW p \in Procs, NEW s, Done(p, s)
  PROVE  /\ Elsewhere(p)
         /\ pc'[p] = "idle" /\ ip'[p] = NoInode /\ dp'[p] = NoInode /\ todo'[p] = s
  BY DEF Control, Done, Move, Elsewhere

(* Lists of puts hold no unlock. *)
LEMMA PlainLists ==
  /\ Plain(<<>>)
  /\ \A i : Plain(<<Put(i)>>) /\ Plain(Append(<<>>, Put(i)))
  /\ \A i, j : Plain(<<Put(i), Put(j)>>)
  BY DEF Plain, Put

LEMMA PlainMore ==
  ASSUME NEW s \in Owed, NEW i \in Inums
  PROVE  Plain(s) /\ Plain(Append(s, Put(i)))
  <1>1. CASE s = <<>>
    BY <1>1, PlainLists
  <1>2. ASSUME NEW j \in Inums, s = <<Put(j)>> PROVE Plain(s) /\ Plain(Append(s, Put(i)))
    <2>1. s \in Seq(Steps) /\ Len(s) = 1
      BY <1>2, Lists
    <2>6. PICK y \in Steps : y = Put(i)
      BY Lists
    <2>2. PICK t : t = Append(s, y)
      OBVIOUS
    <2>3. Len(t) = Len(s) + 1 /\ t[Len(s) + 1] = y /\ \A k \in 1..Len(s) : t[k] = s[k]
      <3>1. s \in Seq(Steps) /\ y \in Steps /\ t = Append(s, y)
        BY <2>1, <2>2
      <3> QED BY ONLY <3>1, AppendProperties
    <2>4. Len(t) = 2 /\ t[1] = Put(j) /\ t[2] = Put(i)
      BY <1>2, <2>1, <2>3, <2>6
    <2>5. Plain(t)
      BY <2>4 DEF Plain, Put
    <2> QED BY <1>2, <2>2, <2>5, <2>6, PlainLists
  <1> QED BY <1>1, <1>2 DEF Owed

LEMMA EndsCalm ==
  ASSUME Control, NEW p \in Procs, NEW s, Done(p, s), Plain(s)
  PROVE  Calm(p, "none")
  BY DoneMoved DEF Calm, Locking, HasDp, Linking

LEMMA FailsCalm ==
  ASSUME Control, NEW p \in Procs, NEW c \in Operations \cup {"link2"}, NEW s,
         Failed(p, c, s), Plain(s)
  PROVE  Calm(p, c)
  <1>1. CASE c = "link2"
    <2>1. PICK i : i = ip[p]
      OBVIOUS
    <2>2. Go(p, "linkbad", i, NoInode, s)
      BY <1>1, <2>1 DEF Failed
    <2> QED BY <1>1, <2>1, <2>2, GoMoved DEF Calm, Locking, HasDp, Linking
  <1>2. CASE c # "link2"
    <2>1. Done(p, s)
      BY <1>2 DEF Failed
    <2> QED BY <1>2, <2>1, DoneMoved DEF Calm, Locking, HasDp, Linking
  <1> QED BY <1>1, <1>2

LEMMA ArrivesCalm ==
  ASSUME Control, NEW p \in Procs, NEW c \in Operations \cup {"link2"},
         NEW i \in Inums, NEW rest, NEW s \in Owed, Arrive(p, c, i, rest, s)
  PROVE  Calm(p, c)
  <1>1. Plain(s) /\ Plain(Append(s, Put(i)))
    BY PlainMore
  <1>2. CASE rest = <<>> /\ WantsParent(c)
    <2>1. PICK t : t = Append(s, Put(i))
      OBVIOUS
    <2>2. Failed(p, c, t) /\ Plain(t)
      BY <1>1, <1>2, <2>1 DEF Arrive
    <2> QED BY <2>2, FailsCalm
  <1>3. CASE ~(rest = <<>> /\ WantsParent(c)) /\ rest = <<>>
    <2>1. c \in {"open", "write", "link", "chdir"}
      BY <1>3 DEF WantsParent, Operations
    <2>2. /\ Move(p, c, i, NoInode, s)
          /\ call' = [call EXCEPT ![p] = c] /\ path' = [path EXCEPT ![p] = rest]
      BY <1>3 DEF Arrive
    <2>3. /\ Elsewhere(p) /\ pc'[p] = c /\ todo'[p] = s
      BY <2>2, Moved
    <2> QED BY <1>1, <2>1, <2>3 DEF Calm, Locking, HasDp, Linking
  <1>4. CASE rest # <<>>
    <2>1. PICK o : o = ip[p]
      OBVIOUS
    <2>2. /\ Move(p, "walk", o, i, s)
          /\ call' = [call EXCEPT ![p] = c] /\ path' = [path EXCEPT ![p] = rest]
      BY <1>4, <2>1 DEF Arrive
    <2>3. /\ Elsewhere(p) /\ pc'[p] = "walk" /\ ip'[p] = o /\ todo'[p] = s /\ call'[p] = c
      BY <2>2, Moved
    <2> QED BY <1>1, <2>1, <2>3 DEF Calm, Locking, HasDp, Linking
  <1> QED BY <1>2, <1>3, <1>4

LEMMA StartsCalm ==
  ASSUME Types, Control, NEW p \in Procs, NEW c \in Operations \cup {"link2"},
         NEW name, Start(p, c, name)
  PROVE  /\ Calm(p, c)
         /\ \E from \in {Root, cwd[p]} : ref' = Taken(from)
  <1> DEFINE abs == name # <<>> /\ Head(name) = "/"
  <1>1. PICK from : from = IF abs THEN Root ELSE cwd[p]
    OBVIOUS
  <1>2. PICK rest : rest = IF abs THEN Tail(name) ELSE name
    OBVIOUS
  <1>3. ref' = Taken(from) /\ Arrive(p, c, from, rest, <<>>)
    BY <1>1, <1>2 DEF Start
  <1>4. from \in Inums /\ from \in {Root, cwd[p]}
    BY <1>1, InodesAssumption DEF Types
  <1>5. <<>> \in Owed
    BY DEF Owed
  <1> QED BY <1>3, <1>4, <1>5, ArrivesCalm

-----------------------------------------------------------------------------
(* Locks.  What is not free and nobody points to may change its type; what *)
(* p or nobody has locked may change its entries.                          *)
LocksMove(p) ==
  \A i \in Inums :
    \/ lock'[i] = lock[i] /\ (Holds(p, i)' <=> Holds(p, i))
    \/ lock[i] \in {NoOne, p} /\ lock'[i] = p /\ Holds(p, i)'
    \/ lock[i] \in {NoOne, p} /\ lock'[i] = NoOne /\ ~Holds(p, i)'

TypesMove ==
  \A i \in Inums :
    type'[i] # type[i] => type[i] = "free" \/ \A q \in Procs : dp[q] # i /\ ip[q] # i

EntsMove(p) == \A i \in Inums : ents'[i] # ents[i] => lock[i] \in {NoOne, p}

(* What p leaves. *)
Leaves(p) ==
  /\ pc'[p] \in HasDp \ {"walk"} => type'[dp'[p]] = "dir"
  /\ Linking(p)' => type'[ip'[p]] = "file"
  /\ Unlocks(p)'
  /\ pc'[p] = "erase" => /\ Name(p)' \in Named(ents'[dp'[p]])
                         /\ ents'[dp'[p]][Name(p)'] = ip'[p]
  /\ pc'[p] = "made" => Name(p)' \notin DOMAIN ents'[dp'[p]]

LEMMA HeldStep ==
  ASSUME Control, Held, NEW p \in Procs, Elsewhere(p),
         LocksMove(p), TypesMove, EntsMove(p), Leaves(p),
         OnlyDirs', IsFiniteSet(EntriesOf(ents'))
  PROVE  Held'
  <1>1. ASSUME NEW q \in Procs \ {p}
        PROVE  /\ pc'[q] = pc[q] /\ call'[q] = call[q] /\ path'[q] = path[q]
               /\ ip'[q] = ip[q] /\ dp'[q] = dp[q] /\ todo'[q] = todo[q]
               /\ Shape(q) /\ (Linking(q)' <=> Linking(q))
    BY DEF Elsewhere, Linking, Control
  <1>2. Kinds'
    <2>1. ASSUME NEW q \in Procs \ {p}, pc[q] \in HasDp \ {"walk"}
          PROVE  type'[dp[q]] = "dir"
      <3>1. type[dp[q]] = "dir" /\ dp[q] \in Inums
        BY <1>1, <2>1 DEF Held, Kinds, Shape
      <3> QED BY <3>1 DEF TypesMove
    <2>2. ASSUME NEW q \in Procs \ {p}, Linking(q)
          PROVE  type'[ip[q]] = "file"
      <3>1. type[ip[q]] = "file" /\ ip[q] \in Inums
        BY <1>1, <2>2 DEF Held, Kinds, Shape, Linking, HasIp
      <3> QED BY <3>1 DEF TypesMove
    <2>3. ASSUME NEW q \in Procs
          PROVE  /\ pc'[q] \in HasDp \ {"walk"} => type'[dp'[q]] = "dir"
                 /\ Linking(q)' => type'[ip'[q]] = "file"
      <3>1. CASE q = p
        BY <3>1 DEF Leaves
      <3>2. CASE q # p
        BY <1>1, <2>1, <2>2, <3>2
      <3> QED BY <3>1, <3>2
    <2> QED BY <2>3 DEF Kinds
  <1>3. LockOwners'
    <2>1. ASSUME NEW i \in Inums, NEW q \in Procs
          PROVE  lock'[i] = q <=> Holds(q, i)'
      <3>1. lock[i] = q <=> Holds(q, i)
        BY DEF Held, LockOwners
      <3>2. q # NoOne /\ p # NoOne
        BY InodesAssumption
      <3>3. CASE q = p
        BY <3>1, <3>2, <3>3 DEF LocksMove
      <3>4. CASE q # p
        <4>1. Holds(q, i)' <=> Holds(q, i)
          BY <1>1, <3>4 DEF Holds
        <4> QED BY <3>1, <3>2, <3>4, <4>1 DEF LocksMove
      <3> QED BY <3>3, <3>4
    <2> QED BY <2>1 DEF LockOwners
  <1>4. ASSUME NEW q \in Procs PROVE Unlocks(q)'
    <2>1. CASE q = p
      BY <2>1 DEF Leaves
    <2>2. CASE q # p
      <3>1. Unlocks(q)
        BY DEF Held
      <3> QED BY <1>1, <2>2, <3>1 DEF Unlocks
    <2> QED BY <2>1, <2>2
  <1>5. Sought'
    <2>1. ASSUME NEW q \in Procs, pc'[q] \in {"erase", "made"}
          PROVE  /\ pc'[q] = "erase" => /\ Name(q)' \in Named(ents'[dp'[q]])
                                        /\ ents'[dp'[q]][Name(q)'] = ip'[q]
                 /\ pc'[q] = "made" => Name(q)' \notin DOMAIN ents'[dp'[q]]
      <3>1. CASE q = p
        BY <2>1, <3>1 DEF Leaves
      <3>2. CASE q # p
        <4>1. pc[q] = pc'[q] /\ dp[q] \in Inums
          BY <1>1, <2>1, <3>2 DEF Shape, HasDp
        <4>2. Holds(q, dp[q])
          BY <2>1, <4>1 DEF Holds
        <4>3. lock[dp[q]] = q
          BY <4>1, <4>2 DEF Held, LockOwners
        <4>4. ents'[dp[q]] = ents[dp[q]]
          BY <3>2, <4>1, <4>3, InodesAssumption DEF EntsMove
        <4>5. /\ pc[q] = "erase" => Name(q) \in Named(ents[dp[q]]) /\ ents[dp[q]][Name(q)] = ip[q]
              /\ pc[q] = "made" => Name(q) \notin DOMAIN ents[dp[q]]
          BY DEF Held, Sought
        <4>6. Name(q)' = Name(q) /\ dp'[q] = dp[q] /\ ip'[q] = ip[q]
          BY <1>1, <3>2 DEF Name
        <4> QED BY <4>1, <4>4, <4>5, <4>6
      <3> QED BY <3>1, <3>2
    <2> QED BY <2>1 DEF Sought
  <1> QED BY <1>2, <1>3, <1>4, <1>5 DEF Held

(* A step to where p has no lock. *)
LEMMA HeldCalm ==
  ASSUME Control, Held, NEW p \in Procs, NEW c, Calm(p, c), UNCHANGED type,
         \A i \in Inums : lock'[i] = IF lock[i] = p THEN NoOne ELSE lock[i],
         c = "link2" => type[ip[p]] = "file",
         EntsMove(p), OnlyDirs', IsFiniteSet(EntriesOf(ents'))
  PROVE  Held'
  <1>1. ASSUME NEW i PROVE ~Holds(p, i)'
    BY DEF Calm, Locking, Plain, Holds, Unlock
  <1>2. LocksMove(p)
    <2>1. ASSUME NEW i \in Inums, lock[i] # p PROVE ~Holds(p, i)
      BY <2>1 DEF Held, LockOwners
    <2> QED BY <1>1, <2>1 DEF LocksMove
  <1>3. TypesMove
    BY DEF TypesMove
  <1>4. Unlocks(p)'
    BY DEF Calm, Plain, Unlocks
  <1>5. Leaves(p)
    BY <1>4 DEF Leaves, Calm, Locking
  <1> QED BY <1>2, <1>3, <1>5, HeldStep DEF Calm

(* The same for one that had none, and leaves the entries. *)
LEMMA HeldIdle ==
  ASSUME Control, Held, NEW p \in Procs, NEW c, Calm(p, c),
         UNCHANGED <<type, ents, lock>>,
         pc[p] \notin Locking, todo[p] = <<>>,
         c = "link2" => type[ip[p]] = "file"
  PROVE  Held'
  <1>1. ASSUME NEW i \in Inums PROVE lock[i] # p
    <2>1. ~Holds(p, i)
      BY DEF Holds, Locking
    <2> QED BY <2>1 DEF Held, LockOwners
  <1>2. EntsMove(p)
    BY DEF EntsMove
  <1>3. OnlyDirs' /\ IsFiniteSet(EntriesOf(ents'))
    BY DEF Held, OnlyDirs
  <1> QED BY <1>1, <1>2, <1>3, HeldCalm

(* A panic stops all. *)
LEMMA HeldStops ==
  ASSUME Held, UNCHANGED <<type, ents, lock, pc, call, path, ip, dp, todo>>
  PROVE  Held'
  <1>1. Kinds' /\ OnlyDirs' /\ Sought' /\ IsFiniteSet(EntriesOf(ents'))
    BY DEF Held, Kinds, OnlyDirs, Sought, Linking, Name
  <1>2. LockOwners'
    BY DEF Held, LockOwners, Holds
  <1>3. \A p \in Procs : Unlocks(p)'
    BY DEF Held, Unlocks
  <1> QED BY <1>1, <1>2, <1>3 DEF Held

-----------------------------------------------------------------------------
(* Pointers of one process, and what it reaches by them.                   *)
Total(p, x) == One(cwd[p], x) + One(file[p], x) + Local(p, x)

LEMMA TotalMoves ==
  ASSUME IInv, IInv', NEW p \in Procs, Elsewhere(p), NEW x \in Inums,
         \A q \in Procs \ {p} : cwd'[q] = cwd[q] /\ file'[q] = file[q]
  PROVE  Total(p, x)' = Total(p, x) + ref'[x] - ref[x]
  <1>1. /\ Pointers(x) \in Nat
        /\ Pointers(x)' = Pointers(x) - Local(p, x) + Local(p, x)'
              - One(cwd[p], x) + One(cwd'[p], x) - One(file[p], x) + One(file'[p], x)
    BY PointersMove
  <1>2. ref[x] = Pointers(x) /\ ref'[x] = Pointers(x)'
    BY DEF IInv, RefsExact
  <1>3. /\ One(cwd[p], x) \in Int /\ One(cwd'[p], x) \in Int
        /\ One(file[p], x) \in Int /\ One(file'[p], x) \in Int
        /\ Local(p, x) \in Int /\ Local(p, x)' \in Int
    BY OneType, LocalType
  <1>4. Total(p, x)' = One(cwd'[p], x) + One(file'[p], x) + Local(p, x)'
    BY DEF Total, One
  <1> QED BY <1>1, <1>2, <1>3, <1>4 DEF Total

LEMMA OneNat ==
  ASSUME NEW x, NEW i
  PROVE  One(x, i) \in Nat /\ Listed(x, i) \in Nat /\ (One(x, i) >= 1 <=> x = i)
  BY DEF One, Listed

LEMMA SumOne ==
  ASSUME NEW x \in Inums, NEW a, NEW b, NEW c, NEW d, NEW s, Len(s) \in 0..3,
         \/ a = x \/ b = x \/ c = x \/ d = x
         \/ \E k \in 1..Len(s) : s[k] = Put(x)
  PROVE  One(a, x) + One(b, x) + (One(c, x) + One(d, x) + Listed(s, x)) >= 1
  <1>1. /\ One(a, x) \in Nat /\ One(b, x) \in Nat /\ One(c, x) \in Nat
        /\ One(d, x) \in Nat /\ Listed(s, x) \in Nat
    BY OneNat
  <1>2. CASE \E k \in 1..Len(s) : s[k] = Put(x)
    <2>1. PICK k \in 1..Len(s) : s[k] = Put(x)
      BY <1>2
    <2>2. Target(s, k) = x /\ k \in 1..3
      BY <2>1 DEF Target, Put
    <2>3. /\ One(Target(s, 1), x) \in Nat /\ One(Target(s, 2), x) \in Nat
          /\ One(Target(s, 3), x) \in Nat /\ One(Target(s, k), x) >= 1
      BY <2>2, OneNat
    <2>4. Listed(s, x) >= 1
      BY <2>2, <2>3 DEF Listed
    <2> QED BY <1>1, <2>4
  <1>3. CASE a = x \/ b = x \/ c = x \/ d = x
    <2>1. One(a, x) >= 1 \/ One(b, x) >= 1 \/ One(c, x) >= 1 \/ One(d, x) >= 1
      BY <1>3, OneNat
    <2> QED BY <1>1, <2>1
  <1> QED BY <1>2, <1>3

LEMMA ReachesTotal ==
  ASSUME NEW p, NEW x \in Inums, todo[p] = <<>>, Total(p, x) >= 1
  PROVE  Reaches(p, x) \/ (pc[p] = "made" /\ ip[p] = x)
  <1>1. Listed(todo[p], x) = 0
    BY ListedNone
  <1>2. CASE cwd[p] # x /\ file[p] # x /\ ip[p] # x /\ dp[p] # x
    <2>1. One(cwd[p], x) = 0 /\ One(file[p], x) = 0 /\ One(ip[p], x) = 0 /\ One(dp[p], x) = 0
      BY <1>2 DEF One
    <2> QED BY <1>1, <2>1 DEF Total, Local
  <1> QED BY <1>2 DEF Reaches

(* What is known stays known, and p takes only what is known. *)
LEMMA ReachMoves ==
  ASSUME IInv, IInv', NEW p \in Procs, Elsewhere(p), ReachKnown, todo[p] = <<>>,
         \A q \in Procs \ {p} : cwd'[q] = cwd[q] /\ file'[q] = file[q],
         \A x \in Inums : Known(x) => Known(x)',
         \A x \in Inums : pc[p] = "made" /\ ip[p] = x => Known(x)',
         \A x \in Inums : ref'[x] > ref[x] => Known(x)
  PROVE  ReachKnown'
  <1>1. ASSUME NEW q \in Procs, NEW x \in Inums, Reaches(q, x)' PROVE Known(x)'
    <2>1. CASE q # p
      <3>1. Reaches(q, x)
        BY <1>1, <2>1 DEF Reaches, Elsewhere
      <3> QED BY <3>1 DEF ReachKnown
    <2>2. CASE q = p
      <3>1. Len(todo'[p]) \in 0..3
        <4>1. PICK s \in Seq(Steps) : s = todo'[p]
          BY DEF IInv, Control
        <4>2. Len(s) <= 3
          BY <4>1 DEF IInv, Control, Shape
        <4>3. Len(s) \in Nat
          BY ONLY s \in Seq(Steps), LenProperties
        <4>4. PICK n \in Nat : n = Len(s)
          BY <4>3
        <4>5. n <= 3
          BY <4>2, <4>4
        <4>6. n \in 0..3
          BY <4>5
        <4> QED BY ONLY <4>1, <4>4, <4>6
      <3>2. Total(p, x)' >= 1
        <4>1. PICK a, b, c, d, s : /\ a = cwd'[p] /\ b = file'[p] /\ c = ip'[p]
                                  /\ d = dp'[p] /\ s = todo'[p]
          OBVIOUS
        <4>2. One(a, x) + One(b, x) + (One(c, x) + One(d, x) + Listed(s, x)) >= 1
          <5>1. \/ a = x \/ b = x \/ c = x \/ d = x
                \/ \E k \in 1..Len(s) : s[k] = Put(x)
            BY <1>1, <2>2, <4>1 DEF Reaches
          <5>2. Len(s) \in 0..3
            BY <3>1, <4>1
          <5> QED BY <5>1, <5>2, SumOne
        <4>3. Total(p, x)' = One(a, x) + One(b, x) + (One(c, x) + One(d, x) + Listed(s, x))
          BY <4>1 DEF Total, Local, One, Listed, Target
        <4> QED BY <4>2, <4>3
      <3>3. Total(p, x)' = Total(p, x) + ref'[x] - ref[x]
        BY TotalMoves
      <3>4. CASE ref'[x] > ref[x]
        BY <3>4
      <3>5. CASE ~(ref'[x] > ref[x])
        <4>1. ref[x] \in Int /\ ref'[x] \in Int /\ Total(p, x) \in Int
          <5>1. ref[x] \in Int /\ ref'[x] \in Int
            BY DEF IInv, Types
          <5>2. One(cwd[p], x) \in Int /\ One(file[p], x) \in Int /\ Local(p, x) \in Int
            BY OneType, LocalType
          <5> QED BY <5>1, <5>2 DEF Total
        <4>2. Total(p, x) >= 1
          BY <3>2, <3>3, <3>5, <4>1
        <4>3. Reaches(p, x) \/ (pc[p] = "made" /\ ip[p] = x)
          BY <4>2, ReachesTotal
        <4>4. Reaches(p, x) => Known(x)'
          BY DEF ReachKnown
        <4> QED BY <4>3, <4>4
      <3> QED BY <3>4, <3>5
    <2> QED BY <2>1, <2>2
  <1> QED BY <1>1 DEF ReachKnown

LEMMA KnownSame ==
  ASSUME NEW p \in Procs, Elsewhere(p), UNCHANGED type,
         pc[p] # "made", pc'[p] # "made", NEW x
  PROVE  Known(x)' <=> Known(x)
  BY DEF Known, Elsewhere

(* Counted links move with p. *)
LEMMA CountedMoves ==
  ASSUME NEW p \in Procs, Elsewhere(p), NEW i
  PROVE  /\ Users(Counted, i) \in Nat
         /\ Users(Counted, i)' = Users(Counted, i) - One(Counted[p], i) + One(Counted'[p], i)
  <1> DEFINE f == Counted
             g == Counted'
  <1>1. \A q \in Procs \ {p} : g[q] = f[q]
    BY DEF Counted, Linking, Elsewhere
  <1>2. Users(f, i)' = Users(g, i)
    BY DEF Users
  <1> HIDE DEF f, g
  <1>3. Users(f, i) \in Nat /\ Users(g, i) = Users(f, i) - One(f[p], i) + One(g[p], i)
    BY <1>1, UsersMove
  <1> QED BY <1>2, <1>3 DEF f, g

-----------------------------------------------------------------------------
(* Entries.  t and u differ by the entry n of d, and by new dots.          *)
Entered(t, u, d, n) ==
  /\ n \notin Dots /\ n \notin DOMAIN t[d]
  /\ DOMAIN u[d] = DOMAIN t[d] \cup {n}
  /\ \A m \in DOMAIN t[d] : u[d][m] = t[d][m]
  /\ \A x \in Inums \ {d} : u[x] = t[x] \/ (DOMAIN t[x] = {} /\ DOMAIN u[x] \subseteq Dots)

LEMMA EntryIs ==
  ASSUME NEW t
  PROVE  /\ \A d \in Inums : \A n : <<d, n>> \in EntriesOf(t) <=> n \in Named(t[d])
         /\ \A e \in EntriesOf(t) : \E d \in Inums : \E n \in Named(t[d]) : e = <<d, n>>
  <1>1. ASSUME NEW e \in EntriesOf(t)
        PROVE  \E d \in Inums : \E n \in Named(t[d]) : e = <<d, n>>
    BY DEF EntriesOf
  <1>2. ASSUME NEW d \in Inums, NEW n
        PROVE  <<d, n>> \in EntriesOf(t) <=> n \in Named(t[d])
    <2>1. ASSUME n \in Named(t[d]) PROVE <<d, n>> \in EntriesOf(t)
      BY <2>1 DEF EntriesOf
    <2>2. ASSUME <<d, n>> \in EntriesOf(t) PROVE n \in Named(t[d])
      BY <2>2, <1>1
    <2> QED BY <2>1, <2>2
  <1> QED BY <1>1, <1>2

LEMMA EntryMore ==
  ASSUME NEW t, NEW u, NEW d \in Inums, NEW n, Entered(t, u, d, n)
  PROVE  /\ EntriesOf(u) = EntriesOf(t) \cup {<<d, n>>}
         /\ <<d, n>> \notin EntriesOf(t)
         /\ \A e \in EntriesOf(t) : u[e[1]][e[2]] = t[e[1]][e[2]]
  <1>1. Named(u[d]) = Named(t[d]) \cup {n} /\ n \notin Named(t[d])
    BY DEF Entered, Named
  <1>2. ASSUME NEW x \in Inums \ {d} PROVE Named(u[x]) = Named(t[x])
    BY DEF Entered, Named
  <1>3. <<d, n>> \notin EntriesOf(t)
    BY <1>1, EntryIs
  <1>4. ASSUME NEW e \in EntriesOf(t)
        PROVE  e \in EntriesOf(u) /\ u[e[1]][e[2]] = t[e[1]][e[2]]
    <2>0. PICK x \in Inums : \E m \in Named(t[x]) : e = <<x, m>>
      BY EntryIs
    <2>1. PICK m \in Named(t[x]) : e = <<x, m>>
      BY <2>0
    <2>2. m \in Named(u[x])
      BY <1>1, <1>2, <2>1
    <2>3. u[x][m] = t[x][m]
      BY <2>1 DEF Entered, Named
    <2> QED BY <2>1, <2>2, <2>3, EntryIs
  <1>5. ASSUME NEW e \in EntriesOf(u) PROVE e \in EntriesOf(t) \cup {<<d, n>>}
    <2>0. PICK x \in Inums : \E m \in Named(u[x]) : e = <<x, m>>
      BY EntryIs
    <2>1. PICK m \in Named(u[x]) : e = <<x, m>>
      BY <2>0
    <2>2. CASE x = d /\ m = n
      BY <2>1, <2>2
    <2>3. CASE ~(x = d /\ m = n)
      <3>1. m \in Named(t[x])
        BY <1>1, <1>2, <2>1, <2>3
      <3> QED BY <2>1, <3>1, EntryIs
    <2> QED BY <2>2, <2>3
  <1>6. <<d, n>> \in EntriesOf(u)
    BY <1>1, EntryIs
  <1> QED BY <1>3, <1>4, <1>5, <1>6

LEMMA UsesNat ==
  ASSUME NEW t, NEW kind, NEW i, IsFiniteSet(EntriesOf(t))
  PROVE  /\ IsFiniteSet(NamesOf(t, i)) /\ IsFiniteSet(SubsIn(t, kind, i))
         /\ Cardinality(NamesOf(t, i)) \in Nat /\ Cardinality(SubsIn(t, kind, i)) \in Nat
         /\ Uses(t, kind, i) \in Nat
  <1>1. NamesOf(t, i) \subseteq EntriesOf(t) /\ SubsIn(t, kind, i) \subseteq EntriesOf(t)
    BY DEF NamesOf, SubsIn
  <1>2. IsFiniteSet(NamesOf(t, i)) /\ IsFiniteSet(SubsIn(t, kind, i))
    BY <1>1, FS_Subset
  <1>3. Cardinality(NamesOf(t, i)) \in Nat /\ Cardinality(SubsIn(t, kind, i)) \in Nat
    BY <1>2, FS_CardinalityType
  <1>4. One(Root, i) \in Nat
    BY OneNat
  <1> QED BY <1>2, <1>3, <1>4 DEF Uses

(* One element more. *)
LEMMA CountOne ==
  ASSUME NEW S, IsFiniteSet(S), NEW T, NEW x, NEW b \in BOOLEAN, x \notin S,
         T = IF b THEN S \cup {x} ELSE S
  PROVE  Cardinality(T) = Cardinality(S) + (IF b THEN 1 ELSE 0)
  <1>1. Cardinality(S) \in Nat /\ Cardinality(S \cup {x}) = Cardinality(S) + 1
    BY FS_CardinalityType, FS_AddElement
  <1> QED BY <1>1

LEMMA UsesMore ==
  ASSUME NEW t, NEW u, NEW d \in Inums, NEW n, NEW i, NEW kind,
         Entered(t, u, d, n), u[d][n] = i,
         IsFiniteSet(EntriesOf(t)) \/ IsFiniteSet(EntriesOf(u))
  PROVE  /\ IsFiniteSet(EntriesOf(t)) /\ IsFiniteSet(EntriesOf(u))
         /\ \A x : /\ Uses(t, kind, x) \in Nat
                   /\ Uses(u, kind, x) = Uses(t, kind, x) + One(i, x)
                                           + (IF kind[i] = "dir" THEN One(d, x) ELSE 0)
  <1>1. ASSUME NEW x
        PROVE  /\ IsFiniteSet(EntriesOf(t)) /\ IsFiniteSet(EntriesOf(u))
               /\ Uses(t, kind, x) \in Nat
               /\ Uses(u, kind, x) = Uses(t, kind, x) + One(i, x)
                                       + (IF kind[i] = "dir" THEN One(d, x) ELSE 0)
    <2> DEFINE e == <<d, n>>
               b == x = i
               c == x = d /\ kind[i] = "dir"
    <2>1. /\ EntriesOf(u) = EntriesOf(t) \cup {e} /\ e \notin EntriesOf(t)
          /\ \A y \in EntriesOf(t) : u[y[1]][y[2]] = t[y[1]][y[2]]
      BY EntryMore
    <2>2. IsFiniteSet(EntriesOf(t)) /\ IsFiniteSet(EntriesOf(u))
      BY <2>1, FS_Subset, FS_AddElement
    <2>3. NamesOf(u, x) = (IF b THEN NamesOf(t, x) \cup {e} ELSE NamesOf(t, x)) /\ e \notin NamesOf(t, x)
      BY <2>1 DEF NamesOf
    <2>4. /\ SubsIn(u, kind, x) = (IF c THEN SubsIn(t, kind, x) \cup {e} ELSE SubsIn(t, kind, x))
          /\ e \notin SubsIn(t, kind, x)
      BY <2>1 DEF SubsIn
    <2>5. /\ IsFiniteSet(NamesOf(t, x)) /\ IsFiniteSet(SubsIn(t, kind, x))
          /\ Cardinality(NamesOf(t, x)) \in Nat /\ Cardinality(SubsIn(t, kind, x)) \in Nat
          /\ Uses(t, kind, x) \in Nat
      BY <2>2, UsesNat
    <2>6. Cardinality(NamesOf(u, x)) = Cardinality(NamesOf(t, x)) + (IF b THEN 1 ELSE 0)
      BY <2>3, <2>5, CountOne
    <2>7. Cardinality(SubsIn(u, kind, x)) = Cardinality(SubsIn(t, kind, x)) + (IF c THEN 1 ELSE 0)
      BY <2>4, <2>5, CountOne
    <2>8. One(Root, x) \in Nat
      BY OneNat
    <2>9. (IF b THEN 1 ELSE 0) = One(i, x) /\ (IF c THEN 1 ELSE 0) = IF kind[i] = "dir" THEN One(d, x) ELSE 0
      BY DEF One
    <2> HIDE DEF b, c
    <2>10. PICK v \in Nat, w \in Nat : v = (IF b THEN 1 ELSE 0) /\ w = (IF c THEN 1 ELSE 0)
      OBVIOUS
    <2>11. Uses(u, kind, x) = Uses(t, kind, x) + v + w
      BY <2>5, <2>6, <2>7, <2>8, <2>10 DEF Uses
    <2> QED BY <2>2, <2>5, <2>9, <2>10, <2>11
  <1> QED BY <1>1

(* Entries go, and types. *)
LEMMA UsesLess ==
  ASSUME NEW t, NEW u, NEW kind, NEW type1, NEW x, IsFiniteSet(EntriesOf(t)),
         \A e \in EntriesOf(u) :
           /\ e \in EntriesOf(t) /\ u[e[1]][e[2]] = t[e[1]][e[2]]
           /\ type1[u[e[1]][e[2]]] = "dir" => kind[u[e[1]][e[2]]] = "dir"
  PROVE  IsFiniteSet(EntriesOf(u)) /\ Uses(u, type1, x) <= Uses(t, kind, x)
  <1>1. /\ EntriesOf(u) \subseteq EntriesOf(t)
        /\ NamesOf(u, x) \subseteq NamesOf(t, x)
        /\ SubsIn(u, type1, x) \subseteq SubsIn(t, kind, x)
    BY DEF NamesOf, SubsIn
  <1>2. IsFiniteSet(EntriesOf(u))
    BY <1>1, FS_Subset
  <1>3. /\ IsFiniteSet(NamesOf(t, x)) /\ IsFiniteSet(SubsIn(t, kind, x))
        /\ Cardinality(NamesOf(t, x)) \in Nat /\ Cardinality(SubsIn(t, kind, x)) \in Nat
        /\ Cardinality(NamesOf(u, x)) \in Nat /\ Cardinality(SubsIn(u, type1, x)) \in Nat
    BY <1>2, UsesNat
  <1>4. Cardinality(NamesOf(u, x)) <= Cardinality(NamesOf(t, x))
    BY <1>1, <1>3, FS_Subset
  <1>5. Cardinality(SubsIn(u, type1, x)) <= Cardinality(SubsIn(t, kind, x))
    BY <1>1, <1>3, FS_Subset
  <1>6. One(Root, x) \in Nat
    BY OneNat
  <1> QED BY <1>2, <1>3, <1>4, <1>5, <1>6 DEF Uses

(* An entry that leads nowhere closes no circle. *)
LEMMA NoCircleMore ==
  ASSUME NEW t, NEW u, NEW d \in Inums, NEW n, NEW i, Entered(t, u, d, n), u[d][n] = i,
         i # d, DOMAIN t[i] = {}, NoCircle(t)
  PROVE  NoCircle(u)
  <1>1. ASSUME NEW S \in (SUBSET Inums) \ {{}}
        PROVE  \E a \in S : ChildrenIn(u, a) \cap S = {}
    <2>1. CASE i \in S
      <3>1. Named(u[i]) = {}
        BY <2>1 DEF Entered, Named
      <3>2. ChildrenIn(u, i) = {}
        BY <3>1 DEF ChildrenIn
      <3> QED BY <2>1, <3>2
    <2>2. CASE i \notin S
      <3>1. PICK a \in S : ChildrenIn(t, a) \cap S = {}
        BY DEF NoCircle
      <3>2. ASSUME NEW y \in ChildrenIn(u, a) \cap S PROVE FALSE
        <4>1. PICK m \in Named(u[a]) : y = u[a][m]
          BY DEF ChildrenIn
        <4>2. CASE a = d /\ m = n
          BY <2>2, <4>1, <4>2
        <4>3. CASE ~(a = d /\ m = n)
          <5>1. m \in Named(t[a]) /\ u[a][m] = t[a][m]
            BY <4>1, <4>3 DEF Entered, Named
          <5>2. y \in ChildrenIn(t, a)
            BY <4>1, <5>1 DEF ChildrenIn
          <5> QED BY <3>1, <5>2
        <4> QED BY <4>2, <4>3
      <3> QED BY <3>2
    <2> QED BY <2>1, <2>2
  <1> QED BY <1>1 DEF NoCircle

LEMMA NoCircleLess ==
  ASSUME NEW t, NEW u, NoCircle(t), \A a \in Inums : ChildrenIn(u, a) \subseteq ChildrenIn(t, a)
  PROVE  NoCircle(u)
  BY DEF NoCircle

-----------------------------------------------------------------------------
(* The links of x suffice when they change with their uses. *)
LEMMA LinkOne ==
  ASSUME Types, Types', Links, NEW p \in Procs, Elsewhere(p), NEW x \in Inums,
         Uses(ents, type, x) \in Nat, Uses(ents', type', x) \in Nat,
         nlink'[x] - nlink[x] >= Uses(ents', type', x) - Uses(ents, type, x)
                                   + One(Counted'[p], x) - One(Counted[p], x)
  PROVE  nlink'[x] >= Uses(ents', type', x) + Users(Counted, x)'
  <1>1. nlink[x] >= Uses(ents, type, x) + Users(Counted, x)
    BY DEF Links
  <1>2. /\ Users(Counted, x) \in Nat
        /\ Users(Counted, x)' = Users(Counted, x) - One(Counted[p], x) + One(Counted'[p], x)
    BY CountedMoves
  <1>3. One(Counted[p], x) \in Nat /\ One(Counted'[p], x) \in Nat
    BY OneNat
  <1>4. nlink[x] \in Int /\ nlink'[x] \in Int
    BY DEF Types
  <1>5. PICK a, b, c, d, e, f, g, h :
          /\ a = nlink'[x] /\ b = nlink[x] /\ c = Uses(ents, type, x)
          /\ d = Users(Counted, x) /\ e = Users(Counted, x)'
          /\ f = One(Counted[p], x) /\ g = One(Counted'[p], x) /\ h = Uses(ents', type', x)
    OBVIOUS
  <1>6. /\ b >= c + d /\ d \in Nat /\ e = d - f + g /\ c \in Nat /\ h \in Nat
        /\ f \in Nat /\ g \in Nat /\ a \in Int /\ b \in Int /\ a - b >= h - c + g - f
    BY <1>1, <1>2, <1>3, <1>4, <1>5
  <1>7. a >= h + e
    BY ONLY <1>6
  <1> QED BY <1>5, <1>7

(* Circles are in the entries.                                             *)
LEMMA CircleSame ==
  ASSUME ents' = ents, NoCircle(ents)
  PROVE  NoCircle(ents)'
  <1>1. PICK t : t = ents
    OBVIOUS
  <1>2. NoCircle(t) /\ t = ents'
    BY <1>1
  <1> QED BY <1>2

(* A step that neither makes an inode nor changes entries and types.       *)
NotMaking(p) == (pc[p] # "made" /\ pc'[p] # "made") \/ UNCHANGED <<pc, ip, path>>

LEMMA TreeRest ==
  ASSUME Types, Types', Held, Tree, NEW p \in Procs, Elsewhere(p), UNCHANGED <<type, ents>>,
         NotMaking(p), ReachKnown', panic' # "nlink < 1",
         \A x \in Inums : nlink'[x] - nlink[x] >= One(Counted'[p], x) - One(Counted[p], x)
  PROVE  Tree'
  <1>1. ASSUME NEW q \in Procs, pc[q] = "made" \/ pc'[q] = "made"
        PROVE  pc'[q] = pc[q] /\ ip'[q] = ip[q] /\ path'[q] = path[q]
    BY <1>1 DEF NotMaking, Elsewhere
  <1>2. ASSUME NEW x PROVE Known(x)' <=> Known(x)
    BY <1>1 DEF Known
  <1>3. EntsKnown' /\ RootKnown'
    BY <1>2 DEF Tree, EntsKnown, RootKnown
  <1>4. Makers'
    BY <1>1 DEF Tree, Makers, Name
  <1>5. Dotted'
    <2>1. \A d \in Inums : (\E q \in Procs : pc[q] = "made" /\ ip[q] = d)
                           => (\E q \in Procs : pc'[q] = "made" /\ ip'[q] = d)
      BY <1>1
    <2>2. Dotted
      BY DEF Tree
    <2>3. ASSUME NEW d \in Inums
          PROVE  /\ "." \in DOMAIN ents'[d] => ents'[d]["."] = d
                 /\ ".." \in DOMAIN ents'[d] => type'[ents'[d][".."]] = "dir"
                 /\ type'[d] = "dir" => \/ Dots \subseteq DOMAIN ents'[d]
                                        \/ \E q \in Procs : pc'[q] = "made" /\ ip'[q] = d
      BY <2>1, <2>2 DEF Dotted
    <2> QED BY <2>3 DEF Dotted
  <1>6. Links'
    <2>1. ASSUME NEW x \in Inums
          PROVE  nlink'[x] >= Uses(ents', type', x) + Users(Counted, x)'
      <3>1. Uses(ents', type', x) = Uses(ents, type, x)
        OBVIOUS
      <3>2. Uses(ents, type, x) \in Nat /\ Links
        BY UsesNat DEF Held, Tree
      <3>3. nlink'[x] - nlink[x] >= One(Counted'[p], x) - One(Counted[p], x)
        OBVIOUS
      <3>4. nlink'[x] - nlink[x] >= Uses(ents', type', x) - Uses(ents, type, x)
                                      + One(Counted'[p], x) - One(Counted[p], x)
        <4>1. PICK a, f, g : a = Uses(ents, type, x) /\ f = One(Counted[p], x) /\ g = One(Counted'[p], x)
          OBVIOUS
        <4>2. f \in Nat /\ g \in Nat /\ a \in Nat
          BY <3>2, <4>1, OneNat
        <4>3. a - a + g - f = g - f
          BY ONLY <4>2
        <4> QED BY <3>1, <3>3, <4>1, <4>3
      <3> QED BY <3>1, <3>2, <3>4, LinkOne
    <2> QED BY <2>1 DEF Links, Uses, One, Users
  <1>7. NoCircle(ents)'
    BY CircleSame DEF Tree
  <1> QED BY <1>3, <1>4, <1>5, <1>6, <1>7 DEF Tree

(* The same when ref counts what p has. *)
LEMMA TreeQuiet ==
  ASSUME IInv, IInv', Held, Tree, NEW p \in Procs, Elsewhere(p), UNCHANGED <<type, ents>>,
         todo[p] = <<>>, pc[p] # "made", pc'[p] # "made", panic' # "nlink < 1",
         \A q \in Procs \ {p} : cwd'[q] = cwd[q] /\ file'[q] = file[q],
         \A x \in Inums : ref'[x] > ref[x] => Known(x),
         \A x \in Inums : nlink'[x] - nlink[x] >= One(Counted'[p], x) - One(Counted[p], x)
  PROVE  Tree'
  <1>1. ReachKnown'
    <2>1. \A x \in Inums : Known(x) => Known(x)'
      BY KnownSame
    <2>2. ReachKnown
      BY DEF Tree
    <2> QED BY <2>1, <2>2, ReachMoves
  <1>2. NotMaking(p) /\ Types /\ Types'
    BY DEF NotMaking, IInv
  <1> QED BY <1>1, <1>2, TreeRest

(* No link more or less, and none counted. *)
LEMMA CountsSame ==
  ASSUME Types, UNCHANGED nlink, NEW p, Counted'[p] = Counted[p]
  PROVE  \A x \in Inums : nlink'[x] - nlink[x] >= One(Counted'[p], x) - One(Counted[p], x)
  <1>1. ASSUME NEW x \in Inums
        PROVE  nlink'[x] - nlink[x] >= One(Counted'[p], x) - One(Counted[p], x)
    <2>1. nlink[x] \in Int /\ nlink'[x] = nlink[x] /\ One(Counted[p], x) \in Nat
      BY OneNat DEF Types
    <2>2. One(Counted'[p], x) = One(Counted[p], x)
      OBVIOUS
    <2> QED BY <2>1, <2>2
  <1> QED BY <1>1

(* What is taken is counted up, and known. *)
LEMMA TakenKnown ==
  ASSUME Types, NEW i \in Inums, ref' = Taken(i), Known(i)
  PROVE  \A x \in Inums : ref'[x] > ref[x] => Known(x)
  <1>1. ASSUME NEW x \in Inums, ref'[x] > ref[x] PROVE x = i
    BY <1>1 DEF Taken, Types
  <1> QED BY <1>1

LEMMA NoneTaken ==
  ASSUME Types, UNCHANGED ref PROVE \A x \in Inums : ref'[x] > ref[x] => Known(x)
  BY DEF Types

(* A panic stops all. *)
LEMMA TreeStops ==
  ASSUME Tree, panic' # "nlink < 1",
         UNCHANGED <<type, nlink, ents, cwd, file, pc, call, path, ip, dp, todo>>
  PROVE  Tree'
  <1>1. \A x : Known(x)' <=> Known(x)
    BY DEF Known
  <1>2. ReachKnown' /\ EntsKnown' /\ RootKnown' /\ Makers' /\ Dotted'
    BY <1>1 DEF Tree, ReachKnown, Reaches, EntsKnown, RootKnown, Makers, Name, Dotted
  <1>3. Links'
    <2>1. \A x : Uses(ents, type, x)' = Uses(ents, type, x)
      BY DEF Uses, One, NamesOf, SubsIn, EntriesOf
    <2>2. \A x : Users(Counted, x)' = Users(Counted, x)
      BY DEF Users, Counted, Linking
    <2> QED BY <2>1, <2>2 DEF Tree, Links
  <1>4. NoCircle(ents)'
    BY CircleSame DEF Tree
  <1> QED BY <1>2, <1>3, <1>4 DEF Tree

-----------------------------------------------------------------------------
(* The steps to where p has no lock and has counted no other link.         *)
Others(p) == \A q \in Procs \ {p} : cwd'[q] = cwd[q] /\ file'[q] = file[q]
TakesKnown == Tree => \A x \in Inums : ref'[x] > ref[x] => Known(x)

LEMMA CalmKeeps ==
  ASSUME IInv, IInv', Held, NEW p \in Procs, NEW c, Calm(p, c), Others(p), TakesKnown,
         UNCHANGED <<type, ents, nlink, lock, panic>>,
         pc[p] \notin Locking, todo[p] = <<>>, Linking(p) <=> c = "link2"
  PROVE  Held' /\ (Tree => Tree')
  <1>1. Control /\ Types
    BY DEF IInv
  <1>2. c = "link2" => type[ip[p]] = "file"
    BY DEF Held, Kinds
  <1>3. Held'
    BY <1>1, <1>2, HeldIdle
  <1>4. ASSUME Tree PROVE Tree'
    <2>1. Elsewhere(p) /\ pc'[p] # "made" /\ pc[p] # "made" /\ panic' # "nlink < 1"
      BY <1>4 DEF Calm, Locking, Tree
    <2>2. Counted'[p] = Counted[p]
      BY DEF Counted, Calm, Locking
    <2>3. \A x \in Inums : nlink'[x] - nlink[x] >= One(Counted'[p], x) - One(Counted[p], x)
      BY <1>1, <2>2, CountsSame
    <2>4. /\ \A q \in Procs \ {p} : cwd'[q] = cwd[q] /\ file'[q] = file[q]
          /\ \A x \in Inums : ref'[x] > ref[x] => Known(x)
      BY <1>4 DEF Others, TakesKnown
    <2> QED BY <1>4, <2>1, <2>3, <2>4, TreeQuiet
  <1> QED BY <1>3, <1>4

(* The call is over. *)
LEMMA EndKeeps ==
  ASSUME IInv, IInv', Held, NEW p \in Procs, NEW s, Done(p, s), Plain(s), Others(p),
         UNCHANGED <<type, ents, nlink, lock, ref, panic>>,
         pc[p] \notin Locking, todo[p] = <<>>, ~Linking(p)
  PROVE  Held' /\ (Tree => Tree')
  <1>1. Calm(p, "none")
    BY EndsCalm DEF IInv
  <1>2. TakesKnown
    BY NoneTaken DEF IInv, TakesKnown
  <1> QED BY <1>1, <1>2, CalmKeeps

(* What a panic leaves. *)
LEMMA StopKeeps ==
  ASSUME Held, Panic("no type")
  PROVE  Held' /\ (Tree => Tree')
  <1>1. /\ UNCHANGED <<type, nlink, ents, lock, cwd, file, pc, call, path, ip, dp, todo>>
        /\ panic' = "no type"
    BY DEF Panic, disk, cache, proc
  <1>2. Held'
    BY <1>1, HeldStops
  <1>3. Tree => Tree'
    BY <1>1, TreeStops
  <1> QED BY <1>2, <1>3

(* A walk starts where it knows. *)
LEMMA StartTakes ==
  ASSUME IInv, Tree, NEW p \in Procs, \E from \in {Root, cwd[p]} : ref' = Taken(from)
  PROVE  \A x \in Inums : ref'[x] > ref[x] => Known(x)
  <1>1. PICK from : from \in {Root, cwd[p]} /\ ref' = Taken(from)
    OBVIOUS
  <1>2. from \in Inums
    BY <1>1, InodesAssumption DEF IInv, Types
  <1>3. Known(from)
    <2>1. CASE from = Root
      BY <2>1 DEF Tree, RootKnown
    <2>2. CASE from = cwd[p]
      BY <1>2, <2>2 DEF Tree, ReachKnown, Reaches
    <2> QED BY <1>1, <2>1, <2>2
  <1> QED BY <1>1, <1>2, <1>3, TakenKnown DEF IInv

LEMMA BeginKeeps ==
  ASSUME IInv, IInv', Held, NEW p \in Procs, NEW c \in Operations, NEW name \in Paths,
         begin(p, c, name)
  PROVE  Held' /\ (Tree => Tree')
  <1>1. /\ pc[p] = "idle" /\ todo[p] = <<>> /\ Start(p, c, name)
        /\ UNCHANGED <<type, ents, nlink, lock, panic, cwd, file>>
    BY DEF begin, At, disk
  <1>2. Calm(p, c) /\ \E from \in {Root, cwd[p]} : ref' = Taken(from)
    BY <1>1, StartsCalm DEF IInv
  <1>3. c # "link2" /\ ~Linking(p) /\ pc[p] \notin Locking
    BY <1>1 DEF Operations, Linking, Locking
  <1>4. Others(p)
    BY <1>1 DEF Others
  <1>5. TakesKnown
    <2>1. ASSUME Tree PROVE \A x \in Inums : ref'[x] > ref[x] => Known(x)
      BY <1>2, <2>1, StartTakes
    <2> QED BY <2>1 DEF TakesKnown
  <1> QED BY <1>1, <1>2, <1>3, <1>4, <1>5, CalmKeeps

LEMMA FdKeeps ==
  ASSUME IInv, IInv', Held, NEW p \in Procs, TakeFd(p), UNCHANGED cwd,
         UNCHANGED <<type, ents, nlink, lock, ref, panic>>,
         pc[p] \notin Locking, todo[p] = <<>>, ~Linking(p)
  PROVE  Held' /\ (Tree => Tree')
  <1>1. Others(p)
    BY DEF TakeFd, Others, IInv, Types
  <1>2. PICK s : Done(p, s) /\ Plain(s)
    BY PlainLists DEF TakeFd
  <1> QED BY <1>1, <1>2, EndKeeps

LEMMA OpenKeeps ==
  ASSUME IInv, IInv', Held, NEW p \in Procs, NEW mode \in {"open", "write"}, sys_open(p, mode)
  PROVE  Held' /\ (Tree => Tree')
  <1>1. /\ pc[p] = mode /\ todo[p] = <<>> /\ pc[p] \notin Locking /\ ~Linking(p)
    BY DEF sys_open, At, Locking, Linking
  <1>2. CASE ~CanLoad(ip[p])
    BY <1>2, StopKeeps DEF sys_open
  <1>3. CASE CanLoad(ip[p])
    <2>1. UNCHANGED <<type, ents, nlink, lock, ref, panic, cwd>>
      BY <1>3 DEF sys_open, disk
    <2>2. CASE TakeFd(p)
      BY <1>1, <2>1, <2>2, FdKeeps
    <2>3. CASE ~TakeFd(p)
      <3>1. Done(p, <<Put(ip[p])>>) /\ UNCHANGED file
        BY <1>3, <2>3 DEF sys_open
      <3>2. Others(p)
        BY <2>1, <3>1 DEF Others
      <3>3. PICK s : s = <<Put(ip[p])>>
        OBVIOUS
      <3>4. Plain(s) /\ Done(p, s)
        BY <3>1, <3>3, PlainLists
      <3> QED BY <1>1, <2>1, <3>2, <3>4, EndKeeps
    <2> QED BY <2>2, <2>3
  <1> QED BY <1>2, <1>3

LEMMA FoundKeeps ==
  ASSUME IInv, IInv', Held, NEW p \in Procs, found(p)
  PROVE  Held' /\ (Tree => Tree')
  <1>1. /\ pc[p] = "found" /\ todo[p] = <<>> /\ pc[p] \notin Locking /\ ~Linking(p)
    BY DEF found, At, Locking, Linking
  <1>2. CASE ~CanLoad(ip[p])
    BY <1>2, StopKeeps DEF found
  <1>3. CASE CanLoad(ip[p])
    <2>1. UNCHANGED <<type, ents, nlink, lock, ref, panic, cwd>>
      BY <1>3 DEF found, disk
    <2>2. CASE TakeFd(p)
      BY <1>1, <2>1, <2>2, FdKeeps
    <2>3. CASE ~TakeFd(p)
      <3>1. Done(p, <<Put(ip[p])>>) /\ UNCHANGED file
        BY <1>3, <2>3 DEF found
      <3>2. Others(p)
        BY <2>1, <3>1 DEF Others
      <3>3. PICK s : s = <<Put(ip[p])>>
        OBVIOUS
      <3>4. Plain(s) /\ Done(p, s)
        BY <3>1, <3>3, PlainLists
      <3> QED BY <1>1, <2>1, <3>2, <3>4, EndKeeps
    <2> QED BY <2>2, <2>3
  <1> QED BY <1>2, <1>3

LEMMA ChdirKeeps ==
  ASSUME IInv, IInv', Held, NEW p \in Procs, sys_chdir(p)
  PROVE  Held' /\ (Tree => Tree')
  <1>1. /\ pc[p] = "chdir" /\ todo[p] = <<>> /\ pc[p] \notin Locking /\ ~Linking(p)
    BY DEF sys_chdir, At, Locking, Linking
  <1>2. CASE ~CanLoad(ip[p])
    BY <1>2, StopKeeps DEF sys_chdir
  <1>3. CASE CanLoad(ip[p])
    <2>1. UNCHANGED <<type, ents, nlink, lock, ref, panic, file>>
      BY <1>3 DEF sys_chdir, disk
    <2>2. PICK i : Done(p, <<Put(i)>>)
      BY <1>3 DEF sys_chdir
    <2>3. PICK s : s = <<Put(i)>>
      OBVIOUS
    <2>4. Plain(s) /\ Done(p, s)
      BY <2>2, <2>3, PlainLists
    <2>5. UNCHANGED cwd \/ cwd' = [cwd EXCEPT ![p] = ip[p]]
      BY <1>3 DEF sys_chdir
    <2>6. Others(p)
      BY <2>1, <2>5 DEF Others, IInv, Types
    <2> QED BY <1>1, <2>1, <2>4, <2>6, EndKeeps
  <1> QED BY <1>2, <1>3

LEMMA CloseKeeps ==
  ASSUME IInv, IInv', Held, NEW p \in Procs, sys_close(p)
  PROVE  Held' /\ (Tree => Tree')
  <1>1. /\ pc[p] = "idle" /\ todo[p] = <<>> /\ pc[p] \notin Locking /\ ~Linking(p)
    BY DEF sys_close, At, Locking, Linking
  <1>2. UNCHANGED <<type, ents, nlink, lock, ref, panic, cwd>>
    BY DEF sys_close, disk, cache
  <1>3. PICK s : s = <<Put(file[p])>>
    OBVIOUS
  <1>4. Plain(s) /\ Done(p, s)
    BY <1>3, PlainLists DEF sys_close
  <1>5. Others(p)
    BY <1>2 DEF Others, IInv, Types, sys_close
  <1> QED BY <1>1, <1>2, <1>4, <1>5, EndKeeps

LEMMA NamexKeeps ==
  ASSUME IInv, IInv', Held, NEW p \in Procs, namex(p)
  PROVE  Held' /\ (Tree => Tree')
  <1>1. /\ pc[p] = "walk" /\ todo[p] = <<>> /\ pc[p] \notin Locking
    BY DEF namex, At, Locking
  <1>2. Shape(p)
    BY DEF IInv, Control
  <1>3. PICK i \in Inums : i = dp[p]
    BY <1>1, <1>2 DEF Shape, HasDp
  <1>4. PICK c \in Operations \cup {"link2"} : c = call[p]
    BY <1>1, <1>2 DEF Shape
  <1>5. Linking(p) <=> c = "link2"
    BY <1>1, <1>4 DEF Linking
  <1>6. PICK rest : rest = path[p]
    OBVIOUS
  <1>7. CASE ~CanLoad(i)
    BY <1>3, <1>7, StopKeeps DEF namex
  <1>8. CASE CanLoad(i)
    <2>1. UNCHANGED <<type, ents, nlink, lock, cwd, file, panic>>
      BY <1>3, <1>8 DEF namex, disk
    <2>2. Others(p)
      BY <2>1 DEF Others
    <2>3. ASSUME Calm(p, c), TakesKnown PROVE Held' /\ (Tree => Tree')
      BY <1>1, <1>5, <2>1, <2>2, <2>3, CalmKeeps
    <2>4. ASSUME UNCHANGED ref PROVE TakesKnown
      BY <2>4, NoneTaken DEF IInv, TakesKnown
    <2>5. CASE type[i] # "dir" \/ (~(WantsParent(c) /\ Len(rest) = 1) /\ Head(rest) \notin DOMAIN ents[i])
      <3>1. Failed(p, c, <<Put(i)>>) /\ UNCHANGED ref
        BY <1>3, <1>4, <1>6, <1>8, <2>5 DEF namex
      <3>2. PICK s : s = <<Put(i)>>
        OBVIOUS
      <3>3. Plain(s) /\ Failed(p, c, s)
        BY <3>1, <3>2, PlainLists
      <3>4. Calm(p, c)
        BY <3>3, FailsCalm DEF IInv
      <3> QED BY <2>3, <2>4, <3>1, <3>4
    <2>6. CASE type[i] = "dir" /\ WantsParent(c) /\ Len(rest) = 1
      <3>1. PICK o : o = ip[p]
        OBVIOUS
      <3>2. Go(p, c, o, i, <<>>) /\ UNCHANGED ref
        BY <1>3, <1>4, <1>6, <1>8, <2>6, <3>1 DEF namex
      <3>3. PICK s : s = <<>>
        OBVIOUS
      <3>4. Elsewhere(p) /\ pc'[p] = c /\ ip'[p] = o /\ dp'[p] = i /\ todo'[p] = s
        BY <3>2, <3>3, GoMoved DEF IInv
      <3>5. c \in {"create", "mkdir", "unlink", "link2"} /\ Plain(s)
        BY <2>6, <3>3, PlainLists DEF WantsParent
      <3>6. Calm(p, c)
        BY <2>1, <2>6, <3>1, <3>4, <3>5 DEF Calm, Locking, Linking
      <3> QED BY <2>3, <2>4, <3>2, <3>6
    <2>7. CASE /\ type[i] = "dir" /\ ~(WantsParent(c) /\ Len(rest) = 1)
               /\ Head(rest) \in DOMAIN ents[i]
      <3>1. PICK next \in Inums : next = ents[i][Head(rest)]
        BY <2>7 DEF IInv, Types
      <3>2. PICK left : left = Tail(rest)
        OBVIOUS
      <3>3. PICK s \in Owed : s = <<Put(i)>>
        BY DEF Owed
      <3>4. ref' = Taken(next) /\ Arrive(p, c, next, left, s)
        BY <1>3, <1>4, <1>6, <1>8, <2>7, <3>1, <3>2, <3>3 DEF namex
      <3>5. Calm(p, c)
        BY <3>4, ArrivesCalm DEF IInv
      <3>6. TakesKnown
        <4>1. ASSUME Tree PROVE \A x \in Inums : ref'[x] > ref[x] => Known(x)
          <5>1. Known(next)
            BY <2>7, <3>1, <4>1 DEF Tree, EntsKnown
          <5> QED BY <3>4, <5>1, TakenKnown DEF IInv
        <4> QED BY <4>1 DEF TakesKnown
      <3> QED BY <2>3, <3>5, <3>6
    <2> QED BY <2>5, <2>6, <2>7
  <1> QED BY <1>7, <1>8

-----------------------------------------------------------------------------
(* The steps that take or leave a lock, or count a link.                   *)
LEMMA FreesLock ==
  ASSUME IInv, Held, NEW p \in Procs, Calm(p, "none"), UNCHANGED <<type, ents>>,
         pc[p] \in {"filled", "unlinked"}, todo[p] = <<>>,
         lock' = [lock EXCEPT ![ip[p]] = NoOne]
  PROVE  Held'
  <1>1. ASSUME NEW i \in Inums PROVE lock'[i] = IF lock[i] = p THEN NoOne ELSE lock[i]
    <2>1. Holds(p, i) <=> ip[p] = i
      BY DEF Holds
    <2>2. lock[i] = p <=> ip[p] = i
      BY <2>1 DEF Held, LockOwners
    <2> QED BY <2>2 DEF IInv, Types
  <1>2. EntsMove(p) /\ OnlyDirs' /\ IsFiniteSet(EntriesOf(ents'))
    BY DEF EntsMove, Held, OnlyDirs
  <1> QED BY <1>1, <1>2, HeldCalm DEF IInv

LEMMA CreatedKeeps ==
  ASSUME IInv, IInv', Held, NEW p \in Procs, created(p)
  PROVE  Held' /\ (Tree => Tree')
  <1>1. /\ pc[p] = "filled" /\ todo[p] = <<>> /\ lock' = [lock EXCEPT ![ip[p]] = NoOne]
        /\ UNCHANGED <<type, ents, nlink, ref, cwd, panic>>
    BY DEF created, At, disk
  <1>2. Others(p)
    BY <1>1 DEF created, TakeFd, Others, IInv, Types
  <1>3. PICK s : Done(p, s) /\ Plain(s)
    <2>1. CASE call[p] = "create"
      BY <2>1, PlainLists DEF created, TakeFd
    <2>2. CASE call[p] # "create"
      BY <2>2, PlainLists DEF created
    <2> QED BY <2>1, <2>2
  <1>4. Calm(p, "none")
    BY <1>3, EndsCalm DEF IInv
  <1>5. Held'
    BY <1>1, <1>4, FreesLock
  <1>6. ASSUME Tree PROVE Tree'
    <2>1. Elsewhere(p) /\ pc'[p] # "made" /\ pc[p] # "made" /\ panic' # "nlink < 1"
      BY <1>1, <1>4, <1>6 DEF Calm, Locking, Tree
    <2>2. Counted'[p] = Counted[p]
      BY <1>1, <1>4 DEF Counted, Calm, Locking, Linking
    <2>3. /\ \A x \in Inums : nlink'[x] - nlink[x] >= One(Counted'[p], x) - One(Counted[p], x)
          /\ \A x \in Inums : ref'[x] > ref[x] => Known(x)
      BY <1>1, <2>2, CountsSame, NoneTaken DEF IInv
    <2>4. \A q \in Procs \ {p} : cwd'[q] = cwd[q] /\ file'[q] = file[q]
      BY <1>2 DEF Others
    <2> QED BY <1>1, <1>6, <2>1, <2>3, <2>4, TreeQuiet
  <1> QED BY <1>5, <1>6

(* A link counted out with the call that had counted it. *)
LEMMA CountedOut ==
  ASSUME Types, NEW p \in Procs, NEW i \in Inums, Counted[p] = i, Counted'[p] = NoInode,
         nlink' = [nlink EXCEPT ![i] = @ - 1]
  PROVE  \A x \in Inums : nlink'[x] - nlink[x] >= One(Counted'[p], x) - One(Counted[p], x)
  <1>1. ASSUME NEW x \in Inums
        PROVE  nlink'[x] - nlink[x] >= One(Counted'[p], x) - One(Counted[p], x)
    <2>1. nlink[x] \in Int /\ nlink'[x] = nlink[x] - One(i, x)
      BY DEF Types, One
    <2>2. One(i, x) \in Nat /\ One(NoInode, x) = 0
      BY OneNat, OneNone
    <2> QED BY <2>1, <2>2
  <1> QED BY <1>1

LEMMA UnlinkedKeeps ==
  ASSUME IInv, IInv', Held, NEW p \in Procs, unlinked(p)
  PROVE  Held' /\ (Tree => Tree')
  <1>1. /\ pc[p] = "unlinked" /\ todo[p] = <<>> /\ lock' = [lock EXCEPT ![ip[p]] = NoOne]
        /\ nlink' = [nlink EXCEPT ![ip[p]] = @ - 1]
        /\ UNCHANGED <<type, ents, ref, cwd, file, panic>>
    BY DEF unlinked, At
  <1>2. PICK s : s = <<Put(ip[p])>>
    OBVIOUS
  <1>3. Done(p, s) /\ Plain(s)
    BY <1>2, PlainLists DEF unlinked
  <1>4. Calm(p, "none")
    BY <1>3, EndsCalm DEF IInv
  <1>5. Held'
    BY <1>1, <1>4, FreesLock
  <1>6. ASSUME Tree PROVE Tree'
    <2>1. Elsewhere(p) /\ pc'[p] # "made" /\ pc[p] # "made" /\ panic' # "nlink < 1"
      BY <1>1, <1>4, <1>6 DEF Calm, Locking, Tree
    <2>2. PICK i \in Inums : i = ip[p]
      BY <1>1 DEF IInv, Control, Shape, HasIp
    <2>3. Counted[p] = i /\ Counted'[p] = NoInode
      BY <1>1, <1>4, <2>2 DEF Counted, Calm, Locking
    <2>4. \A x \in Inums : nlink'[x] - nlink[x] >= One(Counted'[p], x) - One(Counted[p], x)
      BY <1>1, <2>2, <2>3, CountedOut DEF IInv
    <2>5. \A x \in Inums : ref'[x] > ref[x] => Known(x)
      BY <1>1, NoneTaken DEF IInv
    <2> QED BY <1>1, <1>6, <2>1, <2>4, <2>5, TreeQuiet
  <1> QED BY <1>5, <1>6

LEMMA LinkbadKeeps ==
  ASSUME IInv, IInv', Held, NEW p \in Procs, linkbad(p)
  PROVE  Held' /\ (Tree => Tree')
  <1>1. /\ pc[p] = "linkbad" /\ todo[p] = <<>>
        /\ nlink' = [nlink EXCEPT ![ip[p]] = @ - 1]
        /\ UNCHANGED <<type, ents, lock, ref, cwd, file, panic>>
    BY DEF linkbad, At
  <1>2. PICK s : s = <<Put(ip[p])>>
    OBVIOUS
  <1>3. Done(p, s) /\ Plain(s)
    BY <1>2, PlainLists DEF linkbad
  <1>4. Calm(p, "none")
    BY <1>3, EndsCalm DEF IInv
  <1>5. Held'
    <2>1. pc[p] \notin Locking
      BY <1>1 DEF Locking
    <2> QED BY <1>1, <1>4, <2>1, HeldIdle DEF IInv
  <1>6. ASSUME Tree PROVE Tree'
    <2>1. Elsewhere(p) /\ pc'[p] # "made" /\ pc[p] # "made" /\ panic' # "nlink < 1"
      BY <1>1, <1>4, <1>6 DEF Calm, Locking, Tree
    <2>2. PICK i \in Inums : i = ip[p]
      BY <1>1 DEF IInv, Control, Shape, HasIp
    <2>3. Counted[p] = i /\ Counted'[p] = NoInode
      BY <1>1, <1>4, <2>2 DEF Counted, Calm, Locking, Linking
    <2>4. \A x \in Inums : nlink'[x] - nlink[x] >= One(Counted'[p], x) - One(Counted[p], x)
      BY <1>1, <2>2, <2>3, CountedOut DEF IInv
    <2>5. \A x \in Inums : ref'[x] > ref[x] => Known(x)
      BY <1>1, NoneTaken DEF IInv
    <2> QED BY <1>1, <1>6, <2>1, <2>4, <2>5, TreeQuiet
  <1> QED BY <1>5, <1>6

LEMMA LinkKeeps ==
  ASSUME IInv, IInv', Held, NEW p \in Procs, sys_link(p)
  PROVE  Held' /\ (Tree => Tree')
  <1>1. /\ pc[p] = "link" /\ todo[p] = <<>> /\ pc[p] \notin Locking /\ ~Linking(p)
    BY DEF sys_link, At, Locking, Linking
  <1>2. PICK i \in Inums : i = ip[p]
    BY <1>1 DEF IInv, Control, Shape, HasIp
  <1>3. CASE ~CanLoad(i)
    BY <1>2, <1>3, StopKeeps DEF sys_link
  <1>4. CASE CanLoad(i)
    <2>1. UNCHANGED <<type, ents, lock, cwd, file, panic>>
      BY <1>2, <1>4 DEF sys_link
    <2>2. Others(p)
      BY <2>1 DEF Others
    <2>3. CASE type[i] = "dir"
      <3>1. Done(p, <<Put(i)>>) /\ UNCHANGED <<nlink, ref>>
        BY <1>2, <1>4, <2>3 DEF sys_link
      <3>2. PICK s : s = <<Put(i)>>
        OBVIOUS
      <3>3. Done(p, s) /\ Plain(s)
        BY <3>1, <3>2, PlainLists
      <3> QED BY <1>1, <2>1, <2>2, <3>1, <3>3, EndKeeps
    <2>4. CASE type[i] # "dir"
      <3>1. PICK new \in Paths : Start(p, "link2", new)
        BY <1>2, <1>4, <2>4 DEF sys_link
      <3>2. nlink' = [nlink EXCEPT ![i] = @ + 1]
        BY <1>2, <1>4, <2>4 DEF sys_link
      <3>3. PICK c \in Operations \cup {"link2"} : c = "link2"
        OBVIOUS
      <3>4. Calm(p, c) /\ \E from \in {Root, cwd[p]} : ref' = Taken(from)
        BY <3>1, <3>3, StartsCalm DEF IInv
      <3>5. type[i] = "file"
        BY <1>4, <2>4 DEF CanLoad, IInv, Types
      <3>6. Held'
        BY <1>1, <1>2, <2>1, <3>4, <3>5, HeldIdle DEF IInv
      <3>7. ASSUME Tree PROVE Tree'
        <4>1. Elsewhere(p) /\ pc'[p] # "made" /\ pc[p] # "made" /\ panic' # "nlink < 1"
          BY <1>1, <2>1, <3>4, <3>7 DEF Calm, Locking, Tree
        <4>2. Counted[p] = NoInode /\ Counted'[p] = i
          BY <1>1, <1>2, <3>3, <3>4 DEF Counted, Calm
        <4>3. ASSUME NEW x \in Inums
              PROVE  nlink'[x] - nlink[x] >= One(Counted'[p], x) - One(Counted[p], x)
          <5>1. nlink[x] \in Int /\ nlink'[x] = nlink[x] + One(i, x)
            BY <3>2 DEF IInv, Types, One
          <5>2. One(i, x) \in Nat /\ One(NoInode, x) = 0
            BY OneNat, OneNone
          <5> QED BY <4>2, <5>1, <5>2
        <4>4. \A x \in Inums : ref'[x] > ref[x] => Known(x)
          BY <3>4, <3>7, StartTakes
        <4> QED BY <1>1, <2>1, <3>7, <4>1, <4>3, <4>4, TreeQuiet
      <3> QED BY <3>6, <3>7
    <2> QED BY <2>3, <2>4
  <1> QED BY <1>3, <1>4

-----------------------------------------------------------------------------
(* The steps that take a lock and keep it. *)
LEMMA UnlockList ==
  ASSUME NEW x, NEW d, NEW s, s = <<Put(x), Unlock(d), Put(d)>>
  PROVE  /\ \A i : (\E k \in 1..Len(s) : s[k] = Unlock(i)) <=> i = d
         /\ \A k \in 1..Len(s) : s[k][1] = "unlock" => k = 2
  <1>1. Len(s) = 3 /\ s[1] = Put(x) /\ s[2] = Unlock(d) /\ s[3] = Put(d)
    OBVIOUS
  <1>2. \A i, j : Put(i) # Unlock(j) /\ (Unlock(i) = Unlock(j) <=> i = j)
    BY DEF Put, Unlock
  <1>3. \A i : Put(i)[1] # "unlock"
    BY DEF Put
  <1> QED BY ONLY <1>1, <1>2, <1>3

(* p, which has no lock, takes that of d. *)
LEMMA TakesLock ==
  ASSUME Types, Held, NEW p \in Procs, NEW d \in Inums, pc[p] \notin Locking, todo[p] = <<>>,
         Free(d), lock' = [lock EXCEPT ![d] = p],
         \A i \in Inums : Holds(p, i)' <=> i = d
  PROVE  LocksMove(p)
  <1>1. ASSUME NEW i \in Inums, i # d PROVE lock'[i] = lock[i] /\ (Holds(p, i)' <=> Holds(p, i))
    <2>1. ~Holds(p, i)
      BY DEF Holds, Locking
    <2> QED BY <1>1, <2>1 DEF Types
  <1>2. lock[d] = NoOne /\ lock'[d] = p
    BY DEF Types, Free
  <1> QED BY <1>1, <1>2 DEF LocksMove

LEMMA UnlinkKeeps ==
  ASSUME IInv, IInv', Held, NEW p \in Procs, sys_unlink(p)
  PROVE  Held' /\ (Tree => Tree')
  <1>1. /\ pc[p] = "unlink" /\ todo[p] = <<>> /\ pc[p] \notin Locking /\ ~Linking(p)
        /\ UNCHANGED <<type, ents, nlink, cwd, file, panic>>
    BY DEF sys_unlink, At, Locking, Linking, disk
  <1>2. PICK d \in Inums : d = dp[p]
    BY <1>1 DEF IInv, Control, Shape, HasDp
  <1>3. Free(d) /\ Others(p)
    BY <1>1, <1>2 DEF sys_unlink, Others
  <1>4. CASE Name(p) \in Dots \/ Name(p) \notin DOMAIN ents[d]
    <2>1. Done(p, <<Put(d)>>) /\ UNCHANGED <<ref, lock>>
      BY <1>2, <1>4 DEF sys_unlink
    <2>2. PICK s : s = <<Put(d)>>
      OBVIOUS
    <2>3. Done(p, s) /\ Plain(s)
      BY <2>1, <2>2, PlainLists
    <2> QED BY <1>1, <1>3, <2>1, <2>3, EndKeeps
  <1>5. CASE ~(Name(p) \in Dots \/ Name(p) \notin DOMAIN ents[d])
    <2>1. PICK i \in Inums : i = ents[d][Name(p)]
      BY <1>5 DEF IInv, Types
    <2>2. ref' = Taken(i) /\ lock' = [lock EXCEPT ![d] = p] /\ Go(p, "erase", i, d, <<>>)
      BY <1>2, <1>5, <2>1 DEF sys_unlink
    <2>3. PICK s : s = <<>>
      OBVIOUS
    <2>4. /\ Elsewhere(p) /\ pc'[p] = "erase" /\ ip'[p] = i /\ dp'[p] = d /\ todo'[p] = s
          /\ path'[p] = path[p]
      BY <2>2, <2>3, GoMoved DEF IInv
    <2>5. Held'
      <3>1. \A x \in Inums : Holds(p, x)' <=> x = d
        BY <2>3, <2>4 DEF Holds
      <3>2. LocksMove(p)
        BY <1>1, <1>3, <2>2, <3>1, TakesLock DEF IInv
      <3>3. TypesMove /\ EntsMove(p)
        BY <1>1 DEF TypesMove, EntsMove
      <3>4. OnlyDirs' /\ IsFiniteSet(EntriesOf(ents'))
        BY <1>1 DEF Held, OnlyDirs
      <3>5. type[d] = "dir"
        BY <1>1, <1>2 DEF Held, Kinds, HasDp
      <3>6. Name(p)' = Name(p) /\ ~Linking(p)' /\ Unlocks(p)'
        BY <2>3, <2>4 DEF Name, Linking, Unlocks
      <3>7. Leaves(p)
        BY <1>1, <1>5, <2>1, <2>4, <3>5, <3>6 DEF Leaves, Named
      <3> QED BY <2>4, <3>2, <3>3, <3>4, <3>7, HeldStep DEF IInv
    <2>6. ASSUME Tree PROVE Tree'
      <3>1. Elsewhere(p) /\ pc'[p] # "made" /\ pc[p] # "made" /\ panic' # "nlink < 1"
        BY <1>1, <2>4, <2>6 DEF Tree
      <3>2. Counted'[p] = Counted[p]
        BY <1>1, <2>4 DEF Counted, Linking
      <3>3. \A x \in Inums : nlink'[x] - nlink[x] >= One(Counted'[p], x) - One(Counted[p], x)
        BY <1>1, <3>2, CountsSame DEF IInv
      <3>4. Known(i)
        BY <1>5, <2>1, <2>6 DEF Tree, EntsKnown
      <3>5. \A x \in Inums : ref'[x] > ref[x] => Known(x)
        BY <2>2, <3>4, TakenKnown DEF IInv
      <3> QED BY <1>1, <2>6, <3>1, <3>3, <3>5, TreeQuiet
    <2> QED BY <2>5, <2>6
  <1> QED BY <1>4, <1>5

(* The name that dirlink finds. *)
LEMMA DirlinkFinds ==
  ASSUME IInv, IInv', Held, NEW p \in Procs, dirlink(p), Name(p) \in DOMAIN ents[dp[p]]
  PROVE  Held' /\ (Tree => Tree')
  <1>1. /\ pc[p] = "link2" /\ todo[p] = <<>> /\ pc[p] \notin Locking
        /\ UNCHANGED <<type, ents, nlink, cwd, file, panic>>
    BY DEF dirlink, At, Locking
  <1>2. PICK d \in Inums : d = dp[p]
    BY <1>1 DEF IInv, Control, Shape, HasDp
  <1>3. PICK x \in Inums : x = ents[d][Name(p)]
    BY <1>2 DEF IInv, Types
  <1>4. PICK i \in Inums : i = ip[p]
    BY <1>1 DEF IInv, Control, Shape, HasIp
  <1>5. PICK s : s = <<Put(x), Unlock(d), Put(d)>>
    OBVIOUS
  <1>6. Free(d) /\ ref' = Taken(x) /\ lock' = [lock EXCEPT ![d] = p] /\ Go(p, "linkbad", i, NoInode, s)
    BY <1>2, <1>3, <1>4, <1>5 DEF dirlink
  <1>7. /\ Elsewhere(p) /\ pc'[p] = "linkbad" /\ ip'[p] = i /\ dp'[p] = NoInode /\ todo'[p] = s
    BY <1>6, GoMoved DEF IInv
  <1>8. Held'
    <2>1. \A y \in Inums : Holds(p, y)' <=> y = d
      BY <1>5, <1>7, UnlockList DEF Holds
    <2>2. LocksMove(p)
      BY <1>1, <1>6, <2>1, TakesLock DEF IInv
    <2>3. TypesMove /\ EntsMove(p)
      BY <1>1 DEF TypesMove, EntsMove
    <2>4. OnlyDirs' /\ IsFiniteSet(EntriesOf(ents'))
      BY <1>1 DEF Held, OnlyDirs
    <2>5. type[i] = "file"
      BY <1>1, <1>4 DEF Held, Kinds, Linking
    <2>6. Unlocks(p)'
      <3>1. \A k \in 1..Len(s) : s[k][1] = "unlock" => k = 2
        BY <1>5, UnlockList
      <3> QED BY <1>7, <3>1 DEF Unlocks
    <2>7. Leaves(p)
      BY <1>1, <1>7, <2>5, <2>6 DEF Leaves, HasDp
    <2> QED BY <1>7, <2>2, <2>3, <2>4, <2>7, HeldStep DEF IInv
  <1>9. ASSUME Tree PROVE Tree'
    <2>1. Elsewhere(p) /\ pc'[p] # "made" /\ pc[p] # "made" /\ panic' # "nlink < 1"
      BY <1>1, <1>7, <1>9 DEF Tree
    <2>2. Counted'[p] = Counted[p]
      BY <1>1, <1>4, <1>7 DEF Counted, Linking
    <2>3. \A y \in Inums : nlink'[y] - nlink[y] >= One(Counted'[p], y) - One(Counted[p], y)
      BY <1>1, <2>2, CountsSame DEF IInv
    <2>4. Known(x)
      BY <1>2, <1>3, <1>9 DEF Tree, EntsKnown
    <2>5. \A y \in Inums : ref'[y] > ref[y] => Known(y)
      BY <1>6, <2>4, TakenKnown DEF IInv
    <2> QED BY <1>1, <1>9, <2>1, <2>3, <2>5, TreeQuiet
  <1> QED BY <1>8, <1>9

(* The directory that is not empty. *)
LEMMA EraseRefuses ==
  ASSUME IInv, IInv', Held, NEW p \in Procs, erase(p),
         CanLoad(ip[p]), ~(nlink[ip[p]] < 1), type[ip[p]] = "dir" /\ ~isdirempty(ip[p])
  PROVE  Held' /\ (Tree => Tree')
  <1>1. /\ pc[p] = "erase" /\ todo[p] = <<>>
        /\ UNCHANGED <<type, ents, nlink, lock, ref, cwd, file, panic>>
    BY DEF erase, At
  <1>2. PICK d \in Inums : d = dp[p]
    BY <1>1 DEF IInv, Control, Shape, HasDp
  <1>3. PICK i : i = ip[p]
    OBVIOUS
  <1>4. PICK s : s = <<Put(i), Unlock(d), Put(d)>>
    OBVIOUS
  <1>5. Done(p, s)
    BY <1>2, <1>3, <1>4 DEF erase
  <1>6. /\ Elsewhere(p) /\ pc'[p] = "idle" /\ ip'[p] = NoInode /\ dp'[p] = NoInode /\ todo'[p] = s
    BY <1>5, DoneMoved DEF IInv
  <1>7. Held'
    <2>1. \A y \in Inums : (Holds(p, y)' <=> y = d) /\ (Holds(p, y) <=> y = d)
      BY <1>1, <1>2, <1>4, <1>6, UnlockList DEF Holds
    <2>2. LocksMove(p)
      BY <1>1, <2>1 DEF LocksMove
    <2>3. TypesMove /\ EntsMove(p)
      BY <1>1 DEF TypesMove, EntsMove
    <2>4. OnlyDirs' /\ IsFiniteSet(EntriesOf(ents'))
      BY <1>1 DEF Held, OnlyDirs
    <2>5. Unlocks(p)'
      <3>1. \A k \in 1..Len(s) : s[k][1] = "unlock" => k = 2
        BY <1>4, UnlockList
      <3> QED BY <1>6, <3>1 DEF Unlocks
    <2>6. Leaves(p)
      BY <1>6, <2>5 DEF Leaves, HasDp, Linking
    <2> QED BY <1>6, <2>2, <2>3, <2>4, <2>6, HeldStep DEF IInv
  <1>8. ASSUME Tree PROVE Tree'
    <2>1. Elsewhere(p) /\ pc'[p] # "made" /\ pc[p] # "made" /\ panic' # "nlink < 1"
      BY <1>1, <1>6, <1>8 DEF Tree
    <2>2. Counted'[p] = Counted[p]
      BY <1>1, <1>6 DEF Counted, Linking
    <2>3. \A y \in Inums : nlink'[y] - nlink[y] >= One(Counted'[p], y) - One(Counted[p], y)
      BY <1>1, <2>2, CountsSame DEF IInv
    <2>4. \A y \in Inums : ref'[y] > ref[y] => Known(y)
      BY <1>1, NoneTaken DEF IInv
    <2> QED BY <1>1, <1>8, <2>1, <2>3, <2>4, TreeQuiet
  <1> QED BY <1>7, <1>8

-----------------------------------------------------------------------------
(* The steps that enter a name.  i, which has no entries, gets one in d. *)
LEMMA EntriesFinite ==
  ASSUME NEW t, NEW u, NEW d \in Inums, NEW n, IsFiniteSet(EntriesOf(t)),
         \A x \in Inums : \/ Named(u[x]) \subseteq Named(t[x])
                          \/ x = d /\ Named(u[x]) \subseteq Named(t[x]) \cup {n}
  PROVE  IsFiniteSet(EntriesOf(u))
  <1>1. ASSUME NEW e \in EntriesOf(u) PROVE e \in EntriesOf(t) \cup {<<d, n>>}
    <2>0. PICK x \in Inums : \E m \in Named(u[x]) : e = <<x, m>>
      BY EntryIs
    <2>1. PICK m \in Named(u[x]) : e = <<x, m>>
      BY <2>0
    <2>2. m \in Named(t[x]) \/ (x = d /\ m = n)
      BY <2>1
    <2> QED BY <2>1, <2>2, EntryIs
  <1>2. IsFiniteSet(EntriesOf(t) \cup {<<d, n>>})
    BY FS_AddElement
  <1>3. EntriesOf(u) \subseteq EntriesOf(t) \cup {<<d, n>>}
    BY <1>1
  <1> QED BY <1>2, <1>3, FS_Subset

LEMMA EntersTree ==
  ASSUME Types, Control, Tree, NEW p \in Procs, Elsewhere(p), UNCHANGED type, pc'[p] # "made",
         NEW d \in Inums, NEW i \in Inums, NEW n,
         Entered(ents, ents', d, n), ents'[d][n] = i, i # d, DOMAIN ents[i] = {},
         Known(d), Known(i)', type[d] = "dir", \A x \in Inums : Known(x) => Known(x)',
         \A x \in Inums \ {d, i} : ents'[x] = ents[x],
         \/ ents'[i] = ents[i] /\ (type[i] = "dir" => pc[p] # "made")
         \/ ents'[i] = DotsOf(i, d),
         pc[p] = "made" => ip[p] = i
  PROVE  EntsKnown' /\ RootKnown' /\ Makers' /\ Dotted' /\ NoCircle(ents)'
  <1>1. /\ n \notin Dots /\ DOMAIN ents'[d] = DOMAIN ents[d] \cup {n}
        /\ \A m \in DOMAIN ents[d] : ents'[d][m] = ents[d][m]
    BY DEF Entered
  <1>2. Known(d)'
    OBVIOUS
  <1>3. /\ DOMAIN DotsOf(i, d) = Dots
        /\ DotsOf(i, d)["."] = i /\ DotsOf(i, d)[".."] = d
    BY DEF DotsOf, Dots
  <1>4. EntsKnown'
    <2>1. ASSUME NEW x \in Inums, NEW m \in DOMAIN ents'[x] PROVE Known(ents[x][m])'
      <3>1. ASSUME NEW y \in Inums, NEW k \in DOMAIN ents[y] PROVE Known(ents[y][k])
        BY DEF Tree, EntsKnown
      <3>2. ASSUME m \in DOMAIN ents[x], ents'[x][m] = ents[x][m] PROVE Known(ents[x][m])'
        <4>1. PICK y \in Inums : y = ents[x][m]
          BY <3>2 DEF Types
        <4>2. Known(y)'
          BY <3>1, <3>2, <4>1
        <4>3. y = ents'[x][m]
          BY <3>2, <4>1
        <4> QED BY <4>2, <4>3 DEF Known
      <3>3. CASE x = d /\ m = n
        BY <3>3 DEF Known
      <3>4. CASE x = d /\ m # n
        BY <1>1, <3>2, <3>4
      <3>5. CASE x \notin {d, i}
        BY <3>2, <3>5
      <3>6. CASE x = i
        <4>1. ents'[i] = DotsOf(i, d)
          BY <3>6
        <4>2. m \in Dots
          BY <1>3, <3>6, <4>1
        <4>3. ents'[x][m] = i \/ ents'[x][m] = d
          BY <1>3, <3>6, <4>1, <4>2 DEF Dots
        <4> QED BY <1>2, <4>3 DEF Known
      <3> QED BY <3>3, <3>4, <3>5, <3>6
    <2> QED BY <2>1 DEF EntsKnown
  <1>5. RootKnown'
    BY InodesAssumption DEF Tree, RootKnown
  <1>6. ASSUME NEW q \in Procs, pc'[q] = "made"
        PROVE  /\ q # p /\ pc[q] = "made" /\ ip'[q] = ip[q] /\ Name(q)' = Name(q)
               /\ ip[q] \in Inums \ {d, i}
    <2>1. q # p /\ pc[q] = "made" /\ ip'[q] = ip[q] /\ Name(q)' = Name(q)
      BY <1>6 DEF Elsewhere, Name
    <2>2. ip[q] \in Inums
      BY <2>1 DEF Control, Shape, HasIp
    <2>3. ip[q] # d /\ ip'[q] # i
      BY <1>6, <2>1 DEF Known
    <2> QED BY <2>1, <2>2, <2>3
  <1>7. Makers'
    <2>1. Makers
      BY DEF Tree
    <2>2. ASSUME NEW q \in Procs, pc'[q] = "made"
          PROVE  /\ Name(q)' \notin Dots /\ DOMAIN ents'[ip'[q]] = {}
                 /\ \A r \in Procs \ {q} : pc'[r] = "made" => ip'[r] # ip'[q]
      BY <1>6, <2>1, <2>2 DEF Makers
    <2> QED BY <2>2 DEF Makers
  <1>8. Dotted'
    <2>1. Dotted
      BY DEF Tree
    <2>2. ASSUME NEW x \in Inums
          PROVE  /\ "." \in DOMAIN ents'[x] => ents'[x]["."] = x
                 /\ ".." \in DOMAIN ents'[x] => type'[ents'[x][".."]] = "dir"
                 /\ type'[x] = "dir" => \/ Dots \subseteq DOMAIN ents'[x]
                                        \/ \E q \in Procs : pc'[q] = "made" /\ ip'[q] = x
      <3>1. CASE x = d
        <4>1. "." # n /\ ".." # n
          BY <1>1 DEF Dots
        <4>2. Dots \subseteq DOMAIN ents[d]
          BY <2>1 DEF Dotted, Known
        <4> QED BY <1>1, <2>1, <3>1, <4>1, <4>2 DEF Dotted
      <3>2. CASE x # d /\ ents'[x] = ents[x] /\ (x = i /\ type[i] = "dir" => pc[p] # "made")
        <4>1. ASSUME NEW q \in Procs, pc[q] = "made", ip[q] = x, type[x] = "dir"
              PROVE  pc'[q] = "made" /\ ip'[q] = x
          <5>1. q # p
            BY <3>2, <4>1
          <5> QED BY <4>1, <5>1 DEF Elsewhere
        <4> QED BY <2>1, <3>2, <4>1 DEF Dotted
      <3>3. CASE x = i /\ ents'[i] = DotsOf(i, d)
        BY <1>3, <3>3
      <3> QED BY <3>1, <3>2, <3>3
    <2> QED BY <2>2 DEF Dotted
  <1>9. NoCircle(ents)'
    <2>1. NoCircle(ents')
      BY NoCircleMore DEF Tree
    <2> QED BY <2>1 DEF NoCircle, ChildrenIn
  <1> QED BY <1>4, <1>5, <1>7, <1>8, <1>9

LEMMA DirlinkEnters ==
  ASSUME IInv, IInv', Held, NEW p \in Procs, dirlink(p), Name(p) \notin DOMAIN ents[dp[p]]
  PROVE  Held' /\ (Tree => Tree')
  <1>1. /\ pc[p] = "link2" /\ todo[p] = <<>> /\ pc[p] \notin Locking
        /\ UNCHANGED <<type, nlink, ref, lock, cwd, file, panic>>
    BY DEF dirlink, At, Locking
  <1>2. PICK d \in Inums : d = dp[p]
    BY <1>1 DEF IInv, Control, Shape, HasDp
  <1>3. PICK i \in Inums : i = ip[p]
    BY <1>1 DEF IInv, Control, Shape, HasIp
  <1>4. PICK n : n = Name(p)
    OBVIOUS
  <1>5. Free(d) /\ ents' = [ents EXCEPT ![d] = With(d, n, i)] /\ Done(p, <<Put(d), Put(i)>>)
    BY <1>2, <1>3, <1>4 DEF dirlink
  <1>6. PICK s : s = <<Put(d), Put(i)>>
    OBVIOUS
  <1>7. Calm(p, "none")
    <2>1. Done(p, s) /\ Plain(s)
      BY <1>5, <1>6, PlainLists
    <2> QED BY <2>1, EndsCalm DEF IInv
  <1>8. /\ \A x \in Inums \ {d} : ents'[x] = ents[x]
        /\ DOMAIN ents'[d] = DOMAIN ents[d] \cup {n} /\ ents'[d][n] = i
        /\ n \notin DOMAIN ents[d]
        /\ \A m \in DOMAIN ents[d] : ents'[d][m] = ents[d][m]
    <2>1. PICK w : w = With(d, n, i)
      OBVIOUS
    <2>2. ents'[d] = w /\ \A x \in Inums \ {d} : ents'[x] = ents[x]
      BY <1>5, <2>1 DEF IInv, Types
    <2>3. n \notin DOMAIN ents[d]
      BY <1>2, <1>4
    <2>4. DOMAIN w = DOMAIN ents[d] \cup {n} /\ w[n] = i /\ \A m \in DOMAIN ents[d] : w[m] = ents[d][m]
      BY <2>1, <2>3 DEF With
    <2> QED BY <2>2, <2>3, <2>4
  <1>9. type[d] = "dir" /\ type[i] = "file" /\ DOMAIN ents[i] = {} /\ i # d
    <2>1. type[d] = "dir" /\ type[i] = "file"
      BY <1>1, <1>2, <1>3 DEF Held, Kinds, HasDp, Linking
    <2> QED BY <2>1 DEF Held, OnlyDirs
  <1>10. Held'
    <2>1. EntsMove(p)
      BY <1>5, <1>8 DEF EntsMove, Free
    <2>2. OnlyDirs'
      BY <1>1, <1>8, <1>9 DEF Held, OnlyDirs
    <2>3. IsFiniteSet(EntriesOf(ents'))
      <3>1. \A x \in Inums : \/ Named(ents'[x]) \subseteq Named(ents[x])
                             \/ x = d /\ Named(ents'[x]) \subseteq Named(ents[x]) \cup {n}
        BY <1>8 DEF Named
      <3> QED BY <3>1, EntriesFinite DEF Held
    <2>4. ASSUME NEW x \in Inums PROVE lock[x] # p
      <3>1. ~Holds(p, x)
        BY <1>1 DEF Holds, Locking
      <3> QED BY <3>1 DEF Held, LockOwners
    <2> QED BY <1>1, <1>7, <2>1, <2>2, <2>3, <2>4, HeldCalm DEF IInv
  <1>11. ASSUME Tree PROVE Tree'
    <2>1. Elsewhere(p) /\ pc'[p] # "made" /\ pc[p] # "made" /\ panic' # "nlink < 1"
      BY <1>1, <1>7, <1>11 DEF Calm, Locking, Tree
    <2>2. Known(d) /\ Known(i)
      <3>1. Reaches(p, d) /\ Reaches(p, i)
        BY <1>1, <1>2, <1>3 DEF Reaches
      <3> QED BY <1>11, <3>1 DEF Tree, ReachKnown
    <2>3. \A x : Known(x) => Known(x)'
      BY <1>1, <2>1, KnownSame
    <2>4. Entered(ents, ents', d, n)
      <3>1. Dots \subseteq DOMAIN ents[d]
        BY <1>9, <1>11, <2>2 DEF Tree, Dotted, Known
      <3> QED BY <1>8, <3>1 DEF Entered
    <2>5. EntsKnown' /\ RootKnown' /\ Makers' /\ Dotted' /\ NoCircle(ents)'
      <3>1. Types /\ Control /\ Known(i)' /\ UNCHANGED type
        BY <1>1, <2>2, <2>3 DEF IInv
      <3>2. \A x \in Inums : Known(x) => Known(x)'
        BY <2>3
      <3>3. ents'[i] = ents[i] /\ \A x \in Inums \ {d, i} : ents'[x] = ents[x]
        BY <1>8, <1>9
      <3> QED BY <1>8, <1>9, <1>11, <2>1, <2>2, <2>4, <3>1, <3>2, <3>3, EntersTree
    <2>6. ReachKnown'
      <3>1. Others(p) /\ ReachKnown /\ \A x \in Inums : ref'[x] > ref[x] => Known(x)
        BY <1>1, <1>11, NoneTaken DEF Others, Tree, IInv
      <3> QED BY <1>1, <2>1, <2>3, <3>1, ReachMoves DEF Others
    <2>7. Links'
      <3>1. ASSUME NEW x \in Inums
            PROVE  nlink'[x] >= Uses(ents', type', x) + Users(Counted, x)'
        <4>1. /\ IsFiniteSet(EntriesOf(ents')) /\ Uses(ents, type, x) \in Nat
              /\ Uses(ents', type, x) = Uses(ents, type, x) + One(i, x)
                                          + (IF type[i] = "dir" THEN One(d, x) ELSE 0)
          <5>1. PICK t, u, k : t = ents /\ u = ents' /\ k = type /\ k = type'
            BY <1>1
          <5>2. Entered(t, u, d, n) /\ u[d][n] = i
            BY <1>8, <2>4, <5>1
          <5>3. IsFiniteSet(EntriesOf(t))
            BY <5>1 DEF Held
          <5>4. /\ IsFiniteSet(EntriesOf(u)) /\ Uses(t, k, x) \in Nat
                /\ Uses(u, k, x) = Uses(t, k, x) + One(i, x)
                                     + (IF k[i] = "dir" THEN One(d, x) ELSE 0)
            BY <1>2, <5>2, <5>3, UsesMore
          <5> QED BY <5>1, <5>4
        <4>2. Counted[p] = i /\ Counted'[p] = NoInode
          BY <1>1, <1>3, <1>7 DEF Counted, Linking, Calm, Locking
        <4>3. /\ One(i, x) \in Nat /\ One(NoInode, x) = 0
              /\ nlink[x] \in Int /\ nlink'[x] = nlink[x]
          BY <1>1, OneNat, OneNone DEF IInv, Types
        <4>4. Uses(ents', type', x) = Uses(ents, type, x) + One(i, x)
          BY <1>1, <1>9, <4>1, <4>3
        <4>5. PICK a, b, c, e : /\ a = Uses(ents, type, x) /\ b = Uses(ents', type', x)
                               /\ c = One(i, x) /\ e = nlink[x]
          OBVIOUS
        <4>6. a \in Nat /\ c \in Nat /\ b = a + c /\ e \in Int
          BY <4>1, <4>3, <4>4, <4>5
        <4>7. b \in Nat /\ e - e >= b - a + 0 - c
          BY ONLY <4>6
        <4>8. /\ Uses(ents', type', x) \in Nat
              /\ nlink'[x] - nlink[x] >= Uses(ents', type', x) - Uses(ents, type, x)
                                           + One(Counted'[p], x) - One(Counted[p], x)
          BY <4>2, <4>3, <4>5, <4>7
        <4> QED BY <1>11, <2>1, <4>1, <4>8, LinkOne DEF Tree, IInv
      <3> QED BY <3>1 DEF Links, Uses, One, Users
    <2> QED BY <2>1, <2>5, <2>6, <2>7 DEF Tree
  <1> QED BY <1>10, <1>11

LEMMA DirlinkKeeps ==
  ASSUME IInv, IInv', Held, NEW p \in Procs, dirlink(p)
  PROVE  Held' /\ (Tree => Tree')
  BY DirlinkFinds, DirlinkEnters

(* erase: the name goes, its link is still counted.  The parent's lock is  *)
(* exchanged for the inode's.                                              *)
LEMMA EraseGoes ==
  ASSUME IInv, IInv', Held, NEW p \in Procs, erase(p),
         CanLoad(ip[p]), ~(nlink[ip[p]] < 1), ~(type[ip[p]] = "dir" /\ ~isdirempty(ip[p]))
  PROVE  Held' /\ (Tree => Tree')
  <1>1. /\ pc[p] = "erase" /\ todo[p] = <<>>
        /\ UNCHANGED <<type, ref, cwd, file, panic>>
    BY DEF erase, At
  <1>2. PICK d \in Inums : d = dp[p]
    BY <1>1 DEF IInv, Control, Shape, HasDp
  <1>3. PICK i \in Inums : i = ip[p]
    BY <1>1 DEF IInv, Control, Shape, HasIp
  <1>4. PICK n : n = Name(p)
    OBVIOUS
  <1>5. /\ Free(i) /\ ents' = [ents EXCEPT ![d] = Without(d, n)]
        /\ nlink' = IF type[i] = "dir" THEN [nlink EXCEPT ![d] = @ - 1] ELSE nlink
        /\ lock' = [lock EXCEPT ![d] = NoOne, ![i] = p]
        /\ Go(p, "unlinked", i, NoInode, <<Put(d)>>)
    BY <1>2, <1>3, <1>4 DEF erase
  <1>6. PICK s : s = <<Put(d)>>
    OBVIOUS
  <1>7. /\ Elsewhere(p) /\ pc'[p] = "unlinked" /\ ip'[p] = i /\ dp'[p] = NoInode /\ todo'[p] = s
        /\ Plain(s)
    BY <1>5, <1>6, GoMoved, PlainLists DEF IInv
  <1>8. /\ n \notin Dots /\ n \in DOMAIN ents[d] /\ ents[d][n] = i /\ type[d] = "dir"
    BY <1>1, <1>2, <1>3, <1>4 DEF Held, Sought, Kinds, HasDp, Named
  <1>9. /\ \A x \in Inums \ {d} : ents'[x] = ents[x]
        /\ DOMAIN ents'[d] = DOMAIN ents[d] \ {n}
        /\ \A m \in DOMAIN ents'[d] : ents'[d][m] = ents[d][m]
    <2>1. PICK w : w = Without(d, n)
      OBVIOUS
    <2>2. ents'[d] = w /\ \A x \in Inums \ {d} : ents'[x] = ents[x]
      BY <1>5, <2>1 DEF IInv, Types
    <2>3. DOMAIN w = DOMAIN ents[d] \ {n} /\ \A m \in DOMAIN w : w[m] = ents[d][m]
      BY <2>1 DEF Without
    <2> QED BY <2>2, <2>3
  <1>10. Entered(ents', ents, d, n)
    BY <1>8, <1>9 DEF Entered
  <1>11. lock[d] = p /\ i # d
    <2>1. Holds(p, d)
      BY <1>1, <1>2 DEF Holds
    <2>2. lock[d] = p
      BY <2>1 DEF Held, LockOwners
    <2> QED BY <1>5, <2>2, InodesAssumption DEF Free
  <1>12. Held'
    <2>1. \A x \in Inums : (Holds(p, x)' <=> x = i) /\ (Holds(p, x) <=> x = d)
      BY <1>1, <1>2, <1>7 DEF Holds, Plain, Unlock
    <2>2. LocksMove(p)
      <3>1. /\ lock'[d] = NoOne /\ lock'[i] = p /\ lock[i] = NoOne
            /\ \A x \in Inums \ {d, i} : lock'[x] = lock[x]
        BY <1>5, <1>11 DEF IInv, Types, Free
      <3> QED BY <1>11, <2>1, <3>1 DEF LocksMove
    <2>3. TypesMove /\ EntsMove(p)
      BY <1>1, <1>9, <1>11 DEF TypesMove, EntsMove
    <2>4. OnlyDirs'
      BY <1>1, <1>8, <1>9 DEF Held, OnlyDirs
    <2>5. IsFiniteSet(EntriesOf(ents'))
      BY <1>8, <1>10, UsesMore DEF Held
    <2>6. Leaves(p)
      BY <1>7 DEF Leaves, HasDp, Linking, Unlocks, Plain
    <2> QED BY <1>7, <2>2, <2>3, <2>4, <2>5, <2>6, HeldStep DEF IInv
  <1>13. ASSUME Tree PROVE Tree'
    <2>1. pc'[p] # "made" /\ pc[p] # "made" /\ panic' # "nlink < 1"
      BY <1>1, <1>7, <1>13 DEF Tree
    <2>2. ASSUME NEW x PROVE Known(x)' <=> Known(x)
      BY <1>1, <1>7, <2>1, KnownSame
    <2>3. ASSUME NEW x \in Inums
          PROVE  /\ DOMAIN ents'[x] \subseteq DOMAIN ents[x]
                 /\ \A m \in DOMAIN ents'[x] : ents'[x][m] = ents[x][m]
      BY <1>9
    <2>4. EntsKnown' /\ RootKnown'
      <3>1. EntsKnown /\ RootKnown
        BY <1>13 DEF Tree
      <3>2. RootKnown'
        BY <1>1, <2>2, <3>1 DEF RootKnown
      <3>3. ASSUME NEW x \in Inums, NEW m \in DOMAIN ents'[x] PROVE Known(ents[x][m])'
        <4>1. PICK y : y = ents[x][m]
          OBVIOUS
        <4>2. Known(y)'
          BY <2>2, <2>3, <3>1, <4>1 DEF EntsKnown
        <4>3. y = ents'[x][m]
          BY <2>3, <4>1
        <4> QED BY <4>2, <4>3 DEF Known
      <3> QED BY <3>2, <3>3 DEF EntsKnown
    <2>5. ASSUME NEW q \in Procs, pc[q] = "made" \/ pc'[q] = "made"
          PROVE  /\ q # p /\ pc'[q] = pc[q] /\ ip'[q] = ip[q] /\ Name(q)' = Name(q)
                 /\ ip[q] \in Inums
      <3>1. q # p /\ pc'[q] = pc[q] /\ ip'[q] = ip[q] /\ Name(q)' = Name(q)
        BY <1>7, <2>1, <2>5 DEF Elsewhere, Name
      <3>2. ip[q] \in Inums
        BY <2>5, <3>1 DEF IInv, Control, Shape, HasIp
      <3> QED BY <3>1, <3>2
    <2>6. Makers'
      <3>1. Makers
        BY <1>13 DEF Tree
      <3>2. ASSUME NEW q \in Procs, pc'[q] = "made"
            PROVE  /\ Name(q)' \notin Dots /\ DOMAIN ents'[ip'[q]] = {}
                   /\ \A r \in Procs \ {q} : pc'[r] = "made" => ip'[r] # ip'[q]
        BY <2>3, <2>5, <3>1, <3>2 DEF Makers
      <3> QED BY <3>2 DEF Makers
    <2>7. Dotted'
      <3>1. Dotted
        BY <1>13 DEF Tree
      <3>2. ASSUME NEW x \in Inums
            PROVE  /\ "." \in DOMAIN ents'[x] => ents'[x]["."] = x
                   /\ ".." \in DOMAIN ents'[x] => type'[ents'[x][".."]] = "dir"
                   /\ type'[x] = "dir" => \/ Dots \subseteq DOMAIN ents'[x]
                                          \/ \E q \in Procs : pc'[q] = "made" /\ ip'[q] = x
        <4>1. Dots \subseteq DOMAIN ents[x] => Dots \subseteq DOMAIN ents'[x]
          BY <1>8, <1>9
        <4>2. (\E q \in Procs : pc[q] = "made" /\ ip[q] = x)
                => (\E q \in Procs : pc'[q] = "made" /\ ip'[q] = x)
          BY <2>5
        <4> QED BY <1>1, <2>3, <3>1, <4>1, <4>2 DEF Dotted
      <3> QED BY <3>2 DEF Dotted
    <2>8. NoCircle(ents)'
      <3>1. \A x \in Inums : ChildrenIn(ents', x) \subseteq ChildrenIn(ents, x)
        BY <2>3 DEF ChildrenIn, Named
      <3>2. NoCircle(ents')
        BY <1>13, <3>1, NoCircleLess DEF Tree
      <3> QED BY <3>2 DEF NoCircle, ChildrenIn
    <2>9. ReachKnown'
      <3>1. Others(p) /\ ReachKnown /\ \A x \in Inums : ref'[x] > ref[x] => Known(x)
        BY <1>1, <1>13, NoneTaken DEF Others, Tree, IInv
      <3> QED BY <1>1, <1>7, <2>1, <2>2, <3>1, ReachMoves DEF Others
    <2>10. Links'
      <3>1. ASSUME NEW x \in Inums
            PROVE  nlink'[x] >= Uses(ents', type', x) + Users(Counted, x)'
        <4>1. PICK o \in Nat : o = IF type[i] = "dir" THEN One(d, x) ELSE 0
          BY OneNat
        <4>2. /\ Uses(ents', type, x) \in Nat
              /\ Uses(ents, type, x) = Uses(ents', type, x) + One(i, x) + o
          <5>1. PICK t, u, k : t = ents' /\ u = ents /\ k = type
            OBVIOUS
          <5>2. Entered(t, u, d, n) /\ u[d][n] = i
            BY <1>8, <1>10, <5>1
          <5>3. IsFiniteSet(EntriesOf(t)) \/ IsFiniteSet(EntriesOf(u))
            BY <5>1 DEF Held
          <5>4. /\ Uses(t, k, x) \in Nat
                /\ Uses(u, k, x) = Uses(t, k, x) + One(i, x)
                                     + (IF k[i] = "dir" THEN One(d, x) ELSE 0)
            BY <1>2, <5>2, <5>3, UsesMore
          <5>5. (IF k[i] = "dir" THEN One(d, x) ELSE 0) = o
            BY <4>1, <5>1
          <5> QED BY <5>1, <5>4, <5>5
        <4>3. Counted[p] = NoInode /\ Counted'[p] = i
          BY <1>1, <1>7 DEF Counted, Linking
        <4>4. nlink[x] \in Int /\ nlink'[x] = nlink[x] - o
          BY <1>5, <4>1 DEF IInv, Types, One
        <4>5. PICK a, b, c, e, f : /\ a = Uses(ents, type, x) /\ b = Uses(ents', type', x)
                                  /\ c = One(i, x) /\ e = nlink[x] /\ f = nlink'[x]
          OBVIOUS
        <4>6. c \in Nat /\ One(NoInode, x) = 0
          BY <4>5, OneNat, OneNone
        <4>7. b \in Nat /\ a = b + c + o /\ e \in Int /\ f = e - o
          BY <1>1, <4>2, <4>4, <4>5
        <4>8. a \in Nat /\ f - e >= b - a + c - 0
          BY ONLY <4>6, <4>7, o \in Nat
        <4>9. /\ Uses(ents, type, x) \in Nat /\ Uses(ents', type', x) \in Nat
              /\ nlink'[x] - nlink[x] >= Uses(ents', type', x) - Uses(ents, type, x)
                                           + One(Counted'[p], x) - One(Counted[p], x)
          BY <4>3, <4>5, <4>6, <4>7, <4>8
        <4> QED BY <1>7, <1>13, <4>9, LinkOne DEF Tree, IInv
      <3> QED BY <3>1 DEF Links, Uses, One, Users
    <2> QED BY <2>1, <2>4, <2>6, <2>7, <2>8, <2>9, <2>10 DEF Tree
  <1> QED BY <1>12, <1>13

(* A name has a link. *)
LEMMA NamedLinked ==
  ASSUME Types, Held, Links, NEW d \in Inums, NEW n \in Named(ents[d]), NEW i \in Inums, ents[d][n] = i
  PROVE  nlink[i] >= 1
  <1>1. <<d, n>> \in NamesOf(ents, i)
    BY EntryIs DEF NamesOf
  <1>2. /\ IsFiniteSet(NamesOf(ents, i)) /\ Cardinality(NamesOf(ents, i)) \in Nat
        /\ Cardinality(SubsIn(ents, type, i)) \in Nat
    BY UsesNat DEF Held
  <1>3. Cardinality(NamesOf(ents, i)) >= 1
    <2>1. Cardinality(NamesOf(ents, i)) # 0
      BY <1>1, <1>2, FS_EmptySet
    <2> QED BY <1>2, <2>1
  <1>4. One(Root, i) \in Nat /\ Users(Counted, i) \in Nat /\ nlink[i] \in Int
    BY OneNat, UsersHas DEF Types
  <1>5. nlink[i] >= Uses(ents, type, i) + Users(Counted, i)
    BY DEF Links
  <1> QED BY <1>2, <1>3, <1>4, <1>5 DEF Uses

LEMMA EraseKeeps ==
  ASSUME IInv, IInv', Held, NEW p \in Procs, erase(p)
  PROVE  Held' /\ (Tree => Tree')
  <1>1. CASE ~CanLoad(ip[p])
    BY <1>1, StopKeeps DEF erase
  <1>2. CASE CanLoad(ip[p]) /\ nlink[ip[p]] < 1
    <2>1. Panic("nlink < 1") /\ pc[p] = "erase"
      BY <1>2 DEF erase, At
    <2>2. Held'
      BY <2>1, HeldStops DEF Panic, disk, cache, proc
    <2>3. ~Tree
      <3>1. SUFFICES ASSUME Tree PROVE FALSE
        OBVIOUS
      <3>2. dp[p] \in Inums /\ ip[p] \in Inums
        BY <2>1 DEF IInv, Control, Shape, HasDp, HasIp
      <3>3. Name(p) \in Named(ents[dp[p]]) /\ ents[dp[p]][Name(p)] = ip[p]
        BY <2>1 DEF Held, Sought
      <3>4. nlink[ip[p]] >= 1
        BY <3>1, <3>2, <3>3, NamedLinked DEF Tree, IInv
      <3>5. nlink[ip[p]] \in Int
        BY <3>2 DEF IInv, Types
      <3> QED BY <1>2, <3>4, <3>5
    <2> QED BY <2>2, <2>3
  <1>3. CASE CanLoad(ip[p]) /\ ~(nlink[ip[p]] < 1)
    BY <1>3, EraseRefuses, EraseGoes
  <1> QED BY <1>1, <1>2, <1>3

-----------------------------------------------------------------------------
(* create.  The new inode is free until now, so that nobody knows it. *)
LEMMA CreateFinds ==
  ASSUME IInv, IInv', Held, NEW p \in Procs, create(p),
         Name(p) \in DOMAIN ents[dp[p]] \/ FreeInodes = {}
  PROVE  Held' /\ (Tree => Tree')
  <1>1. /\ pc[p] \in {"create", "mkdir"} /\ todo[p] = <<>> /\ UNCHANGED <<cwd, file>>
    BY DEF create, At
  <1>2. PICK d \in Inums : d = dp[p]
    BY <1>1 DEF IInv, Control, Shape, HasDp
  <1>3. CASE Name(p) \in DOMAIN ents[d]
    <2>1. PICK i \in Inums : i = ents[d][Name(p)]
      BY <1>3 DEF IInv, Types
    <2>2. PICK s : s = <<Put(d)>>
      OBVIOUS
    <2>3. ref' = Taken(i) /\ Go(p, "found", i, NoInode, s) /\ UNCHANGED <<disk, lock, panic>>
      BY <1>2, <1>3, <2>1, <2>2 DEF create
    <2>4. Elsewhere(p) /\ pc'[p] = "found" /\ todo'[p] = s /\ Plain(s)
      BY <2>2, <2>3, GoMoved, PlainLists DEF IInv
    <2>5. Calm(p, "none") /\ ~Linking(p) /\ pc[p] \notin Locking
      BY <1>1, <2>4 DEF Calm, Locking, HasDp, Linking
    <2>6. TakesKnown
      <3>1. ASSUME Tree PROVE \A x \in Inums : ref'[x] > ref[x] => Known(x)
        <4>1. Known(i)
          BY <1>3, <2>1, <3>1 DEF Tree, EntsKnown
        <4> QED BY <2>3, <4>1, TakenKnown DEF IInv
      <3> QED BY <3>1 DEF TakesKnown
    <2>7. UNCHANGED <<type, ents, nlink, lock, panic>> /\ Others(p)
      BY <1>1, <2>3 DEF disk, Others
    <2> QED BY <1>1, <2>5, <2>6, <2>7, CalmKeeps
  <1>4. CASE Name(p) \notin DOMAIN ents[d]
    <2>1. /\ UNCHANGED <<type, nlink, ents, lock, cwd, file, pc, call, path, ip, dp, todo>>
          /\ panic' = "no inodes"
      BY <1>1, <1>2, <1>4 DEF create, disk
    <2>2. Held'
      BY <2>1, HeldStops
    <2>3. Tree => Tree'
      BY <2>1, TreeStops
    <2> QED BY <2>2, <2>3
  <1> QED BY <1>3, <1>4

(* What is known is in use. *)
LEMMA KnownUsed ==
  ASSUME Types, Tree
  PROVE  /\ \A q \in Procs, x \in Inums : Reaches(q, x) => type[x] # "free"
         /\ \A e \in EntriesOf(ents) : ents[e[1]][e[2]] \in Inums /\ type[ents[e[1]][e[2]]] # "free"
         /\ type[Root] = "dir"
  <1>1. ASSUME NEW e \in EntriesOf(ents)
        PROVE  ents[e[1]][e[2]] \in Inums /\ type[ents[e[1]][e[2]]] # "free"
    <2>0. PICK x \in Inums : \E m \in Named(ents[x]) : e = <<x, m>>
      BY EntryIs
    <2>1. PICK m \in Named(ents[x]) : e = <<x, m>>
      BY <2>0
    <2>2. m \in DOMAIN ents[x]
      BY <2>1 DEF Named
    <2> QED BY <2>1, <2>2 DEF Types, Tree, EntsKnown, Known
  <1> QED BY <1>1 DEF Tree, ReachKnown, RootKnown, Known

(* A free inode has no uses. *)
LEMMA UsesNone ==
  ASSUME Types, Held, Tree, NEW i \in Inums, type[i] = "free" \/ ~Known(i), DOMAIN ents[i] = {}
  PROVE  Uses(ents, type, i) = 0
  <1>1. NamesOf(ents, i) = {}
    <2>1. ASSUME NEW e \in EntriesOf(ents), ents[e[1]][e[2]] = i PROVE FALSE
      <3>0. PICK x \in Inums : \E m \in Named(ents[x]) : e = <<x, m>>
        BY EntryIs
      <3>1. PICK m \in Named(ents[x]) : e = <<x, m>>
        BY <3>0
      <3>2. m \in DOMAIN ents[x] /\ ents[x][m] = i
        BY <2>1, <3>1 DEF Named
      <3>3. Known(ents[x][m])
        BY <3>1, <3>2 DEF Tree, EntsKnown
      <3>4. Known(i)
        BY <3>2, <3>3
      <3> QED BY <3>4 DEF Known
    <2> QED BY <2>1 DEF NamesOf
  <1>2. SubsIn(ents, type, i) = {}
    <2>1. ASSUME NEW e \in EntriesOf(ents), e[1] = i PROVE FALSE
      <3>0. PICK x \in Inums : \E m \in Named(ents[x]) : e = <<x, m>>
        BY EntryIs
      <3>1. PICK m \in Named(ents[x]) : e = <<x, m>>
        BY <3>0
      <3> QED BY <2>1, <3>1 DEF Named
    <2> QED BY <2>1 DEF SubsIn
  <1>3. Root # i
    BY DEF Tree, RootKnown, Known
  <1>4. Cardinality(NamesOf(ents, i)) = 0 /\ Cardinality(SubsIn(ents, type, i)) = 0
    BY <1>1, <1>2, FS_EmptySet
  <1> QED BY <1>3, <1>4 DEF Uses, One

(* Nor is it counted. *)
LEMMA CountedNone ==
  ASSUME IInv, Tree, NEW i \in Inums, type[i] = "free" \/ ~Known(i)
  PROVE  Users(Counted, i) = 0
  <1>1. ASSUME NEW q \in Procs, Counted[q] = i PROVE FALSE
    <2>1. ip[q] = i /\ pc[q] # "made"
      BY <1>1, InodesAssumption DEF Counted, Linking
    <2>2. Known(i)
      BY <2>1 DEF Reaches, Tree, ReachKnown
    <2> QED BY <2>2 DEF Known
  <1>2. {q \in Procs : Counted[q] = i} = {}
    BY <1>1
  <1> QED BY <1>2, FS_EmptySet DEF Users

-----------------------------------------------------------------------------
LEMMA CreateMakes ==
  ASSUME IInv, IInv', Held, NEW p \in Procs, create(p),
         Name(p) \notin DOMAIN ents[dp[p]], FreeInodes # {}
  PROVE  Held' /\ (Tree => Tree')
  <1>1. /\ pc[p] \in {"create", "mkdir"} /\ todo[p] = <<>> /\ UNCHANGED <<cwd, file>>
        /\ pc[p] \notin Locking
    BY DEF create, At, Locking
  <1>2. PICK d \in Inums : d = dp[p]
    BY <1>1 DEF IInv, Control, Shape, HasDp
  <1>3. PICK i \in Inums : i = ialloc /\ type[i] = "free"
    BY AllocFree DEF FreeInodes
  <1>4. PICK s : s = <<>>
    OBVIOUS
  <1>5. /\ Free(d)
        /\ type' = [type EXCEPT ![i] = IF pc[p] = "mkdir" THEN "dir" ELSE "file"]
        /\ nlink' = [nlink EXCEPT ![i] = 0]
        /\ ref' = Taken(i)
        /\ lock' = [lock EXCEPT ![d] = p]
        /\ Go(p, "made", i, d, s)
        /\ UNCHANGED <<ents, panic>>
    BY <1>2, <1>3, <1>4 DEF create
  <1>6. /\ Elsewhere(p) /\ pc'[p] = "made" /\ ip'[p] = i /\ dp'[p] = d /\ todo'[p] = s
        /\ path'[p] = path[p]
    BY <1>5, GoMoved DEF IInv
  <1>7. type'[i] # "free" /\ \A x \in Inums \ {i} : type'[x] = type[x]
    BY <1>5 DEF IInv, Types
  <1>8. type[d] = "dir" /\ i # d
    BY <1>1, <1>2, <1>3 DEF Held, Kinds, HasDp
  <1>9. DOMAIN ents[i] = {}
    BY <1>3 DEF Held, OnlyDirs
  <1>10. Held'
    <2>1. LocksMove(p)
      <3>1. \A x \in Inums : Holds(p, x)' <=> x = d
        BY <1>4, <1>6 DEF Holds
      <3> QED BY <1>1, <1>5, <3>1, TakesLock DEF IInv
    <2>2. TypesMove /\ EntsMove(p)
      BY <1>3, <1>5, <1>7 DEF TypesMove, EntsMove
    <2>3. OnlyDirs' /\ IsFiniteSet(EntriesOf(ents'))
      BY <1>5, <1>7, <1>9 DEF Held, OnlyDirs
    <2>4. Name(p)' \notin DOMAIN ents'[d]
      BY <1>2, <1>5, <1>6 DEF Name
    <2>5. Leaves(p)
      BY <1>4, <1>6, <1>7, <1>8, <2>4 DEF Leaves, Linking, Unlocks
    <2> QED BY <1>6, <2>1, <2>2, <2>3, <2>5, HeldStep DEF IInv
  <1>11. ASSUME Tree PROVE Tree'
    <2>1. /\ \A q \in Procs, x \in Inums : Reaches(q, x) => type[x] # "free"
          /\ \A e \in EntriesOf(ents) : /\ ents[e[1]][e[2]] \in Inums
                                        /\ type[ents[e[1]][e[2]]] # "free"
          /\ type[Root] = "dir"
      BY <1>11, KnownUsed DEF IInv
    <2>2. ASSUME NEW x \in Inums, Known(x) PROVE x # i /\ Known(x)'
      <3>1. x # i
        BY <1>3, <2>2 DEF Known
      <3>2. ASSUME NEW q \in Procs, pc'[q] = "made" PROVE ip'[q] # x
        BY <1>6, <2>2, <3>1, <3>2 DEF Elsewhere, Known
      <3> QED BY <1>7, <2>2, <3>1, <3>2 DEF Known
    <2>3. ReachKnown'
      <3>1. ASSUME NEW q \in Procs, NEW x \in Inums, Reaches(q, x)' PROVE Reaches(q, x)
        <4>1. CASE q = p
          <5>1. Len(s) = 0
            BY <1>4
          <5>2. cwd[p] = x \/ file[p] = x \/ dp'[p] = x
            BY <1>1, <1>6, <3>1, <4>1, <5>1 DEF Reaches
          <5> QED BY <1>2, <1>6, <4>1, <5>2 DEF Reaches
        <4>2. CASE q # p
          BY <1>1, <1>6, <3>1, <4>2 DEF Reaches, Elsewhere
        <4> QED BY <4>1, <4>2
      <3>2. ASSUME NEW q \in Procs, NEW x \in Inums, Reaches(q, x)' PROVE Known(x)'
        BY <1>11, <2>2, <3>1, <3>2 DEF Tree, ReachKnown
      <3> QED BY <3>2 DEF ReachKnown
    <2>4. EntsKnown' /\ RootKnown'
      <3>1. ASSUME NEW x \in Inums, NEW m \in DOMAIN ents[x] PROVE Known(ents[x][m])'
        <4>1. PICK y \in Inums : y = ents[x][m]
          BY <3>1 DEF IInv, Types
        <4>2. Known(y)
          BY <1>11, <4>1 DEF Tree, EntsKnown
        <4>3. Known(y)' /\ ents'[x][m] = y
          BY <1>5, <2>2, <4>1, <4>2
        <4> QED BY <4>3 DEF Known
      <3>2. EntsKnown'
        BY <1>5, <3>1 DEF EntsKnown
      <3>3. Known(Root)' /\ type'[Root] = "dir"
        BY <1>7, <1>11, <2>2, InodesAssumption DEF Tree, RootKnown
      <3> QED BY <3>2, <3>3 DEF RootKnown
    <2>5. Makers'
      <3>1. Name(p) \notin Dots
        <4>1. Known(d)
          BY <1>2, <1>11 DEF Tree, ReachKnown, Reaches
        <4>2. Dots \subseteq DOMAIN ents[d]
          BY <1>8, <1>11, <4>1 DEF Tree, Dotted, Known
        <4> QED BY <1>2, <4>2
      <3>2. ASSUME NEW q \in Procs \ {p}, pc'[q] = "made"
            PROVE  pc[q] = "made" /\ ip'[q] = ip[q] /\ Name(q)' = Name(q) /\ ip[q] # i
        <4>1. pc[q] = "made" /\ ip'[q] = ip[q] /\ Name(q)' = Name(q)
          BY <1>6, <3>2 DEF Elsewhere, Name
        <4> QED BY <1>3, <4>1 DEF IInv, NewLive
      <3>3. Makers
        BY <1>11 DEF Tree
      <3>4. ASSUME NEW q \in Procs, pc'[q] = "made"
            PROVE  /\ Name(q)' \notin Dots /\ DOMAIN ents'[ip'[q]] = {}
                   /\ \A r \in Procs \ {q} : pc'[r] = "made" => ip'[r] # ip'[q]
        <4>1. CASE q = p
          <5>1. Name(p)' = Name(p)
            BY <1>6 DEF Name
          <5> QED BY <1>5, <1>6, <1>9, <3>1, <3>2, <4>1, <5>1
        <4>2. CASE q # p
          <5>1. pc[q] = "made" /\ ip'[q] = ip[q] /\ Name(q)' = Name(q) /\ ip[q] # i
            BY <3>2, <3>4, <4>2
          <5>2. ASSUME NEW r \in Procs \ {q}, pc'[r] = "made" PROVE ip'[r] # ip'[q]
            <6>1. CASE r = p
              BY <1>6, <5>1, <6>1
            <6>2. CASE r # p
              BY <3>2, <3>3, <5>1, <5>2, <6>2 DEF Makers
            <6> QED BY <6>1, <6>2
          <5> QED BY <1>5, <3>3, <5>1, <5>2 DEF Makers
        <4> QED BY <4>1, <4>2
      <3> QED BY <3>4 DEF Makers
    <2>6. Dotted'
      <3>1. Dotted
        BY <1>11 DEF Tree
      <3>2. ASSUME NEW x \in Inums
            PROVE  /\ "." \in DOMAIN ents'[x] => ents'[x]["."] = x
                   /\ ".." \in DOMAIN ents'[x] => type'[ents'[x][".."]] = "dir"
                   /\ type'[x] = "dir" => \/ Dots \subseteq DOMAIN ents'[x]
                                          \/ \E q \in Procs : pc'[q] = "made" /\ ip'[q] = x
        <4>1. "." \in DOMAIN ents'[x] => ents'[x]["."] = x
          BY <1>5, <3>1 DEF Dotted
        <4>2. ASSUME ".." \in DOMAIN ents[x] PROVE type'[ents[x][".."]] = "dir"
          <5>1. PICK y \in Inums : y = ents[x][".."]
            BY <4>2 DEF IInv, Types
          <5>2. type[y] = "dir"
            BY <3>1, <4>2, <5>1 DEF Dotted
          <5> QED BY <1>3, <1>7, <5>1, <5>2
        <4>3. ASSUME type'[x] = "dir", x # i
              PROVE  \/ Dots \subseteq DOMAIN ents'[x]
                     \/ \E q \in Procs : pc'[q] = "made" /\ ip'[q] = x
          <5>1. type[x] = "dir"
            BY <1>7, <4>3
          <5>2. CASE Dots \subseteq DOMAIN ents[x]
            BY <1>5, <5>2
          <5>3. ASSUME NEW q \in Procs, pc[q] = "made", ip[q] = x
                PROVE  pc'[q] = "made" /\ ip'[q] = x
            <6>1. q # p
              BY <1>1, <5>3
            <6> QED BY <1>6, <5>3, <6>1 DEF Elsewhere
          <5> QED BY <3>1, <5>1, <5>2, <5>3 DEF Dotted
        <4>4. CASE x = i
          BY <1>5, <1>6, <4>1, <4>2, <4>4
        <4> QED BY <1>5, <4>1, <4>2, <4>3, <4>4
      <3> QED BY <3>2 DEF Dotted
    <2>7. Links'
      <3>1. ASSUME NEW x \in Inums
            PROVE  nlink'[x] >= Uses(ents', type', x) + Users(Counted, x)'
        <4>1. PICK t, k, l : t = ents /\ k = type /\ l = type'
          OBVIOUS
        <4>2. IsFiniteSet(EntriesOf(t))
          BY <4>1 DEF Held
        <4>3. \A e \in EntriesOf(t) : l[t[e[1]][e[2]]] = k[t[e[1]][e[2]]]
          BY <1>3, <1>7, <2>1, <4>1
        <4>4. Uses(t, l, x) <= Uses(t, k, x) /\ Uses(t, l, x) \in Nat /\ Uses(t, k, x) \in Nat
          BY <4>2, <4>3, UsesLess, UsesNat
        <4>5. Counted'[p] = NoInode /\ Counted[p] = NoInode
          BY <1>1, <1>6 DEF Counted, Linking
        <4>6. CASE x # i
          <5>1. nlink'[x] = nlink[x] /\ nlink[x] \in Int /\ One(NoInode, x) = 0
            BY <1>5, <4>6, OneNone DEF IInv, Types
          <5>2. PICK a, b, c : a = Uses(t, l, x) /\ b = Uses(t, k, x) /\ c = nlink[x]
            OBVIOUS
          <5>3. a <= b /\ a \in Nat /\ b \in Nat /\ c \in Int
            BY <4>4, <5>1, <5>2
          <5>4. c - c >= a - b + 0 - 0
            BY ONLY <5>3
          <5>5. nlink'[x] - nlink[x] >= Uses(ents', type', x) - Uses(ents, type, x)
                                          + One(Counted'[p], x) - One(Counted[p], x)
            BY <1>5, <4>1, <4>5, <5>1, <5>2, <5>4
          <5>6. Uses(ents, type, x) \in Nat /\ Uses(ents', type', x) \in Nat
            BY <1>5, <4>1, <4>4
          <5> QED BY <1>6, <1>11, <5>5, <5>6, LinkOne DEF Tree, IInv
        <4>7. CASE x = i
          <5>1. Uses(ents, type, i) = 0 /\ Users(Counted, i) = 0
            BY <1>3, <1>9, <1>11, UsesNone, CountedNone DEF IInv
          <5>2. Users(Counted, i)' = 0 - 0 + 0
            <6>1. /\ One(Counted[p], i) = 0 /\ One(Counted'[p], i) = 0
                  /\ Users(Counted, i)' = Users(Counted, i) - One(Counted[p], i) + One(Counted'[p], i)
              BY <1>6, <4>5, CountedMoves, OneNone
            <6> QED BY <5>1, <6>1
          <5>3. Uses(ents', type', i) = 0
            <6>1. Uses(t, l, i) = 0
              BY <4>1, <4>4, <4>7, <5>1
            <6> QED BY <1>5, <4>1, <6>1
          <5>4. nlink'[i] = 0
            BY <1>5 DEF IInv, Types
          <5> QED BY <4>7, <5>2, <5>3, <5>4
        <4> QED BY <4>6, <4>7
      <3> QED BY <3>1 DEF Links, Uses, One, Users
    <2>8. NoCircle(ents)' /\ panic' # "nlink < 1"
      BY <1>5, <1>11, CircleSame DEF Tree
    <2> QED BY <2>3, <2>4, <2>5, <2>6, <2>7, <2>8 DEF Tree
  <1> QED BY <1>10, <1>11

LEMMA CreateKeeps ==
  ASSUME IInv, IInv', Held, NEW p \in Procs, create(p)
  PROVE  Held' /\ (Tree => Tree')
  BY CreateFinds, CreateMakes

-----------------------------------------------------------------------------
(* The new inode is entered, with its dots if it is a directory.           *)
LEMMA LinkNewKeeps ==
  ASSUME IInv, IInv', Held, NEW p \in Procs, link_new(p)
  PROVE  Held' /\ (Tree => Tree')
  <1>1. /\ pc[p] = "made" /\ todo[p] = <<>>
        /\ UNCHANGED <<type, ref, cwd, file, panic>>
    BY DEF link_new, At
  <1>2. PICK d \in Inums : d = dp[p]
    BY <1>1 DEF IInv, Control, Shape, HasDp
  <1>3. PICK i \in Inums : i = ip[p]
    BY <1>1 DEF IInv, Control, Shape, HasIp
  <1>4. PICK n : n = Name(p)
    OBVIOUS
  <1>5. PICK s : s = <<Put(d)>>
    OBVIOUS
  <1>6. /\ Free(i)
        /\ lock' = [lock EXCEPT ![d] = NoOne, ![i] = p]
        /\ Go(p, "filled", i, NoInode, s)
        /\ nlink' = IF type[i] = "dir" THEN [nlink EXCEPT ![i] = 1, ![d] = @ + 1]
                    ELSE [nlink EXCEPT ![i] = 1]
    BY <1>2, <1>3, <1>5 DEF link_new
  <1>7. /\ Elsewhere(p) /\ pc'[p] = "filled" /\ ip'[p] = i /\ dp'[p] = NoInode /\ todo'[p] = s
        /\ Plain(s)
    BY <1>5, <1>6, GoMoved, PlainLists DEF IInv
  <1>8. lock[d] = p /\ i # d
    <2>1. Holds(p, d)
      BY <1>1, <1>2 DEF Holds
    <2>2. lock[d] = p
      BY <2>1 DEF Held, LockOwners
    <2> QED BY <1>6, <2>2, InodesAssumption DEF Free
  <1>9. n \notin DOMAIN ents[d] /\ type[d] = "dir" /\ type[i] # "free"
    BY <1>1, <1>2, <1>3, <1>4 DEF Held, Sought, Kinds, HasDp, IInv, NewLive
  <1>10. /\ DOMAIN ents'[d] = DOMAIN ents[d] \cup {n} /\ ents'[d][n] = i
         /\ \A m \in DOMAIN ents[d] : ents'[d][m] = ents[d][m]
         /\ \A x \in Inums \ {d, i} : ents'[x] = ents[x]
         /\ type[i] = "dir" => ents'[i] = DotsOf(i, d)
         /\ type[i] # "dir" => ents'[i] = ents[i]
    <2>1. PICK w : w = With(d, n, i)
      OBVIOUS
    <2>2. PICK e : e = DotsOf(i, d)
      OBVIOUS
    <2>3. /\ type[i] = "dir" => ents' = [ents EXCEPT ![i] = e, ![d] = w]
          /\ type[i] # "dir" => ents' = [ents EXCEPT ![d] = w]
      BY <1>2, <1>3, <1>4, <2>1, <2>2 DEF link_new
    <2>4. /\ ents'[d] = w /\ \A x \in Inums \ {d, i} : ents'[x] = ents[x]
          /\ type[i] = "dir" => ents'[i] = e
          /\ type[i] # "dir" => ents'[i] = ents[i]
      BY <1>8, <2>3 DEF IInv, Types
    <2>5. DOMAIN w = DOMAIN ents[d] \cup {n} /\ w[n] = i /\ \A m \in DOMAIN ents[d] : w[m] = ents[d][m]
      BY <1>9, <2>1 DEF With
    <2> QED BY <2>2, <2>4, <2>5
  <1>11. Named(DotsOf(i, d)) = {}
    BY DEF Named, DotsOf
  <1>12. Held'
    <2>1. \A x \in Inums : (Holds(p, x)' <=> x = i) /\ (Holds(p, x) <=> x = d)
      BY <1>1, <1>2, <1>7 DEF Holds, Plain, Unlock
    <2>2. LocksMove(p)
      <3>1. /\ lock'[d] = NoOne /\ lock'[i] = p /\ lock[i] = NoOne
            /\ \A x \in Inums \ {d, i} : lock'[x] = lock[x]
        BY <1>6, <1>8 DEF IInv, Types, Free
      <3> QED BY <1>8, <2>1, <3>1 DEF LocksMove
    <2>3. TypesMove /\ EntsMove(p)
      BY <1>1, <1>6, <1>8, <1>10 DEF TypesMove, EntsMove, Free
    <2>4. OnlyDirs'
      BY <1>1, <1>9, <1>10 DEF Held, OnlyDirs
    <2>5. IsFiniteSet(EntriesOf(ents'))
      <3>1. Named(ents'[i]) \subseteq Named(ents[i])
        BY <1>10, <1>11
      <3>2. \A x \in Inums : \/ Named(ents'[x]) \subseteq Named(ents[x])
                             \/ x = d /\ Named(ents'[x]) \subseteq Named(ents[x]) \cup {n}
        BY <1>10, <3>1 DEF Named
      <3> QED BY <3>2, EntriesFinite DEF Held
    <2>6. Leaves(p)
      BY <1>7 DEF Leaves, HasDp, Linking, Unlocks, Plain
    <2> QED BY <1>7, <2>2, <2>3, <2>4, <2>5, <2>6, HeldStep DEF IInv
  <1>13. ASSUME Tree PROVE Tree'
    <2>1. pc'[p] # "made" /\ panic' # "nlink < 1"
      BY <1>1, <1>7, <1>13 DEF Tree
    <2>2. Known(d)
      BY <1>2, <1>13 DEF Tree, ReachKnown, Reaches
    <2>3. n \notin Dots /\ DOMAIN ents[i] = {}
      BY <1>1, <1>3, <1>4, <1>13 DEF Tree, Makers
    <2>4. ASSUME NEW q \in Procs, pc'[q] = "made"
          PROVE  pc[q] = "made" /\ ip'[q] = ip[q] /\ ip[q] # i
      <3>1. q # p /\ pc[q] = "made" /\ ip'[q] = ip[q]
        BY <1>7, <2>4 DEF Elsewhere
      <3> QED BY <1>1, <1>3, <1>13, <3>1 DEF Tree, Makers
    <2>5. Known(i)'
      BY <1>1, <1>9, <2>4 DEF Known
    <2>6. \A x \in Inums : Known(x) => Known(x)'
      BY <1>1, <2>4 DEF Known
    <2>7. Entered(ents, ents', d, n)
      <3>1. \A x \in Inums \ {d} : ents'[x] = ents[x] \/ (DOMAIN ents[x] = {} /\ DOMAIN ents'[x] \subseteq Dots)
        BY <1>10, <2>3 DEF DotsOf
      <3> QED BY <1>9, <1>10, <2>3, <3>1 DEF Entered
    <2>8. EntsKnown' /\ RootKnown' /\ Makers' /\ Dotted' /\ NoCircle(ents)'
      <3>1. Types /\ Control /\ UNCHANGED type
        BY <1>1 DEF IInv
      <3>2. \/ ents'[i] = ents[i] /\ (type[i] = "dir" => pc[p] # "made")
            \/ ents'[i] = DotsOf(i, d)
        BY <1>10
      <3> QED BY <1>3, <1>7, <1>8, <1>9, <1>10, <1>13, <2>1, <2>2, <2>3, <2>5, <2>6, <2>7,
                 <3>1, <3>2, EntersTree
    <2>9. ReachKnown'
      <3>1. Others(p) /\ ReachKnown /\ \A x \in Inums : ref'[x] > ref[x] => Known(x)
        BY <1>1, <1>13, NoneTaken DEF Others, Tree, IInv
      <3>2. \A x \in Inums : pc[p] = "made" /\ ip[p] = x => Known(x)'
        BY <1>3, <2>5
      <3> QED BY <1>1, <1>7, <2>6, <3>1, <3>2, ReachMoves DEF Others
    <2>10. Links'
      <3>1. ASSUME NEW x \in Inums
            PROVE  nlink'[x] >= Uses(ents', type', x) + Users(Counted, x)'
        <4>1. PICK o \in Nat : o = IF type[i] = "dir" THEN One(d, x) ELSE 0
          BY OneNat
        <4>2. /\ Uses(ents, type, x) \in Nat
              /\ Uses(ents', type', x) = Uses(ents, type, x) + One(i, x) + o
          <5>1. PICK t, u, k : t = ents /\ u = ents' /\ k = type /\ k = type'
            BY <1>1
          <5>2. Entered(t, u, d, n) /\ u[d][n] = i
            BY <1>10, <2>7, <5>1
          <5>3. IsFiniteSet(EntriesOf(t))
            BY <5>1 DEF Held
          <5>4. /\ IsFiniteSet(EntriesOf(u)) /\ Uses(t, k, x) \in Nat
                /\ Uses(u, k, x) = Uses(t, k, x) + One(i, x)
                                     + (IF k[i] = "dir" THEN One(d, x) ELSE 0)
            BY <1>2, <5>2, <5>3, UsesMore
          <5>5. (IF k[i] = "dir" THEN One(d, x) ELSE 0) = o
            BY <4>1, <5>1
          <5> QED BY <5>1, <5>4, <5>5
        <4>3. Counted[p] = NoInode /\ Counted'[p] = NoInode
          BY <1>1, <1>7 DEF Counted, Linking
        <4>4. One(NoInode, x) = 0 /\ nlink[x] \in Int
          BY OneNone DEF IInv, Types
        <4>5. CASE x = i
          <5>1. ~Known(i)
            BY <1>1, <1>3 DEF Known
          <5>2. Uses(ents, type, i) = 0 /\ Users(Counted, i) = 0
            BY <1>13, <2>3, <5>1, UsesNone, CountedNone DEF IInv
          <5>3. Users(Counted, i)' = 0 - 0 + 0
            <6>1. Users(Counted, i)' = Users(Counted, i) - One(Counted[p], i) + One(Counted'[p], i)
              BY <1>7, CountedMoves
            <6> QED BY <4>3, <4>4, <4>5, <5>2, <6>1
          <5>4. o = 0 /\ One(i, i) = 1
            BY <1>8, <4>1, <4>5 DEF One
          <5>5. nlink'[i] = 1
            BY <1>6, <1>8 DEF IInv, Types
          <5> QED BY <4>2, <4>5, <5>2, <5>3, <5>4, <5>5
        <4>6. CASE x # i
          <5>1. nlink'[x] = nlink[x] + o /\ One(i, x) = 0
            BY <1>6, <1>8, <4>1, <4>4, <4>6 DEF IInv, Types, One
          <5>2. PICK a, b, e : a = Uses(ents, type, x) /\ b = Uses(ents', type', x) /\ e = nlink[x]
            OBVIOUS
          <5>3. a \in Nat /\ b = a + 0 + o /\ e \in Int
            BY <4>2, <4>4, <5>1, <5>2
          <5>4. b \in Nat /\ (e + o) - e >= b - a + 0 - 0
            BY ONLY <5>3, o \in Nat
          <5>5. /\ Uses(ents', type', x) \in Nat
                /\ nlink'[x] - nlink[x] >= Uses(ents', type', x) - Uses(ents, type, x)
                                             + One(Counted'[p], x) - One(Counted[p], x)
            BY <4>3, <4>4, <5>1, <5>2, <5>4
          <5> QED BY <1>7, <1>13, <4>2, <5>5, LinkOne DEF Tree, IInv
        <4> QED BY <4>5, <4>6
      <3> QED BY <3>1 DEF Links, Uses, One, Users
    <2> QED BY <2>1, <2>8, <2>9, <2>10 DEF Tree
  <1> QED BY <1>12, <1>13

-----------------------------------------------------------------------------
(* Deferred steps.  The head of the list s becomes a drop or goes: t.      *)
Shortened(s, t, k, i) ==
  /\ s \in Seq(Steps) /\ t \in Seq(Steps) /\ Len(s) \in 1..3 /\ s[1] = <<k, i>>
  /\ k = "put" => Len(t) = Len(s) /\ t[1] = Drop(i) /\ \A m \in 2..Len(s) : t[m] = s[m]
  /\ k # "put" => Len(t) = Len(s) - 1 /\ \A m \in 1..Len(t) : t[m] = s[m + 1]

LEMMA ShortenedIs ==
  ASSUME NEW s \in Seq(Steps), s # <<>>, Len(s) <= 3,
         NEW k \in {"put", "drop", "unlock"}, NEW i \in Inums, s[1] = <<k, i>>,
         NEW t, t = IF k = "put" THEN <<Drop(i)>> \o Tail(s) ELSE Tail(s)
  PROVE  Shortened(s, t, k, i)
  <1>1. PICK u : u = Tail(s)
    OBVIOUS
  <1>2. u \in Seq(Steps) /\ Len(u) = Len(s) - 1 /\ \A m \in 1..Len(u) : u[m] = s[m + 1]
    BY ONLY <1>1, s \in Seq(Steps), s # <<>>, HeadTailProperties
  <1>3. PICK n \in Nat : n = Len(s)
    BY ONLY s \in Seq(Steps), LenProperties
  <1>4. n >= 1 /\ n <= 3
    <2>1. Len(s) >= 1
      BY ONLY s \in Seq(Steps), s # <<>>, LenProperties, EmptySeq
    <2> QED BY <1>3, <2>1
  <1>7. Len(s) \in 1..3
    BY <1>3, <1>4
  <1>5. CASE k # "put"
    <2>1. t \in Seq(Steps) /\ Len(t) = Len(s) - 1 /\ \A m \in 1..Len(t) : t[m] = s[m + 1]
      BY <1>1, <1>2, <1>5
    <2> QED BY <1>5, <1>7, <2>1 DEF Shortened
  <1>6. CASE k = "put"
    <2>1. PICK h : h = <<Drop(i)>>
      OBVIOUS
    <2>2. h \in Seq(Steps) /\ Len(h) = 1 /\ h[1] = Drop(i)
      BY <2>1, Lists
    <2>3. t = h \o u
      BY <1>1, <1>6, <2>1
    <2>4. /\ t \in Seq(Steps) /\ Len(t) = Len(h) + Len(u)
          /\ \A m \in 1..(Len(h) + Len(u)) : t[m] = IF m <= Len(h) THEN h[m] ELSE u[m - Len(h)]
      BY ONLY <1>2, <2>2, <2>3, ConcatProperties
    <2>5. Len(t) = n /\ t[1] = Drop(i)
      BY <1>2, <1>3, <1>4, <2>2, <2>4
    <2>6. ASSUME NEW m \in 2..n PROVE t[m] = s[m]
      <3>1. m \in 1..(Len(h) + Len(u)) /\ ~(m <= Len(h)) /\ m - Len(h) = m - 1
        BY <1>2, <1>3, <1>4, <2>2
      <3>2. t[m] = u[m - 1]
        BY <2>4, <3>1
      <3>3. m - 1 \in 1..Len(u) /\ (m - 1) + 1 = m
        BY <1>2, <1>3
      <3> QED BY <1>2, <3>2, <3>3
    <2>7. Len(t) = Len(s) /\ \A m \in 2..Len(s) : t[m] = s[m]
      BY <1>3, <2>5, <2>6
    <2> QED BY <1>6, <1>7, <2>4, <2>5, <2>7 DEF Shortened
  <1> QED BY <1>5, <1>6

(* What is left was there, after the head. *)
LEMMA ShortenedLeft ==
  ASSUME NEW s, NEW t, NEW k, NEW i, Shortened(s, t, k, i), NEW m \in 1..Len(t)
  PROVE  \/ k = "put" /\ m = 1 /\ t[m] = Drop(i)
         \/ \E n \in 2..Len(s) : t[m] = s[n] /\ n = IF k = "put" THEN m ELSE m + 1
  <1>1. PICK l \in Nat : l = Len(s) /\ l >= 1
    BY DEF Shortened
  <1>2. CASE k = "put" /\ m = 1
    BY <1>2 DEF Shortened
  <1>3. CASE k = "put" /\ m # 1
    <2>1. m \in 2..Len(s) /\ t[m] = s[m]
      BY <1>1, <1>3 DEF Shortened
    <2> QED BY <1>3, <2>1
  <1>4. CASE k # "put"
    <2>1. m + 1 \in 2..Len(s) /\ t[m] = s[m + 1]
      BY <1>1, <1>4 DEF Shortened
    <2> QED BY <1>4, <2>1
  <1> QED BY <1>2, <1>3, <1>4

LEMMA ShortenedKept ==
  ASSUME NEW s, NEW t, NEW k, NEW i, Shortened(s, t, k, i), NEW n \in 2..Len(s)
  PROVE  \E m \in 1..Len(t) : t[m] = s[n]
  <1>1. PICK l \in Nat : l = Len(s) /\ l >= 1
    BY DEF Shortened
  <1>2. CASE k = "put"
    <2>1. n \in 1..Len(t) /\ t[n] = s[n]
      BY <1>1, <1>2 DEF Shortened
    <2> QED BY <2>1
  <1>3. CASE k # "put"
    <2>1. PICK m \in Nat : m = n - 1
      BY <1>1
    <2>2. m \in 1..Len(t) /\ m + 1 = n
      BY <1>1, <1>3, <2>1 DEF Shortened
    <2> QED BY <1>3, <2>2 DEF Shortened
  <1> QED BY <1>2, <1>3

LEMMA DefersTo ==
  ASSUME IInv, NEW p \in Procs, Deferred(p)
  PROVE  \E k \in {"put", "drop", "unlock"}, i \in Inums :
           /\ Shortened(todo[p], todo'[p], k, i)
           /\ k = "put" => iput(p, i)
           /\ k = "drop" => drop(p, i)
           /\ k = "unlock" => iunlock(p, i)
           /\ Elsewhere(p) /\ UNCHANGED <<cwd, file, pc, call, path, ip, dp, panic>>
  <1>1. /\ todo[p] # <<>> /\ UNCHANGED <<cwd, file, pc, call, path, ip, dp, calls, panic>>
    BY DEF Deferred
  <1>2. PICK s \in Seq(Steps) : s = todo[p]
    BY DEF IInv, Control
  <1>3. s # <<>> /\ Len(s) <= 3
    BY <1>1, <1>2 DEF IInv, Control, Shape
  <1>4. Len(s) \in Nat /\ Len(s) >= 1
    BY ONLY <1>3, s \in Seq(Steps), LenProperties, EmptySeq
  <1>5. Head(s) = s[1] /\ s[1] \in Steps
    <2>1. 1 \in 1..Len(s)
      BY <1>4
    <2> QED BY <2>1, ElementOfSeq
  <1>6. PICK k \in {"put", "drop", "unlock"}, i \in Inums : s[1] = <<k, i>>
    BY <1>5 DEF Steps
  <1>7. PICK h : h = Head(todo[p]) /\ h[1] = k /\ h[2] = i
    BY <1>2, <1>5, <1>6
  <1>8. /\ k = "put" => iput(p, i)
        /\ k = "drop" => drop(p, i)
        /\ k = "unlock" => iunlock(p, i)
    BY <1>7 DEF Deferred
  <1>9. PICK t : t = IF k = "put" THEN <<Drop(i)>> \o Tail(s) ELSE Tail(s)
    OBVIOUS
  <1>10. todo' = [todo EXCEPT ![p] = t]
    <2>1. CASE k = "put"
      BY <1>2, <1>8, <1>9, <2>1 DEF iput, IInv, Control
    <2>2. CASE k = "drop"
      BY <1>2, <1>8, <1>9, <2>2 DEF drop, IInv, Control
    <2>3. CASE k = "unlock"
      BY <1>2, <1>8, <1>9, <2>3 DEF iunlock, IInv, Control
    <2> QED BY <2>1, <2>2, <2>3
  <1>11. Shortened(s, t, k, i)
    BY <1>3, <1>6, <1>9, ShortenedIs
  <1>12. todo'[p] = t /\ Elsewhere(p)
    BY <1>1, <1>10 DEF IInv, Control, Elsewhere
  <1> QED BY <1>1, <1>2, <1>8, <1>11, <1>12

-----------------------------------------------------------------------------
(* The unlocks of t are those of s but the head. *)
UnlocksLeft(p, s, t, k, i) ==
  /\ \A x \in Inums : (\E m \in 1..Len(t) : t[m] = Unlock(x))
                        <=> (\E n \in 2..Len(s) : s[n] = Unlock(x))
  /\ \A x \in Inums : (\E n \in 1..Len(s) : s[n] = Unlock(x))
                        <=> \/ k = "unlock" /\ x = i
                            \/ \E n \in 2..Len(s) : s[n] = Unlock(x)
  /\ k = "unlock" => /\ pc[p] \in {"idle", "linkbad"}
                     /\ \A n \in 2..Len(s) : s[n][1] # "unlock"
  /\ \A m \in 1..Len(t) : t[m][1] = "unlock" =>
       /\ pc[p] \in {"idle", "linkbad"}
       /\ \A n \in 1..Len(t) : t[n][1] = "unlock" => n = m

LEMMA DeferredUnlocks ==
  ASSUME NEW p \in Procs, NEW s, NEW t, NEW k, NEW i \in Inums, Shortened(s, t, k, i),
         s = todo[p], Unlocks(p)
  PROVE  UnlocksLeft(p, s, t, k, i)
  <1>1. PICK l \in Nat : l = Len(s) /\ l >= 1 /\ s[1] = <<k, i>>
    BY DEF Shortened
  <1>2. \A x : Unlock(x) = <<"unlock", x>> /\ Drop(x) = <<"drop", x>>
    BY DEF Unlock, Drop
  <1>3. ASSUME NEW m \in 1..Len(t)
        PROVE  \/ k = "put" /\ m = 1 /\ t[m][1] = "drop"
               \/ \E n \in 2..Len(s) : t[m] = s[n] /\ n = IF k = "put" THEN m ELSE m + 1
    BY <1>2, ShortenedLeft
  <1>4. ASSUME NEW n \in 1..Len(s), s[n][1] = "unlock"
        PROVE  pc[p] \in {"idle", "linkbad"} /\ \A m \in 1..Len(s) : s[m][1] = "unlock" => m = n
    BY <1>4 DEF Unlocks
  <1>5. ASSUME NEW x \in Inums
        PROVE  (\E m \in 1..Len(t) : t[m] = Unlock(x)) <=> (\E n \in 2..Len(s) : s[n] = Unlock(x))
    <2>1. ASSUME NEW m \in 1..Len(t), t[m] = Unlock(x) PROVE \E n \in 2..Len(s) : s[n] = Unlock(x)
      <3>1. t[m][1] = "unlock"
        BY <1>2, <2>1
      <3> QED BY <1>3, <2>1, <3>1
    <2>2. ASSUME NEW n \in 2..Len(s), s[n] = Unlock(x) PROVE \E m \in 1..Len(t) : t[m] = Unlock(x)
      BY <2>2, ShortenedKept
    <2> QED BY <2>1, <2>2
  <1>6. ASSUME NEW x \in Inums
        PROVE  (\E n \in 1..Len(s) : s[n] = Unlock(x))
                 <=> \/ k = "unlock" /\ x = i
                     \/ \E n \in 2..Len(s) : s[n] = Unlock(x)
    <2>1. s[1] = Unlock(x) <=> k = "unlock" /\ x = i
      BY <1>1, <1>2
    <2>2. \A n : n \in 1..Len(s) <=> n = 1 \/ n \in 2..Len(s)
      BY <1>1
    <2> QED BY <2>1, <2>2
  <1>7. ASSUME k = "unlock"
        PROVE  pc[p] \in {"idle", "linkbad"} /\ \A n \in 2..Len(s) : s[n][1] # "unlock"
    <2>1. 1 \in 1..Len(s) /\ s[1][1] = "unlock"
      BY <1>1, <1>7
    <2>2. \A n \in 2..Len(s) : n \in 1..Len(s) /\ n # 1
      BY <1>1
    <2> QED BY <1>4, <2>1, <2>2
  <1>8. ASSUME NEW m \in 1..Len(t), t[m][1] = "unlock"
        PROVE  /\ pc[p] \in {"idle", "linkbad"}
               /\ \A n \in 1..Len(t) : t[n][1] = "unlock" => n = m
    <2>1. PICK a \in 2..Len(s) : t[m] = s[a] /\ a = IF k = "put" THEN m ELSE m + 1
      BY <1>3, <1>8
    <2>2. a \in 1..Len(s) /\ s[a][1] = "unlock"
      BY <1>1, <1>8, <2>1
    <2>3. ASSUME NEW n \in 1..Len(t), t[n][1] = "unlock" PROVE n = m
      <3>1. PICK b \in 2..Len(s) : t[n] = s[b] /\ b = IF k = "put" THEN n ELSE n + 1
        BY <1>3, <2>3
      <3>2. b \in 1..Len(s) /\ s[b][1] = "unlock"
        BY <1>1, <2>3, <3>1
      <3>3. a = b
        BY <1>4, <2>2, <3>2
      <3> QED BY <2>1, <3>1, <3>3
    <2> QED BY <1>4, <2>2, <2>3
  <1> QED BY <1>5, <1>6, <1>7, <1>8 DEF UnlocksLeft

(* What a put frees nobody else points to. *)
LEMMA FreedAlone ==
  ASSUME IInv, NEW p \in Procs, NEW i \in Inums, NEW t, Shortened(todo[p], t, "put", i), Frees(i),
         t = todo'[p], Elsewhere(p), UNCHANGED <<cwd, file, pc, ip, dp>>
  PROVE  /\ \A q \in Procs : dp[q] # i /\ ip[q] # i
         /\ \A q \in Procs : ~Reaches(q, i)'
  <1>1. Target(todo[p], 1) = i /\ ref[i] = 1
    BY DEF Shortened, Target, Frees
  <1>2. /\ \A q \in Procs : cwd[q] # i /\ file[q] # i /\ ip[q] # i /\ dp[q] # i
        /\ \A q \in Procs, k \in 1..3 : Target(todo[q], k) = i => q = p /\ k = 1
    BY <1>1, LastPointer DEF IInv
  <1>3. ASSUME NEW q \in Procs, Reaches(q, i)' PROVE FALSE
    <2>1. PICK m \in 1..Len(todo'[q]) : todo'[q][m] = Put(i)
      BY <1>2, <1>3 DEF Reaches
    <2>2. \E n \in 1..3 : Target(todo[q], n) = i /\ (q = p => n # 1)
      <3>1. CASE q # p
        <4>1. todo'[q] = todo[q]
          BY <3>1 DEF Elsewhere
        <4>2. PICK s \in Seq(Steps) : s = todo[q] /\ Len(s) <= 3
          BY DEF IInv, Control, Shape
        <4>3. PICK l \in Nat : l = Len(s)
          BY ONLY s \in Seq(Steps), LenProperties
        <4>4. m \in 1..3 /\ s[m][1] # "unlock" /\ s[m][2] = i
          BY <2>1, <4>1, <4>2, <4>3 DEF Put
        <4>5. Target(s, m) = i
          BY <2>1, <4>1, <4>2, <4>4 DEF Target
        <4> QED BY <3>1, <4>2, <4>4, <4>5
      <3>2. CASE q = p
        <4>1. PICK s : s = todo[p]
          OBVIOUS
        <4>2. t[m] # Drop(i) /\ Shortened(s, t, "put", i) /\ m \in 1..Len(t)
          BY <2>1, <3>2, <4>1 DEF Put, Drop
        <4>3. PICK n \in 2..Len(s) : t[m] = s[n]
          BY <4>2, ShortenedLeft
        <4>4. PICK l \in Nat : l = Len(s) /\ l <= 3
          BY <4>2 DEF Shortened
        <4>5. n \in 1..3 /\ n # 1 /\ n \in 1..Len(s)
          BY <4>3, <4>4
        <4>6. Target(s, n) = i
          BY <2>1, <3>2, <4>3, <4>5 DEF Target, Put
        <4> QED BY <3>2, <4>1, <4>5, <4>6
      <3> QED BY <3>1, <3>2
    <2> QED BY <1>2, <2>2
  <1> QED BY <1>2, <1>3

LEMMA DeferredHeld ==
  ASSUME IInv, Held, NEW p \in Procs, Deferred(p)
  PROVE  Held'
  <1>1. PICK k \in {"put", "drop", "unlock"}, i \in Inums :
           /\ Shortened(todo[p], todo'[p], k, i)
           /\ k = "put" => iput(p, i)
           /\ k = "drop" => drop(p, i)
           /\ k = "unlock" => iunlock(p, i)
           /\ Elsewhere(p) /\ UNCHANGED <<cwd, file, pc, call, path, ip, dp, panic>>
    BY DefersTo
  <1>2. PICK s, t : s = todo[p] /\ t = todo'[p]
    OBVIOUS
  <1>3. Shortened(s, t, k, i) /\ Unlocks(p)
    BY <1>1, <1>2 DEF Held
  <1>4. /\ \A x \in Inums : (\E m \in 1..Len(t) : t[m] = Unlock(x))
                              <=> (\E n \in 2..Len(s) : s[n] = Unlock(x))
        /\ \A x \in Inums : (\E n \in 1..Len(s) : s[n] = Unlock(x))
                              <=> \/ k = "unlock" /\ x = i
                                  \/ \E n \in 2..Len(s) : s[n] = Unlock(x)
        /\ k = "unlock" => /\ pc[p] \in {"idle", "linkbad"}
                           /\ \A n \in 2..Len(s) : s[n][1] # "unlock"
        /\ \A m \in 1..Len(t) : t[m][1] = "unlock" =>
             /\ pc[p] \in {"idle", "linkbad"}
             /\ \A n \in 1..Len(t) : t[n][1] = "unlock" => n = m
    <2>1. UnlocksLeft(p, s, t, k, i)
      BY <1>1, <1>2, <1>3, DeferredUnlocks
    <2> QED BY <2>1 DEF UnlocksLeft
  <1>5. LocksMove(p)
    <2>1. CASE k # "unlock"
      <3>1. UNCHANGED lock
        BY <1>1, <2>1 DEF iput, drop
      <3>2. \A x \in Inums : Holds(p, x)' <=> Holds(p, x)
        BY <1>1, <1>2, <1>4, <2>1 DEF Holds
      <3> QED BY <3>1, <3>2 DEF LocksMove
    <2>2. CASE k = "unlock"
      <3>1. lock' = [lock EXCEPT ![i] = NoOne]
        BY <1>1, <2>2 DEF iunlock
      <3>2. ASSUME NEW x \in Inums PROVE Holds(p, x) <=> x = i
        <4>1. \A n \in 2..Len(s) : s[n] # Unlock(x)
          BY <1>4, <2>2 DEF Unlock
        <4> QED BY <1>2, <1>4, <2>2, <4>1 DEF Holds
      <3>3. ASSUME NEW x \in Inums PROVE ~Holds(p, x)'
        <4>1. \A n \in 2..Len(s) : s[n] # Unlock(x)
          BY <1>4, <2>2 DEF Unlock
        <4> QED BY <1>1, <1>2, <1>4, <2>2, <4>1 DEF Holds
      <3>4. lock[i] = p
        BY <3>2 DEF Held, LockOwners
      <3> QED BY <3>1, <3>2, <3>3, <3>4 DEF LocksMove, IInv, Types
    <2> QED BY <2>1, <2>2
  <1>6. Unlocks(p)'
    BY <1>1, <1>2, <1>4 DEF Unlocks
  <1>7. \/ UNCHANGED <<type, ents>>
        \/ /\ k = "put" /\ Frees(i) /\ Free(i)
           /\ type' = [type EXCEPT ![i] = "free"]
           /\ ents' = [ents EXCEPT ![i] = [n \in {} |-> Root]]
    BY <1>1 DEF iput, drop, iunlock, disk
  <1>8. \/ UNCHANGED <<type, ents>>
        \/ /\ Free(i) /\ type'[i] = "free" /\ ents'[i] = [n \in {} |-> Root]
           /\ \A x \in Inums \ {i} : type'[x] = type[x] /\ ents'[x] = ents[x]
           /\ \A q \in Procs : dp[q] # i /\ ip[q] # i
    <2>1. CASE UNCHANGED <<type, ents>>
      BY <2>1
    <2>2. CASE /\ k = "put" /\ Frees(i) /\ Free(i)
               /\ type' = [type EXCEPT ![i] = "free"]
               /\ ents' = [ents EXCEPT ![i] = [n \in {} |-> Root]]
      <3>1. \A q \in Procs : dp[q] # i /\ ip[q] # i
        BY <1>1, <1>2, <1>3, <2>2, FreedAlone
      <3> QED BY <2>2, <3>1 DEF IInv, Types
    <2> QED BY <1>7, <2>1, <2>2
  <1>9. TypesMove /\ EntsMove(p)
    BY <1>8 DEF TypesMove, EntsMove, Free
  <1>10. OnlyDirs'
    BY <1>8 DEF Held, OnlyDirs
  <1>11. IsFiniteSet(EntriesOf(ents'))
    <2>1. \A x \in Inums : Named(ents'[x]) \subseteq Named(ents[x])
      BY <1>8 DEF Named
    <2> QED BY <2>1, EntriesFinite DEF Held
  <1>12. Leaves(p)
    <2>1. ASSUME NEW x \in Inums, x = dp[p] \/ x = ip[p] PROVE type'[x] = type[x] /\ ents'[x] = ents[x]
      BY <1>8, <2>1
    <2>2. /\ pc[p] \in HasDp => dp[p] \in Inums
          /\ Linking(p) => ip[p] \in Inums
      BY DEF IInv, Control, Shape, Linking, HasIp
    <2>3. (Linking(p)' <=> Linking(p)) /\ Name(p)' = Name(p)
      BY <1>1 DEF Linking, Name
    <2>4. /\ pc[p] \in HasDp \ {"walk"} => type[dp[p]] = "dir"
          /\ Linking(p) => type[ip[p]] = "file"
          /\ pc[p] = "erase" => Name(p) \in Named(ents[dp[p]]) /\ ents[dp[p]][Name(p)] = ip[p]
          /\ pc[p] = "made" => Name(p) \notin DOMAIN ents[dp[p]]
      BY DEF Held, Kinds, Sought
    <2>5. pc[p] \in {"erase", "made"} => pc[p] \in HasDp
      BY DEF HasDp
    <2> QED BY <1>1, <1>6, <2>1, <2>2, <2>3, <2>4, <2>5 DEF Leaves
  <1> QED BY <1>1, <1>5, <1>9, <1>10, <1>11, <1>12, HeldStep DEF IInv

-----------------------------------------------------------------------------
(* A step that neither frees nor makes: the pointers there are lead where  *)
(* they led.                                                               *)
LEMMA ReachLess ==
  ASSUME NEW p \in Procs, NEW k, NEW i, Shortened(todo[p], todo'[p], k, i), Elsewhere(p),
         UNCHANGED <<cwd, file, pc, ip, dp>>
  PROVE  \A q \in Procs, x \in Inums : Reaches(q, x)' => Reaches(q, x)
  <1>1. ASSUME NEW q \in Procs, NEW x \in Inums, Reaches(q, x)' PROVE Reaches(q, x)
    <2>1. CASE ~\E m \in 1..Len(todo'[q]) : todo'[q][m] = Put(x)
      BY <1>1, <2>1 DEF Reaches
    <2>2. ASSUME NEW m \in 1..Len(todo'[q]), todo'[q][m] = Put(x) PROVE Reaches(q, x)
      <3>1. CASE q # p
        BY <2>2, <3>1 DEF Elsewhere, Reaches
      <3>2. CASE q = p
        <4>1. PICK s, t : s = todo[p] /\ t = todo'[p]
          OBVIOUS
        <4>2. t[m] # Drop(i) /\ Shortened(s, t, k, i) /\ m \in 1..Len(t)
          BY <2>2, <3>2, <4>1 DEF Put, Drop
        <4>3. PICK n \in 2..Len(s) : t[m] = s[n]
          BY <4>2, ShortenedLeft
        <4>4. PICK l \in Nat : l = Len(s)
          BY <4>2 DEF Shortened
        <4>5. n \in 1..Len(s) /\ s[n] = Put(x)
          BY <2>2, <3>2, <4>1, <4>3, <4>4
        <4> QED BY <3>2, <4>1, <4>5 DEF Reaches
      <3> QED BY <3>1, <3>2
    <2> QED BY <2>1, <2>2
  <1> QED BY <1>1

LEMMA DeferredRest ==
  ASSUME IInv, IInv', Held, Tree, NEW p \in Procs, Elsewhere(p),
         NEW k, NEW i, Shortened(todo[p], todo'[p], k, i),
         UNCHANGED <<type, nlink, ents, cwd, file, pc, call, path, ip, dp, panic>>
  PROVE  Tree'
  <1>1. NotMaking(p) /\ panic' # "nlink < 1"
    BY DEF NotMaking, Tree
  <1>2. ReachKnown'
    <2>1. ASSUME NEW q \in Procs, NEW x \in Inums, Reaches(q, x)' PROVE Known(x)'
      <3>1. Known(x)
        BY <2>1, ReachLess DEF Tree, ReachKnown
      <3> QED BY <3>1 DEF Known
    <2> QED BY <2>1 DEF ReachKnown
  <1>3. Counted'[p] = Counted[p]
    BY DEF Counted, Linking
  <1>4. \A x \in Inums : nlink'[x] - nlink[x] >= One(Counted'[p], x) - One(Counted[p], x)
    BY <1>3, CountsSame DEF IInv
  <1> QED BY <1>1, <1>2, <1>4, TreeRest DEF IInv

(* iput frees what no directory names and no process knows, and it is no   *)
(* directory's parent unless that is an orphan from now on.                *)
LEMMA FreeingKeeps ==
  ASSUME IInv, IInv', Held, Tree, NEW p \in Procs, Elsewhere(p), NEW i \in Inums,
         Shortened(todo[p], todo'[p], "put", i), iput(p, i), Frees(i), ~Orphaning,
         UNCHANGED <<cwd, file, pc, call, path, ip, dp, panic>>
  PROVE  Tree'
  <1>1. /\ type' = [type EXCEPT ![i] = "free"]
        /\ ents' = [ents EXCEPT ![i] = [n \in {} |-> Root]]
        /\ nlink' = nlink /\ nlink[i] = 0
    BY DEF iput, Frees
  <1>2. /\ type'[i] = "free" /\ ents'[i] = [n \in {} |-> Root]
        /\ \A x \in Inums \ {i} : type'[x] = type[x] /\ ents'[x] = ents[x]
    BY <1>1 DEF IInv, Types
  <1>3. /\ \A q \in Procs : dp[q] # i /\ ip[q] # i
        /\ \A q \in Procs : ~Reaches(q, i)'
    <2>1. PICK t : t = todo'[p]
      OBVIOUS
    <2> QED BY <2>1, FreedAlone
  <1>4. IsFiniteSet(EntriesOf(ents))
    BY DEF Held
  <1>5. NamesOf(ents, i) = {} /\ Root # i
    <2>1. /\ IsFiniteSet(NamesOf(ents, i))
          /\ Cardinality(NamesOf(ents, i)) \in Nat /\ Cardinality(SubsIn(ents, type, i)) \in Nat
          /\ Uses(ents, type, i) \in Nat
      BY <1>4, UsesNat
    <2>2. Users(Counted, i) \in Nat
      BY UsersHas
    <2>3. nlink[i] >= Uses(ents, type, i) + Users(Counted, i)
      BY DEF Tree, Links
    <2>4. Uses(ents, type, i) = 0
      BY <1>1, <2>1, <2>2, <2>3
    <2>5. One(Root, i) \in Nat /\ (One(Root, i) >= 1 <=> Root = i)
      BY OneNat
    <2>6. One(Root, i) = 0 /\ Cardinality(NamesOf(ents, i)) = 0
      BY <2>1, <2>4, <2>5 DEF Uses
    <2> QED BY <2>1, <2>5, <2>6, FS_EmptySet
  <1>6. ASSUME NEW x \in Inums, x # i, NEW m \in DOMAIN ents[x] PROVE ents[x][m] # i
    <2>1. Dotted
      BY DEF Tree
    <2>2. CASE m = "."
      BY <1>6, <2>1, <2>2 DEF Dotted
    <2>3. CASE m = ".."
      <3>1. ents[x][".."] = i => type[i] = "dir"
        BY <1>6, <2>1, <2>3 DEF Dotted
      <3> QED BY <1>2, <1>6, <2>3, <3>1 DEF Orphaning
    <2>4. CASE m \notin Dots
      <3>1. <<x, m>> \in EntriesOf(ents)
        BY <2>4, EntryIs DEF Named
      <3>2. PICK e : e = <<x, m>>
        OBVIOUS
      <3>3. ents[e[1]][e[2]] = ents[x][m]
        BY <3>2
      <3> QED BY <1>5, <3>1, <3>2, <3>3 DEF NamesOf
    <2> QED BY <2>2, <2>3, <2>4 DEF Dots
  <1>7. ASSUME NEW x \in Inums, x # i, Known(x) PROVE Known(x)'
    BY <1>2, <1>7 DEF Known
  <1>8. ReachKnown'
    <2>1. ASSUME NEW q \in Procs, NEW x \in Inums, Reaches(q, x)' PROVE Known(x)'
      <3>1. Reaches(q, x)
        BY <2>1, ReachLess
      <3>2. Known(x) /\ x # i
        BY <1>3, <2>1, <3>1 DEF Tree, ReachKnown
      <3> QED BY <1>7, <3>2
    <2> QED BY <2>1 DEF ReachKnown
  <1>9. EntsKnown' /\ RootKnown'
    <2>1. ASSUME NEW x \in Inums, NEW m \in DOMAIN ents'[x] PROVE Known(ents[x][m])'
      <3>1. x # i /\ ents'[x] = ents[x]
        BY <1>2, <2>1
      <3>2. PICK y \in Inums : y = ents[x][m]
        BY <2>1, <3>1 DEF IInv, Types
      <3>3. Known(y)
        BY <2>1, <3>1, <3>2 DEF Tree, EntsKnown
      <3>4. Known(y)' /\ y = ents'[x][m]
        BY <1>6, <1>7, <2>1, <3>1, <3>2, <3>3
      <3> QED BY <3>4 DEF Known
    <2>2. EntsKnown'
      BY <2>1 DEF EntsKnown
    <2>3. Known(Root) /\ type[Root] = "dir"
      BY DEF Tree, RootKnown
    <2>4. Known(Root)' /\ type'[Root] = "dir"
      BY <1>2, <1>5, <1>7, <2>3, InodesAssumption
    <2> QED BY <2>2, <2>4 DEF RootKnown
  <1>10. Makers'
    <2>1. Makers
      BY DEF Tree
    <2>2. ASSUME NEW q \in Procs, pc[q] = "made" PROVE ents'[ip[q]] = ents[ip[q]]
      <3>1. ip[q] \in Inums \ {i}
        BY <1>3, <2>2 DEF IInv, Control, Shape, HasIp
      <3> QED BY <1>2, <3>1
    <2>3. ASSUME NEW q \in Procs, pc'[q] = "made"
          PROVE  /\ Name(q)' \notin Dots /\ DOMAIN ents'[ip'[q]] = {}
                 /\ \A r \in Procs \ {q} : pc'[r] = "made" => ip'[r] # ip'[q]
      BY <2>1, <2>2, <2>3 DEF Makers, Name
    <2> QED BY <2>3 DEF Makers
  <1>11. Dotted'
    <2>1. Dotted
      BY DEF Tree
    <2>2. ASSUME NEW x \in Inums
          PROVE  /\ "." \in DOMAIN ents'[x] => ents'[x]["."] = x
                 /\ ".." \in DOMAIN ents'[x] => type'[ents'[x][".."]] = "dir"
                 /\ type'[x] = "dir" => \/ Dots \subseteq DOMAIN ents'[x]
                                        \/ \E q \in Procs : pc'[q] = "made" /\ ip'[q] = x
      <3>1. CASE x = i
        BY <1>2, <3>1
      <3>2. CASE x # i
        <4>1. ents'[x] = ents[x] /\ type'[x] = type[x]
          BY <1>2, <3>2
        <4>2. ASSUME ".." \in DOMAIN ents[x] PROVE type'[ents[x][".."]] = "dir"
          <5>1. PICK y \in Inums : y = ents[x][".."]
            BY <4>2 DEF IInv, Types
          <5>2. type[y] = "dir" /\ y # i
            BY <1>6, <2>1, <3>2, <4>2, <5>1 DEF Dotted
          <5> QED BY <1>2, <5>1, <5>2
        <4> QED BY <2>1, <4>1, <4>2 DEF Dotted
      <3> QED BY <3>1, <3>2
    <2> QED BY <2>2 DEF Dotted
  <1>12. Links'
    <2>1. ASSUME NEW e \in EntriesOf(ents')
          PROVE  /\ e \in EntriesOf(ents) /\ ents'[e[1]][e[2]] = ents[e[1]][e[2]]
                 /\ ents[e[1]][e[2]] \in Inums
                 /\ type'[ents'[e[1]][e[2]]] = "dir" => type[ents'[e[1]][e[2]]] = "dir"
      <3>0. PICK x \in Inums : \E m \in Named(ents'[x]) : e = <<x, m>>
        BY EntryIs
      <3>1. PICK m \in Named(ents'[x]) : e = <<x, m>>
        BY <3>0
      <3>2. x # i /\ m \in Named(ents[x]) /\ ents'[x][m] = ents[x][m] /\ m \in DOMAIN ents[x]
        BY <1>2, <3>1 DEF Named
      <3>3. PICK y \in Inums : y = ents[x][m]
        BY <3>2 DEF IInv, Types
      <3>4. type'[y] = "dir" => type[y] = "dir"
        BY <1>2, <3>3
      <3> QED BY <3>1, <3>2, <3>3, <3>4, EntryIs
    <2>2. ASSUME NEW x \in Inums
          PROVE  nlink'[x] >= Uses(ents', type', x) + Users(Counted, x)'
      <3>1. PICK t, u, k, l : t = ents /\ u = ents' /\ k = type /\ l = type'
        OBVIOUS
      <3>2. \A e \in EntriesOf(u) :
              /\ e \in EntriesOf(t) /\ u[e[1]][e[2]] = t[e[1]][e[2]]
              /\ l[u[e[1]][e[2]]] = "dir" => k[u[e[1]][e[2]]] = "dir"
        BY <2>1, <3>1
      <3>3. IsFiniteSet(EntriesOf(t))
        BY <1>4, <3>1
      <3>4. IsFiniteSet(EntriesOf(u)) /\ Uses(u, l, x) <= Uses(t, k, x)
        BY <3>2, <3>3, UsesLess
      <3>5. Uses(u, l, x) \in Nat /\ Uses(t, k, x) \in Nat
        BY <3>3, <3>4, UsesNat
      <3>6. Users(Counted, x)' = Users(Counted, x) /\ Users(Counted, x) \in Nat
        BY UsersHas DEF Users, Counted, Linking
      <3>7. PICK a, b, c, e : a = Uses(u, l, x) /\ b = Uses(t, k, x) /\ c = Users(Counted, x) /\ e = nlink[x]
        OBVIOUS
      <3>8. /\ a <= b /\ a \in Nat /\ b \in Nat /\ c \in Nat /\ e \in Int /\ e >= b + c
        BY <3>1, <3>4, <3>5, <3>6, <3>7 DEF Tree, Links, IInv, Types
      <3>9. e >= a + c
        BY ONLY <3>8
      <3> QED BY <1>1, <3>1, <3>6, <3>7, <3>9
    <2> QED BY <2>2 DEF Links, Uses, One, Users
  <1>13. NoCircle(ents)'
    <2>1. \A x \in Inums : ChildrenIn(ents', x) \subseteq ChildrenIn(ents, x)
      BY <1>2 DEF ChildrenIn, Named
    <2>2. NoCircle(ents')
      BY <2>1, NoCircleLess DEF Tree
    <2> QED BY <2>2 DEF NoCircle, ChildrenIn
  <1> QED BY <1>8, <1>9, <1>10, <1>11, <1>12, <1>13 DEF Tree

LEMMA DeferredKeeps ==
  ASSUME IInv, IInv', Held, NEW p \in Procs, Deferred(p)
  PROVE  Held' /\ (Tree /\ ~Orphaning => Tree')
  <1>1. PICK k \in {"put", "drop", "unlock"}, i \in Inums :
           /\ Shortened(todo[p], todo'[p], k, i)
           /\ k = "put" => iput(p, i)
           /\ k = "drop" => drop(p, i)
           /\ k = "unlock" => iunlock(p, i)
           /\ Elsewhere(p) /\ UNCHANGED <<cwd, file, pc, call, path, ip, dp, panic>>
    BY DefersTo
  <1>2. CASE k = "put" /\ Frees(i)
    BY <1>1, <1>2, FreeingKeeps, DeferredHeld
  <1>3. CASE ~(k = "put" /\ Frees(i))
    <2>1. UNCHANGED <<type, nlink, ents>>
      BY <1>1, <1>3 DEF iput, drop, iunlock, disk
    <2> QED BY <1>1, <2>1, DeferredRest, DeferredHeld
  <1> QED BY <1>2, <1>3

-----------------------------------------------------------------------------
(* The first state.  In a tree a directory is named once, in its parent.   *)
LEMMA TreeSubs ==
  ASSUME NEW t \in Trees, NEW kind, NEW i,
         \A x \in Inums : kind[x] = "dir" => x \in DirsOf(t)
  PROVE  /\ IsFiniteSet({d \in DirsOf(t) \ {Root} : t[d][".."] = i})
         /\ Cardinality(SubsIn(t, kind, i)) <= Cardinality({d \in DirsOf(t) \ {Root} : t[d][".."] = i})
  <1>1. TreeOK(t)
    BY InodesAssumption
  <1>2. PICK T : T = {d \in DirsOf(t) \ {Root} : t[d][".."] = i}
    OBVIOUS
  <1>3. PICK S : S = SubsIn(t, kind, i)
    OBVIOUS
  <1>4. IsFiniteSet(T)
    <2>1. T \subseteq Inums
      BY <1>2 DEF DirsOf
    <2> QED BY <2>1, InodesAssumption, FS_Subset
  <1>5. ASSUME NEW e \in S
        PROVE  t[e[1]][e[2]] \in T /\ NamesOf(t, t[e[1]][e[2]]) = {e}
    <2>1. e \in EntriesOf(t) /\ e[1] = i /\ kind[t[e[1]][e[2]]] = "dir"
      BY <1>3 DEF SubsIn
    <2>0. PICK x \in Inums : \E m \in Named(t[x]) : e = <<x, m>>
      BY <2>1, EntryIs
    <2>2. PICK m \in Named(t[x]) : e = <<x, m>>
      BY <2>0
    <2>3. PICK d \in Inums : d = t[e[1]][e[2]]
      BY <1>1, <2>2 DEF TreeOK, Named
    <2>4. d \in DirsOf(t) /\ e \in NamesOf(t, d)
      BY <2>1, <2>3 DEF NamesOf
    <2>5. d # Root
      BY <1>1, <2>4 DEF TreeOK
    <2>6. PICK n \in Named(t[t[d][".."]]) : NamesOf(t, d) = {<<t[d][".."], n>>}
      BY <1>1, <2>4, <2>5 DEF TreeOK
    <2>7. e = <<t[d][".."], n>>
      BY <2>4, <2>6
    <2>8. t[d][".."] = i
      BY <2>1, <2>7
    <2> QED BY <1>2, <2>3, <2>4, <2>5, <2>6, <2>7, <2>8
  <1>6. PICK f : f = [e \in S |-> t[e[1]][e[2]]]
    OBVIOUS
  <1>7. f \in Injection(S, T)
    <2>1. f \in [S -> T]
      BY <1>5, <1>6
    <2>2. ASSUME NEW a \in S, NEW b \in S, f[a] = f[b] PROVE a = b
      <3>1. NamesOf(t, f[a]) = {a} /\ NamesOf(t, f[b]) = {b}
        BY <1>5, <1>6
      <3> QED BY <2>2, <3>1
    <2> QED BY <2>1, <2>2 DEF Injection, IsInjective
  <1>8. Cardinality(S) <= Cardinality(T)
    BY <1>4, <1>7, FS_Injection
  <1> QED BY <1>2, <1>3, <1>4, <1>8

LEMMA InitJInv ==
  ASSUME Init PROVE JInv
  <1>1. IInv
    BY InitIInv
  <1>2. PICK t \in Trees :
          /\ ents = t
          /\ type = [i \in Inums |-> IF i \in DirsOf(t) THEN "dir"
                                     ELSE IF NamesOf(t, i) # {} THEN "file" ELSE "free"]
          /\ nlink = [i \in Inums |->
                        (IF i = Root THEN 1 ELSE Cardinality(NamesOf(t, i)))
                        + Cardinality({d \in DirsOf(t) \ {Root} : t[d][".."] = i})]
          /\ cwd \in [Procs -> DirsOf(t)]
          /\ lock = [i \in Inums |-> NoOne]
          /\ file = [p \in Procs |-> NoInode]
          /\ pc = [p \in Procs |-> "idle"]
          /\ ip = [p \in Procs |-> NoInode] /\ dp = [p \in Procs |-> NoInode]
          /\ todo = [p \in Procs |-> <<>>]
          /\ panic = "no"
    BY DEF Init
  <1>3. TreeOK(t)
    BY InodesAssumption
  <1>4. /\ \A x \in Inums : type[x] = "dir" <=> x \in DirsOf(t)
        /\ \A x \in Inums : x \notin DirsOf(t) => DOMAIN t[x] = {}
        /\ \A x \in DirsOf(t) : x \in Inums /\ "." \in DOMAIN t[x]
                                /\ t[x]["."] = x /\ ".." \in DOMAIN t[x]
    BY <1>2, <1>3 DEF TreeOK, DirsOf
  <1>5. \A p \in Procs : Len(todo[p]) = 0
    BY <1>2
  <1>6. Held
    <2>1. Kinds /\ OnlyDirs /\ Sought /\ IsFiniteSet(EntriesOf(ents))
      BY <1>2, <1>3, <1>4 DEF Kinds, HasDp, Linking, OnlyDirs, Sought, TreeOK
    <2>2. LockOwners
      <3>1. ASSUME NEW i \in Inums, NEW p \in Procs PROVE lock[i] # p /\ ~Holds(p, i)
        BY <1>2, <1>5, InodesAssumption DEF Holds
      <3> QED BY <3>1 DEF LockOwners
    <2>3. \A p \in Procs : Unlocks(p)
      BY <1>5 DEF Unlocks
    <2> QED BY <2>1, <2>2, <2>3 DEF Held
  <1>7. \A x : type[x] # "free" => Known(x)
    BY <1>2 DEF Known
  <1>8. ASSUME NEW x \in Inums, NEW m \in DOMAIN t[x]
        PROVE  /\ t[x][m] \in Inums /\ type[t[x][m]] # "free"
               /\ m = ".." => type[t[x][m]] = "dir"
    <2>1. x \in DirsOf(t)
      BY <1>4, <1>8
    <2>2. PICK y \in Inums : y = t[x][m]
      BY <1>3, <1>8 DEF TreeOK
    <2>3. CASE m = "."
      BY <1>4, <2>1, <2>2, <2>3
    <2>4. CASE m = ".."
      <3>1. CASE x = Root
        BY <1>3, <1>4, <2>1, <2>2, <2>4, <3>1 DEF TreeOK
      <3>2. CASE x # Root
        <4>1. PICK n : n \in Named(t[y])
          BY <1>3, <2>1, <2>2, <2>4, <3>2 DEF TreeOK
        <4>2. y \in DirsOf(t)
          BY <1>4, <4>1 DEF Named
        <4> QED BY <1>4, <2>2, <4>2
      <3> QED BY <3>1, <3>2
    <2>5. CASE m \notin Dots
      <3>1. PICK e : e = <<x, m>>
        OBVIOUS
      <3>2. e \in EntriesOf(t) /\ t[e[1]][e[2]] = y
        BY <1>8, <2>2, <2>5, <3>1, EntryIs DEF Named
      <3>3. NamesOf(t, y) # {}
        BY <3>2 DEF NamesOf
      <3> QED BY <1>2, <2>2, <2>5, <3>3 DEF Dots
    <2> QED BY <2>3, <2>4, <2>5 DEF Dots
  <1>9. ReachKnown /\ EntsKnown /\ RootKnown
    <2>1. ASSUME NEW p \in Procs, NEW i \in Inums, Reaches(p, i) PROVE Known(i)
      <3>1. cwd[p] = i
        BY <1>2, <1>5, <2>1, InodesAssumption DEF Reaches
      <3> QED BY <1>2, <1>4, <1>7, <3>1
    <2>2. \A x \in Inums : \A m \in DOMAIN ents[x] : Known(ents[x][m])
      BY <1>2, <1>7, <1>8
    <2>3. type[Root] = "dir"
      BY <1>3, <1>4, InodesAssumption DEF TreeOK
    <2> QED BY <1>7, <2>1, <2>2, <2>3 DEF ReachKnown, EntsKnown, RootKnown
  <1>10. Makers
    BY <1>2 DEF Makers
  <1>11. Dotted
    <2>1. ASSUME NEW x \in Inums
          PROVE  /\ "." \in DOMAIN ents[x] => ents[x]["."] = x
                 /\ ".." \in DOMAIN ents[x] => type[ents[x][".."]] = "dir"
                 /\ type[x] = "dir" => Dots \subseteq DOMAIN ents[x]
      <3>1. "." \in DOMAIN t[x] => t[x]["."] = x
        BY <1>4 DEF DirsOf
      <3>2. ".." \in DOMAIN t[x] => type[t[x][".."]] = "dir"
        BY <1>8
      <3>3. type[x] = "dir" => Dots \subseteq DOMAIN t[x]
        BY <1>4 DEF Dots
      <3> QED BY <1>2, <3>1, <3>2, <3>3
    <2> QED BY <2>1 DEF Dotted
  <1>12. Links
    <2>1. ASSUME NEW i \in Inums PROVE nlink[i] >= Uses(ents, type, i) + Users(Counted, i)
      <3>1. PICK T : T = {d \in DirsOf(t) \ {Root} : t[d][".."] = i}
        OBVIOUS
      <3>2. PICK k : k = type
        OBVIOUS
      <3>3. IsFiniteSet(T) /\ Cardinality(SubsIn(t, k, i)) <= Cardinality(T)
        BY <1>4, <3>1, <3>2, TreeSubs
      <3>4. /\ Cardinality(T) \in Nat /\ Cardinality(NamesOf(t, i)) \in Nat
            /\ Cardinality(SubsIn(t, k, i)) \in Nat
        BY <1>3, <3>3, UsesNat, FS_CardinalityType DEF TreeOK
      <3>5. i = Root => Cardinality(NamesOf(t, i)) = 0
        BY <1>3, FS_EmptySet DEF TreeOK
      <3>6. PICK a, b, c, r : /\ a = Cardinality(NamesOf(t, i)) /\ b = Cardinality(SubsIn(t, k, i))
                             /\ c = Cardinality(T) /\ r = One(Root, i)
        OBVIOUS
      <3>7. nlink[i] = (IF i = Root THEN 1 ELSE a) + c
        BY <1>2, <3>1, <3>6
      <3>8. /\ a \in Nat /\ b \in Nat /\ c \in Nat /\ b <= c
            /\ i = Root => a = 0 /\ r = 1
            /\ i # Root => r = 0
        BY <3>3, <3>4, <3>5, <3>6 DEF One
      <3>9. nlink[i] >= r + a + b
        BY <3>7, <3>8
      <3>10. Users(Counted, i) = 0
        <4>1. {p \in Procs : Counted[p] = i} = {}
          BY <1>2, InodesAssumption DEF Counted, Linking
        <4> QED BY <4>1, FS_EmptySet DEF Users
      <3>11. Uses(ents, type, i) = r + a + b
        BY <1>2, <3>2, <3>6 DEF Uses
      <3>12. r \in Nat
        BY <3>8
      <3> QED BY <3>8, <3>9, <3>10, <3>11, <3>12
    <2> QED BY <2>1 DEF Links
  <1>13. NoCircle(ents) /\ panic # "nlink < 1"
    BY <1>2, <1>3 DEF TreeOK
  <1> QED BY <1>1, <1>6, <1>9, <1>10, <1>11, <1>12, <1>13 DEF JInv, Tree

-----------------------------------------------------------------------------
(* Every step keeps the stronger invariant; what a step orphans it need    *)
(* not keep in order.                                                      *)
LEMMA StepKeeps ==
  ASSUME IInv, IInv', Held, Next
  PROVE  Held' /\ (Tree /\ ~Orphaning => Tree')
  <1>1. PICK p \in Procs :
          \/ \E c \in Operations, name \in Paths : begin(p, c, name)
          \/ sys_close(p) \/ Step(p)
    BY DEF Next
  <1>2. ASSUME NEW c \in Operations, NEW name \in Paths, begin(p, c, name)
        PROVE  Held' /\ (Tree /\ ~Orphaning => Tree')
    BY <1>2, BeginKeeps
  <1>3. CASE sys_close(p)
    BY <1>3, CloseKeeps
  <1>4. CASE Deferred(p)
    BY <1>4, DeferredKeeps
  <1>5. CASE namex(p)
    BY <1>5, NamexKeeps
  <1>6. ASSUME NEW mode \in {"open", "write"}, sys_open(p, mode)
        PROVE  Held' /\ (Tree /\ ~Orphaning => Tree')
    BY <1>6, OpenKeeps
  <1>7. CASE create(p)
    BY <1>7, CreateKeeps
  <1>8. CASE link_new(p)
    BY <1>8, LinkNewKeeps
  <1>9. CASE created(p)
    BY <1>9, CreatedKeeps
  <1>10. CASE found(p)
    BY <1>10, FoundKeeps
  <1>11. CASE sys_unlink(p)
    BY <1>11, UnlinkKeeps
  <1>12. CASE erase(p)
    BY <1>12, EraseKeeps
  <1>13. CASE unlinked(p)
    BY <1>13, UnlinkedKeeps
  <1>14. CASE sys_link(p)
    BY <1>14, LinkKeeps
  <1>15. CASE dirlink(p)
    BY <1>15, DirlinkKeeps
  <1>16. CASE linkbad(p)
    BY <1>16, LinkbadKeeps
  <1>17. CASE sys_chdir(p)
    BY <1>17, ChdirKeeps
  <1>18. CASE Step(p)
    BY <1>4, <1>5, <1>6, <1>7, <1>8, <1>9, <1>10, <1>11, <1>12,
       <1>13, <1>14, <1>15, <1>16, <1>17, <1>18 DEF Step
  <1> QED BY <1>1, <1>2, <1>3, <1>18

LEMMA NextJInv ==
  ASSUME JInv, [Next]_vars PROVE JInv'
  <1>1. IInv /\ IInv' /\ Held
    BY NextIInv DEF JInv
  <1>2. CASE UNCHANGED vars
    <2>1. /\ UNCHANGED <<type, nlink, ents, lock, cwd, file, pc, call, path, ip, dp, todo>>
          /\ panic' = panic /\ orphaned' = orphaned
      BY <1>2 DEF vars, disk, cache, proc
    <2>2. Held'
      BY <1>1, <2>1, HeldStops
    <2>3. Tree => panic' # "nlink < 1"
      BY <2>1 DEF Tree
    <2>4. Tree => Tree'
      BY <2>1, <2>3, TreeStops
    <2> QED BY <1>1, <2>1, <2>2, <2>4 DEF JInv
  <1>3. CASE Next
    <2>1. Held' /\ (Tree /\ ~Orphaning => Tree')
      BY <1>1, <1>3, StepKeeps
    <2>2. ~orphaned' => ~orphaned /\ ~Orphaning
      BY <1>3 DEF Next
    <2> QED BY <1>1, <2>1, <2>2 DEF JInv
  <1> QED BY <1>2, <1>3

LEMMA StrongInvariance == Spec => []JInv
  <1> QED BY InitJInv, NextJInv, PTL DEF Spec

-----------------------------------------------------------------------------
(* Between the steps of link, unlink and create too an inode has the links *)
(* its names need, no name leads to a free inode, and unlink's panic       *)
(* (sysfile.c:211) is out of reach, until the parent of a directory in use *)
(* is freed.                                                               *)
THEOREM LinksCovered == Spec => []LinksCover
  <1>1. ASSUME JInv, ~orphaned PROVE Covered
    <2>1. IInv /\ Held /\ Tree
      BY <1>1 DEF JInv
    <2>2. ASSUME NEW i \in Inums
          PROVE  /\ nlink[i] >= Cardinality(NamesOf(ents, i))
                 /\ NamesOf(ents, i) # {} => type[i] # "free"
      <3>1. /\ Cardinality(NamesOf(ents, i)) \in Nat /\ Cardinality(SubsIn(ents, type, i)) \in Nat
            /\ One(Root, i) \in Nat /\ Users(Counted, i) \in Nat /\ nlink[i] \in Int
        BY <2>1, UsesNat, OneNat, UsersHas DEF Held, IInv, Types
      <3>2. nlink[i] >= Uses(ents, type, i) + Users(Counted, i)
        BY <2>1 DEF Tree, Links
      <3>3. nlink[i] >= Cardinality(NamesOf(ents, i))
        BY <3>1, <3>2 DEF Uses
      <3>4. \A e \in EntriesOf(ents) : type[ents[e[1]][e[2]]] # "free"
        BY <2>1, KnownUsed DEF IInv
      <3> QED BY <3>3, <3>4 DEF NamesOf
    <2>3. panic # "nlink < 1"
      BY <2>1 DEF Tree
    <2> QED BY <2>2, <2>3 DEF Covered, NamesOf
  <1>2. JInv => LinksCover
    BY <1>1 DEF LinksCover
  <1> QED BY <1>2, StrongInvariance, PTL

(* Processes that wait for each other's sleep-locks: what holds a lock and *)
(* waits for another, and is not in a put, is unlink with a directory that *)
(* wants the entry it found there.  The lowest of those directories has no *)
(* such entry.                                                             *)
LEMMA NoWaiting ==
  ASSUME IInv, Held, Tree, NEW S \in (SUBSET Procs) \ {{}}, Stuck(S)
  PROVE  \E p \in S : InPut(p)
  <1> SUFFICES ASSUME \A p \in S : ~InPut(p) PROVE FALSE
    OBVIOUS
  <1>1. ASSUME NEW p \in S
        PROVE  /\ todo[p] = <<>> /\ pc[p] \notin {"filled", "unlinked"}
               /\ \E i \in WaitsFor(p) : lock[i] \in S
    <2>1. PICK i \in WaitsFor(p) : lock[i] \in S
      BY DEF Stuck
    <2>2. todo[p] = <<>>
      BY <2>1 DEF WaitsFor, InPut
    <2> QED BY <2>1, <2>2 DEF WaitsFor
  <1>2. ASSUME NEW p \in S, NEW i \in Inums, lock[i] = p
        PROVE  pc[p] \in {"erase", "made"} /\ dp[p] = i
    <2>1. Holds(p, i)
      BY <1>2 DEF Held, LockOwners
    <2>2. Len(todo[p]) = 0
      BY <1>1
    <2> QED BY <1>1, <2>1, <2>2 DEF Holds
  <1>3. ASSUME NEW p \in S, pc[p] \in {"erase", "made"}
        PROVE  /\ ip[p] \in Inums /\ dp[p] \in Inums /\ lock[ip[p]] \in S
    <2>1. ip[p] \in Inums /\ dp[p] \in Inums
      BY <1>3 DEF IInv, Control, Shape, HasIp, HasDp
    <2>2. WaitsFor(p) \subseteq {ip[p]}
      BY <1>1, <1>3 DEF WaitsFor
    <2> QED BY <1>1, <2>1, <2>2
  <1>4. ASSUME NEW p \in S PROVE pc[p] # "made"
    <2>1. SUFFICES ASSUME pc[p] = "made" PROVE FALSE
      OBVIOUS
    <2>2. PICK q \in S : lock[ip[p]] = q
      BY <1>3, <2>1
    <2>3. dp[q] = ip[p] /\ ip[p] \in Inums
      BY <1>2, <1>3, <2>1, <2>2
    <2>4. Known(ip[p])
      BY <2>3 DEF Tree, ReachKnown, Reaches
    <2> QED BY <2>1, <2>4 DEF Known
  <1>5. PICK D : D = {dp[q] : q \in {r \in S : pc[r] = "erase"}}
    OBVIOUS
  <1>6. D \in SUBSET Inums
    BY <1>3, <1>5
  <1>7. ASSUME NEW i \in Inums, lock[i] \in S PROVE i \in D
    BY <1>2, <1>4, <1>5, <1>7
  <1>8. D # {}
    <2>1. S # {} /\ S \subseteq Procs
      OBVIOUS
    <2>4. PICK p \in S : p \in Procs
      BY <2>1
    <2>2. PICK i \in WaitsFor(p) : lock[i] \in S
      BY <1>1
    <2>3. i \in Inums
      <3>1. /\ Shape(p) /\ pc[p] \in HasDp \cup HasIp \cup {"idle"}
            /\ pc[p] \notin {"filled", "unlinked"}
        BY <1>1, <2>4 DEF IInv, Control, Labels
      <3>2. todo[p] = <<>>
        BY <1>1
      <3>3. \/ pc[p] \in {"walk", "create", "mkdir", "unlink", "link2"} /\ i = dp[p]
            \/ pc[p] \in {"open", "write", "link", "chdir", "found", "linkbad", "made", "erase"}
               /\ i = ip[p]
        BY <2>2, <3>1, <3>2 DEF WaitsFor, HasDp, HasIp
      <3> QED BY <3>1, <3>3 DEF Shape, HasDp, HasIp
    <2> QED BY <1>7, <2>2, <2>3
  <1>9. PICK d \in D : ChildrenIn(ents, d) \cap D = {}
    BY <1>6, <1>8 DEF Tree, NoCircle
  <1>10. PICK q \in S : pc[q] = "erase" /\ d = dp[q]
    BY <1>5, <1>9
  <1>11. ip[q] \in ChildrenIn(ents, d)
    BY <1>10 DEF Held, Sought, ChildrenIn
  <1>12. ip[q] \in D
    BY <1>3, <1>7, <1>10
  <1> QED BY <1>9, <1>11, <1>12

(* Lookups alone do not deadlock (fs.c:150): what ilock asks for with a    *)
(* directory locked is a child of it (sysfile.c:204, 281), so that in any  *)
(* circle of processes that wait for each other's sleep-locks one is in    *)
(* iput (fs.c:335), until the parent of a directory in use is freed.       *)
THEOREM LookupsNeverDeadlock == Spec => []DeadlockInPut
  <1>1. JInv => DeadlockInPut
    BY NoWaiting DEF JInv, DeadlockInPut
  <1> QED BY <1>1, StrongInvariance, PTL
=============================================================================
