----------------------------- MODULE GrepProofs -----------------------------
(***************************************************************************)
(* Proofs about Grep, for any tree of directories and any files.           *)
(*   WalkInv      a file has one result for each root because os.walk      *)
(*                comes to its directory once: the trees still ahead are   *)
(*                apart from each other and from every file taken so far.  *)
(*   CompleteInv  nothing is left out because what is due is to come       *)
(*                (ToCome) until it has its result.                        *)
(*   RightInv     a result is right because the counters are those of the  *)
(*                lines begun so far (ReadingInv), parts of lines counted  *)
(*                apart, and stays right because a file that grows keeps   *)
(*                the breaks it had (GrownInv).                            *)
(*   OnTrack      the walk stays below its root and takes nothing that a   *)
(*                search from there leaves out.                            *)
(***************************************************************************)
EXTENDS Grep, FiniteSetTheorems, WellFoundedInduction, TLAPS

-----------------------------------------------------------------------------
(* Trees of directories.  The one below d is the least set that has d and  *)
(* the directories of its directories.                                     *)
Closed(S) == \A c \in Dirs : Parent[c] \in S => c \in S
SubTree(d) == {x \in Dirs : \A S \in SUBSET Dirs : d \in S /\ Closed(S) => x \in S}

(* os.walk does not follow links: no directory is below itself.            *)
IsTree ==
  \E depth \in [Dirs -> Nat] :
    \A c \in Dirs : Parent[c] \in Dirs => depth[c] = depth[Parent[c]] + 1

LEMMA SubTreeRoot ==
  ASSUME NEW d \in Dirs
  PROVE  d \in SubTree(d) /\ SubTree(d) \subseteq Dirs /\ Closed(SubTree(d))
<1>1. d \in SubTree(d) /\ SubTree(d) \subseteq Dirs
  BY DEF SubTree
<1>2. ASSUME NEW c \in Dirs, Parent[c] \in SubTree(d)
      PROVE  c \in SubTree(d)
  <2> SUFFICES ASSUME NEW S \in SUBSET Dirs, d \in S, Closed(S)
               PROVE  c \in S
    BY DEF SubTree
  <2>1. Parent[c] \in S
    BY <1>2 DEF SubTree
  <2> QED
    BY <2>1 DEF Closed
<1> QED
  BY <1>1, <1>2 DEF Closed

LEMMA SubTreeLeast ==
  ASSUME NEW d \in Dirs, NEW S \in SUBSET Dirs, d \in S, Closed(S)
  PROVE  SubTree(d) \subseteq S
BY DEF SubTree

(* A directory in d has its own tree below d, and d is not in it.          *)
LEMMA ChildInside ==
  ASSUME IsTree, NEW d \in Dirs, NEW c \in Dirs, Parent[c] = d
  PROVE  SubTree(c) \subseteq SubTree(d) /\ d \notin SubTree(c)
<1>1. SubTree(c) \subseteq SubTree(d)
  <2>1. c \in SubTree(d)
    BY SubTreeRoot DEF Closed
  <2> QED
    BY <2>1, SubTreeRoot, SubTreeLeast
<1>2. d \notin SubTree(c)
  <2> PICK depth \in [Dirs -> Nat] :
        \A x \in Dirs : Parent[x] \in Dirs => depth[x] = depth[Parent[x]] + 1
    BY DEF IsTree
  <2> DEFINE S == {x \in Dirs : depth[x] >= depth[c]}
  <2>1. Closed(S) /\ c \in S
    BY DEF Closed
  <2>2. d \notin S
    <3>1. depth[c] = depth[d] + 1 /\ depth[d] \in Nat
      OBVIOUS
    <3> QED
      BY <3>1
  <2>3. SubTree(c) \subseteq S
    <3> HIDE DEF S
    <3>1. S \in SUBSET Dirs
      BY DEF S
    <3> QED
      BY <2>1, <3>1, SubTreeLeast
  <2> QED
    BY <2>2, <2>3
<1> QED
  BY <1>1, <1>2

(* The only way into a tree is through its root.                           *)
LEMMA ParentInside ==
  ASSUME NEW d \in Dirs, NEW x \in SubTree(d), x # d
  PROVE  Parent[x] \in SubTree(d)
<1> DEFINE S == {y \in SubTree(d) : y = d \/ Parent[y] \in SubTree(d)}
<1>1. S \in SUBSET Dirs /\ d \in S
  BY SubTreeRoot
<1>2. Closed(S)
  BY SubTreeRoot DEF Closed
<1>3. SubTree(d) \subseteq S
  <2> HIDE DEF S
  <2> QED
    BY <1>1, <1>2, SubTreeLeast
<1> QED
  BY <1>3

(* Two directories in one directory have nothing below them in common.     *)
LEMMA ChildrenApart ==
  ASSUME IsTree, NEW d \in Dirs, NEW a \in Dirs, NEW b \in Dirs, a # b,
         Parent[a] = d, Parent[b] = d
  PROVE  SubTree(a) \cap SubTree(b) = {}
<1> DEFINE S == SubTree(a) \ SubTree(b)
<1>1. d \notin SubTree(a) /\ d \notin SubTree(b)
  BY ChildInside
<1>2. S \in SUBSET Dirs
  BY SubTreeRoot
<1>3. a \in S
  <2>1. a \in SubTree(a)
    BY SubTreeRoot
  <2>2. a \in SubTree(b) => Parent[a] \in SubTree(b)
    BY ParentInside
  <2> QED
    BY <1>1, <2>1, <2>2
<1>4. Closed(S)
  <2> SUFFICES ASSUME NEW c \in Dirs, Parent[c] \in S
               PROVE  c \in S
    BY DEF Closed
  <2>1. c \in SubTree(a)
    BY SubTreeRoot DEF Closed
  <2>2. c # b
    BY <1>1
  <2>3. c \in SubTree(b) => Parent[c] \in SubTree(b)
    BY <2>2, ParentInside
  <2> QED
    BY <2>1, <2>3
<1>5. SubTree(a) \subseteq S
  <2> HIDE DEF S
  <2> QED
    BY <1>2, <1>3, <1>4, SubTreeLeast
<1> QED
  BY <1>5

-----------------------------------------------------------------------------
(* Sequences of directories.                                               *)
LEMMA HeadAndTail ==
  ASSUME NEW S, NEW q \in Seq(S), q # <<>>
  PROVE  /\ Head(q) \in S /\ Tail(q) \in Seq(S) /\ Len(Tail(q)) = Len(q) - 1
         /\ Head(q) = q[1] /\ 1 \in DOMAIN q
         /\ \A i \in DOMAIN Tail(q) : i + 1 \in DOMAIN q /\ Tail(q)[i] = q[i + 1]
         /\ ToSet(Tail(q)) \subseteq ToSet(q)
<1>1. /\ Tail(q) \in Seq(S) /\ Len(q) \in Nat /\ Len(q) >= 1 /\ Len(Tail(q)) = Len(q) - 1
      /\ Head(q) = q[1] /\ DOMAIN q = 1..Len(q) /\ DOMAIN Tail(q) = 1..Len(Tail(q))
  OBVIOUS
<1>2. \A i \in 1..Len(Tail(q)) : Tail(q)[i] = q[i + 1]
  OBVIOUS
<1>3. \A i \in DOMAIN Tail(q) : i + 1 \in DOMAIN q /\ Tail(q)[i] = q[i + 1]
  BY <1>1, <1>2
<1>4. Head(q) \in S /\ 1 \in DOMAIN q
  BY <1>1
<1> QED
  BY <1>1, <1>3, <1>4 DEF ToSet

LEMMA Concat ==
  ASSUME NEW S, NEW q \in Seq(S), NEW r \in Seq(S)
  PROVE  /\ q \o r \in Seq(S)
         /\ \A i \in DOMAIN (q \o r) :
              \/ i \in DOMAIN q /\ (q \o r)[i] = q[i]
              \/ i - Len(q) \in DOMAIN r /\ (q \o r)[i] = r[i - Len(q)] /\ i \notin DOMAIN q
         /\ ToSet(q \o r) \subseteq ToSet(q) \cup ToSet(r)
<1>1. /\ q \o r \in Seq(S) /\ Len(q) \in Nat /\ Len(r) \in Nat
      /\ DOMAIN q = 1..Len(q) /\ DOMAIN r = 1..Len(r) /\ DOMAIN (q \o r) = 1..(Len(q) + Len(r))
  OBVIOUS
<1>2. \A i \in 1..(Len(q) + Len(r)) :
        (q \o r)[i] = IF i <= Len(q) THEN q[i] ELSE r[i - Len(q)]
  OBVIOUS
<1>3. \A i \in DOMAIN (q \o r) :
        \/ i \in DOMAIN q /\ (q \o r)[i] = q[i]
        \/ i - Len(q) \in DOMAIN r /\ (q \o r)[i] = r[i - Len(q)] /\ i \notin DOMAIN q
  BY <1>1, <1>2
<1> QED
  BY <1>1, <1>3 DEF ToSet

(* SubDirs(d), in any order.                                               *)
LEMMA OrderOfSubDirs ==
  ASSUME NEW d, NEW order \in SetToSeqs(SubDirs(d))
  PROVE  /\ order \in Seq(Dirs)
         /\ \A i \in DOMAIN order : order[i] \in Dirs /\ Parent[order[i]] = d
         /\ \A i, j \in DOMAIN order : i # j => order[i] # order[j]
<1>1. SubDirs(d) \subseteq Dirs /\ IsFiniteSet(Dirs)
  BY GrepAssumption DEF SubDirs
<1>2. Cardinality(SubDirs(d)) \in Nat
  BY <1>1, FS_Subset, FS_CardinalityType
<1>3. /\ order \in [1..Cardinality(SubDirs(d)) -> SubDirs(d)]
      /\ \A i, j \in 1..Cardinality(SubDirs(d)) : i # j => order[i] # order[j]
  BY DEF SetToSeqs
<1>4. \A c \in SubDirs(d) : Parent[c] = d
  BY DEF SubDirs
<1> HIDE DEF SubDirs
<1>5. order \in Seq(Dirs)
  BY <1>1, <1>2, <1>3
<1> QED
  BY <1>1, <1>3, <1>4, <1>5

(* Directories whose trees have nothing in common.                         *)
Apart(q) == \A i, j \in DOMAIN q : i # j => SubTree(q[i]) \cap SubTree(q[j]) = {}
AllApart(A, B) == \A a \in A, b \in B : SubTree(a) \cap SubTree(b) = {}

LEMMA TailApart ==
  ASSUME NEW q \in Seq(Dirs), q # <<>>, Apart(q)
  PROVE  Apart(Tail(q)) /\ AllApart({Head(q)}, ToSet(Tail(q)))
<1>1. /\ Head(q) = q[1] /\ 1 \in DOMAIN q
      /\ \A i \in DOMAIN Tail(q) :
           i \in Nat \ {0} /\ i + 1 \in DOMAIN q /\ Tail(q)[i] = q[i + 1]
  BY HeadAndTail
<1>2. Apart(Tail(q))
  <2> SUFFICES ASSUME NEW i \in DOMAIN Tail(q), NEW j \in DOMAIN Tail(q), i # j
               PROVE  SubTree(Tail(q)[i]) \cap SubTree(Tail(q)[j]) = {}
    BY DEF Apart
  <2>1. i + 1 # j + 1
    BY <1>1
  <2> QED
    BY <1>1, <2>1 DEF Apart
<1>3. \A i \in DOMAIN Tail(q) : SubTree(Head(q)) \cap SubTree(Tail(q)[i]) = {}
  <2> TAKE i \in DOMAIN Tail(q)
  <2>1. i + 1 # 1
    BY <1>1
  <2> QED
    BY <1>1, <2>1 DEF Apart
<1> QED
  BY <1>2, <1>3 DEF AllApart, ToSet

LEMMA ConcatApart ==
  ASSUME NEW q \in Seq(Dirs), NEW r \in Seq(Dirs),
         Apart(q), Apart(r), AllApart(ToSet(q), ToSet(r))
  PROVE  Apart(q \o r)
<1> SUFFICES ASSUME NEW i \in DOMAIN (q \o r), NEW j \in DOMAIN (q \o r), i # j
             PROVE  SubTree((q \o r)[i]) \cap SubTree((q \o r)[j]) = {}
  BY DEF Apart
<1> DEFINE p == q \o r
           InQ(k) == k \in DOMAIN q /\ p[k] = q[k]
           InR(k) == k - Len(q) \in DOMAIN r /\ p[k] = r[k - Len(q)]
<1>1. (InQ(i) \/ InR(i)) /\ (InQ(j) \/ InR(j))
  BY Concat
<1>2. i \in Int /\ j \in Int /\ Len(q) \in Int
  BY Concat
<1>3. \A x \in ToSet(q), y \in ToSet(r) :
        SubTree(x) \cap SubTree(y) = {} /\ SubTree(y) \cap SubTree(x) = {}
  BY DEF AllApart
<1>4. (\A k : InQ(k) => p[k] \in ToSet(q)) /\ (\A k : InR(k) => p[k] \in ToSet(r))
  BY DEF ToSet
<1>5. CASE InQ(i) /\ InQ(j)
  BY <1>5 DEF Apart
<1>6. CASE InR(i) /\ InR(j)
  <2>1. i - Len(q) # j - Len(q)
    BY <1>2
  <2> QED
    BY <1>6, <2>1 DEF Apart
<1>7. CASE (InQ(i) /\ InR(j)) \/ (InR(i) /\ InQ(j))
  <2> HIDE DEF InQ, InR, p
  <2>1. SubTree(p[i]) \cap SubTree(p[j]) = {}
    BY <1>3, <1>4, <1>7
  <2> QED
    BY <2>1 DEF p
<1> HIDE DEF InQ, InR
<1> QED
  BY <1>1, <1>5, <1>6, <1>7

-----------------------------------------------------------------------------
(* Types.  A line ends behind its beginning and within the text, at the    *)
(* first break or with the text.                                           *)
LEMMA LineEnds ==
  ASSUME NEW t \in Texts, NEW i \in Nat, i < Len(t)
  PROVE  /\ LineEnd(t, i) \in i + 1..Len(t)
         /\ t[LineEnd(t, i)] \in IterBreaks \/ LineEnd(t, i) = Len(t)
         /\ \A k \in i + 1..LineEnd(t, i) - 1 : t[k] \notin IterBreaks
<1> DEFINE ends == {k \in i + 1..Len(t) : t[k] \in IterBreaks \/ k = Len(t)}
           e == LineEnd(t, i)
<1>1. ends \subseteq Nat /\ Len(t) \in ends /\ Len(t) \in Nat
  BY DEF Texts
<1>2. PICK m \in ends : \A k \in ends : ~ (<<k, m>> \in OpToRel(<, Nat))
  <2> HIDE DEF ends
  <2> QED
    BY <1>1, NatLessThanWellFounded, WFMin
<1>3. ASSUME NEW k \in ends
      PROVE  m <= k
  <2>1. <<k, m>> \in Nat \X Nat
    BY <1>1
  <2>2. k < m => <<k, m>> \in OpToRel(<, Nat)
    BY <2>1 DEF OpToRel
  <2>3. ~(k < m)
    BY <1>2, <2>2
  <2>4. k \in Nat /\ m \in Nat
    BY <1>1
  <2> QED
    BY <2>3, <2>4
<1>4. e = CHOOSE k \in ends : \A j \in ends : k <= j
  BY DEF LineEnd
<1>5. e \in ends /\ \A j \in ends : e <= j
  <2> HIDE DEF ends, e
  <2> QED
    BY <1>3, <1>4
<1> HIDE DEF e
<1>6. ASSUME NEW k \in i + 1..e - 1
      PROVE  t[k] \notin IterBreaks
  <2>1. k \in i + 1..Len(t) /\ ~(e <= k)
    BY <1>1, <1>5
  <2>2. k \notin ends
    BY <1>5, <2>1
  <2> QED
    BY <2>1, <2>2
<1> QED
  BY <1>5, <1>6 DEF e

(* The directory searched and those after it are the last of the list.     *)
OnTurn ==
  step # "answered" =>
    /\ SearchDirs(request) \in Seq(Dirs)
    /\ Turn \in 1..Len(SearchDirs(request)) /\ top = SearchDirs(request)[Turn]
    /\ \A i \in DOMAIN search_dirs : search_dirs[i] = SearchDirs(request)[Turn + i]

HitOf(n) == [path : Files, line : Nat, match_count : Nat, root : 1..n, halves : Nat]
Hits == Seq(HitOf(Len(SearchDirs(request))))

TypeInv == TypeOK /\ at \in Nat /\ OnTurn

LEMMA SameTurn ==
  ASSUME OnTurn, UNCHANGED <<request, search_dirs, top>>, step' # "answered" => step # "answered"
  PROVE  OnTurn'
BY DEF OnTurn, Turn, SearchDirs

LEMMA InitType == Init => TypeInv
<1> SUFFICES ASSUME Init PROVE TypeInv
  OBVIOUS
<1>1. text \in [Files -> Texts]
  <2>1. InitialTexts \cup {<<>>} \subseteq Texts
    <3>1. <<>> \in Texts
      BY DEF Texts
    <3>2. InitialTexts \subseteq Texts
      BY GrepAssumption
    <3> QED
      BY <3>1, <3>2
  <2>2. text \in [Files -> InitialTexts \cup {<<>>}]
    BY DEF Init
  <2> QED
    BY <2>1, <2>2
<1>2. 0 \in 0..MaxChanges /\ 0 \in 0..0
  BY GrepAssumption
<1>3. <<>> \in Seq(Dirs) /\ <<>> \in Hits
  BY DEF Hits
<1>4. present \subseteq Files
  BY DEF Init
<1> QED
  BY <1>1, <1>2, <1>3, <1>4 DEF Init, TypeInv, TypeOK, OnTurn, Hits, HitOf

LEMMA BeginType ==
  ASSUME TypeInv, NEW r \in Requests, Begin(r)
  PROVE  TypeInv'
<1> DEFINE dirs == SearchDirs(r)
<1>0. SearchDirs(request)' = dirs
  BY DEF Begin, SearchDirs
<1>1. ErrorOf(r) \in BadDirectories \cup {"none", "invalid_argument", "invalid_regex"}
  BY DEF ErrorOf
<1>2. ErrorOf(r) = "none" => dirs \in Seq(Dirs) /\ dirs # <<>>
  <2> SUFFICES ASSUME ErrorOf(r) = "none" PROVE dirs \in Seq(Dirs) /\ dirs # <<>>
    OBVIOUS
  <2>1. r.directory \in Dirs \cup {"all"}
    BY GrepAssumption DEF ErrorOf, Request, BadDirectories
  <2> QED
    BY <2>1, GrepAssumption DEF SearchDirs
<1>3. ErrorOf(r) = "none" =>
        Head(dirs) \in Dirs /\ Tail(dirs) \in Seq(Dirs) /\ <<Head(dirs)>> \in Seq(Dirs)
  <2> HIDE DEF dirs
  <2> QED
    BY <1>2, HeadAndTail
<1>4. /\ request' = r /\ answer' = ErrorOf(r) /\ search_hits' = <<>> /\ truncated' = FALSE
      /\ file' = None /\ names' = {} /\ at' = 0 /\ line_no' = 0 /\ first_match_line' = 0
      /\ match_count' = 0 /\ halves' = 0 /\ before' = text /\ same' = present /\ shut' = locked
      /\ UNCHANGED <<present, text, locked, changes>>
  BY DEF Begin
<1>5. /\ top' \in Dirs \cup {None} /\ pending' \in Seq(Dirs) /\ search_dirs' \in Seq(Dirs)
      /\ step' \in {"walk", "answered"}
  <2>1. CASE ErrorOf(r) = "none"
    <3>1. step' = "walk" /\ top' = Head(dirs) /\ pending' = <<Head(dirs)>>
          /\ search_dirs' = Tail(dirs)
      BY <2>1 DEF Begin
    <3> HIDE DEF dirs
    <3> QED
      BY <1>3, <2>1, <3>1
  <2>2. CASE ErrorOf(r) # "none"
    <3>1. step' = "answered" /\ top' = None /\ pending' = <<>> /\ search_dirs' = <<>>
      BY <2>2 DEF Begin
    <3> QED
      BY <3>1
  <2> QED
    BY <2>1, <2>2
<1> HIDE DEF dirs
<1>6. OnTurn'
  <2> SUFFICES ASSUME ErrorOf(r) = "none" PROVE OnTurn'
    BY DEF Begin, OnTurn
  <2>1. /\ step' = "walk" /\ top' = Head(dirs) /\ search_dirs' = Tail(dirs)
        /\ SearchDirs(request)' = dirs
    BY <1>0 DEF Begin, dirs
  <2>2. /\ Len(dirs) \in Nat \ {0} /\ Len(Tail(dirs)) = Len(dirs) - 1 /\ Head(dirs) = dirs[1]
        /\ \A i \in DOMAIN Tail(dirs) : i \in Nat /\ Tail(dirs)[i] = dirs[i + 1]
    BY <1>2, HeadAndTail
  <2>3. Turn' = 1
    BY <2>1, <2>2 DEF Turn
  <2>4. \A i \in DOMAIN Tail(dirs) : Tail(dirs)[i] = dirs[1 + i]
    BY <2>2
  <2> QED
    BY <1>2, <2>1, <2>2, <2>3, <2>4 DEF OnTurn
<1> QED
  <2>1. <<>> \in Hits' /\ 0 \in 0..0
    BY DEF Hits
  <2>2. text \in [Files -> Texts] /\ present \subseteq Files /\ changes \in 0..MaxChanges
        /\ locked \subseteq Lockable
    BY DEF TypeInv, TypeOK
  <2> QED
    BY <1>1, <1>4, <1>5, <1>6, <2>1, <2>2 DEF TypeInv, TypeOK, Hits, HitOf

LEMMA SearchDirsStay ==
  ASSUME UNCHANGED request
  PROVE  SearchDirs(request)' = SearchDirs(request)
BY DEF SearchDirs

LEMMA NextTurn ==
  ASSUME OnTurn, search_dirs \in Seq(Dirs), NextSearchDir
  PROVE  OnTurn'
<1> DEFINE dirs == SearchDirs(request)
<1>1. CASE Finish
  BY <1>1 DEF Finish, OnTurn
<1>2. CASE ~Finish
  <2>1. /\ search_dirs # <<>> /\ top' = Head(search_dirs) /\ search_dirs' = Tail(search_dirs)
        /\ step = "walk" /\ SearchDirs(request)' = dirs
    BY <1>2 DEF NextSearchDir, SearchDirs
  <2>2. /\ Len(search_dirs) \in Nat \ {0} /\ Len(Tail(search_dirs)) = Len(search_dirs) - 1
        /\ Head(search_dirs) = search_dirs[1] /\ 1 \in DOMAIN search_dirs
        /\ \A i \in DOMAIN Tail(search_dirs) :
             i \in Nat /\ i + 1 \in DOMAIN search_dirs /\ Tail(search_dirs)[i] = search_dirs[i + 1]
    BY <2>1, HeadAndTail
  <2>3. /\ dirs \in Seq(Dirs) /\ Turn \in 1..Len(dirs) /\ Turn = Len(dirs) - Len(search_dirs)
        /\ \A i \in DOMAIN search_dirs : search_dirs[i] = dirs[Turn + i]
    BY <2>1 DEF OnTurn, Turn
  <2>4. Turn' = Len(dirs) - Len(Tail(search_dirs))
    BY <2>1 DEF Turn
  <2> HIDE DEF dirs
  <2>5. Len(dirs) \in Nat
    BY <2>3
  <2>6. Turn' = Turn + 1 /\ Turn' \in 1..Len(dirs) /\ Turn \in Nat
    BY <2>2, <2>3, <2>4, <2>5
  <2>7. top' = dirs[Turn']
    BY <2>1, <2>2, <2>3, <2>6
  <2>8. ASSUME NEW i \in DOMAIN Tail(search_dirs)
        PROVE  Tail(search_dirs)[i] = dirs[Turn' + i]
    <3>1. Turn + (i + 1) = Turn' + i
      BY <2>2, <2>6
    <3> QED
      BY <2>2, <2>3, <3>1
  <2> QED
    BY <2>1, <2>3, <2>6, <2>7, <2>8 DEF OnTurn
<1> QED
  BY <1>1, <1>2

LEMMA WalkType ==
  ASSUME TypeInv, ListDirectory \/ NextSearchDir \/ Enough
  PROVE  TypeInv'
<1>1. CASE ListDirectory
  <2>1. pending' \in Seq(Dirs)
    <3>0. CASE pending' = Tail(pending)
      BY <1>1, <3>0, HeadAndTail DEF ListDirectory, TypeInv, TypeOK
    <3> SUFFICES ASSUME pending' # Tail(pending) PROVE pending' \in Seq(Dirs)
      BY <3>0
    <3>1. PICK order \in SetToSeqs(SubDirs(Head(pending))) : pending' = order \o Tail(pending)
      BY <1>1 DEF ListDirectory
    <3>2. order \in Seq(Dirs) /\ Tail(pending) \in Seq(Dirs)
      BY <1>1, OrderOfSubDirs, HeadAndTail DEF ListDirectory, TypeInv, TypeOK
    <3> QED
      BY <3>1, <3>2, Concat
  <2>2. /\ names' \subseteq Files
        /\ UNCHANGED <<server, before, request, search_dirs, top, reading, search_hits,
                       truncated, step, answer>>
    BY <1>1 DEF ListDirectory, TypeInv, TypeOK
  <2>3. OnTurn'
    BY <2>2, SameTurn DEF TypeInv
  <2> QED
    BY <2>1, <2>2, <2>3, SearchDirsStay DEF TypeInv, TypeOK, server, reading
<1>2. CASE NextSearchDir
  <2>1. /\ top' \in Dirs \cup {None} /\ pending' \in Seq(Dirs) /\ search_dirs' \in Seq(Dirs)
    <3>1. \/ UNCHANGED <<search_dirs, top, pending>>
          \/ /\ search_dirs # <<>> /\ top' = Head(search_dirs)
             /\ pending' = <<Head(search_dirs)>> /\ search_dirs' = Tail(search_dirs)
      BY <1>2 DEF NextSearchDir, walk
    <3>2. search_dirs \in Seq(Dirs)
      BY DEF TypeInv, TypeOK
    <3>3. search_dirs # <<>> => Head(search_dirs) \in Dirs /\ Tail(search_dirs) \in Seq(Dirs)
      BY <3>2, HeadAndTail
    <3>4. CASE UNCHANGED <<search_dirs, top, pending>>
      BY <3>4 DEF TypeInv, TypeOK
    <3>5. CASE ~UNCHANGED <<search_dirs, top, pending>>
      <4>1. Head(search_dirs) \in Dirs => <<Head(search_dirs)>> \in Seq(Dirs)
        OBVIOUS
      <4> QED
        BY <3>1, <3>3, <3>5, <4>1
    <3> QED
      BY <3>4, <3>5
  <2>2. /\ truncated' \in BOOLEAN /\ names' = names
        /\ UNCHANGED <<step, answer>> \/ (step' = "answered" /\ answer' = "ok")
        /\ UNCHANGED <<server, before, request, reading, search_hits>>
    <3>1. truncated' \in BOOLEAN
      <4>1. truncated' = (Len(search_hits) >= MaxMatches)
        BY <1>2 DEF NextSearchDir
      <4> QED
        BY <4>1
    <3>2. names' = names /\ (UNCHANGED <<step, answer>> \/ (step' = "answered" /\ answer' = "ok"))
      BY <1>2 DEF NextSearchDir, Finish, walk
    <3>3. UNCHANGED <<server, before, request, reading, search_hits>>
      BY <1>2 DEF NextSearchDir
    <3> QED
      BY <3>1, <3>2, <3>3
  <2>3. step = "walk"
    BY <1>2 DEF NextSearchDir
  <2>4. OnTurn'
    BY <1>2, NextTurn DEF TypeInv, TypeOK
  <2> QED
    BY <2>1, <2>2, <2>3, <2>4, SearchDirsStay DEF TypeInv, TypeOK, server, reading
<1>3. CASE Enough
  BY <1>3, SearchDirsStay DEF Enough, Finish, TypeInv, TypeOK, OnTurn, server, walk, reading
<1> QED
  BY <1>1, <1>2, <1>3

LEMMA HitType ==
  ASSUME TypeInv, step # "answered", NEW f \in Files, NEW line \in Nat, NEW count \in Nat,
         AddHit(f, line, count)
  PROVE  search_hits' \in Hits
<1> DEFINE n == Len(SearchDirs(request))
           h == [path |-> f, line |-> line, match_count |-> count, root |-> Turn, halves |-> halves]
<1>1. Turn \in 1..n /\ halves \in Nat /\ search_hits \in Seq(HitOf(n))
  BY DEF TypeInv, TypeOK, OnTurn, HitOf
<1>2. search_hits' = Append(search_hits, h)
  BY DEF AddHit
<1> HIDE DEF n
<1>3. h \in HitOf(n)
  BY <1>1 DEF HitOf
<1> HIDE DEF h
<1>4. Append(search_hits, h) \in Seq(HitOf(n))
  BY <1>1, <1>3
<1> QED
  BY <1>2, <1>4 DEF n, Hits

LEMMA FileType ==
  ASSUME TypeInv, BinaryCheck \/ OpenFile \/ ReadLine \/ EndOfFile
  PROVE  TypeInv'
<1> USE DEF server, walk, reading
<1>0. OnTurn' /\ SearchDirs(request)' = SearchDirs(request)
  <2>1. UNCHANGED <<request, search_dirs, top>> /\ step # "answered"
    BY DEF BinaryCheck, OpenFile, ReadLine, EndOfFile
  <2> QED
    BY <2>1, SameTurn, SearchDirsStay DEF TypeInv
<1>1. CASE BinaryCheck
  BY <1>0, <1>1 DEF BinaryCheck, TypeInv, TypeOK
<1>2. CASE OpenFile
  <2>1. file \in Files => Len(text[file]) \in Nat
    BY DEF TypeInv, TypeOK, Texts
  <2> QED
    BY <1>0, <1>2, <2>1 DEF OpenFile, TypeInv, TypeOK
<1>3. CASE ReadLine
  <2>1. text[file] \in Texts /\ at \in Nat /\ at < Len(text[file]) /\ Len(text[file]) \in Nat
    BY <1>3 DEF ReadLine, TypeInv, TypeOK, Texts
  <2>2. at' \in at + 1..Len(text[file])
    BY <1>3, <2>1, LineEnds DEF ReadLine
  <2>3. /\ line_no' = line_no + 1 /\ match_count' \in {match_count, match_count + 1}
        /\ first_match_line' \in {first_match_line, line_no'} /\ halves' \in {halves, halves + 1}
        /\ UNCHANGED <<server, before, request, walk, file, search_hits, truncated, step, answer>>
    BY <1>3 DEF ReadLine
  <2>4. {line_no', first_match_line', match_count', halves'} \subseteq 0..at'
    <3>1. line_no \in 0..at /\ first_match_line \in 0..at /\ match_count \in 0..at /\ halves \in 0..at
      BY DEF TypeInv, TypeOK
    <3>2. \A n \in 0..at : n \in 0..at' /\ n + 1 \in 0..at'
      BY <2>1, <2>2
    <3> QED
      BY <2>3, <3>1, <3>2
  <2> QED
    BY <1>0, <2>1, <2>2, <2>3, <2>4 DEF TypeInv, TypeOK
<1>4. CASE EndOfFile
  <2>1. search_hits' \in Hits
    <3>1. file \in Files /\ first_match_line \in Nat /\ match_count \in Nat
      BY <1>4 DEF EndOfFile, TypeInv, TypeOK
    <3>2. AddHit(file, first_match_line, match_count) \/ UNCHANGED search_hits
      BY <1>4 DEF EndOfFile
    <3>3. step # "answered"
      BY <1>4 DEF EndOfFile
    <3> QED
      BY <3>1, <3>2, <3>3, HitType DEF TypeInv, TypeOK, Hits, HitOf
  <2> QED
    BY <1>0, <1>4, <2>1 DEF EndOfFile, TypeInv, TypeOK, Hits, HitOf
<1> QED
  BY <1>1, <1>2, <1>3, <1>4

LEMMA ConsiderType ==
  ASSUME TypeInv, NEW f \in Files, Consider(f)
  PROVE  TypeInv'
<1>1. /\ names' \subseteq Files /\ step' \in {"walk", "binary"} /\ file' \in Files \cup {None}
      /\ step' = "binary" => file' \in Files
      /\ UNCHANGED <<server, before, request, search_dirs, top, pending, at, line_no,
                     first_match_line, match_count, halves, truncated, answer>>
  BY DEF Consider, TypeInv, TypeOK
<1>2. search_hits' \in Hits
  <2>1. (AddHit(f, 0, 0) \/ UNCHANGED search_hits) /\ step # "answered"
    BY DEF Consider
  <2> QED
    BY <2>1, HitType DEF TypeInv, TypeOK, Hits, HitOf
<1>3. OnTurn' /\ SearchDirs(request)' = SearchDirs(request)
  <2>1. step # "answered"
    BY DEF Consider
  <2> QED
    BY <1>1, <2>1, SameTurn, SearchDirsStay DEF TypeInv
<1> QED
  BY <1>1, <1>2, <1>3 DEF TypeInv, TypeOK, Hits, HitOf, server

LEMMA ServerType ==
  ASSUME TypeInv, NEW f \in Files,
         \/ Unlink(f)
         \/ \E w \in Written : AppendTo(f, w)
         \/ \E t \in InitialTexts : Create(f, t)
  PROVE  TypeInv'
<1> USE DEF walk, reading
<1>1. changes' \in 0..MaxChanges
  BY GrepAssumption DEF Unlink, AppendTo, Create, Changed, TypeInv, TypeOK
<1>2. /\ UNCHANGED <<before, request, walk, reading, search_hits, truncated, step, answer>>
      /\ OnTurn' /\ SearchDirs(request)' = SearchDirs(request)
  <2>1. UNCHANGED <<before, request, walk, reading, search_hits, truncated, step, answer>>
    BY DEF Unlink, AppendTo, Create, Changed
  <2> QED
    BY <2>1, SameTurn, SearchDirsStay DEF TypeInv
<1>3. CASE Unlink(f)
  BY <1>1, <1>2, <1>3 DEF Unlink, TypeInv, TypeOK
<1>4. ASSUME NEW w \in Written, AppendTo(f, w)
      PROVE  TypeInv'
  <2>1. /\ text[f] \in Seq(Chars) /\ w \in Seq(Chars)
    BY GrepAssumption DEF TypeInv, TypeOK, Texts
  <2>2. text[f] \o w \in Seq(Chars) /\ Len(text[f] \o w) >= Len(text[f])
        /\ Len(text[f]) \in Nat /\ Len(text[f] \o w) \in Nat
    BY <2>1
  <2>3. text' = [text EXCEPT ![f] = text[f] \o w] /\ UNCHANGED <<present, locked, same, shut>>
    BY <1>4 DEF AppendTo
  <2>4. text' \in [Files -> Texts]
    BY <2>2, <2>3 DEF TypeInv, TypeOK, Texts
  <2>5. step = "read" => at \in 0..Len(text'[file])
    <3> SUFFICES ASSUME step = "read" PROVE at \in 0..Len(text'[file])
      OBVIOUS
    <3>1. file \in Files /\ at \in 0..Len(text[file])
      BY DEF TypeInv, TypeOK
    <3>2. CASE file = f
      <4>1. text'[file] = text[f] \o w
        BY <2>3, <3>1, <3>2 DEF TypeInv, TypeOK
      <4> QED
        BY <2>2, <3>1, <3>2, <4>1
    <3>3. CASE file # f
      BY <2>3, <3>1, <3>3 DEF TypeInv, TypeOK
    <3> QED
      BY <3>2, <3>3
  <2> QED
    BY <1>1, <1>2, <2>3, <2>4, <2>5 DEF TypeInv, TypeOK
<1>5. ASSUME NEW t \in InitialTexts, Create(f, t)
      PROVE  TypeInv'
  <2>1. text' = [text EXCEPT ![f] = t] /\ present' = present \cup {f}
        /\ UNCHANGED <<locked, same, shut>> /\ ~(step = "read" /\ f = file)
    BY <1>5 DEF Create
  <2>2. t \in Texts
    BY GrepAssumption
  <2>3. text' \in [Files -> Texts]
    BY <2>1, <2>2 DEF TypeInv, TypeOK
  <2>4. step = "read" => text'[file] = text[file]
    BY <2>1 DEF TypeInv, TypeOK
  <2> QED
    BY <1>1, <1>2, <2>1, <2>3, <2>4 DEF TypeInv, TypeOK
<1> QED
  BY <1>3, <1>4, <1>5

LEMMA ModeType ==
  ASSUME TypeInv, NEW x \in Lockable, Chmod(x)
  PROVE  TypeInv'
<1>1. changes' \in 0..MaxChanges
  BY GrepAssumption DEF Chmod, Changed, TypeInv, TypeOK
<1>2. UNCHANGED <<before, request, walk, reading, search_hits, truncated, step, answer>>
  BY DEF Chmod, Changed
<1>3. OnTurn' /\ SearchDirs(request)' = SearchDirs(request)
  BY <1>2, SameTurn, SearchDirsStay DEF TypeInv, walk
<1>4. locked' \subseteq Lockable /\ shut' \subseteq Lockable /\ UNCHANGED <<present, text, same>>
  BY DEF Chmod, TypeInv, TypeOK
<1> QED
  BY <1>1, <1>2, <1>3, <1>4 DEF TypeInv, TypeOK, walk, reading

LEMMA StepType == TypeInv /\ [Next]_vars => TypeInv'
<1> SUFFICES ASSUME TypeInv, [Next]_vars PROVE TypeInv'
  OBVIOUS
<1>1. CASE UNCHANGED vars
  BY <1>1, SameTurn, SearchDirsStay DEF vars, server, walk, reading, TypeInv, TypeOK
<1> QED
  BY <1>1, BeginType, WalkType, ConsiderType, FileType, ServerType, ModeType DEF Next

(* The variables keep their types; what is read of a file ends within it,  *)
(* also while it grows (service.py 277-425).                               *)
THEOREM TypeCorrect == Spec => []TypeOK
<1>1. TypeInv => TypeOK
  BY DEF TypeInv
<1> QED
  BY <1>1, InitType, StepType, PTL DEF Spec

-----------------------------------------------------------------------------
(* The walk of one root.  Here are the files that have a result from it;   *)
(* taken are those, the ones of the directory in hand and the one that is  *)
(* being looked at.                                                        *)
Looking == step \in {"binary", "open", "read"}
HereFiles == {search_hits[i].path : i \in {j \in DOMAIN search_hits : search_hits[j].root = Turn}}
Taken == HereFiles \cup names \cup {f \in {file} : Looking}

ResultsApart ==
  \A i, j \in DOMAIN search_hits :
    search_hits[i].path = search_hits[j].path /\ search_hits[i].root = search_hits[j].root => i = j

WalkInv ==
  /\ ResultsApart
  /\ step # "answered" =>
       /\ \A i \in DOMAIN search_hits : search_hits[i].root <= Turn
       /\ Apart(pending)
       /\ \A d \in ToSet(pending), f \in Taken : Parent[f] \notin SubTree(d)
       /\ names \cap HereFiles = {}
       /\ Looking => file \notin names \cup HereFiles

LEMMA NoneApart == Apart(<<>>) /\ ToSet(<<>>) = {}
BY DEF Apart, ToSet

LEMMA OneApart ==
  ASSUME NEW d
  PROVE  Apart(<<d>>) /\ ToSet(<<d>>) = {d}
<1>1. DOMAIN <<d>> = {1} /\ <<d>>[1] = d
  OBVIOUS
<1> QED
  BY <1>1 DEF Apart, ToSet

LEMMA SameHere ==
  ASSUME UNCHANGED <<search_hits, request, search_dirs>>
  PROVE  Turn' = Turn /\ HereFiles' = HereFiles /\ (ResultsApart' <=> ResultsApart)
<1>1. Turn' = Turn
  BY DEF Turn, SearchDirs
<1> QED
  BY <1>1 DEF HereFiles, ResultsApart

(* A file without a result gets its first.                                 *)
LEMMA HitAdded ==
  ASSUME TypeInv, step # "answered", ResultsApart, UNCHANGED <<request, search_dirs>>,
         \A i \in DOMAIN search_hits : search_hits[i].root <= Turn,
         NEW f \in Files, f \notin HereFiles,
         NEW line \in Nat, NEW count \in Nat, AddHit(f, line, count)
  PROVE  /\ ResultsApart' /\ HereFiles' = HereFiles \cup {f} /\ Turn' = Turn
         /\ \A i \in DOMAIN search_hits' : search_hits'[i].root <= Turn
<1> DEFINE h == [path |-> f, line |-> line, match_count |-> count, root |-> Turn, halves |-> halves]
           n == Len(search_hits)
<1>1. search_hits' = Append(search_hits, h) /\ search_hits \in Hits
  BY DEF AddHit, TypeInv, TypeOK, Hits, HitOf
<1>2. /\ n \in Nat /\ DOMAIN search_hits = 1..n /\ DOMAIN search_hits' = 1..n + 1
      /\ search_hits'[n + 1] = h
      /\ \A i \in 1..n : search_hits'[i] = search_hits[i]
  BY <1>1 DEF Hits
<1>3. h.path = f /\ h.root = Turn /\ Turn' = Turn /\ Turn \in Nat
  BY DEF TypeInv, OnTurn, Turn, SearchDirs
<1> HIDE DEF h, n
<1>4. \A i \in 1..n : search_hits[i].root = Turn => search_hits[i].path # f
  BY <1>2 DEF HereFiles
<1>5. \A i \in 1..n + 1 : i \in 1..n \/ i = n + 1
  BY <1>2
<1>6. (\A i \in 1..n : i \in 1..n + 1) /\ n + 1 \in 1..n + 1
  BY <1>2
<1>7. HereFiles' = HereFiles \cup {f}
  <2>1. HereFiles' \subseteq HereFiles \cup {f}
    BY <1>2, <1>3, <1>5 DEF HereFiles
  <2>2. HereFiles \subseteq HereFiles'
    BY <1>2, <1>3, <1>6 DEF HereFiles
  <2>3. f \in HereFiles'
    BY <1>2, <1>3, <1>6 DEF HereFiles
  <2> QED
    BY <2>1, <2>2, <2>3
<1>8. ResultsApart'
  <2> SUFFICES ASSUME NEW i \in 1..n + 1, NEW j \in 1..n + 1,
                      search_hits'[i].path = search_hits'[j].path,
                      search_hits'[i].root = search_hits'[j].root
               PROVE  i = j
    BY <1>2 DEF ResultsApart
  <2> QED
    BY <1>2, <1>3, <1>4, <1>5 DEF ResultsApart
<1>9. \A i \in 1..n + 1 : search_hits'[i].root <= Turn
  BY <1>2, <1>3, <1>5
<1> QED
  BY <1>2, <1>3, <1>7, <1>8, <1>9

LEMMA BeginWalk ==
  ASSUME NEW r \in Requests, Begin(r)
  PROVE  WalkInv'
<1>1. /\ names' = {} /\ search_hits' = <<>> /\ ~Looking' /\ step' \in {"walk", "answered"}
      /\ DOMAIN search_hits' = {}
  BY DEF Begin, Looking
<1>2. HereFiles' = {} /\ ResultsApart' /\ \A i \in DOMAIN search_hits' : search_hits'[i].root <= Turn'
  BY <1>1 DEF HereFiles, ResultsApart
<1>3. Taken' = {}
  BY <1>1, <1>2 DEF Taken
<1>4. step' # "answered" => Apart(pending)'
  <2> SUFFICES ASSUME step' = "walk" PROVE Apart(pending)'
    BY <1>1
  <2>1. pending' = <<Head(SearchDirs(r))>>
    BY DEF Begin
  <2> QED
    BY <2>1, OneApart
<1> QED
  BY <1>1, <1>2, <1>3, <1>4 DEF WalkInv

(* A directory is replaced by those in it, whose trees are parts of its.   *)
LEMMA ListDirectoryWalk ==
  ASSUME IsTree, TypeOK, WalkInv, ListDirectory
  PROVE  WalkInv'
<1> DEFINE d == Head(pending)
           rest == Tail(pending)
<1>1. /\ UNCHANGED <<search_hits, search_dirs, request, step, file>> /\ step = "walk"
      /\ pending # <<>> /\ pending \in Seq(Dirs) /\ Apart(pending) /\ names = {}
      /\ ~Looking /\ ~Looking'
  BY DEF ListDirectory, reading, TypeOK, WalkInv, Looking
<1>2. /\ d \in Dirs /\ rest \in Seq(Dirs) /\ ToSet(rest) \subseteq ToSet(pending)
      /\ d \in ToSet(pending)
  BY <1>1, HeadAndTail DEF ToSet
<1>3. Apart(rest) /\ AllApart({d}, ToSet(rest))
  BY <1>1, TailApart
<1>4. /\ HereFiles' = HereFiles /\ Turn' = Turn /\ ResultsApart' /\ HereFiles \subseteq Taken
      /\ \A i \in DOMAIN search_hits' : search_hits'[i].root <= Turn'
  BY <1>1, SameHere DEF WalkInv, Taken
<1>5. CASE pending' = rest /\ names' = names
  <2>1. Taken' = Taken
    BY <1>1, <1>4, <1>5 DEF Taken
  <2> QED
    BY <1>1, <1>2, <1>3, <1>4, <1>5, <2>1 DEF WalkInv
<1>6. CASE \E order \in SetToSeqs(SubDirs(d)) :
             pending' = order \o rest /\ names' = {f \in present : Parent[f] = d}
  <2>1. PICK order \in SetToSeqs(SubDirs(d)) :
          pending' = order \o rest /\ names' = {f \in present : Parent[f] = d}
    BY <1>6
  <2>2. /\ order \in Seq(Dirs)
        /\ \A i \in DOMAIN order : order[i] \in Dirs /\ Parent[order[i]] = d
        /\ \A i, j \in DOMAIN order : i # j => order[i] # order[j]
    BY OrderOfSubDirs
  <2> HIDE DEF d, rest
  <2>3. \A i \in DOMAIN order : SubTree(order[i]) \subseteq SubTree(d) /\ d \notin SubTree(order[i])
    BY <1>2, <2>2, ChildInside
  <2>4. \A c \in ToSet(order) : SubTree(c) \subseteq SubTree(d) /\ d \notin SubTree(c)
    BY <2>3 DEF ToSet
  <2>5. Apart(order)
    BY <1>2, <2>2, ChildrenApart DEF Apart
  <2>6. AllApart(ToSet(order), ToSet(rest))
    BY <1>3, <2>4 DEF AllApart
  <2>7. Apart(pending')
    BY <1>2, <1>3, <2>1, <2>2, <2>5, <2>6, ConcatApart
  <2>8. ToSet(pending') \subseteq ToSet(order) \cup ToSet(rest)
    BY <1>2, <2>1, <2>2, Concat
  <2>9. \A f \in HereFiles : Parent[f] # d
    <3>1. d \in SubTree(d)
      BY <1>2, SubTreeRoot
    <3> QED
      BY <1>1, <1>2, <1>4, <3>1 DEF WalkInv
  <2>10. ASSUME NEW e \in ToSet(order) \cup ToSet(rest), NEW f \in HereFiles \cup names'
         PROVE  Parent[f] \notin SubTree(e)
    <3>1. CASE f \in names'
      <4>1. d \in SubTree(d)
        BY <1>2, SubTreeRoot
      <4>2. e \in ToSet(rest) => SubTree(d) \cap SubTree(e) = {}
        BY <1>3 DEF AllApart
      <4> QED
        BY <2>1, <2>4, <3>1, <4>1, <4>2
    <3>2. CASE f \in HereFiles
      <4>1. \A a \in ToSet(pending) : Parent[f] \notin SubTree(a)
        BY <1>1, <1>4, <3>2 DEF WalkInv
      <4> QED
        BY <1>2, <2>4, <4>1
    <3> QED
      BY <3>1, <3>2
  <2>11. Taken' = HereFiles \cup names' /\ names' \cap HereFiles = {}
    BY <1>1, <1>4, <2>1, <2>9 DEF Taken
  <2>12. \A e \in ToSet(pending'), f \in Taken' : Parent[f] \notin SubTree(e)
    BY <2>8, <2>10, <2>11
  <2> QED
    BY <1>1, <1>4, <2>7, <2>11, <2>12 DEF WalkInv
<1> QED
  BY <1>5, <1>6 DEF ListDirectory

(* The next of the directories to search, or the end.                      *)
LEMMA NextSearchDirWalk ==
  ASSUME TypeInv, WalkInv, NextSearchDir
  PROVE  WalkInv'
<1>1. /\ UNCHANGED <<names, file, search_hits, request>> /\ names = {} /\ step = "walk"
      /\ step' \in {"walk", "answered"} /\ search_dirs \in Seq(Dirs)
      /\ ~Looking'
  BY DEF NextSearchDir, Finish, walk, reading, TypeInv, TypeOK, WalkInv, Looking
<1>2. ResultsApart' /\ \A i \in DOMAIN search_hits : search_hits[i].root <= Turn
  BY <1>1 DEF WalkInv, ResultsApart
<1>3. CASE step' = "answered"
  BY <1>2, <1>3 DEF WalkInv
<1>4. CASE step' # "answered"
  <2>1. search_dirs # <<>> /\ pending' = <<Head(search_dirs)>> /\ search_dirs' = Tail(search_dirs)
    BY <1>1, <1>4 DEF NextSearchDir, Finish
  <2>2. Turn \in Nat /\ Turn' = Turn + 1
    <3>1. Len(Tail(search_dirs)) = Len(search_dirs) - 1 /\ Len(search_dirs) \in Nat
      BY <1>1, <2>1, HeadAndTail
    <3>2. Turn \in Nat /\ Len(SearchDirs(request)) \in Nat
      BY <1>1 DEF TypeInv, OnTurn
    <3>3. Turn' = Len(SearchDirs(request)) - Len(Tail(search_dirs))
      BY <1>1, <2>1 DEF Turn, SearchDirs
    <3>4. Turn = Len(SearchDirs(request)) - Len(search_dirs)
      BY DEF Turn
    <3> DEFINE k == Len(SearchDirs(request))
               m == Len(search_dirs)
               n == Len(Tail(search_dirs))
    <3>5. n = m - 1 /\ m \in Nat /\ k \in Nat /\ Turn' = k - n /\ Turn = k - m
      BY <3>1, <3>2, <3>3, <3>4
    <3> HIDE DEF k, m, n
    <3>6. Turn' = Turn + 1
      BY <3>5
    <3> QED
      BY <3>2, <3>6
  <2>3. \A i \in DOMAIN search_hits : search_hits[i].root \in Nat
    <3>1. search_hits \in Seq(HitOf(Len(SearchDirs(request))))
      BY DEF TypeInv, TypeOK, HitOf
    <3>2. \A n : \A h \in HitOf(n) : h.root \in Nat
      BY DEF HitOf
    <3> QED
      BY <3>1, <3>2
  <2>4. \A i \in DOMAIN search_hits' :
          search_hits'[i].root <= Turn' /\ search_hits'[i].root # Turn'
    BY <1>1, <1>2, <2>2, <2>3
  <2>5. HereFiles' = {}
    BY <2>4 DEF HereFiles
  <2>6. Taken' = {}
    BY <1>1, <2>5 DEF Taken
  <2> QED
    BY <1>1, <1>2, <2>1, <2>4, <2>5, <2>6, OneApart DEF WalkInv
<1> QED
  BY <1>3, <1>4

(* A step that takes no more than was taken, and changes no result.        *)
LEMMA QuietWalk ==
  ASSUME WalkInv, UNCHANGED <<search_dirs, request, pending, search_hits>>,
         step' # "answered" => step # "answered",
         names' \subseteq names, Taken' \subseteq Taken,
         Looking' => file' \notin names' \cup HereFiles
  PROVE  WalkInv'
<1>1. Turn' = Turn /\ HereFiles' = HereFiles /\ ResultsApart'
  BY SameHere DEF WalkInv
<1> QED
  BY <1>1 DEF WalkInv

(* A step that gives a taken file its result.                              *)
LEMMA HitWalk ==
  ASSUME TypeInv, WalkInv, step # "answered", UNCHANGED <<search_dirs, request, pending>>, ~Looking',
         NEW f \in Files, f \in Taken \ HereFiles, names' \subseteq names \ {f},
         NEW line \in Nat, NEW count \in Nat, AddHit(f, line, count)
  PROVE  WalkInv'
<1>1. /\ ResultsApart' /\ HereFiles' = HereFiles \cup {f} /\ Turn' = Turn
      /\ \A i \in DOMAIN search_hits' : search_hits'[i].root <= Turn
  BY HitAdded DEF WalkInv
<1>2. Taken' \subseteq Taken /\ names' \cap HereFiles' = {}
  BY <1>1 DEF Taken, WalkInv
<1> QED
  BY <1>1, <1>2 DEF WalkInv

LEMMA ConsiderWalk ==
  ASSUME TypeInv, WalkInv, NEW f \in Files, Consider(f)
  PROVE  WalkInv'
<1>1. /\ f \in names /\ names' = names \ {f} /\ UNCHANGED <<search_dirs, request, pending>>
      /\ step = "walk" /\ ~Looking
  BY DEF Consider, Looking
<1>2. f \in Taken \ HereFiles
  BY <1>1 DEF Taken, WalkInv
<1>3. CASE UNCHANGED <<search_hits, file, step>>
  <2>1. ~Looking' /\ HereFiles' = HereFiles
    BY <1>1, <1>3, SameHere DEF Looking
  <2>2. Taken' \subseteq Taken
    BY <1>1, <2>1 DEF Taken
  <2> QED
    BY <1>1, <1>3, <2>1, <2>2, QuietWalk
<1>4. CASE AddHit(f, 0, 0) /\ UNCHANGED step
  <2>1. ~Looking'
    BY <1>1, <1>4 DEF Looking
  <2> QED
    BY <1>1, <1>2, <1>4, <2>1, HitWalk
<1>5. CASE file' = f /\ step' = "binary" /\ UNCHANGED search_hits
  <2>1. HereFiles' = HereFiles
    BY <1>1, <1>5, SameHere
  <2>2. Taken' \subseteq Taken
    BY <1>1, <1>2, <1>5, <2>1 DEF Taken
  <2> QED
    BY <1>1, <1>2, <1>5, <2>2, QuietWalk
<1> QED
  BY <1>3, <1>4, <1>5 DEF Consider

LEMMA FileWalk ==
  ASSUME TypeInv, WalkInv, BinaryCheck \/ OpenFile \/ ReadLine \/ EndOfFile
  PROVE  WalkInv'
<1>1. /\ UNCHANGED <<search_dirs, request, pending, names, file>> /\ Looking
      /\ step # "answered"
  BY DEF BinaryCheck, OpenFile, ReadLine, EndOfFile, walk, reading, Looking
<1>2. file \in Taken \ HereFiles /\ file \notin names /\ file \in Files
  BY <1>1 DEF Taken, WalkInv, Looking, TypeInv, TypeOK
<1>3. CASE UNCHANGED search_hits
  <2>1. HereFiles' = HereFiles
    BY <1>1, <1>3, SameHere
  <2>2. Taken' \subseteq Taken
    BY <1>1, <2>1 DEF Taken
  <2> QED
    BY <1>1, <1>2, <1>3, <2>2, QuietWalk
<1>4. CASE EndOfFile /\ ~UNCHANGED search_hits
  <2>1. AddHit(file, first_match_line, match_count) /\ ~Looking'
    BY <1>4 DEF EndOfFile, Looking
  <2>2. first_match_line \in Nat /\ match_count \in Nat
    BY <1>4 DEF EndOfFile, TypeInv, TypeOK
  <2> QED
    BY <1>1, <1>2, <2>1, <2>2, HitWalk
<1> QED
  BY <1>3, <1>4 DEF BinaryCheck, OpenFile, ReadLine

LEMMA ElsewhereWalk ==
  ASSUME WalkInv,
         \/ Enough
         \/ UNCHANGED vars
         \/ \E f \in Files : Unlink(f) \/ \E w \in Written : AppendTo(f, w)
         \/ \E f \in Files, t \in InitialTexts : Create(f, t)
         \/ \E x \in Lockable : Chmod(x)
  PROVE  WalkInv'
<1>1. /\ UNCHANGED <<search_dirs, request, pending, names, file, search_hits>>
      /\ (Looking' => Looking) /\ (step' # "answered" => step # "answered")
  BY DEF Enough, Finish, Unlink, AppendTo, Create, Chmod, Changed, vars, walk, reading, Looking
<1>2. HereFiles' = HereFiles
  BY <1>1, SameHere
<1>3. Taken' \subseteq Taken
  BY <1>1, <1>2 DEF Taken
<1>4. Looking' => file' \notin names' \cup HereFiles
  BY <1>1 DEF WalkInv, Looking
<1> QED
  BY <1>1, <1>3, <1>4, QuietWalk

-----------------------------------------------------------------------------
(* What the walk comes to.                                                 *)

LEMMA WalkedRoot ==
  ASSUME NEW t, NEW d \in Dirs
  PROVE  d \in Walked(t, d) /\ Walked(t, d) \subseteq Dirs /\ Follows(t, Walked(t, d))
<1>1. d \in Walked(t, d) /\ Walked(t, d) \subseteq Dirs
  BY DEF Walked
<1>2. ASSUME NEW c \in Dirs, Parent[c] \in Walked(t, d), c \notin Ignored,
             ~(Parent[c] = t /\ c \in Hidden)
      PROVE  c \in Walked(t, d)
  <2> SUFFICES ASSUME NEW S \in SUBSET Dirs, d \in S, Follows(t, S)
               PROVE  c \in S
    BY DEF Walked
  <2>1. Parent[c] \in S
    BY <1>2 DEF Walked
  <2> QED
    BY <1>2, <2>1 DEF Follows
<1> QED
  BY <1>1, <1>2 DEF Follows

(* The fewer dotfiles it leaves out the more it comes to.                  *)
LEMMA WalkedInside ==
  ASSUME NEW t, NEW d \in Dirs
  PROVE  Walked(t, d) \subseteq Walked(None, d)
<1> DEFINE S == Walked(None, d)
<1>1. S \in SUBSET Dirs /\ d \in S /\ Follows(None, S)
  BY WalkedRoot
<1> HIDE DEF S
<1>2. Follows(t, S)
  <2> SUFFICES ASSUME NEW c \in Dirs, Parent[c] \in S, c \notin Ignored
               PROVE  c \in S
    BY DEF Follows
  <2>1. Parent[c] # None
    BY <1>1, GrepAssumption
  <2> QED
    BY <1>1, <2>1 DEF Follows
<1> QED
  BY <1>1, <1>2 DEF Walked, S

(* It comes to d, and to what it comes to from the directories it keeps of *)
(* those in d.                                                             *)
LEMMA WalkedSplits ==
  ASSUME NEW d \in Dirs, NEW x \in Walked(top, d), x # d
  PROVE  \E c \in SubDirs(d) : x \in Walked(top, c)
<1> DEFINE S == {y \in Dirs : y = d \/ \E c \in SubDirs(d) : y \in Walked(top, c)}
<1>1. Follows(top, S)
  <2> SUFFICES ASSUME NEW c \in Dirs, Parent[c] \in S, c \notin Ignored,
                      ~(Parent[c] = top /\ c \in Hidden)
               PROVE  c \in S
    BY DEF Follows
  <2>1. CASE Parent[c] = d
    <3>1. c \in SubDirs(d) /\ c \in Walked(top, c)
      BY <2>1, WalkedRoot DEF SubDirs
    <3> QED
      BY <3>1
  <2>2. CASE Parent[c] # d
    <3>1. PICK b \in SubDirs(d) : Parent[c] \in Walked(top, b)
      BY <2>2
    <3>2. b \in Dirs
      BY DEF SubDirs
    <3>3. c \in Walked(top, b)
      BY <3>1, <3>2, WalkedRoot DEF Follows
    <3> QED
      BY <3>3
  <2> QED
    BY <2>1, <2>2
<1>2. S \in SUBSET Dirs /\ d \in S
  OBVIOUS
<1>3. x \in S
  <2> HIDE DEF S
  <2> QED
    BY <1>1, <1>2 DEF Walked
<1> QED
  BY <1>3

(* All the elements of a set stand in each of its orders.                  *)
LEMMA OrderHasAll ==
  ASSUME NEW S, IsFiniteSet(S), NEW order \in SetToSeqs(S)
  PROVE  ToSet(order) = S
<1> DEFINE n == Cardinality(S)
<1>1. n \in Nat
  BY FS_CardinalityType
<1>2. order \in [1..n -> S] /\ \A i, j \in 1..n : i # j => order[i] # order[j]
  BY DEF SetToSeqs
<1>3. order \in Injection(1..n, S)
  BY <1>2 DEF Injection, IsInjective
<1>4. Cardinality(1..n) = n /\ IsFiniteSet(1..n)
  BY <1>1, FS_Interval
<1>5. order \in Surjection(1..n, S)
  BY <1>3, <1>4, FS_Injection
<1>6. \A x \in S : \E i \in 1..n : order[i] = x
  BY <1>5 DEF Surjection
<1> HIDE DEF n
<1> QED
  BY <1>2, <1>6 DEF ToSet

LEMMA HeadOrTail ==
  ASSUME NEW S, NEW q \in Seq(S), q # <<>>
  PROVE  ToSet(q) = {Head(q)} \cup ToSet(Tail(q))
<1>1. /\ Len(q) \in Nat /\ Len(q) >= 1 /\ Head(q) = q[1] /\ DOMAIN q = 1..Len(q)
      /\ DOMAIN Tail(q) = 1..Len(q) - 1
  OBVIOUS
<1>2. \A i \in 1..Len(q) - 1 : Tail(q)[i] = q[i + 1]
  OBVIOUS
<1>3. \A i \in DOMAIN q : i # 1 => i - 1 \in DOMAIN Tail(q) /\ q[i] = Tail(q)[i - 1]
  <2> SUFFICES ASSUME NEW i \in 1..Len(q), i # 1
               PROVE  i - 1 \in 1..Len(q) - 1 /\ q[i] = Tail(q)[i - 1]
    BY <1>1
  <2>1. i - 1 \in 1..Len(q) - 1 /\ (i - 1) + 1 = i
    BY <1>1
  <2> QED
    BY <1>2, <2>1
<1>4. {Head(q)} \cup ToSet(Tail(q)) \subseteq ToSet(q)
  BY <1>1, HeadAndTail DEF ToSet
<1>5. ASSUME NEW i \in DOMAIN q
      PROVE  q[i] \in {Head(q)} \cup ToSet(Tail(q))
  BY <1>1, <1>3 DEF ToSet
<1>6. ToSet(q) \subseteq {Head(q)} \cup ToSet(Tail(q))
  BY <1>5 DEF ToSet
<1> QED
  BY <1>4, <1>6

LEMMA ConcatHasBoth ==
  ASSUME NEW S, NEW q \in Seq(S), NEW r \in Seq(S)
  PROVE  ToSet(q) \cup ToSet(r) \subseteq ToSet(q \o r)
<1>1. /\ Len(q) \in Nat /\ Len(r) \in Nat
      /\ DOMAIN q = 1..Len(q) /\ DOMAIN r = 1..Len(r) /\ DOMAIN (q \o r) = 1..(Len(q) + Len(r))
  OBVIOUS
<1>2. /\ \A i \in 1..Len(q) : (q \o r)[i] = q[i]
      /\ \A i \in 1..Len(r) : (q \o r)[i + Len(q)] = r[i]
  OBVIOUS
<1>3. \A i \in 1..Len(r) : i + Len(q) \in 1..(Len(q) + Len(r))
  BY <1>1
<1>4. \A i \in 1..Len(q) : i \in 1..(Len(q) + Len(r))
  BY <1>1
<1> QED
  BY <1>1, <1>2, <1>3, <1>4 DEF ToSet

-----------------------------------------------------------------------------
(* Nothing is left out.  A file that matched when the search began, and has*)
(* not been removed since, is to come until it has its result: it is among *)
(* the names in hand, or being looked at with a match found or ahead, or   *)
(* the walk comes to it from a directory that it has still to list.        *)

Grown(s, t) == Len(s) <= Len(t) /\ \A k \in DOMAIN s : t[k] = s[k]

GrownInv == \A f \in same : Grown(before[f], text[f])

Kept(f) == ~(Parent[f] = top /\ f \in Hidden)

MatchAhead(f) ==
  first_match_line # 0 \/ \E k \in DOMAIN before[f] : k > at /\ before[f][k] = "q"

ToCome(f) ==
  \/ f \in HitFiles
  \/ f \in names /\ Kept(f)
  \/ Looking /\ file = f /\ (step = "read" => MatchAhead(f))
  \/ Kept(f) /\ \E e \in ToSet(pending) : Parent[f] \in Walked(top, e)
  \/ \E d \in ToSet(search_dirs) : f \in Reached[d]

CompleteInv ==
  /\ GrownInv
  /\ Len(search_hits) <= MaxMatches
  /\ Looking => Len(search_hits) < MaxMatches /\ request.query # ""
  /\ step # "answered" => answer = "none" /\ locked \subseteq shut
  /\ answer = "ok" => IF truncated THEN Len(search_hits) = MaxMatches ELSE Due \subseteq HitFiles
  /\ step # "answered" => \A f \in Due : ToCome(f)

LEMMA HitFilesGrow ==
  ASSUME TypeOK, NEW f, NEW line, NEW count, AddHit(f, line, count)
  PROVE  HitFiles' = HitFiles \cup {f} /\ Len(search_hits') = Len(search_hits) + 1
<1> DEFINE h == [path |-> f, line |-> line, match_count |-> count, root |-> Turn, halves |-> halves]
           n == Len(search_hits)
<1>1. search_hits' = Append(search_hits, h) /\ search_hits \in Hits
  BY DEF AddHit, TypeOK, Hits, HitOf
<1>2. /\ n \in Nat /\ DOMAIN search_hits = 1..n /\ DOMAIN search_hits' = 1..n + 1
      /\ search_hits'[n + 1] = h /\ Len(search_hits') = n + 1
      /\ \A i \in 1..n : search_hits'[i] = search_hits[i]
  BY <1>1 DEF Hits
<1>3. h.path = f
  OBVIOUS
<1> HIDE DEF h, n
<1>4. \A i \in 1..n + 1 : i \in 1..n \/ i = n + 1
  BY <1>2
<1>5. (\A i \in 1..n : i \in 1..n + 1) /\ n + 1 \in 1..n + 1
  BY <1>2
<1>6. HitFiles' \subseteq HitFiles \cup {f}
  BY <1>2, <1>3, <1>4 DEF HitFiles
<1>7. HitFiles \subseteq HitFiles'
  BY <1>2, <1>5 DEF HitFiles
<1>8. f \in HitFiles'
  BY <1>2, <1>3, <1>5 DEF HitFiles
<1> QED
  BY <1>2, <1>6, <1>7, <1>8 DEF n

LEMMA TextDomain ==
  ASSUME NEW t \in Texts
  PROVE  /\ Len(t) \in Nat /\ DOMAIN t = 1..Len(t)
         /\ \A k \in DOMAIN t : k \in Nat /\ k > 0 /\ k <= Len(t) /\ t[k] \in Chars
<1>1. Len(t) \in Nat /\ DOMAIN t = 1..Len(t) /\ \A k \in DOMAIN t : t[k] \in Chars
  BY DEF Texts
<1> QED
  BY <1>1

LEMMA GrownTwice ==
  ASSUME NEW s \in Texts, NEW t \in Texts, NEW u \in Texts, Grown(s, t), Grown(t, u)
  PROVE  Grown(s, u)
<1>1. /\ Len(s) \in Nat /\ Len(t) \in Nat /\ Len(u) \in Nat /\ Len(s) <= Len(t) /\ Len(t) <= Len(u)
      /\ DOMAIN s = 1..Len(s) /\ DOMAIN t = 1..Len(t)
  BY TextDomain DEF Grown
<1>2. \A k \in DOMAIN s : k \in DOMAIN t
  BY <1>1
<1>3. Len(s) <= Len(u)
  BY <1>1
<1> QED
  BY <1>2, <1>3 DEF Grown

(* A file that is still there, or is being read, can only grow.            *)
LEMMA ServerGrows ==
  ASSUME TypeOK, NEW g \in Files,
         \/ Unlink(g)
         \/ \E w \in Written : AppendTo(g, w)
         \/ \E t \in InitialTexts : Create(g, t)
  PROVE  /\ \A f \in Files : text'[f] \in Texts
         /\ \A f \in Files : f \in same' \/ (step = "read" /\ f = file) => Grown(text[f], text'[f])
<1>1. text \in [Files -> Texts] /\ same \subseteq present
  BY DEF TypeOK
<1>2. \A t \in Texts : Grown(t, t)
  BY DEF Grown, Texts
<1> SUFFICES ASSUME NEW f \in Files
             PROVE  /\ text'[f] \in Texts
                    /\ f \in same' \/ (step = "read" /\ f = file) => Grown(text[f], text'[f])
  OBVIOUS
<1>3. CASE text'[f] = text[f]
  BY <1>1, <1>2, <1>3
<1>4. ASSUME NEW w \in Written, AppendTo(f, w)
      PROVE  text'[f] \in Texts /\ Grown(text[f], text'[f])
  <2>1. text'[f] = text[f] \o w /\ text[f] \in Seq(Chars) /\ w \in Seq(Chars)
    BY <1>1, <1>4, GrepAssumption DEF AppendTo, Texts
  <2> DEFINE t == text[f]
             u == text[f] \o w
  <2>2. /\ Len(t) \in Nat /\ Len(w) \in Nat /\ u \in Seq(Chars) /\ Len(u) = Len(t) + Len(w)
        /\ DOMAIN t = 1..Len(t)
        /\ \A k \in 1..Len(t) : u[k] = t[k]
    BY <2>1
  <2> HIDE DEF t, u
  <2>3. Len(t) <= Len(u)
    BY <2>2
  <2>4. u \in Texts /\ Grown(t, u)
    BY <2>2, <2>3 DEF Texts, Grown
  <2> QED
    BY <2>1, <2>4 DEF t, u
<1>5. ASSUME NEW t \in InitialTexts, Create(f, t)
      PROVE  /\ text'[f] \in Texts
             /\ f \notin same' /\ ~(step = "read" /\ f = file)
  <2>1. text'[f] = t /\ f \notin present /\ same' = same /\ ~(step = "read" /\ f = file)
    BY <1>1, <1>5 DEF Create
  <2> QED
    BY <1>1, <2>1, GrepAssumption
<1>6. \/ text'[f] = text[f]
      \/ \E w \in Written : AppendTo(f, w)
      \/ \E t \in InitialTexts : Create(f, t)
  BY <1>1 DEF Unlink, AppendTo, Create
<1> QED
  BY <1>3, <1>4, <1>5, <1>6

(* A line that holds a match is a hit.                                     *)
LEMMA LineHits ==
  ASSUME NEW t \in Texts, NEW i \in Nat, NEW e \in i + 1..Len(t)
  PROVE  Hit(SubSeq(t, i + 1, e)) <=> \E k \in i + 1..e : t[k] = "q"
<1> DEFINE line == SubSeq(t, i + 1, e)
<1>1. /\ Len(t) \in Nat /\ DOMAIN line = 1..(e - i) /\ e \in Nat
      /\ \A k \in 1..(e - i) : line[k] = t[i + k]
  BY DEF Texts
<1> HIDE DEF line
<1>2. ASSUME NEW k \in i + 1..e
      PROVE  k - i \in 1..(e - i) /\ line[k - i] = t[k]
  <2>1. k - i \in 1..(e - i) /\ i + (k - i) = k
    BY <1>1
  <2> QED
    BY <1>1, <2>1
<1>3. ASSUME NEW k \in 1..(e - i)
      PROVE  i + k \in i + 1..e /\ line[k] = t[i + k]
  BY <1>1
<1>4. Hit(line) <=> \E k \in 1..(e - i) : line[k] = "q"
  BY <1>1 DEF Hit
<1> QED
  BY <1>2, <1>3, <1>4 DEF line

(* The files, the request and what the files held stay as they are.        *)
LEMMA SameDue ==
  ASSUME UNCHANGED <<same, shut, text, before, request>>
  PROVE  Due' = Due
BY DEF Due, Open, Wanted, Searched, SearchDirs, Matches

LEMMA HitsCounted ==
  ASSUME TypeOK
  PROVE  Len(search_hits) \in Nat /\ MaxMatches \in Nat
<1>1. search_hits \in Hits
  BY DEF TypeOK, Hits, HitOf
<1> QED
  BY <1>1, GrepAssumption DEF Hits

LEMMA BeginComplete ==
  ASSUME TypeOK, NEW r \in Requests, Begin(r)
  PROVE  CompleteInv'
<1> DEFINE dirs == SearchDirs(r)
<1>1. /\ request' = r /\ answer' = ErrorOf(r) /\ search_hits' = <<>>
      /\ names' = {} /\ before' = text /\ same' = present /\ text' = text
      /\ locked' = locked /\ shut' = locked
      /\ step' \in {"walk", "answered"} /\ (step' = "walk" => ErrorOf(r) = "none")
  BY DEF Begin
<1>2. GrownInv'
  <2>1. text \in [Files -> Texts] /\ present \subseteq Files
    BY DEF TypeOK
  <2>2. \A f \in Files : Grown(text[f], text[f])
    BY <2>1 DEF Grown, Texts
  <2> QED
    BY <1>1, <2>1, <2>2 DEF GrownInv
<1>3. answer' # "ok" /\ ~Looking'
  BY <1>1 DEF ErrorOf, BadDirectories, Looking
<1>4. Len(search_hits') <= MaxMatches
  BY <1>1, GrepAssumption
<1>5. step' # "answered" => \A f \in Due' : ToCome(f)'
  <2> SUFFICES ASSUME step' = "walk", NEW f \in Due'
               PROVE  ToCome(f)'
    BY <1>1
  <2>1. top' = Head(dirs) /\ pending' = <<Head(dirs)>> /\ search_dirs' = Tail(dirs)
    BY <1>1 DEF Begin
  <2>2. dirs \in Seq(Dirs) /\ dirs # <<>>
    <3>1. r.directory \in Dirs \cup {"all"}
      BY <1>1, GrepAssumption DEF ErrorOf, Request, BadDirectories
    <3> QED
      BY <3>1, GrepAssumption DEF SearchDirs
  <2>3. SearchDirs(request)' = dirs
    BY <1>1 DEF SearchDirs
  <2> HIDE DEF dirs
  <2>4. PICK d \in ToSet(dirs) : f \in Reached[d]
    BY <2>3 DEF Due, Wanted, Searched
  <2>5. d = Head(dirs) \/ d \in ToSet(Tail(dirs))
    BY <2>2, HeadOrTail
  <2>6. CASE d = Head(dirs)
    <3>1. d \in Dirs /\ ToSet(pending') = {d}
      BY <2>1, <2>2, <2>6, HeadAndTail, OneApart
    <3> QED
      BY <2>1, <2>4, <2>6, <3>1 DEF ToCome, Kept, Reached
  <2>7. CASE d \in ToSet(Tail(dirs))
    BY <2>1, <2>4, <2>7 DEF ToCome
  <2> QED
    BY <2>5, <2>6, <2>7
<1> QED
  BY <1>1, <1>2, <1>3, <1>4, <1>5 DEF CompleteInv

(* A directory that may not be read hides nothing that is due.             *)
LEMMA LockedComplete ==
  ASSUME TypeOK, CompleteInv, ListDirectory, Head(pending) \in locked
  PROVE  CompleteInv'
<1> DEFINE d == Head(pending)
           rest == Tail(pending)
<1>1. /\ pending' = rest /\ names' = {} /\ names = {}
      /\ UNCHANGED <<server, before, request, top, reading, search_hits, search_dirs, step,
                     truncated, answer>>
      /\ step = "walk" /\ pending # <<>> /\ pending \in Seq(Dirs)
  BY DEF ListDirectory, TypeOK
<1>2. d \in Dirs /\ ToSet(pending) = {d} \cup ToSet(rest) /\ d \in shut
  BY <1>1, HeadAndTail, HeadOrTail DEF CompleteInv
<1> HIDE DEF d, rest
<1>3. Due' = Due /\ HitFiles' = HitFiles /\ GrownInv' /\ ~Looking
  BY <1>1, SameDue DEF server, CompleteInv, GrownInv, HitFiles, Looking
<1>4. ASSUME NEW f \in Due
      PROVE  ToCome(f)'
  <2>1. ToCome(f) /\ f \in Files /\ f \notin Through[d]
    BY <1>1, <1>2 DEF CompleteInv, Due, Open, TypeOK
  <2>2. Parent[f] \notin Walked(top, d)
    BY <1>2, <2>1, WalkedInside DEF Through
  <2> QED
    BY <1>1, <1>2, <1>3, <2>1, <2>2 DEF ToCome, Kept
<1> QED
  BY <1>1, <1>3, <1>4 DEF CompleteInv, Looking, server

LEMMA ListDirectoryComplete ==
  ASSUME TypeOK, CompleteInv, ListDirectory, Head(pending) \notin locked
  PROVE  CompleteInv'
<1> DEFINE d == Head(pending)
           rest == Tail(pending)
<1>1. PICK order \in SetToSeqs(SubDirs(d)) : pending' = order \o rest
  BY DEF ListDirectory
<1>2. /\ names' = {f \in present : Parent[f] = d} /\ names = {}
      /\ UNCHANGED <<server, before, request, top, reading, search_hits, search_dirs, step,
                     truncated, answer>>
      /\ step = "walk" /\ pending # <<>> /\ pending \in Seq(Dirs)
  BY DEF ListDirectory, TypeOK
<1>3. d \in Dirs /\ rest \in Seq(Dirs) /\ ToSet(pending) = {d} \cup ToSet(rest)
  BY <1>2, HeadAndTail, HeadOrTail
<1>4. ToSet(order) = SubDirs(d) /\ order \in Seq(Dirs)
  <2>1. IsFiniteSet(SubDirs(d))
    <3>1. SubDirs(d) \in SUBSET Dirs /\ IsFiniteSet(Dirs)
      BY GrepAssumption DEF SubDirs
    <3> QED
      BY <3>1, FS_Subset
  <2> QED
    BY <2>1, OrderHasAll, OrderOfSubDirs
<1> HIDE DEF d, rest
<1>5. SubDirs(d) \cup ToSet(rest) \subseteq ToSet(pending')
  BY <1>1, <1>3, <1>4, ConcatHasBoth
<1>6. Due' = Due /\ HitFiles' = HitFiles /\ GrownInv' /\ ~Looking
  BY <1>2, SameDue DEF server, CompleteInv, GrownInv, HitFiles, Looking
<1>7. ASSUME NEW f \in Due
      PROVE  ToCome(f)'
  <2>1. ToCome(f) /\ f \in same /\ f \in present
    BY <1>2 DEF CompleteInv, Due, TypeOK
  <2>2. CASE f \in HitFiles \/ \E e \in ToSet(search_dirs) : f \in Reached[e]
    BY <1>2, <1>6, <2>2 DEF ToCome
  <2>3. ASSUME NEW e \in ToSet(pending), Kept(f), Parent[f] \in Walked(top, e)
        PROVE  ToCome(f)'
    <3>1. Kept(f)'
      BY <1>2, <2>3 DEF Kept
    <3>2. CASE e \in ToSet(rest)
      BY <1>2, <1>5, <2>3, <3>1, <3>2 DEF ToCome
    <3>3. CASE e = d /\ Parent[f] = d
      BY <1>2, <2>1, <3>1, <3>3 DEF ToCome
    <3>4. CASE e = d /\ Parent[f] # d
      <4>1. \E c \in SubDirs(d) : Parent[f] \in Walked(top, c)
        BY <1>3, <2>3, <3>4, WalkedSplits
      <4> QED
        BY <1>2, <1>5, <3>1, <4>1 DEF ToCome
    <3> QED
      BY <1>3, <3>2, <3>3, <3>4
  <2> QED
    BY <1>2, <1>6, <2>1, <2>2, <2>3 DEF ToCome
<1> QED
  BY <1>2, <1>6, <1>7 DEF CompleteInv, Looking, server

LEMMA NextSearchDirComplete ==
  ASSUME TypeOK, CompleteInv, NextSearchDir
  PROVE  CompleteInv'
<1>1. /\ step = "walk" /\ names = {} /\ names' = {} /\ pending = <<>> /\ answer = "none"
      /\ UNCHANGED <<server, before, request, reading, search_hits>>
      /\ search_dirs \in Seq(Dirs) /\ ToSet(pending) = {}
  BY NoneApart DEF NextSearchDir, CompleteInv, TypeOK, walk
<1>2. Due' = Due /\ HitFiles' = HitFiles /\ GrownInv' /\ ~Looking
  BY <1>1, SameDue DEF server, CompleteInv, GrownInv, HitFiles, Looking
<1>3. Len(search_hits) \in Nat /\ MaxMatches \in Nat /\ Len(search_hits) <= MaxMatches
  BY HitsCounted DEF CompleteInv
<1>4. \A f \in Due : f \in HitFiles \/ \E e \in ToSet(search_dirs) : f \in Reached[e]
  BY <1>1, <1>2 DEF CompleteInv, ToCome
<1>5. CASE Finish
  <2>1. truncated' => Len(search_hits) = MaxMatches
    <3>1. truncated' = (Len(search_hits) >= MaxMatches)
      BY DEF NextSearchDir
    <3>2. truncated' => Len(search_hits) >= MaxMatches
      BY <3>1
    <3> QED
      BY <1>3, <3>2
  <2>2. ~truncated' => search_dirs = <<>>
    BY <1>1, <1>5 DEF NextSearchDir, Finish
  <2>3. ~truncated' => Due \subseteq HitFiles
    BY <1>4, <2>2, NoneApart
  <2> QED
    BY <1>1, <1>2, <1>3, <1>5, <2>1, <2>3 DEF CompleteInv, Finish, Looking
<1>6. CASE ~Finish
  <2>1. /\ search_dirs # <<>> /\ top' = Head(search_dirs) /\ pending' = <<Head(search_dirs)>>
        /\ search_dirs' = Tail(search_dirs) /\ UNCHANGED <<step, answer>>
    BY <1>6 DEF NextSearchDir
  <2>2. /\ ToSet(pending') = {Head(search_dirs)} /\ Head(search_dirs) \in Dirs
        /\ ToSet(search_dirs) = {Head(search_dirs)} \cup ToSet(search_dirs')
    BY <1>1, <2>1, HeadAndTail, HeadOrTail, OneApart
  <2>3. ASSUME NEW f \in Due
        PROVE  ToCome(f)'
    <3>1. CASE f \in HitFiles
      BY <1>2, <3>1 DEF ToCome
    <3>2. CASE f \in Reached[Head(search_dirs)]
      BY <2>1, <2>2, <3>2 DEF ToCome, Kept, Reached
    <3>3. CASE \E e \in ToSet(search_dirs') : f \in Reached[e]
      BY <3>3 DEF ToCome
    <3> QED
      BY <1>4, <2>2, <3>1, <3>2, <3>3
  <2> QED
    BY <1>1, <1>2, <1>3, <2>1, <2>3 DEF CompleteInv, Looking, server
<1> QED
  BY <1>5, <1>6

LEMMA EnoughComplete ==
  ASSUME TypeOK, CompleteInv, Enough
  PROVE  CompleteInv'
<1>1. /\ truncated' /\ step' = "answered" /\ UNCHANGED <<server, before, request, search_hits>>
      /\ Len(search_hits) >= MaxMatches
  BY DEF Enough, Finish
<1>2. Len(search_hits) <= MaxMatches /\ Len(search_hits) = MaxMatches
  <2>1. Len(search_hits) <= MaxMatches
    BY DEF CompleteInv
  <2>2. Len(search_hits) \in Nat /\ MaxMatches \in Nat
    BY HitsCounted
  <2> QED
    BY <1>1, <2>1, <2>2
<1>3. GrownInv' /\ ~Looking'
  BY <1>1 DEF CompleteInv, GrownInv, Looking, server
<1> QED
  BY <1>1, <1>2, <1>3 DEF CompleteInv

(* A name is left out only if it is not wanted.                            *)
LEMMA ConsiderComplete ==
  ASSUME TypeOK, CompleteInv, NEW g \in Files, Consider(g)
  PROVE  CompleteInv'
<1>1. /\ step = "walk" /\ g \in names /\ names' = names \ {g}
      /\ Len(search_hits) < MaxMatches
      /\ UNCHANGED <<server, before, request, search_dirs, top, pending, truncated, answer>>
      /\ step' \in {"walk", "binary"} /\ answer = "none"
  BY DEF Consider, CompleteInv
<1>2. Due' = Due /\ GrownInv' /\ ~Looking
  BY <1>1, SameDue DEF server, CompleteInv, GrownInv, Looking
<1>3. Len(search_hits) \in Nat /\ MaxMatches \in Nat
  BY HitsCounted
<1>4. HitFiles \subseteq HitFiles' /\ Len(search_hits') <= MaxMatches
      /\ (Looking' => Len(search_hits') < MaxMatches /\ request.query # "")
  <2>1. CASE AddHit(g, 0, 0) /\ UNCHANGED step
    <3>1. HitFiles \subseteq HitFiles' /\ Len(search_hits') = Len(search_hits) + 1 /\ ~Looking'
      BY <1>1, <2>1, HitFilesGrow DEF Looking
    <3>2. Len(search_hits') <= MaxMatches
      BY <1>1, <1>3, <3>1
    <3> QED
      BY <3>1, <3>2
  <2>2. CASE UNCHANGED search_hits
    <3>1. HitFiles' = HitFiles /\ Len(search_hits') = Len(search_hits)
      BY <2>2 DEF HitFiles
    <3>2. Looking' => request.query # ""
      BY <1>1, <2>2 DEF Consider, Looking
    <3>3. Len(search_hits') <= MaxMatches /\ Len(search_hits') < MaxMatches
      BY <1>1, <1>3, <3>1
    <3> QED
      BY <3>1, <3>2, <3>3
  <2> QED
    BY <2>1, <2>2 DEF Consider
<1>5. ASSUME NEW f \in Due
      PROVE  ToCome(f)'
  <2>1. ToCome(f)
    BY <1>1 DEF CompleteInv
  <2>2. CASE f = g /\ Kept(f)
    <3>1. ~Skipped(g)
      BY <2>2 DEF Skipped, Kept, Due, Wanted
    <3>2. CASE AddHit(g, 0, 0)
      BY <2>2, <3>2, HitFilesGrow DEF ToCome
    <3>3. CASE file' = g /\ step' = "binary"
      BY <2>2, <3>3 DEF ToCome, Looking
    <3> QED
      BY <3>1, <3>2, <3>3 DEF Consider
  <2>3. CASE f \in names /\ f # g /\ Kept(f)
    BY <1>1, <2>3 DEF ToCome, Kept
  <2>4. CASE f \in HitFiles
    BY <1>4, <2>4 DEF ToCome
  <2>5. CASE Kept(f) /\ \E e \in ToSet(pending) : Parent[f] \in Walked(top, e)
    BY <1>1, <2>5 DEF ToCome, Kept
  <2>6. CASE \E d \in ToSet(search_dirs) : f \in Reached[d]
    BY <1>1, <2>6 DEF ToCome
  <2> QED
    BY <1>2, <2>1, <2>2, <2>3, <2>4, <2>5, <2>6 DEF ToCome
<1> QED
  BY <1>1, <1>2, <1>4, <1>5 DEF CompleteInv, server

(* What is to come in another way than by the file being looked at.        *)
LEMMA StillToCome ==
  ASSUME NEW f, ToCome(f), HitFiles \subseteq HitFiles',
         UNCHANGED <<names, top, pending, search_dirs>>
  PROVE  ToCome(f)' \/ (Looking /\ file = f /\ (step = "read" => MatchAhead(f)))
BY DEF ToCome, Kept

LEMMA FileComplete ==
  ASSUME TypeInv, CompleteInv, BinaryCheck \/ OpenFile \/ ReadLine
  PROVE  CompleteInv'
<1>1. /\ Looking /\ step # "answered" /\ step' # "answered" /\ answer = "none"
      /\ UNCHANGED <<server, before, request, walk, file, search_hits, truncated, answer>>
  BY DEF BinaryCheck, OpenFile, ReadLine, Looking, CompleteInv, reading
<1>2. Due' = Due /\ HitFiles' = HitFiles /\ GrownInv'
  BY <1>1, SameDue DEF server, CompleteInv, GrownInv, HitFiles
<1>3. ASSUME NEW f \in Due, file = f, step = "read" => MatchAhead(f)
      PROVE  ToCome(f)'
  <2>1. /\ f \in same /\ f \in present /\ f \in Files /\ Matches(before[f]) /\ request.query # ""
        /\ text[f] \in Texts /\ before[f] \in Texts
        /\ Grown(before[f], text[f]) /\ Matches(text[f])
    BY <1>1 DEF Due, TypeInv, TypeOK, CompleteInv, GrownInv
  <2>2. ~HasNul(text[f]) /\ \E k \in DOMAIN before[f] : before[f][k] = "q"
    BY <2>1 DEF Matches
  <2>3. CASE BinaryCheck
    <3>1. step' = "open" /\ file' = f
      BY <1>1, <1>3, <2>1, <2>2, <2>3 DEF BinaryCheck
    <3> QED
      BY <3>1 DEF ToCome, Looking
  <2>4. CASE OpenFile
    <3>0. Readable(file)
      BY <1>1, <1>3, <2>1 DEF Readable, Due, Open, CompleteInv
    <3>1. step' = "read" /\ file' = f /\ at' = 0 /\ before' = before
      BY <1>1, <1>3, <2>4, <3>0 DEF OpenFile
    <3>2. \A k \in DOMAIN before[f] : k > 0
      BY <2>1, TextDomain
    <3> QED
      BY <2>2, <3>1, <3>2 DEF ToCome, Looking, MatchAhead
  <2>5. CASE ReadLine
    <3> DEFINE t == text[f]
               e == LineEnd(t, at)
    <3>1. /\ at \in Nat /\ at < Len(t) /\ line_no \in Nat /\ step' = "read" /\ step = "read"
          /\ at' = e /\ line_no' = line_no + 1 /\ file' = f /\ before' = before
          /\ first_match_line' = IF Hit(SubSeq(t, at + 1, e)) /\ first_match_line = 0
                                 THEN line_no' ELSE first_match_line
      BY <1>1, <1>3, <2>5 DEF ReadLine, TypeInv, TypeOK
    <3>2. e \in at + 1..Len(t)
      BY <2>1, <3>1, LineEnds
    <3>3. Hit(SubSeq(t, at + 1, e)) <=> \E k \in at + 1..e : t[k] = "q"
      BY <2>1, <3>1, <3>2, LineHits
    <3> HIDE DEF t, e
    <3>4. CASE first_match_line # 0
      BY <3>1, <3>4 DEF ToCome, Looking, MatchAhead
    <3>5. CASE first_match_line = 0
      <4>1. PICK k \in DOMAIN before[f] : k > at /\ before[f][k] = "q"
        BY <1>3, <3>1, <3>5 DEF MatchAhead
      <4>2. t[k] = "q" /\ k \in Nat /\ k <= Len(t)
        <5>1. k \in Nat /\ k <= Len(before[f]) /\ Len(before[f]) \in Nat /\ Len(t) \in Nat
          BY <2>1, <4>1, TextDomain DEF t
        <5>2. t[k] = before[f][k] /\ Len(before[f]) <= Len(t)
          BY <2>1, <4>1 DEF t, Grown
        <5> QED
          BY <4>1, <5>1, <5>2
      <4>3. CASE k > e
        BY <3>1, <4>1, <4>3 DEF ToCome, Looking, MatchAhead
      <4>4. CASE ~(k > e)
        <5>1. k \in at + 1..e
          BY <3>1, <3>2, <4>1, <4>2, <4>4
        <5>2. first_match_line' # 0
          BY <3>1, <3>3, <3>5, <4>2, <5>1
        <5> QED
          BY <3>1, <5>2 DEF ToCome, Looking, MatchAhead
      <4> QED
        BY <4>3, <4>4
    <3> QED
      BY <3>4, <3>5
  <2> QED
    BY <2>3, <2>4, <2>5
<1>4. ASSUME NEW f \in Due
      PROVE  ToCome(f)'
  <2>1. ToCome(f)
    BY <1>1 DEF CompleteInv
  <2> QED
    BY <1>1, <1>2, <1>3, <2>1, StillToCome DEF walk
<1> QED
  BY <1>1, <1>2, <1>4 DEF CompleteInv, server

(* The end of the file: the match that was ahead has been found.           *)
LEMMA EndOfFileComplete ==
  ASSUME TypeInv, CompleteInv, EndOfFile
  PROVE  CompleteInv'
<1>1. /\ step = "read" /\ Looking /\ step' = "walk" /\ ~Looking' /\ answer = "none"
      /\ UNCHANGED <<server, before, request, walk, reading, truncated, answer>>
      /\ Len(search_hits) < MaxMatches
  BY DEF EndOfFile, Looking, CompleteInv
<1>2. Len(search_hits) \in Nat /\ MaxMatches \in Nat /\ TypeOK
  BY HitsCounted DEF TypeInv
<1>3. HitFiles \subseteq HitFiles' /\ Len(search_hits') <= MaxMatches
      /\ (first_match_line # 0 => file \in HitFiles')
  <2>1. CASE first_match_line # 0
    <3>1. AddHit(file, first_match_line, match_count)
      BY <2>1 DEF EndOfFile
    <3>2. HitFiles' = HitFiles \cup {file} /\ Len(search_hits') = Len(search_hits) + 1
      BY <1>2, <3>1, HitFilesGrow
    <3> QED
      BY <1>1, <1>2, <3>2
  <2>2. CASE first_match_line = 0
    <3>1. search_hits' = search_hits
      BY <2>2 DEF EndOfFile
    <3>2. HitFiles' = HitFiles /\ Len(search_hits') = Len(search_hits)
      BY <3>1 DEF HitFiles
    <3> QED
      BY <1>1, <1>2, <2>2, <3>2
  <2> QED
    BY <2>1, <2>2
<1>4. Due' = Due /\ GrownInv'
  BY <1>1, SameDue DEF server, CompleteInv, GrownInv
<1>5. ASSUME NEW f \in Due
      PROVE  ToCome(f)'
  <2>1. CASE file = f /\ MatchAhead(f)
    <3>1. first_match_line # 0
      <4> SUFFICES ASSUME NEW k \in DOMAIN before[f], k > at
                   PROVE  FALSE
        BY <2>1 DEF MatchAhead
      <4>1. Grown(before[f], text[f]) /\ before[f] \in Texts /\ text[f] \in Texts
        BY DEF Due, TypeInv, TypeOK, CompleteInv, GrownInv
      <4>2. k \in Nat /\ k <= Len(before[f]) /\ Len(before[f]) <= Len(text[f])
            /\ Len(before[f]) \in Nat /\ Len(text[f]) \in Nat
        BY <4>1 DEF Grown, Texts
      <4>3. at = Len(text[f])
        BY <2>1 DEF EndOfFile
      <4> QED
        BY <4>2, <4>3
    <3> QED
      BY <1>3, <2>1, <3>1 DEF ToCome
  <2>2. ToCome(f)
    BY <1>1 DEF CompleteInv
  <2> QED
    BY <1>1, <1>3, <2>1, <2>2, StillToCome DEF walk
<1> QED
  BY <1>1, <1>3, <1>4, <1>5 DEF CompleteInv, server

(* The files grow, and the search has what it had to come.                 *)
LEMMA ServerComplete ==
  ASSUME TypeOK, CompleteInv, NEW g \in Files,
         \/ Unlink(g)
         \/ \E w \in Written : AppendTo(g, w)
         \/ \E t \in InitialTexts : Create(g, t)
  PROVE  CompleteInv'
<1>1. /\ UNCHANGED <<before, request, walk, reading, search_hits, truncated, step, answer>>
      /\ step # "answered"
  BY DEF Unlink, AppendTo, Create, Changed
<1>2. /\ same' \subseteq same /\ UNCHANGED <<locked, shut>>
      /\ HitFiles' = HitFiles /\ (Looking' <=> Looking)
  BY <1>1 DEF Unlink, AppendTo, Create, HitFiles, Looking
<1>3. /\ \A f \in Files : text'[f] \in Texts /\ text[f] \in Texts /\ before[f] \in Texts
      /\ \A f \in same' : f \in Files /\ Grown(before[f], text[f]) /\ Grown(text[f], text'[f])
  BY <1>2, ServerGrows DEF TypeOK, CompleteInv, GrownInv
<1>4. GrownInv'
  <2> SUFFICES ASSUME NEW f \in same'
               PROVE  Grown(before[f], text'[f])
    BY <1>1 DEF GrownInv
  <2> QED
    BY <1>3, GrownTwice
<1>5. Due' \subseteq Due
  <2> SUFFICES ASSUME NEW f \in Due'
               PROVE  f \in Due
    OBVIOUS
  <2>1. /\ f \in same' /\ f \in same /\ f \in Wanted /\ Open(f)
        /\ request' = request /\ before' = before
    BY <1>1, <1>2 DEF Due, Open, Wanted, Searched, SearchDirs
  <2>2. Matches(before[f]) /\ (request.query = "" \/ ~HasNul(text'[f]))
    BY <2>1 DEF Due, Matches
  <2>3. HasNul(text[f]) => HasNul(text'[f])
    <3>1. \A k \in DOMAIN text[f] : k \in DOMAIN text'[f] /\ text'[f][k] = text[f][k]
      BY <1>3, <2>1, TextDomain DEF Grown
    <3> QED
      BY <3>1 DEF HasNul
  <2>4. (\E k \in DOMAIN before[f] : before[f][k] = "q") => \E k \in DOMAIN text[f] : text[f][k] = "q"
    <3>1. \A k \in DOMAIN before[f] : k \in DOMAIN text[f] /\ text[f][k] = before[f][k]
      BY <1>3, <2>1, TextDomain DEF Grown
    <3> QED
      BY <3>1
  <2>5. Matches(text[f])
    BY <2>2, <2>3, <2>4 DEF Matches
  <2> QED
    BY <2>1, <2>2, <2>5 DEF Due
<1>6. ASSUME NEW f \in Due'
      PROVE  ToCome(f)'
  <2>1. ToCome(f)
    BY <1>1, <1>5 DEF CompleteInv
  <2> QED
    BY <1>1, <1>2, <2>1 DEF ToCome, MatchAhead, Kept, walk, reading
<1> QED
  BY <1>1, <1>2, <1>4, <1>6 DEF CompleteInv

LEMMA ModeComplete ==
  ASSUME TypeOK, CompleteInv, NEW x \in Lockable, Chmod(x)
  PROVE  CompleteInv'
<1>1. /\ UNCHANGED <<before, request, walk, reading, search_hits, truncated, step, answer>>
      /\ UNCHANGED <<present, text, same>> /\ step # "answered"
      /\ shut \subseteq shut' /\ locked' \subseteq shut'
  BY DEF Chmod, Changed
<1>2. HitFiles' = HitFiles /\ (Looking' <=> Looking) /\ GrownInv'
  BY <1>1 DEF HitFiles, Looking, CompleteInv, GrownInv
<1>3. Due' \subseteq Due
  BY <1>1 DEF Due, Open, Wanted, Searched, SearchDirs, Matches
<1>4. ASSUME NEW f \in Due'
      PROVE  ToCome(f)'
  <2>1. ToCome(f)
    BY <1>1, <1>3 DEF CompleteInv
  <2> QED
    BY <1>1, <1>2, <2>1 DEF ToCome, MatchAhead, Kept, walk, reading
<1> QED
  BY <1>1, <1>2, <1>4 DEF CompleteInv

(* remote_grep's answer, when it does not say it is truncated, has every   *)
(* file that matched when the search began and still does, was there and   *)
(* could be read all the time, in any tree, from any roots and however the *)
(* files come, go and grow and their modes change; one that is truncated   *)
(* has as many as the limit allows (service.py 277-425).                   *)
THEOREM NothingIsLeftOut == Spec => []GrepIsComplete
<1>1. Init => CompleteInv
  <2> SUFFICES ASSUME Init PROVE CompleteInv
    OBVIOUS
  <2>1. step = "answered" /\ answer = "none" /\ search_hits = <<>> /\ same = {} /\ ~Looking
    BY DEF Init, Looking
  <2> QED
    <3>1. Len(search_hits) <= MaxMatches
      BY <2>1, GrepAssumption
    <3> QED
      BY <2>1, <3>1 DEF CompleteInv, GrownInv
<1>2. TypeInv /\ CompleteInv /\ [Next]_vars => CompleteInv'
  <2> SUFFICES ASSUME TypeInv, CompleteInv, [Next]_vars PROVE CompleteInv'
    OBVIOUS
  <2>1. TypeOK
    BY DEF TypeInv
  <2>2. CASE UNCHANGED vars
    <3>1. Due' = Due /\ HitFiles' = HitFiles /\ (Looking' <=> Looking)
      BY <2>2, SameDue DEF vars, server, HitFiles, Looking
    <3>2. \A f : ToCome(f) => ToCome(f)'
      BY <2>2, <3>1 DEF vars, walk, reading, ToCome, MatchAhead, Kept
    <3> QED
      BY <2>2, <3>1, <3>2 DEF vars, server, CompleteInv, GrownInv
  <2> QED
    BY <2>1, <2>2, BeginComplete, ListDirectoryComplete, NextSearchDirComplete, EnoughComplete,
       LockedComplete, ConsiderComplete, FileComplete, EndOfFileComplete, ServerComplete,
       ModeComplete DEF Next
<1>3. CompleteInv => GrepIsComplete
  BY DEF CompleteInv, GrepIsComplete, Due
<1> QED
  BY <1>1, <1>2, <1>3, InitType, StepType, PTL DEF Spec

-----------------------------------------------------------------------------
(* Lines.  A character that is not a break belongs to the line whose number*)
(* is one more than the breaks before it.                                  *)
LEMMA BreaksAreFinite ==
  ASSUME NEW t \in Texts, NEW S
  PROVE  /\ Breaks(t, S) \subseteq 1..Len(t)
         /\ IsFiniteSet(Breaks(t, S))
         /\ Cardinality(Breaks(t, S)) \in Nat
<1>1. Breaks(t, S) \subseteq 1..Len(t) /\ Len(t) \in Nat
  BY DEF Breaks, Texts
<1>2. IsFiniteSet(1..Len(t))
  BY <1>1, FS_Interval
<1> QED
  BY <1>1, <1>2, FS_Subset, FS_CardinalityType

LEMMA RankOrder ==
  ASSUME NEW t \in Texts, NEW S, NEW a \in Nat, NEW b \in Nat, a <= b
  PROVE  /\ Rank(t, S, a) \in Nat /\ Rank(t, S, a) <= Cardinality(Breaks(t, S))
         /\ Rank(t, S, a) <= Rank(t, S, b)
         /\ (\A c \in Breaks(t, S) : c <= b => c <= a) => Rank(t, S, b) = Rank(t, S, a)
         /\ \A c \in Breaks(t, S) : a < c /\ c <= b => Rank(t, S, a) + 1 <= Rank(t, S, b)
         /\ \A c \in Breaks(t, S) :
              a < c /\ c <= b /\ (\A d \in Breaks(t, S) : d <= b => d <= a \/ d = c)
                => Rank(t, S, b) = Rank(t, S, a) + 1
<1> DEFINE U(x) == {c \in Breaks(t, S) : c <= x}
<1>1. /\ Breaks(t, S) \subseteq Nat /\ IsFiniteSet(Breaks(t, S))
      /\ Cardinality(Breaks(t, S)) \in Nat
  BY BreaksAreFinite DEF Texts
<1>2. \A x : /\ U(x) \in SUBSET Breaks(t, S) /\ IsFiniteSet(U(x)) /\ Cardinality(U(x)) \in Nat
             /\ Cardinality(U(x)) <= Cardinality(Breaks(t, S))
  BY <1>1, FS_Subset, FS_CardinalityType
<1>3. U(a) \in SUBSET U(b)
  BY <1>1
<1>4. Cardinality(U(a)) <= Cardinality(U(b))
  <2> HIDE DEF U
  <2> QED
    BY <1>2, <1>3, FS_Subset
<1>5. (\A c \in Breaks(t, S) : c <= b => c <= a) => U(b) = U(a)
  BY <1>3
<1>6. ASSUME NEW c \in Breaks(t, S), a < c, c <= b
      PROVE  Cardinality(U(a)) + 1 <= Cardinality(U(b))
  <2>1. c \in U(b) /\ c \notin U(a)
    BY <1>1, <1>6
  <2> HIDE DEF U
  <2>2. Cardinality(U(a) \cup {c}) = Cardinality(U(a)) + 1
    BY <1>2, <2>1, FS_AddElement
  <2>3. U(a) \cup {c} \in SUBSET U(b)
    BY <1>3, <2>1
  <2> QED
    BY <1>2, <2>2, <2>3, FS_Subset
<1>7. ASSUME NEW c \in Breaks(t, S), a < c, c <= b,
             \A d \in Breaks(t, S) : d <= b => d <= a \/ d = c
      PROVE  Cardinality(U(b)) = Cardinality(U(a)) + 1
  <2>1. c \notin U(a) /\ U(b) = U(a) \cup {c}
    BY <1>1, <1>3, <1>7
  <2> HIDE DEF U
  <2> QED
    BY <1>2, <2>1, FS_AddElement
<1>8. \A x : Rank(t, S, x) = Cardinality(U(x))
  BY DEF Rank
<1> HIDE DEF U
<1> QED
  BY <1>2, <1>4, <1>5, <1>6, <1>7, <1>8

(* The breaks have the numbers up to their count, each its own.            *)
LEMMA EndIsBreak ==
  ASSUME NEW t \in Texts, NEW S, NEW k \in 1..Cardinality(Breaks(t, S))
  PROVE  /\ EndOf(t, S, k) \in Breaks(t, S)
         /\ Rank(t, S, EndOf(t, S, k)) = k
<1> DEFINE B == Breaks(t, S)
           n == Cardinality(B)
           f == [b \in B |-> Rank(t, S, b)]
<1>1. B \subseteq Nat \ {0} /\ IsFiniteSet(B) /\ n \in Nat
  BY BreaksAreFinite DEF Texts
<1>2. \A b \in B : Rank(t, S, b) \in 1..n
  <2> SUFFICES ASSUME NEW b \in B PROVE Rank(t, S, b) \in 1..n
    OBVIOUS
  <2>1. b \in Nat /\ 0 \in Nat /\ 0 < b /\ b <= b
    BY <1>1
  <2>2. Rank(t, S, 0) \in Nat /\ Rank(t, S, 0) + 1 <= Rank(t, S, b)
    BY <2>1, RankOrder
  <2>3. Rank(t, S, b) \in Nat /\ Rank(t, S, b) <= n
    BY <2>1, RankOrder
  <2> QED
    BY <1>1, <2>2, <2>3
<1>3. ASSUME NEW a \in B, NEW b \in B, a < b
      PROVE  Rank(t, S, a) # Rank(t, S, b)
  <2>1. a \in Nat /\ b \in Nat /\ a <= b
    BY <1>1, <1>3
  <2>2. Rank(t, S, a) + 1 <= Rank(t, S, b)
    BY <1>3, <2>1, RankOrder
  <2> QED
    BY <1>1, <1>2, <2>2
<1>4. \A a, b \in B : f[a] = f[b] => a = b
  <2> SUFFICES ASSUME NEW a \in B, NEW b \in B, a # b PROVE f[a] # f[b]
    OBVIOUS
  <2>1. a < b \/ b < a
    BY <1>1
  <2> QED
    BY <1>3, <2>1
<1>5. f \in Injection(B, 1..n)
  <2>1. f \in [B -> 1..n]
    BY <1>2
  <2> QED
    BY <1>4, <2>1 DEF Injection, IsInjective
<1>6. IsFiniteSet(1..n) /\ Cardinality(1..n) = n
  BY <1>1, FS_Interval
<1>7. f \in Surjection(B, 1..n)
  <2> HIDE DEF f, B, n
  <2>1. Cardinality(B) = n
    BY DEF n
  <2> QED
    BY <1>5, <1>6, <2>1, FS_Injection
<1>8. \E b \in B : Rank(t, S, b) = k
  BY <1>7 DEF Surjection
<1>9. EndOf(t, S, k) = CHOOSE x \in B : Rank(t, S, x) = k
  <2>1. ~(k > n)
    BY <1>1
  <2> QED
    BY <2>1 DEF EndOf
<1> QED
  BY <1>8, <1>9

(* The end of line k lies behind a character exactly if fewer than k breaks*)
(* stand before it.                                                        *)
LEMMA EndBehind ==
  ASSUME NEW t \in Texts, NEW S, NEW k \in Nat \ {0}, NEW i \in DOMAIN t, t[i] \notin S
  PROVE  /\ EndOf(t, S, k) \in Nat
         /\ i < EndOf(t, S, k) <=> Rank(t, S, i - 1) < k
<1> DEFINE n == Cardinality(Breaks(t, S))
           e == EndOf(t, S, k)
<1>1. /\ n \in Nat /\ i \in Nat /\ i - 1 \in Nat /\ i <= Len(t) /\ Len(t) \in Nat
      /\ Breaks(t, S) \subseteq Nat
  BY TextDomain, BreaksAreFinite
<1>2. Rank(t, S, i - 1) \in Nat /\ Rank(t, S, i - 1) <= n
  BY <1>1, RankOrder
<1>3. CASE k > n
  <2>1. e = Len(t) + 1
    BY <1>3 DEF EndOf
  <2> QED
    BY <1>1, <1>2, <1>3, <2>1
<1>4. CASE ~(k > n)
  <2>1. k \in 1..n
    BY <1>1, <1>4
  <2>2. e \in Breaks(t, S) /\ Rank(t, S, e) = k
    BY <2>1, EndIsBreak
  <2>3. e \in Nat /\ e # i
    BY <1>1, <2>2 DEF Breaks
  <2> HIDE DEF e
  <2>4. CASE i < e
    <3>1. i - 1 < e /\ i - 1 <= e /\ e <= e
      BY <1>1, <2>3, <2>4
    <3>2. Rank(t, S, i - 1) + 1 <= k
      BY <1>1, <2>2, <2>3, <3>1, RankOrder
    <3> QED
      BY <1>2, <2>3, <2>4, <3>2 DEF e
  <2>5. CASE ~(i < e)
    <3>1. e <= i - 1
      BY <1>1, <2>3, <2>5
    <3>2. k <= Rank(t, S, i - 1)
      BY <1>1, <2>2, <2>3, <3>1, RankOrder
    <3> QED
      BY <1>2, <2>3, <2>5, <3>2 DEF e
  <2> QED
    BY <2>4, <2>5
<1> QED
  BY <1>3, <1>4

LEMMA LineOfChar ==
  ASSUME NEW t \in Texts, NEW S, NEW k \in Nat \ {0}, NEW i \in DOMAIN t, t[i] \notin S
  PROVE  i \in StartOf(t, S, k)..EndOf(t, S, k) - 1 <=> Rank(t, S, i - 1) + 1 = k
<1>1. i \in Nat /\ i > 0 /\ i - 1 \in Nat
  BY TextDomain
<1>2. Rank(t, S, i - 1) \in Nat
  BY <1>1, RankOrder
<1>3. EndOf(t, S, k) \in Nat /\ (i < EndOf(t, S, k) <=> Rank(t, S, i - 1) < k)
  BY EndBehind
<1>4. StartOf(t, S, k) \in Nat /\ (StartOf(t, S, k) <= i <=> k <= Rank(t, S, i - 1) + 1)
  <2>1. CASE k = 1
    BY <1>1, <1>2, <2>1 DEF StartOf
  <2>2. CASE k # 1
    <3>1. k - 1 \in Nat \ {0}
      BY <2>2
    <3>2. EndOf(t, S, k - 1) \in Nat /\ (i < EndOf(t, S, k - 1) <=> Rank(t, S, i - 1) < k - 1)
      BY <3>1, EndBehind
    <3>3. EndOf(t, S, k - 1) # i
      <4>1. CASE k - 1 > Cardinality(Breaks(t, S))
        <5>1. EndOf(t, S, k - 1) = Len(t) + 1 /\ i <= Len(t) /\ Len(t) \in Nat
          BY <4>1, TextDomain DEF EndOf
        <5> QED
          BY <1>1, <5>1
      <4>2. CASE ~(k - 1 > Cardinality(Breaks(t, S)))
        <5>1. k - 1 \in 1..Cardinality(Breaks(t, S))
          BY <3>1, <4>2, BreaksAreFinite
        <5> QED
          BY <5>1, EndIsBreak DEF Breaks
      <4> QED
        BY <4>1, <4>2
    <3>4. StartOf(t, S, k) = EndOf(t, S, k - 1) + 1
      BY <2>2 DEF StartOf
    <3> QED
      BY <1>1, <1>2, <3>2, <3>3, <3>4
  <2> QED
    BY <2>1, <2>2
<1> QED
  BY <1>1, <1>2, <1>3, <1>4

LEMMA LineThere ==
  ASSUME NEW t \in Texts, NEW S, NEW i \in DOMAIN t, t[i] \notin S
  PROVE  Rank(t, S, i - 1) + 1 \in 1..LineCount(t, S)
<1> DEFINE n == Cardinality(Breaks(t, S))
<1>1. i \in Nat /\ i > 0 /\ i - 1 \in Nat /\ n \in Nat /\ Len(t) \in Nat /\ i <= Len(t)
      /\ Len(t) \in DOMAIN t
  BY TextDomain, BreaksAreFinite
<1>2. Rank(t, S, i - 1) \in Nat /\ Rank(t, S, i - 1) <= n
  BY <1>1, RankOrder
<1>3. CASE t[Len(t)] \in S
  <2>1. Len(t) \in Breaks(t, S) /\ i - 1 < Len(t) /\ i - 1 <= Len(t) /\ Len(t) <= Len(t)
    BY <1>1, <1>3 DEF Breaks
  <2>2. Rank(t, S, i - 1) + 1 <= Rank(t, S, Len(t))
    BY <1>1, <2>1, RankOrder
  <2>3. Rank(t, S, Len(t)) \in Nat /\ Rank(t, S, Len(t)) <= n
    BY <1>1, <2>1, RankOrder
  <2> QED
    BY <1>1, <1>2, <2>2, <2>3 DEF LineCount
<1>4. CASE t[Len(t)] \notin S
  <2>1. Unended(t, S)
    BY <1>1, <1>4 DEF Unended
  <2> QED
    BY <1>1, <1>2, <2>1 DEF LineCount
<1> QED
  BY <1>3, <1>4

(* The numbers of the lines with a match among the first a characters.     *)
MatchLines(t, a) ==
  {Rank(t, IterBreaks, i - 1) + 1 : i \in {j \in DOMAIN t : j <= a /\ t[j] = "q"}}

LEMMA LinesThatHit ==
  ASSUME NEW t \in Texts, NEW S, "q" \notin S
  PROVE  /\ DOMAIN LinesOf(t, S) = 1..LineCount(t, S)
         /\ \A i \in DOMAIN t : t[i] = "q" => Rank(t, S, i - 1) + 1 \in 1..LineCount(t, S)
         /\ \A k \in 1..LineCount(t, S) :
              Hit(LinesOf(t, S)[k])
                <=> \E i \in DOMAIN t : t[i] = "q" /\ Rank(t, S, i - 1) + 1 = k
<1>1. DOMAIN LinesOf(t, S) = 1..LineCount(t, S)
  BY DEF LinesOf
<1>2. \A i \in DOMAIN t : t[i] = "q" => Rank(t, S, i - 1) + 1 \in 1..LineCount(t, S)
  BY LineThere
<1>3. ASSUME NEW k \in 1..LineCount(t, S)
      PROVE  Hit(LinesOf(t, S)[k])
               <=> \E i \in DOMAIN t : t[i] = "q" /\ Rank(t, S, i - 1) + 1 = k
  <2> DEFINE a == StartOf(t, S, k)
             b == EndOf(t, S, k) - 1
  <2>1. k \in Nat \ {0} /\ Len(t) \in Nat /\ DOMAIN t = 1..Len(t)
    BY BreaksAreFinite, TextDomain DEF LineCount
  <2>2. \A j \in Nat \ {0} : EndOf(t, S, j) \in 1..Len(t) + 1
    <3> SUFFICES ASSUME NEW j \in Nat \ {0} PROVE EndOf(t, S, j) \in 1..Len(t) + 1
      OBVIOUS
    <3>1. Breaks(t, S) \subseteq 1..Len(t) /\ Cardinality(Breaks(t, S)) \in Nat
      BY BreaksAreFinite
    <3>2. CASE j > Cardinality(Breaks(t, S))
      BY <2>1, <3>2 DEF EndOf
    <3>3. CASE ~(j > Cardinality(Breaks(t, S)))
      <4>1. j \in 1..Cardinality(Breaks(t, S))
        BY <3>1, <3>3
      <4> QED
        BY <2>1, <3>1, <4>1, EndIsBreak
    <3> QED
      BY <3>2, <3>3
  <2>3. b \in Nat /\ b <= Len(t)
    BY <2>1, <2>2
  <2>4. a \in Nat /\ a >= 1
    <3>1. k # 1 => EndOf(t, S, k - 1) \in 1..Len(t) + 1
      BY <2>1, <2>2
    <3> QED
      BY <2>1, <3>1 DEF StartOf
  <2>5. LinesOf(t, S)[k] = SubSeq(t, a, b)
    BY DEF LinesOf
  <2>6. \A i \in DOMAIN t : t[i] = "q" => (i \in a..b <=> Rank(t, S, i - 1) + 1 = k)
    BY <2>1, LineOfChar
  <2> HIDE DEF a, b
  <2>7. Hit(SubSeq(t, a, b)) <=> \E i \in a..b : t[i] = "q"
    <3>1. CASE b < a
      <4>1. a..b = {} /\ SubSeq(t, a, b) = <<>> /\ DOMAIN <<>> = {}
        BY <2>3, <2>4, <3>1
      <4> QED
        BY <4>1 DEF Hit
    <3>2. CASE ~(b < a)
      <4>1. a - 1 \in Nat /\ (a - 1) + 1 = a /\ b \in (a - 1) + 1..Len(t)
        BY <2>1, <2>3, <2>4, <3>2
      <4> QED
        BY <4>1, LineHits
    <3> QED
      BY <3>1, <3>2
  <2>8. \A i \in a..b : i \in DOMAIN t
    BY <2>1, <2>3, <2>4
  <2> QED
    BY <2>5, <2>6, <2>7, <2>8
<1> QED
  BY <1>1, <1>2, <1>3

LEMMA MatchLinesAreLines ==
  ASSUME NEW t \in Texts
  PROVE  /\ MatchLines(t, Len(t)) = {k \in DOMAIN LinesOf(t, IterBreaks) : Hit(LinesOf(t, IterBreaks)[k])}
         /\ \A a : IsFiniteSet(MatchLines(t, a)) /\ Cardinality(MatchLines(t, a)) \in Nat
<1>1. "q" \notin IterBreaks
  BY DEF IterBreaks
<1>2. \A i \in DOMAIN t : i <= Len(t)
  BY TextDomain
<1>3. MatchLines(t, Len(t)) = {k \in DOMAIN LinesOf(t, IterBreaks) : Hit(LinesOf(t, IterBreaks)[k])}
  <2> DEFINE l == LinesOf(t, IterBreaks)
             S == IterBreaks
  <2>1. /\ DOMAIN l = 1..LineCount(t, S)
        /\ \A i \in DOMAIN t : t[i] = "q" => Rank(t, S, i - 1) + 1 \in 1..LineCount(t, S)
        /\ \A k \in 1..LineCount(t, S) :
             Hit(l[k]) <=> \E i \in DOMAIN t : t[i] = "q" /\ Rank(t, S, i - 1) + 1 = k
    BY <1>1, LinesThatHit
  <2>2. MatchLines(t, Len(t)) = {Rank(t, S, i - 1) + 1 : i \in {j \in DOMAIN t : t[j] = "q"}}
    BY <1>2 DEF MatchLines
  <2> HIDE DEF l, S
  <2>3. MatchLines(t, Len(t)) \subseteq {k \in DOMAIN l : Hit(l[k])}
    BY <2>1, <2>2
  <2>4. {k \in DOMAIN l : Hit(l[k])} \subseteq MatchLines(t, Len(t))
    BY <2>1, <2>2
  <2> QED
    BY <2>3, <2>4 DEF l
<1>4. ASSUME NEW a
      PROVE  IsFiniteSet(MatchLines(t, a)) /\ Cardinality(MatchLines(t, a)) \in Nat
  <2>1. MatchLines(t, a) \in SUBSET (1..LineCount(t, IterBreaks))
    BY <1>1, LinesThatHit DEF MatchLines
  <2>2. LineCount(t, IterBreaks) \in Nat
    BY BreaksAreFinite DEF LineCount
  <2>3. IsFiniteSet(1..LineCount(t, IterBreaks))
    BY <2>2, FS_Interval
  <2> QED
    BY <2>1, <2>3, FS_Subset, FS_CardinalityType
<1> QED
  BY <1>3, <1>4

-----------------------------------------------------------------------------
(* What grows keeps its breaks, and with them the numbers of its lines.    *)
FirstMatch(t, i) == i \in DOMAIN t /\ t[i] = "q" /\ \A k \in 1..i - 1 : t[k] # "q"

LEMMA GrownKeeps ==
  ASSUME NEW t \in Texts, NEW u \in Texts, Grown(t, u)
  PROVE  /\ \A S : \A a \in Nat : a <= Len(t) => Rank(u, S, a) = Rank(t, S, a)
         /\ \A a \in Nat : a <= Len(t) => MatchLines(u, a) = MatchLines(t, a)
         /\ MatchLines(t, Len(t)) \subseteq MatchLines(u, Len(u))
         /\ \A i : FirstMatch(t, i) => FirstMatch(u, i)
<1>1. /\ Len(t) \in Nat /\ Len(u) \in Nat /\ Len(t) <= Len(u)
      /\ DOMAIN t = 1..Len(t) /\ DOMAIN u = 1..Len(u)
      /\ \A k \in 1..Len(t) : u[k] = t[k]
  BY TextDomain DEF Grown
<1>2. \A k \in 1..Len(t) : k \in 1..Len(u)
  BY <1>1
<1>3. ASSUME NEW S, NEW a \in Nat, a <= Len(t)
      PROVE  Rank(u, S, a) = Rank(t, S, a)
  <2>1. \A c \in 1..Len(u) : c <= a => c \in 1..Len(t)
    BY <1>1, <1>3
  <2>2. {c \in Breaks(u, S) : c <= a} = {c \in Breaks(t, S) : c <= a}
    BY <1>1, <1>2, <2>1 DEF Breaks
  <2> QED
    BY <2>2 DEF Rank
<1>4. ASSUME NEW a \in Nat, a <= Len(t)
      PROVE  MatchLines(u, a) = MatchLines(t, a)
  <2>1. \A c \in 1..Len(u) : c <= a => c \in 1..Len(t)
    BY <1>1, <1>4
  <2>2. {j \in DOMAIN u : j <= a /\ u[j] = "q"} = {j \in DOMAIN t : j <= a /\ t[j] = "q"}
    BY <1>1, <1>2, <2>1
  <2>3. \A i \in 1..Len(t) : Rank(u, IterBreaks, i - 1) = Rank(t, IterBreaks, i - 1)
    <3> SUFFICES ASSUME NEW i \in 1..Len(t)
                 PROVE  Rank(u, IterBreaks, i - 1) = Rank(t, IterBreaks, i - 1)
      OBVIOUS
    <3>1. i - 1 \in Nat /\ i - 1 <= Len(t)
      BY <1>1
    <3> QED
      BY <1>3, <3>1
  <2> QED
    BY <1>1, <2>2, <2>3 DEF MatchLines
<1>5. MatchLines(t, Len(t)) \subseteq MatchLines(u, Len(u))
  <2>1. MatchLines(t, Len(t)) = MatchLines(u, Len(t))
    BY <1>1, <1>4
  <2>2. \A j \in DOMAIN u : j <= Len(t) => j <= Len(u)
    BY <1>1
  <2> QED
    BY <2>1, <2>2 DEF MatchLines
<1>6. ASSUME NEW i, FirstMatch(t, i)
      PROVE  FirstMatch(u, i)
  <2>1. i \in 1..Len(t) /\ i \in 1..Len(u) /\ u[i] = "q"
    BY <1>1, <1>2, <1>6 DEF FirstMatch
  <2>2. \A k \in 1..i - 1 : k \in 1..Len(t)
    BY <1>1, <2>1
  <2> QED
    BY <1>1, <1>6, <2>1, <2>2 DEF FirstMatch
<1> QED
  BY <1>3, <1>4, <1>5, <1>6

-----------------------------------------------------------------------------
(* The results are right.  The counters are those of the lines begun so    *)
(* far, and of as many parts of lines as were read by themselves; there is *)
(* a first match as soon as there is one.                                  *)
Begun(t, a) == Rank(t, IterBreaks, a) + (IF InHalves(t, a) THEN 1 ELSE 0)

(* As a line number, n is behind that of the match at i by no more than m. *)
Near(t, i, n, m) ==
  /\ n \in Int /\ Rank(t, IterBreaks, i - 1) + 1 <= n
  /\ n <= Rank(t, IterBreaks, i - 1) + 1 + m

ReadingInv ==
  step = "read" =>
    LET t == text[file] IN
      /\ line_no = Begun(t, at) + halves
      /\ match_count \in Cardinality(MatchLines(t, at))..Cardinality(MatchLines(t, at)) + halves
      /\ first_match_line = 0 => \A k \in 1..at : t[k] # "q"
      /\ first_match_line # 0 =>
           \E i \in 1..at : FirstMatch(t, i) /\ Near(t, i, first_match_line, halves)

RightHit(h, s, t) ==
  /\ \E i \in DOMAIN t : FirstMatch(t, i) /\ Near(t, i, h.line, h.halves)
  /\ h.match_count \in
       Cardinality(MatchLines(s, Len(s)))..Cardinality(MatchLines(t, Len(t))) + h.halves

HitsInv ==
  \A i \in DOMAIN search_hits :
    LET h == search_hits[i] IN
      h.path \in same /\ request.query # "" => RightHit(h, before[h.path], text[h.path])

(* The walk stays below the directory that is searched, and takes nothing  *)
(* that a search from there leaves out.                                    *)
Sought(r, d) == {f \in Reached[d] : r.glob => f \in Globbed}

OnTrack ==
  /\ step # "answered" =>
       /\ ToSet(pending) \subseteq Walked(top, top)
       /\ \A f \in names : Parent[f] \in Walked(top, top)
  /\ Looking => file \in Sought(request, top)
  /\ \A i \in DOMAIN search_hits :
       search_hits[i].path \in Sought(request, SearchDirs(request)[search_hits[i].root])

(* The next line, or part of a line, has been counted, and its matches are *)
(* in it alone.                                                            *)
LEMMA LineIsCounted ==
  ASSUME NEW t \in Texts, NEW a \in Nat, a < Len(t), NEW e, e = LineEnd(t, a)
  PROVE  /\ e \in a + 1..Len(t)
         /\ Begun(t, e) = Rank(t, IterBreaks, a) + 1
         /\ Rank(t, IterBreaks, a) \in Nat
         /\ \A k \in a + 1..e : Rank(t, IterBreaks, k - 1) = Rank(t, IterBreaks, a)
         /\ MatchLines(t, e) = MatchLines(t, a) \cup
              {k \in {Rank(t, IterBreaks, a) + 1} : \E j \in a + 1..e : t[j] = "q"}
         /\ ~InHalves(t, a) => Rank(t, IterBreaks, a) + 1 \notin MatchLines(t, a)
<1> DEFINE S == IterBreaks
<1>1. e \in a + 1..Len(t) /\ \A k \in a + 1..e - 1 : t[k] \notin S
  BY LineEnds
<1>2. /\ Len(t) \in Nat /\ DOMAIN t = 1..Len(t) /\ e \in Nat /\ a < e /\ a <= e /\ e # 0
      /\ e \in DOMAIN t
      /\ \A k \in DOMAIN t : k \in Nat /\ k > 0
  BY <1>1, TextDomain
<1>3. Breaks(t, S) = {k \in DOMAIN t : t[k] \in S}
  BY DEF Breaks
<1>4. \A d \in Breaks(t, S) : d <= e => d <= a \/ d = e
  <2> SUFFICES ASSUME NEW d \in Breaks(t, S), d <= e, ~(d <= a), d # e
               PROVE  FALSE
    OBVIOUS
  <2>1. d \in a + 1..e - 1 /\ t[d] \in S
    BY <1>2, <1>3
  <2> QED
    BY <1>1, <2>1
<1> HIDE DEF S
<1>5. Rank(t, S, a) \in Nat /\ Begun(t, e) = Rank(t, S, a) + 1
  <2>1. Rank(t, S, a) \in Nat
    BY <1>2, RankOrder
  <2>2. CASE t[e] \in S
    <3>1. e \in Breaks(t, S) /\ e <= e
      BY <1>2, <1>3, <2>2
    <3>2. \A c \in Breaks(t, S) :
            a < c /\ c <= e /\ (\A d \in Breaks(t, S) : d <= e => d <= a \/ d = c)
              => Rank(t, S, e) = Rank(t, S, a) + 1
      BY <1>2, RankOrder
    <3>3. Rank(t, S, e) = Rank(t, S, a) + 1
      BY <1>2, <1>4, <3>1, <3>2
    <3> QED
      BY <2>1, <2>2, <3>3 DEF Begun, InHalves, S
  <2>3. CASE t[e] \notin S
    <3>1. \A c \in Breaks(t, S) : c <= e => c <= a
      BY <1>3, <1>4, <2>3
    <3>2. Rank(t, S, e) = Rank(t, S, a)
      BY <1>2, <3>1, RankOrder
    <3>3. InHalves(t, e)
      BY <1>2, <2>3 DEF InHalves, S
    <3> QED
      BY <2>1, <3>2, <3>3 DEF Begun, S
  <2> QED
    BY <2>1, <2>2, <2>3
<1>6. ASSUME NEW k \in a + 1..e
      PROVE  Rank(t, S, k - 1) = Rank(t, S, a)
  <2>1. k - 1 \in Nat /\ a <= k - 1 /\ k \in Nat /\ k <= e
    BY <1>2
  <2>2. \A c \in Breaks(t, S) : c <= k - 1 => c <= a
    <3> SUFFICES ASSUME NEW c \in Breaks(t, S), c <= k - 1 PROVE c <= a
      OBVIOUS
    <3>1. c \in Nat
      BY <1>2, <1>3
    <3>2. c <= e /\ c # e
      BY <1>2, <2>1, <3>1
    <3> QED
      BY <1>4, <3>2
  <2> QED
    BY <2>1, <2>2, RankOrder
<1>7. MatchLines(t, e) = MatchLines(t, a) \cup
        {k \in {Rank(t, S, a) + 1} : \E j \in a + 1..e : t[j] = "q"}
  <2>1. \A j \in DOMAIN t : j <= e <=> (j <= a \/ j \in a + 1..e)
    BY <1>2
  <2>2. \A j \in a + 1..e : j \in DOMAIN t
    BY <1>1, <1>2
  <2>3. MatchLines(t, e) \subseteq MatchLines(t, a) \cup
          {k \in {Rank(t, S, a) + 1} : \E j \in a + 1..e : t[j] = "q"}
    <3> SUFFICES ASSUME NEW j \in DOMAIN t, j <= e, t[j] = "q"
                 PROVE  Rank(t, S, j - 1) + 1 \in MatchLines(t, a) \cup
                          {k \in {Rank(t, S, a) + 1} : \E i \in a + 1..e : t[i] = "q"}
      BY DEF MatchLines, S
    <3>1. CASE j <= a
      BY <3>1 DEF MatchLines, S
    <3>2. CASE j \in a + 1..e
      BY <1>6, <3>2
    <3> QED
      BY <2>1, <3>1, <3>2
  <2>4. MatchLines(t, a) \subseteq MatchLines(t, e)
    BY <2>1 DEF MatchLines
  <2>5. \A j \in a + 1..e : t[j] = "q" => Rank(t, S, a) + 1 \in MatchLines(t, e)
    <3> SUFFICES ASSUME NEW j \in a + 1..e, t[j] = "q" PROVE Rank(t, S, a) + 1 \in MatchLines(t, e)
      OBVIOUS
    <3>1. j \in DOMAIN t /\ j <= e /\ Rank(t, S, j - 1) = Rank(t, S, a)
      BY <1>6, <2>1, <2>2
    <3>2. Rank(t, S, j - 1) + 1 \in MatchLines(t, e)
      BY <3>1 DEF MatchLines, S
    <3> QED
      BY <3>1, <3>2
  <2> QED
    BY <2>3, <2>4, <2>5
<1>8. ASSUME ~InHalves(t, a), NEW j \in DOMAIN t, j <= a, t[j] = "q"
      PROVE  Rank(t, S, j - 1) + 1 # Rank(t, S, a) + 1
  <2>1. j \in Nat /\ j > 0 /\ j - 1 \in Nat /\ j - 1 < a /\ j - 1 <= a /\ a <= a /\ a > 0
    BY <1>2, <1>8
  <2>2. a \in Breaks(t, S)
    <3>1. a \in DOMAIN t
      BY <1>2, <2>1
    <3> QED
      BY <1>3, <1>8, <2>1, <3>1 DEF InHalves, S
  <2>3. Rank(t, S, j - 1) + 1 <= Rank(t, S, a) /\ Rank(t, S, j - 1) \in Nat
    BY <2>1, <2>2, RankOrder
  <2> QED
    BY <1>5, <2>3
<1>9. ~InHalves(t, a) => Rank(t, S, a) + 1 \notin MatchLines(t, a)
  BY <1>8 DEF MatchLines, S
<1> QED
  BY <1>1, <1>5, <1>6, <1>7, <1>9 DEF S

LEMMA ReadLineRight ==
  ASSUME TypeInv, ReadingInv, ReadLine
  PROVE  ReadingInv'
<1> DEFINE t == text[file]
           e == LineEnd(t, at)
           S == IterBreaks
           hit == Hit(SubSeq(t, at + 1, e))
           half == InHalves(t, at)
<1>1. /\ step = "read" /\ at < Len(t) /\ at' = e /\ line_no' = line_no + 1
      /\ match_count' = (IF hit THEN match_count + 1 ELSE match_count)
      /\ first_match_line' = (IF hit /\ first_match_line = 0 THEN line_no' ELSE first_match_line)
      /\ halves' = (IF half THEN halves + 1 ELSE halves)
      /\ UNCHANGED <<text, file, step>>
  BY DEF ReadLine, server
<1>2. t \in Texts /\ at \in Nat /\ Len(t) \in Nat /\ halves \in Nat /\ halves' \in Nat
  <2>1. file \in Files /\ halves \in Nat
    BY <1>1 DEF TypeInv, TypeOK
  <2> QED
    BY <1>1, <2>1, TextDomain DEF TypeInv, TypeOK
<1>3. /\ line_no = Begun(t, at) + halves
      /\ match_count \in Cardinality(MatchLines(t, at))..Cardinality(MatchLines(t, at)) + halves
      /\ first_match_line = 0 => \A k \in 1..at : t[k] # "q"
      /\ first_match_line # 0 =>
           \E i \in 1..at : FirstMatch(t, i) /\ Near(t, i, first_match_line, halves)
  BY <1>1 DEF ReadingInv
<1>5. text'[file'] = t
  BY <1>1
<1> HIDE DEF t, e
<1>6. /\ e \in at + 1..Len(t)
      /\ Begun(t, e) = Rank(t, S, at) + 1
      /\ Rank(t, S, at) \in Nat
      /\ \A k \in at + 1..e : Rank(t, S, k - 1) = Rank(t, S, at)
      /\ MatchLines(t, e) = MatchLines(t, at) \cup
           {k \in {Rank(t, S, at) + 1} : \E j \in at + 1..e : t[j] = "q"}
      /\ ~half => Rank(t, S, at) + 1 \notin MatchLines(t, at)
  BY <1>1, <1>2, LineIsCounted DEF e
<1>7. hit <=> \E k \in at + 1..e : t[k] = "q"
  BY <1>2, <1>6, LineHits
<1>8. /\ IsFiniteSet(MatchLines(t, at)) /\ Cardinality(MatchLines(t, at)) \in Nat
      /\ Cardinality(MatchLines(t, e)) \in Nat
  BY <1>2, MatchLinesAreLines
<1>10. line_no' = Begun(t, e) + halves'
  <2>1. Begun(t, at) = Rank(t, S, at) + (IF half THEN 1 ELSE 0)
    BY DEF Begun
  <2> HIDE DEF half
  <2> QED
    BY <1>1, <1>2, <1>3, <1>6, <2>1
<1> HIDE DEF S, hit, half
<1>9. match_count' \in Cardinality(MatchLines(t, e))..Cardinality(MatchLines(t, e)) + halves'
  <2> DEFINE M == MatchLines(t, at)
             x == Rank(t, S, at) + 1
             c == Cardinality(M)
             d == Cardinality(MatchLines(t, e))
  <2>1. c \in Nat /\ d \in Nat /\ match_count \in c..c + halves
    BY <1>3, <1>8
  <2>2. CASE hit
    <3>1. MatchLines(t, e) = M \cup {x}
      BY <1>6, <1>7, <2>2
    <3>2. IsFiniteSet(M) /\ (~half => x \notin M)
      BY <1>6, <1>8
    <3> HIDE DEF M, x
    <3>3. (x \notin M => d = c + 1) /\ (x \in M => d = c)
      <4>1. x \in M => M \cup {x} = M
        OBVIOUS
      <4> QED
        BY <3>1, <3>2, <4>1, FS_AddElement
    <3> HIDE DEF c, d
    <3>4. match_count' = match_count + 1 /\ halves' = IF half THEN halves + 1 ELSE halves
      BY <1>1, <2>2
    <3>5. match_count' \in d..d + halves'
      BY <1>2, <2>1, <3>2, <3>3, <3>4
    <3> QED
      BY <3>5 DEF d
  <2>3. CASE ~hit
    <3>1. d = c
      BY <1>6, <1>7, <2>3
    <3> HIDE DEF c, d
    <3>2. match_count' = match_count /\ halves' = IF half THEN halves + 1 ELSE halves
      BY <1>1, <2>3
    <3>3. match_count' \in d..d + halves'
      BY <1>2, <2>1, <3>1, <3>2
    <3> QED
      BY <3>3 DEF d
  <2> QED
    BY <2>2, <2>3
<1>11. \A k \in 1..e : k \in 1..at \/ k \in at + 1..e
  BY <1>2, <1>6
<1>12. CASE first_match_line # 0
  <2>1. first_match_line' = first_match_line
    BY <1>1, <1>12
  <2>2. \A k \in 1..at : k \in 1..e
    BY <1>2, <1>6
  <2>3. PICK i \in 1..at : FirstMatch(t, i) /\ Near(t, i, first_match_line, halves)
    BY <1>3, <1>12
  <2>4. Near(t, i, first_match_line, halves')
    <3>1. i - 1 \in Nat
      BY <1>2
    <3>2. Rank(t, IterBreaks, i - 1) \in Nat
      <4>1. i - 1 <= i - 1
        BY <3>1
      <4> QED
        BY <1>2, <3>1, <4>1, RankOrder
    <3>3. halves <= halves'
      BY <1>1, <1>2
    <3> QED
      BY <1>2, <2>3, <3>2, <3>3 DEF Near
  <2> QED
    BY <1>1, <1>5, <1>9, <1>10, <1>12, <2>1, <2>2, <2>3, <2>4 DEF ReadingInv, S
<1>13. CASE first_match_line = 0 /\ ~hit
  <2>1. first_match_line' = 0
    BY <1>1, <1>13
  <2>2. \A k \in 1..e : t[k] # "q"
    BY <1>3, <1>7, <1>11, <1>13
  <2> QED
    BY <1>1, <1>5, <1>9, <1>10, <2>1, <2>2 DEF ReadingInv, S
<1>14. CASE first_match_line = 0 /\ hit
  <2> DEFINE Q == {k \in at + 1..e : t[k] = "q"}
  <2>1. Q \subseteq Nat /\ Q # {}
    BY <1>2, <1>7, <1>14
  <2>2. PICK i \in Q : \A k \in Q : ~ (<<k, i>> \in OpToRel(<, Nat))
    <3> HIDE DEF Q
    <3> QED
      BY <2>1, NatLessThanWellFounded, WFMin
  <2>3. ASSUME NEW k \in Q, k < i
        PROVE  FALSE
    <3>1. <<k, i>> \in OpToRel(<, Nat)
      BY <2>1, <2>3 DEF OpToRel
    <3> QED
      BY <2>2, <3>1
  <2>4. i \in at + 1..e /\ i \in 1..e /\ i \in DOMAIN t /\ i \in Nat /\ t[i] = "q"
    BY <1>2, <1>6, TextDomain
  <2>5. ASSUME NEW k \in 1..i - 1
        PROVE  t[k] # "q"
    <3>1. k \in 1..e /\ k < i
      BY <1>2, <1>6, <2>4
    <3>2. CASE k \in 1..at
      BY <1>3, <1>14, <3>2
    <3>3. CASE k \in at + 1..e
      BY <2>3, <3>1, <3>3
    <3> QED
      BY <1>11, <3>1, <3>2, <3>3
  <2>6. FirstMatch(t, i)
    BY <2>4, <2>5 DEF FirstMatch
  <2>7. /\ first_match_line' = line_no' /\ line_no' = Rank(t, S, i - 1) + 1 + halves'
        /\ Rank(t, S, i - 1) \in Nat
    BY <1>1, <1>6, <1>10, <1>14, <2>4
  <2>8. first_match_line' # 0 /\ Near(t, i, first_match_line', halves')
    BY <1>2, <2>7 DEF Near, S
  <2>9. \E j \in 1..e : FirstMatch(t, j) /\ Near(t, j, first_match_line', halves')
    BY <2>4, <2>6, <2>8
  <2> QED
    BY <1>1, <1>5, <1>9, <1>10, <2>8, <2>9 DEF ReadingInv, S
<1> QED
  BY <1>12, <1>13, <1>14

LEMMA OpenRight ==
  ASSUME TypeInv, OpenFile
  PROVE  ReadingInv'
<1> SUFFICES ASSUME step' = "read"
             PROVE  ReadingInv'
  BY DEF ReadingInv
<1> DEFINE t == text[file]
<1>1. /\ at' = 0 /\ line_no' = 0 /\ first_match_line' = 0 /\ match_count' = 0 /\ halves' = 0
      /\ UNCHANGED <<text, file>>
  BY DEF OpenFile, server
<1>2. t \in Texts
  BY DEF OpenFile, TypeInv, TypeOK
<1>3. \A k \in DOMAIN t : k \in Nat /\ k > 0
  BY <1>2, TextDomain
<1>4. text'[file'] = t
  BY <1>1
<1> HIDE DEF t
<1>5. Begun(t, 0) = 0 /\ Cardinality(MatchLines(t, 0)) = 0
  <2>1. {c \in Breaks(t, IterBreaks) : c <= 0} = {}
    BY <1>3 DEF Breaks
  <2>2. {j \in DOMAIN t : j <= 0 /\ t[j] = "q"} = {}
    BY <1>3
  <2>3. MatchLines(t, 0) = {}
    BY <2>2 DEF MatchLines
  <2> QED
    BY <2>1, <2>3, FS_EmptySet DEF Rank, Begun, InHalves
<1> QED
  BY <1>1, <1>4, <1>5 DEF ReadingInv

(* A file that has been read to its end gets its result.                   *)
LEMMA EndOfFileRight ==
  ASSUME TypeInv, GrownInv, ReadingInv, HitsInv, EndOfFile
  PROVE  HitsInv'
<1> DEFINE t == text[file]
           h == [path |-> file, line |-> first_match_line, match_count |-> match_count,
                 root |-> Turn, halves |-> halves]
           n == Len(search_hits)
<1>1. /\ step = "read" /\ at = Len(t) /\ UNCHANGED <<text, before, same, request>>
      /\ IF first_match_line # 0 THEN search_hits' = Append(search_hits, h)
                                 ELSE search_hits' = search_hits
  BY DEF EndOfFile, AddHit, server
<1>2. t \in Texts /\ file \in Files /\ before[file] \in Texts /\ halves \in Nat
  BY <1>1 DEF TypeInv, TypeOK
<1>3. CASE first_match_line = 0
  BY <1>1, <1>3 DEF HitsInv
<1>4. CASE first_match_line # 0
  <2>1. match_count \in Cardinality(MatchLines(t, Len(t)))..Cardinality(MatchLines(t, Len(t))) + halves
    BY <1>1 DEF ReadingInv
  <2>2. PICK i \in 1..Len(t) : FirstMatch(t, i) /\ Near(t, i, first_match_line, halves)
    BY <1>1, <1>4 DEF ReadingInv
  <2>3. file \in same => RightHit(h, before[file], t)
    <3> SUFFICES ASSUME file \in same PROVE RightHit(h, before[file], t)
      OBVIOUS
    <3> DEFINE s == before[file]
    <3>1. Grown(s, t)
      BY DEF GrownInv
    <3> HIDE DEF s, t
    <3>2. MatchLines(s, Len(s)) \in SUBSET MatchLines(t, Len(t))
      BY <1>2, <3>1, GrownKeeps DEF s
    <3>3. /\ Cardinality(MatchLines(s, Len(s))) \in Nat /\ Cardinality(MatchLines(t, Len(t))) \in Nat
          /\ IsFiniteSet(MatchLines(t, Len(t)))
      BY <1>2, MatchLinesAreLines DEF s
    <3>4. Cardinality(MatchLines(s, Len(s))) <= Cardinality(MatchLines(t, Len(t)))
      BY <3>2, <3>3, FS_Subset
    <3>5. match_count \in
            Cardinality(MatchLines(s, Len(s)))..Cardinality(MatchLines(t, Len(t))) + halves
      BY <1>2, <2>1, <3>3, <3>4
    <3>6. i \in DOMAIN t
      BY <2>2 DEF FirstMatch
    <3> QED
      BY <2>2, <3>5, <3>6 DEF RightHit, s
  <2>4. search_hits' = Append(search_hits, h) /\ search_hits \in Hits
    BY <1>1, <1>4 DEF TypeInv, TypeOK, Hits, HitOf
  <2>5. /\ n \in Nat /\ DOMAIN search_hits = 1..n /\ DOMAIN search_hits' = 1..n + 1
        /\ search_hits'[n + 1] = h
        /\ \A j \in 1..n : search_hits'[j] = search_hits[j]
    BY <2>4 DEF Hits
  <2>6. h.path = file
    OBVIOUS
  <2> HIDE DEF h, n, t
  <2>7. \A j \in 1..n + 1 : j \in 1..n \/ j = n + 1
    BY <2>5
  <2>8. ASSUME NEW j \in 1..n + 1, search_hits'[j].path \in same, request.query # ""
        PROVE  RightHit(search_hits'[j], before[search_hits'[j].path], text[search_hits'[j].path])
    BY <2>3, <2>5, <2>6, <2>7, <2>8 DEF HitsInv, t
  <2> QED
    BY <1>1, <2>5, <2>8 DEF HitsInv
<1> QED
  BY <1>3, <1>4

(* A result stays right while its file grows.                              *)
LEMMA RightHitStays ==
  ASSUME NEW h, NEW s \in Texts, NEW t \in Texts, NEW u \in Texts, Grown(t, u), RightHit(h, s, t),
         h.halves \in Nat
  PROVE  RightHit(h, s, u)
<1> DEFINE S == IterBreaks
<1>1. PICK i \in DOMAIN t : FirstMatch(t, i) /\ Near(t, i, h.line, h.halves)
  BY DEF RightHit
<1>2. i - 1 \in Nat /\ i - 1 <= Len(t)
  BY TextDomain
<1>3. FirstMatch(u, i) /\ Rank(u, S, i - 1) = Rank(t, S, i - 1)
  BY <1>1, <1>2, GrownKeeps
<1>4. MatchLines(t, Len(t)) \in SUBSET MatchLines(u, Len(u))
  BY GrownKeeps
<1>5. /\ Cardinality(MatchLines(s, Len(s))) \in Nat /\ Cardinality(MatchLines(t, Len(t))) \in Nat
      /\ Cardinality(MatchLines(u, Len(u))) \in Nat /\ IsFiniteSet(MatchLines(u, Len(u)))
  BY MatchLinesAreLines
<1>6. Cardinality(MatchLines(t, Len(t))) <= Cardinality(MatchLines(u, Len(u)))
  BY <1>4, <1>5, FS_Subset
<1>7. h.match_count \in
        Cardinality(MatchLines(s, Len(s)))..Cardinality(MatchLines(u, Len(u))) + h.halves
  <2>1. h.match_count \in
          Cardinality(MatchLines(s, Len(s)))..Cardinality(MatchLines(t, Len(t))) + h.halves
    BY DEF RightHit
  <2> QED
    BY <1>5, <1>6, <2>1
<1> QED
  BY <1>1, <1>3, <1>7 DEF RightHit, FirstMatch, Near, S

LEMMA HitsAreTyped ==
  ASSUME TypeOK
  PROVE  \A i \in DOMAIN search_hits :
           /\ search_hits[i].halves \in Nat
           /\ search_hits[i].root \in DOMAIN SearchDirs(request)
<1>1. search_hits \in Seq(HitOf(Len(SearchDirs(request))))
  BY DEF TypeOK, HitOf
<1>2. \A n : \A h \in HitOf(n) : h.halves \in Nat /\ h.root \in 1..n
  BY DEF HitOf
<1>3. DOMAIN SearchDirs(request) = 1..Len(SearchDirs(request))
  <2>1. DOMAIN Roots = 1..Len(Roots)
    BY GrepAssumption
  <2>2. \A d : DOMAIN <<d>> = 1..Len(<<d>>)
    OBVIOUS
  <2> QED
    BY <2>1, <2>2 DEF SearchDirs
<1> HIDE DEF SearchDirs
<1> QED
  BY <1>1, <1>2, <1>3

LEMMA ServerRight ==
  ASSUME TypeInv, GrownInv, ReadingInv, HitsInv, NEW g \in Files,
         \/ Unlink(g)
         \/ \E w \in Written : AppendTo(g, w)
         \/ \E t \in InitialTexts : Create(g, t)
  PROVE  GrownInv' /\ ReadingInv' /\ HitsInv'
<1>1. /\ UNCHANGED <<before, request, walk, reading, search_hits, truncated, step, answer>>
      /\ same' \subseteq same
  BY DEF Unlink, AppendTo, Create, Changed
<1>2. /\ \A f \in Files : text'[f] \in Texts
      /\ \A f \in Files : f \in same' \/ (step = "read" /\ f = file) => Grown(text[f], text'[f])
  BY ServerGrows DEF TypeInv
<1>3. /\ \A f \in Files : text[f] \in Texts /\ before[f] \in Texts
      /\ same \subseteq Files
  BY DEF TypeInv, TypeOK
<1>4. GrownInv'
  BY <1>1, <1>2, <1>3, GrownTwice DEF GrownInv
<1>5. ReadingInv'
  <2> SUFFICES ASSUME step = "read"
               PROVE  ReadingInv'
    BY <1>1 DEF ReadingInv
  <2> DEFINE t == text[file]
             u == text'[file]
             S == IterBreaks
  <2>1. file \in Files /\ t \in Texts /\ u \in Texts /\ Grown(t, u) /\ at \in 0..Len(t)
    BY <1>2, <1>3 DEF TypeInv, TypeOK
  <2>2. /\ line_no = Begun(t, at) + halves
        /\ match_count \in Cardinality(MatchLines(t, at))..Cardinality(MatchLines(t, at)) + halves
        /\ first_match_line = 0 => \A k \in 1..at : t[k] # "q"
        /\ first_match_line # 0 =>
             \E i \in 1..at : FirstMatch(t, i) /\ Near(t, i, first_match_line, halves)
    BY DEF ReadingInv
  <2>3. text'[file'] = u /\ UNCHANGED reading
    BY <1>1 DEF reading
  <2> HIDE DEF t, u
  <2>4. /\ Len(t) \in Nat /\ DOMAIN t = 1..Len(t)
    BY <2>1, TextDomain
  <2>5. \A k \in 1..at : k \in DOMAIN t /\ u[k] = t[k] /\ k - 1 \in Nat /\ k - 1 <= Len(t)
    BY <2>1, <2>4 DEF Grown
  <2>6. InHalves(u, at) <=> InHalves(t, at)
    <3>1. at > 0 => at \in 1..at
      BY <2>1, <2>4
    <3> QED
      BY <2>5, <3>1 DEF InHalves
  <2>7. at \in Nat /\ at <= Len(t)
    BY <2>1, <2>4
  <2>8. Rank(u, S, at) = Rank(t, S, at) /\ MatchLines(u, at) = MatchLines(t, at)
    BY <2>1, <2>7, GrownKeeps
  <2>9. \A i \in 1..at : /\ Rank(u, S, i - 1) = Rank(t, S, i - 1)
                         /\ FirstMatch(t, i) => FirstMatch(u, i)
    BY <2>1, <2>5, GrownKeeps
  <2>10. first_match_line = 0 => \A k \in 1..at : u[k] # "q"
    BY <2>2, <2>5
  <2>11. first_match_line # 0 =>
           \E i \in 1..at : FirstMatch(u, i) /\ Near(u, i, first_match_line, halves)
    BY <2>2, <2>9 DEF Near, S
  <2>12. Begun(u, at) = Begun(t, at)
    BY <2>6, <2>8 DEF Begun, S
  <2> QED
    BY <2>2, <2>3, <2>8, <2>10, <2>11, <2>12 DEF ReadingInv, reading
<1>6. HitsInv'
  <2> SUFFICES ASSUME NEW i \in DOMAIN search_hits, search_hits[i].path \in same',
                      request.query # ""
               PROVE  RightHit(search_hits[i], before[search_hits[i].path],
                               text'[search_hits[i].path])
    BY <1>1 DEF HitsInv
  <2> DEFINE h == search_hits[i]
             f == search_hits[i].path
  <2>1. f \in same /\ f \in Files
    BY <1>1, <1>3
  <2>2. RightHit(h, before[f], text[f])
    BY <2>1 DEF HitsInv
  <2>3. before[f] \in Texts /\ text[f] \in Texts /\ text'[f] \in Texts /\ Grown(text[f], text'[f])
    BY <1>2, <1>3, <2>1
  <2>5. h.halves \in Nat
    BY HitsAreTyped DEF TypeInv
  <2> HIDE DEF h, f
  <2>4. RightHit(h, before[f], text'[f])
    BY <2>2, <2>3, <2>5, RightHitStays
  <2> QED
    BY <2>4 DEF h, f
<1> QED
  BY <1>4, <1>5, <1>6

-----------------------------------------------------------------------------
(* Where the walk is, and what it finds there, belongs to the search.      *)
LEMMA BeginTrack ==
  ASSUME TypeInv, NEW r \in Requests, Begin(r)
  PROVE  OnTrack'
<1>1. /\ search_hits' = <<>> /\ names' = {} /\ ~Looking' /\ DOMAIN search_hits' = {}
      /\ step' \in {"walk", "answered"}
  BY DEF Begin, Looking
<1>2. ASSUME step' = "walk"
      PROVE  ToSet(pending') \subseteq Walked(top', top')
  <2>1. pending' = <<top'>>
    BY <1>2 DEF Begin
  <2>2. top' \in Dirs
    <3>1. TypeInv'
      BY BeginType
    <3>2. /\ SearchDirs(request)' \in Seq(Dirs) /\ Turn' \in 1..Len(SearchDirs(request)')
          /\ top' = SearchDirs(request)'[Turn']
      BY <1>2, <3>1 DEF TypeInv, OnTurn
    <3> QED
      BY <3>2
  <2> QED
    BY <2>1, <2>2, OneApart, WalkedRoot
<1> QED
  BY <1>1, <1>2 DEF OnTrack

LEMMA TopThere ==
  ASSUME TypeInv, step # "answered"
  PROVE  /\ SearchDirs(request) \in Seq(Dirs) /\ Turn \in DOMAIN SearchDirs(request)
         /\ top = SearchDirs(request)[Turn] /\ top \in Dirs
<1>1. /\ SearchDirs(request) \in Seq(Dirs) /\ Turn \in 1..Len(SearchDirs(request))
      /\ top = SearchDirs(request)[Turn]
  BY DEF TypeInv, OnTurn
<1> HIDE DEF SearchDirs
<1> QED
  BY <1>1

(* The results stay as they are.                                           *)
LEMMA SameTrack ==
  ASSUME OnTrack, UNCHANGED <<request, search_hits>>
  PROVE  \A i \in DOMAIN search_hits' :
           search_hits'[i].path \in Sought(request', SearchDirs(request)'[search_hits'[i].root])
<1>1. SearchDirs(request)' = SearchDirs(request)
  BY SearchDirsStay
<1> QED
  BY <1>1 DEF OnTrack

(* A result is added for a file that is sought from here.                  *)
LEMMA HitTrack ==
  ASSUME TypeInv, step # "answered", OnTrack, UNCHANGED request,
         NEW f \in Sought(request, top), NEW line, NEW count, AddHit(f, line, count)
  PROVE  \A i \in DOMAIN search_hits' :
           search_hits'[i].path \in Sought(request, SearchDirs(request)[search_hits'[i].root])
<1> DEFINE h == [path |-> f, line |-> line, match_count |-> count, root |-> Turn, halves |-> halves]
           n == Len(search_hits)
<1>1. search_hits' = Append(search_hits, h) /\ search_hits \in Hits
  BY DEF AddHit, TypeInv, TypeOK, Hits, HitOf
<1>2. /\ n \in Nat /\ DOMAIN search_hits = 1..n /\ DOMAIN search_hits' = 1..n + 1
      /\ search_hits'[n + 1] = h
      /\ \A i \in 1..n : search_hits'[i] = search_hits[i]
  BY <1>1 DEF Hits
<1>3. h.path = f /\ h.root = Turn /\ top = SearchDirs(request)[Turn]
  BY TopThere
<1> HIDE DEF h, n
<1>4. \A i \in 1..n + 1 : i \in 1..n \/ i = n + 1
  BY <1>2
<1> QED
  BY <1>2, <1>3, <1>4 DEF OnTrack

LEMMA ListDirectoryTrack ==
  ASSUME TypeInv, OnTrack, ListDirectory
  PROVE  OnTrack'
<1> DEFINE d == Head(pending)
           rest == Tail(pending)
<1>1. /\ step = "walk" /\ step' = step /\ UNCHANGED <<request, top, search_hits>>
      /\ pending # <<>> /\ pending \in Seq(Dirs) /\ ~Looking'
  BY DEF ListDirectory, TypeInv, TypeOK, Looking
<1>2. d \in Dirs /\ rest \in Seq(Dirs) /\ ToSet(pending) = {d} \cup ToSet(rest)
  BY <1>1, HeadAndTail, HeadOrTail
<1>3. /\ top \in Dirs /\ ToSet(pending) \subseteq Walked(top, top)
      /\ \A f \in names : Parent[f] \in Walked(top, top)
  BY <1>1, TopThere DEF OnTrack
<1>4. /\ ToSet(pending') \subseteq Walked(top, top)
      /\ \A f \in names' : Parent[f] \in Walked(top, top)
  <2>1. CASE d \in locked
    <3>1. pending' = rest /\ names' = names
      BY <2>1 DEF ListDirectory
    <3> HIDE DEF d, rest
    <3> QED
      BY <1>2, <1>3, <3>1
  <2>2. CASE d \notin locked
    <3>1. PICK order \in SetToSeqs(SubDirs(d)) : pending' = order \o rest
      BY <2>2 DEF ListDirectory
    <3>2. names' = {f \in present : Parent[f] = d}
      BY <2>2 DEF ListDirectory
    <3>3. SubDirs(d) \subseteq Walked(top, top)
      BY <1>2, <1>3, WalkedRoot DEF SubDirs, Follows
    <3>4. ToSet(order) = SubDirs(d) /\ order \in Seq(Dirs)
      <4>1. SubDirs(d) \in SUBSET Dirs /\ IsFiniteSet(Dirs)
        BY GrepAssumption DEF SubDirs
      <4>2. IsFiniteSet(SubDirs(d))
        BY <4>1, FS_Subset
      <4> QED
        BY <4>2, OrderHasAll, OrderOfSubDirs
    <3> HIDE DEF d, rest
    <3>5. ToSet(pending') \subseteq ToSet(order) \cup ToSet(rest)
      BY <1>2, <3>1, <3>4, Concat
    <3> QED
      BY <1>2, <1>3, <3>2, <3>3, <3>4, <3>5
  <2> QED
    BY <2>1, <2>2
<1> QED
  BY <1>1, <1>4, SameTrack DEF OnTrack

LEMMA NextSearchDirTrack ==
  ASSUME TypeInv, OnTrack, NextSearchDir \/ Enough
  PROVE  OnTrack'
<1>1. /\ step = "walk" /\ UNCHANGED <<request, search_hits, names>>
      /\ step' \in {"walk", "answered"} /\ ~Looking'
  BY DEF NextSearchDir, Enough, Finish, walk, Looking
<1>2. CASE step' = "answered"
  BY <1>1, <1>2, SameTrack DEF OnTrack
<1>3. CASE step' # "answered"
  <2>1. /\ search_dirs # <<>> /\ top' = Head(search_dirs) /\ names' = {}
        /\ pending' = <<top'>> /\ search_dirs \in Seq(Dirs)
    BY <1>3 DEF NextSearchDir, Enough, Finish, TypeInv, TypeOK
  <2>2. top' \in Dirs /\ ToSet(pending') = {top'}
    BY <2>1, HeadAndTail, OneApart
  <2>3. top' \in Walked(top', top')
    BY <2>2, WalkedRoot
  <2> QED
    BY <1>1, <2>1, <2>2, <2>3, SameTrack DEF OnTrack
<1> QED
  BY <1>2, <1>3

LEMMA ConsiderTrack ==
  ASSUME TypeInv, OnTrack, NEW f \in Files, Consider(f)
  PROVE  OnTrack'
<1>1. /\ step = "walk" /\ f \in names /\ names' = names \ {f}
      /\ UNCHANGED <<request, search_dirs, top, pending>>
  BY DEF Consider
<1>2. SearchDirs(request)' = SearchDirs(request)
  BY <1>1, SearchDirsStay
<1>3. ~Skipped(f) => f \in Sought(request, top)
  <2>1. top \in Dirs /\ Parent[f] \in Walked(top, top)
    BY <1>1, TopThere DEF OnTrack
  <2> QED
    BY <2>1 DEF Skipped, Reached, Sought
<1>4. /\ ToSet(pending') \subseteq Walked(top', top')
      /\ \A g \in names' : Parent[g] \in Walked(top', top')
  BY <1>1 DEF OnTrack
<1>5. CASE UNCHANGED <<search_hits, file, step>>
  BY <1>1, <1>2, <1>4, <1>5, SameTrack DEF OnTrack, Looking
<1>6. CASE ~Skipped(f) /\ AddHit(f, 0, 0) /\ UNCHANGED <<file, step>>
  <2>1. \A i \in DOMAIN search_hits' :
          search_hits'[i].path \in Sought(request, SearchDirs(request)[search_hits'[i].root])
    BY <1>1, <1>3, <1>6, HitTrack
  <2>2. \A i \in DOMAIN search_hits' :
          search_hits'[i].path \in Sought(request', SearchDirs(request)'[search_hits'[i].root])
    BY <1>1, <1>2, <2>1
  <2> QED
    BY <1>1, <1>4, <1>6, <2>2 DEF OnTrack, Looking
<1>7. CASE ~Skipped(f) /\ file' = f /\ step' = "binary" /\ UNCHANGED search_hits
  <2>1. file' \in Sought(request', top')
    BY <1>1, <1>3, <1>7
  <2> QED
    BY <1>1, <1>4, <1>7, <2>1, SameTrack DEF OnTrack
<1> QED
  BY <1>5, <1>6, <1>7 DEF Consider

LEMMA FileTrack ==
  ASSUME TypeInv, OnTrack, BinaryCheck \/ OpenFile \/ ReadLine \/ EndOfFile
  PROVE  OnTrack'
<1>1. /\ UNCHANGED <<request, walk, file>> /\ Looking /\ step' # "answered" /\ step # "answered"
  BY DEF BinaryCheck, OpenFile, ReadLine, EndOfFile, reading, Looking
<1>2. /\ ToSet(pending') \subseteq Walked(top', top')
      /\ \A g \in names' : Parent[g] \in Walked(top', top')
      /\ file \in Sought(request, top)
  BY <1>1 DEF OnTrack, walk
<1>3. file' \in Sought(request', top')
  BY <1>1, <1>2 DEF walk
<1>4. CASE UNCHANGED search_hits
  BY <1>1, <1>2, <1>3, <1>4, SameTrack DEF OnTrack
<1>5. CASE EndOfFile /\ ~UNCHANGED search_hits
  <2>1. AddHit(file, first_match_line, match_count)
    BY <1>5 DEF EndOfFile
  <2>2. \A i \in DOMAIN search_hits' :
          search_hits'[i].path \in Sought(request, SearchDirs(request)[search_hits'[i].root])
    BY <1>1, <1>2, <2>1, HitTrack
  <2>3. SearchDirs(request)' = SearchDirs(request)
    BY <1>1, SearchDirsStay
  <2>4. \A i \in DOMAIN search_hits' :
          search_hits'[i].path \in Sought(request', SearchDirs(request)'[search_hits'[i].root])
    BY <1>1, <2>2, <2>3
  <2> QED
    BY <1>1, <1>2, <1>3, <2>4 DEF OnTrack
<1> QED
  BY <1>4, <1>5 DEF BinaryCheck, OpenFile, ReadLine

LEMMA ElsewhereTrack ==
  ASSUME OnTrack, UNCHANGED <<request, walk, file, step, search_hits>>
  PROVE  OnTrack'
<1>1. Looking' <=> Looking
  BY DEF Looking
<1>2. Looking => file' \in Sought(request', top')
  BY DEF OnTrack, walk
<1> QED
  BY <1>1, <1>2, SameTrack DEF OnTrack, walk

LEMMA StepTrack == TypeInv /\ OnTrack /\ [Next]_vars => OnTrack'
<1> SUFFICES ASSUME TypeInv, OnTrack, [Next]_vars PROVE OnTrack'
  OBVIOUS
<1>1. CASE \/ UNCHANGED vars
           \/ \E f \in Files : Unlink(f) \/ \E w \in Written : AppendTo(f, w)
           \/ \E f \in Files, t \in InitialTexts : Create(f, t)
           \/ \E x \in Lockable : Chmod(x)
  <2>1. UNCHANGED <<request, walk, file, step, search_hits>>
    BY <1>1 DEF Unlink, AppendTo, Create, Chmod, Changed, vars, reading
  <2> QED
    BY <2>1, ElsewhereTrack
<1> QED
  BY <1>1, BeginTrack, ListDirectoryTrack, NextSearchDirTrack, ConsiderTrack, FileTrack DEF Next

LEMMA InitTrack == Init => OnTrack
<1> SUFFICES ASSUME Init PROVE OnTrack
  OBVIOUS
<1>1. step = "answered" /\ search_hits = <<>> /\ ~Looking /\ DOMAIN search_hits = {}
  BY DEF Init, Looking
<1> QED
  BY <1>1 DEF OnTrack

(* In a tree, whatever the roots, a file has at most one result for each of*)
(* the directories searched, and the walk of that directory comes to it    *)
(* (service.py 314-381).                                                   *)
THEOREM OneResultEach ==
  ASSUME IsTree
  PROVE  Spec => []OneResultPerRoot
<1>1. Init => WalkInv
  BY DEF Init, WalkInv, ResultsApart
<1>2. TypeInv /\ WalkInv /\ [Next]_vars => WalkInv'
  <2> SUFFICES ASSUME TypeInv, WalkInv, [Next]_vars PROVE WalkInv'
    OBVIOUS
  <2>1. TypeOK
    BY DEF TypeInv
  <2>2. CASE \/ UNCHANGED vars
             \/ \E f \in Files : Unlink(f) \/ \E w \in Written : AppendTo(f, w)
             \/ \E f \in Files, t \in InitialTexts : Create(f, t)
             \/ \E x \in Lockable : Chmod(x)
    BY <2>2, ElsewhereWalk
  <2>3. CASE Enough
    BY <2>3, ElsewhereWalk
  <2>4. CASE ListDirectory
    BY <2>1, <2>4, ListDirectoryWalk
  <2> QED
    BY <2>2, <2>3, <2>4, BeginWalk, NextSearchDirWalk, ConsiderWalk, FileWalk DEF Next
<1>3. WalkInv /\ OnTrack => OneResultPerRoot
  BY DEF WalkInv, ResultsApart, OnTrack, Sought, OneResultPerRoot
<1> QED
  BY <1>1, <1>2, <1>3, InitType, StepType, InitTrack, StepTrack, PTL DEF Spec

-----------------------------------------------------------------------------
(* What the counters come to, said of the lines of the text.               *)
LEMMA RightHitShows ==
  ASSUME NEW h, NEW s \in Texts, NEW t \in Texts, RightHit(h, s, t),
         h.path \in Files, s = before[h.path], t = text[h.path], h.halves \in Nat
  PROVE  FirstMatchIsNear(h) /\ ReadFileShows(h) /\ CountIsRight(h)
<1> DEFINE S == IterBreaks
           R == SplitBreaks
           lines == LinesOf(t, S)
           split == LinesOf(t, R)
<1>1. PICK i \in DOMAIN t : FirstMatch(t, i) /\ Near(t, i, h.line, h.halves)
  BY DEF RightHit
<1>2. /\ "q" \notin S /\ "q" \notin R
      /\ t[i] = "q" /\ i \in Nat /\ i > 0 /\ i - 1 \in Nat /\ DOMAIN t = 1..Len(t) /\ Len(t) \in Nat
      /\ \A k \in 1..i - 1 : t[k] # "q"
  BY <1>1, TextDomain DEF FirstMatch, IterBreaks, SplitBreaks
<1> HIDE DEF S, R
<1>3. /\ DOMAIN lines = 1..LineCount(t, S)
      /\ \A j \in DOMAIN t : t[j] = "q" => Rank(t, S, j - 1) + 1 \in 1..LineCount(t, S)
      /\ \A k \in 1..LineCount(t, S) :
           Hit(lines[k]) <=> \E j \in DOMAIN t : t[j] = "q" /\ Rank(t, S, j - 1) + 1 = k
  <2>1. "q" \notin S /\ "q" \notin R
    BY <1>2
  <2> QED
    BY <2>1, LinesThatHit
<1>4. /\ DOMAIN split = 1..LineCount(t, R)
      /\ \A j \in DOMAIN t : t[j] = "q" => Rank(t, R, j - 1) + 1 \in 1..LineCount(t, R)
      /\ \A k \in 1..LineCount(t, R) :
           Hit(split[k]) <=> \E j \in DOMAIN t : t[j] = "q" /\ Rank(t, R, j - 1) + 1 = k
  <2>1. "q" \notin S /\ "q" \notin R
    BY <1>2
  <2> QED
    BY <2>1, LinesThatHit
<1> HIDE DEF lines, split
<1> DEFINE l == Rank(t, S, i - 1) + 1
<1>5. FirstMatchIsNear(h)
  <2>1. l \in DOMAIN lines /\ Hit(lines[l])
    BY <1>1, <1>2, <1>3
  <2>2. l <= h.line /\ h.line <= l + h.halves
    BY <1>1 DEF Near, S
  <2>3. ASSUME NEW k \in 1..l - 1, Hit(lines[k])
        PROVE  FALSE
    <3>1. LineCount(t, S) \in Nat
      BY BreaksAreFinite DEF LineCount
    <3>2. k \in 1..LineCount(t, S) /\ k < l /\ k \in Nat
      BY <1>3, <2>1, <3>1
    <3>3. PICK j \in DOMAIN t : t[j] = "q" /\ Rank(t, S, j - 1) + 1 = k
      BY <1>3, <2>3, <3>2
    <3>4. j \in Nat /\ j > 0 /\ j - 1 \in Nat
      BY <1>2
    <3>5. ~(j < i)
      <4>1. j < i => j \in 1..i - 1
        BY <1>2, <3>4
      <4> QED
        BY <1>2, <3>3, <4>1
    <3>6. i - 1 <= j - 1
      BY <1>2, <3>4, <3>5
    <3>7. Rank(t, S, i - 1) <= Rank(t, S, j - 1) /\ Rank(t, S, i - 1) \in Nat /\ Rank(t, S, j - 1) \in Nat
      BY <1>2, <3>4, <3>6, RankOrder
    <3> QED
      BY <3>2, <3>3, <3>7
  <2> HIDE DEF l
  <2> QED
    BY <2>1, <2>2, <2>3 DEF FirstMatchIsNear, lines, S
<1>6. ReadFileShows(h)
  <2> SUFFICES ASSUME ~\E b \in DOMAIN t : t[b] = "ff" /\ \A k \in 1..b : t[k] # "q",
                      h.halves = 0
               PROVE  h.line \in DOMAIN split /\ Hit(split[h.line])
    BY DEF ReadFileShows, split, R
  <2>1. \A b \in DOMAIN t : b <= i - 1 => t[b] # "ff"
    <3> SUFFICES ASSUME NEW b \in DOMAIN t, b <= i - 1 PROVE t[b] # "ff"
      OBVIOUS
    <3>1. \A k \in 1..b : k \in 1..i - 1
      BY <1>2
    <3> QED
      BY <1>2, <3>1
  <2>2. {c \in Breaks(t, R) : c <= i - 1} = {c \in Breaks(t, S) : c <= i - 1}
    BY <2>1 DEF Breaks, R, S, IterBreaks, SplitBreaks
  <2>3. Rank(t, R, i - 1) = Rank(t, S, i - 1)
    BY <2>2 DEF Rank
  <2>4. Rank(t, S, i - 1) \in Nat
    BY <1>2, RankOrder
  <2>5. h.line = Rank(t, S, i - 1) + 1
    <3> DEFINE m == Rank(t, S, i - 1)
    <3>1. h.line \in Int /\ m + 1 <= h.line /\ h.line <= m + 1 + 0
      BY <1>1 DEF Near, S
    <3>2. m \in Nat
      BY <2>4
    <3> HIDE DEF m
    <3>3. h.line = m + 1
      BY <3>1, <3>2
    <3> QED
      BY <3>3 DEF m
  <2> QED
    BY <1>1, <1>2, <1>4, <2>3, <2>5
<1>7. CountIsRight(h)
  <2>1. h.match_count \in
          Cardinality(MatchLines(s, Len(s)))..Cardinality(MatchLines(t, Len(t))) + h.halves
    BY DEF RightHit
  <2>2. MatchLines(s, Len(s)) = {k \in DOMAIN LinesOf(s, IterBreaks) : Hit(LinesOf(s, IterBreaks)[k])}
    BY MatchLinesAreLines
  <2>3. MatchLines(t, Len(t)) = {k \in DOMAIN LinesOf(t, IterBreaks) : Hit(LinesOf(t, IterBreaks)[k])}
    BY MatchLinesAreLines
  <2> QED
    BY <2>1, <2>2, <2>3 DEF CountIsRight
<1> QED
  BY <1>5, <1>6, <1>7

RightInv == GrownInv /\ ReadingInv /\ HitsInv

LEMMA StepRight == TypeInv /\ RightInv /\ [Next]_vars => RightInv'
<1> SUFFICES ASSUME TypeInv, RightInv, [Next]_vars PROVE RightInv'
  OBVIOUS
<1> USE DEF RightInv
<1>1. ASSUME NEW r \in Requests, Begin(r)
      PROVE  RightInv'
  <2>1. /\ before' = text /\ text' = text /\ same' = present /\ step' # "read"
        /\ DOMAIN search_hits' = {}
    BY <1>1 DEF Begin
  <2>2. GrownInv'
    <3>1. \A f \in present : f \in Files /\ text[f] \in Texts
      BY DEF TypeInv, TypeOK
    <3>2. \A t \in Texts : Grown(t, t)
      BY DEF Grown, Texts
    <3> QED
      BY <2>1, <3>1, <3>2 DEF GrownInv
  <2> QED
    BY <2>1, <2>2 DEF ReadingInv, HitsInv
<1>2. CASE ListDirectory \/ NextSearchDir \/ Enough
  <2>1. UNCHANGED <<text, same, before, request, search_hits>> /\ step' # "read"
    BY <1>2 DEF ListDirectory, NextSearchDir, Enough, Finish, server
  <2> QED
    BY <2>1 DEF GrownInv, ReadingInv, HitsInv
<1>3. ASSUME NEW f \in Files, Consider(f)
      PROVE  RightInv'
  <2>1. UNCHANGED <<text, same, before, request>> /\ step' # "read"
    BY <1>3 DEF Consider, server
  <2>2. request.query = "" \/ UNCHANGED search_hits
    BY <1>3 DEF Consider
  <2> QED
    BY <2>1, <2>2 DEF GrownInv, ReadingInv, HitsInv
<1>4. CASE BinaryCheck \/ OpenFile \/ ReadLine
  <2>1. UNCHANGED <<text, same, before, request, search_hits>>
    BY <1>4 DEF BinaryCheck, OpenFile, ReadLine, server
  <2>2. ReadingInv'
    <3>1. BinaryCheck => step' # "read"
      BY DEF BinaryCheck
    <3> QED
      BY <1>4, <3>1, OpenRight, ReadLineRight DEF ReadingInv
  <2> QED
    BY <2>1, <2>2 DEF GrownInv, HitsInv
<1>5. CASE EndOfFile
  <2>1. UNCHANGED <<text, same, before>> /\ step' # "read"
    BY <1>5 DEF EndOfFile, server
  <2> QED
    BY <1>5, <2>1, EndOfFileRight DEF GrownInv, ReadingInv
<1>6. ASSUME NEW g \in Files,
             \/ Unlink(g)
             \/ \E w \in Written : AppendTo(g, w)
             \/ \E t \in InitialTexts : Create(g, t)
      PROVE  RightInv'
  BY <1>6, ServerRight
<1>7. CASE UNCHANGED vars \/ \E x \in Lockable : Chmod(x)
  <2>1. UNCHANGED <<text, same, before, request, reading, step, search_hits>>
    BY <1>7 DEF vars, server, Chmod, Changed
  <2> QED
    BY <2>1 DEF reading, GrownInv, ReadingInv, HitsInv
<1> QED
  BY <1>1, <1>2, <1>3, <1>4, <1>5, <1>6, <1>7 DEF Next

(* A result names a file that the search covers; its line is that of the   *)
(* first match and stays so while the file grows, remote_read_file shows a *)
(* match under its number, and its count is that of the file at some moment*)
(* of the call, each but for the lines that were read in two parts, in any *)
(* tree, for any texts and however the files come, go, grow and change     *)
(* their modes while they are read (service.py 277-425, strings.py 43 and  *)
(* 193).                                                                   *)
THEOREM ResultsAreRight == Spec => []HitsAreRight
<1>1. Init => RightInv
  <2> SUFFICES ASSUME Init PROVE RightInv
    OBVIOUS
  <2>1. step = "answered" /\ search_hits = <<>> /\ same = {} /\ DOMAIN search_hits = {}
    BY DEF Init
  <2> QED
    BY <2>1 DEF RightInv, GrownInv, ReadingInv, HitsInv
<1>2. TypeInv /\ OnTrack /\ RightInv => HitsAreRight
  <2> SUFFICES ASSUME TypeInv, OnTrack, RightInv, NEW i \in DOMAIN search_hits
               PROVE  LET h == search_hits[i] IN
                        /\ h.path \in Wanted
                        /\ h.path \in same /\ request.query # "" =>
                             FirstMatchIsNear(h) /\ ReadFileShows(h) /\ CountIsRight(h)
    BY DEF HitsAreRight
  <2> DEFINE h == search_hits[i]
  <2>1. h.halves \in Nat /\ h.root \in DOMAIN SearchDirs(request)
    BY HitsAreTyped DEF TypeInv
  <2>2. h.path \in Wanted
    <3>1. h.path \in Sought(request, SearchDirs(request)[h.root])
      BY DEF OnTrack
    <3>2. SearchDirs(request)[h.root] \in ToSet(SearchDirs(request))
      BY <2>1 DEF ToSet
    <3> QED
      BY <3>1, <3>2 DEF Sought, Wanted, Searched
  <2>3. ASSUME h.path \in same, request.query # ""
        PROVE  FirstMatchIsNear(h) /\ ReadFileShows(h) /\ CountIsRight(h)
    <3>1. h.path \in Files /\ before[h.path] \in Texts /\ text[h.path] \in Texts
      BY <2>3 DEF TypeInv, TypeOK
    <3>2. RightHit(h, before[h.path], text[h.path])
      BY <2>3 DEF RightInv, HitsInv
    <3> HIDE DEF h
    <3> QED
      BY <2>1, <3>1, <3>2, RightHitShows
  <2> QED
    BY <2>2, <2>3
<1> QED
  BY <1>1, <1>2, InitType, StepType, InitTrack, StepTrack, StepRight, PTL DEF Spec

=============================================================================
