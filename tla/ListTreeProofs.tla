--------------------------- MODULE ListTreeProofs ---------------------------
(***************************************************************************)
(* Proofs about ListTree, for any directory, page size and bounds.         *)
(* VisitInv keeps the history of the call up with what its next access may *)
(* find; an entry that it has read and does not find again was lost.       *)
(* NodesInv, that each entry is found once, makes a page a stretch of the  *)
(* sorted listing (PageIsThere).  SkipInv keeps the ledger of what falls   *)
(* between two pages, and QuietInv says that without changes what the agent*)
(* has got is the beginning of one and the same listing.                   *)
(***************************************************************************)
EXTENDS ListTree, FiniteSetTheorems, SequenceTheorems, TLAPS

Visiting == step \in {"iterdir", "visit"}

VisitInv ==
  /\ place \in Places \cup {"outside"}
  /\ dir \in [Names -> Entry]
  /\ op \in Ops
  /\ step # "answered" => answer = "none" /\ Met(place, dir) \subseteq met
  /\ Visiting => place \in Places
  /\ step = "visit" => \A n \in todo : n \in Names /\ (dir[n] = Absent => "lost" \in met)

IInv == VisitInv /\ FailureHasCause

LEMMA MetIs ==
  ASSUME dir \in [Names -> Entry], Met(place, dir) \subseteq met
  PROVE  /\ place \in {"absent", "file"} => "gone" \in met
         /\ place = "unreadable" => "unreadable" \in met
         /\ place \in {"unsearchable", "barred"} => "barred" \in met
         /\ \A n \in Names : dir[n] = Barred => "barred" \in met
         /\ \A n \in Names : dir[n] = Dangling => "lost" \in met
BY DEF Met, Causes

LEMMA EntryIs ==
  ASSUME NEW e \in Entry
  PROVE  /\ (e.present /\ e.kind \in Kinds) \/ e \in {Absent, Dangling, Barred}
         /\ e.mtime \in 0..MaxTime
<1>1. Absent.mtime = 0 /\ Dangling.mtime = 0 /\ Barred.mtime = 0 /\ 0 \in 0..MaxTime
  BY ListAssumption DEF Absent, Dangling, Barred
<1>2. CASE e \in {Absent, Dangling, Barred}
  BY <1>1, <1>2
<1>3. CASE e \in [present : {TRUE}, kind : Kinds, mtime : 0..MaxTime]
  BY <1>3
<1> QED
  BY <1>2, <1>3 DEF Entry

LEMMA NodeOfType ==
  ASSUME dir \in [Names -> Entry], NEW n \in Names, Listed(n)
  PROVE  /\ NodeOf(n) \in Node /\ dir[n].kind \in Kinds /\ dir[n].mtime \in 0..MaxTime
         /\ NodeOf(n).name = n /\ NodeOf(n).kind = dir[n].kind /\ NodeOf(n).mtime = dir[n].mtime
<1>1. dir[n].kind \in Kinds /\ dir[n].mtime \in 0..MaxTime
  BY EntryIs DEF Listed
<1> QED
  BY <1>1 DEF NodeOf, Node

(* What a change of an entry may make of it.                               *)
LEMMA ChangeIs ==
  ASSUME dir \in [Names -> Entry], Create \/ Touch \/ Delete
  PROVE  \E n \in Names, e \in Entry :
           /\ Change(n, e)
           /\ \/ /\ deletions' = deletions
                 /\ Listed(n) => /\ e.present /\ e.kind = dir[n].kind
                                 /\ e.mtime >= dir[n].mtime
              \/ Listed(n) /\ deletions' = deletions + 1
<1>1. CASE Create
  <2>1. PICK n \in Names, k \in Kinds, t \in 0..MaxTime :
          ~Listed(n) /\ Change(n, [present |-> TRUE, kind |-> k, mtime |-> t])
    BY <1>1 DEF Create
  <2>2. [present |-> TRUE, kind |-> k, mtime |-> t] \in Entry
    BY DEF Entry
  <2> QED
    BY <1>1, <2>1, <2>2 DEF Create
<1>2. CASE Touch
  <2>1. PICK n \in Names, t \in 0..MaxTime :
          Listed(n) /\ t > dir[n].mtime /\ Change(n, [dir[n] EXCEPT !.mtime = t])
    BY <1>2 DEF Touch
  <2>2. dir[n] \in [present : {TRUE}, kind : Kinds, mtime : 0..MaxTime]
    <3>1. dir[n] \in Entry /\ ~Absent.present /\ Dangling.kind = "dangling" /\ Barred.kind = "barred"
      BY DEF Absent, Dangling, Barred
    <3> QED
      BY <2>1, <3>1 DEF Entry, Listed, Kinds
  <2>3. 0..MaxTime \subseteq Nat
    BY ListAssumption
  <2> DEFINE e == [dir[n] EXCEPT !.mtime = t]
  <2>4. e \in Entry /\ e.present /\ e.kind = dir[n].kind /\ e.mtime = t
    BY <2>2 DEF Entry
  <2>5. t >= dir[n].mtime
    BY <2>1, <2>2, <2>3
  <2> HIDE DEF e
  <2> QED
    BY <1>2, <2>1, <2>4, <2>5 DEF Touch, e
<1>3. CASE Delete
  <2>1. PICK n \in Names :
          /\ \E e \in Losses(n) : Change(n, e)
          /\ deletions' = IF Listed(n) THEN deletions + 1 ELSE deletions
    BY <1>3 DEF Delete
  <2>2. PICK e \in Losses(n) : Change(n, e)
    BY <2>1
  <2>3. e \in Entry
    BY DEF Losses, Entry
  <2> QED
    BY <2>1, <2>2, <2>3
<1> QED
  BY <1>1, <1>2, <1>3

(* The look at an entry of a directory that may be read and searched.      *)
LEMMA VisitIs ==
  ASSUME Visit, place = "directory"
  PROVE  \E n \in todo :
           /\ todo' = todo \ {n}
           /\ \/ /\ UNCHANGED <<step, answer>>
                 /\ IF Listed(n) /\ ~Skipped(op, n, dir[n].kind)
                    THEN nodes' = nodes \cup {NodeOf(n)} ELSE nodes' = nodes
              \/ step' = "answered" /\ answer' \in {"OSError", "PermissionError"}
<1>1. PICK n \in todo :
        /\ todo' = todo \ {n}
        /\ \/ /\ PassedOver(n)
              /\ UNCHANGED <<nodes, step, answer>>
           \/ /\ ~PassedOver(n) /\ Look(n) = "there"
              /\ nodes' = nodes \cup {NodeOf(n)}
              /\ UNCHANGED <<step, answer>>
           \/ /\ ~PassedOver(n) /\ Look(n) # "there"
              /\ Answer(Look(n)) /\ UNCHANGED nodes
  BY DEF Visit
<1>2. Barred.kind \notin Kinds
  BY DEF Barred, Kinds
<1>3. /\ Look(n) = "there" <=> Listed(n)
      /\ Look(n) \in {"there", "OSError", "PermissionError"}
  BY <1>2 DEF Look, Listed
<1>4. PassedOver(n) => ~(Listed(n) /\ ~Skipped(op, n, dir[n].kind))
  BY <1>3 DEF PassedOver, Skipped
<1>5. Listed(n) /\ Skipped(op, n, dir[n].kind) => PassedOver(n)
  BY <1>3 DEF PassedOver
<1> QED
  BY <1>1, <1>3, <1>4, <1>5 DEF Answer

LEMMA BeginInv ==
  ASSUME IInv, BeginCall, UNCHANGED server, op' \in Ops
  PROVE  IInv'
BY DEF BeginCall, server, IInv, VisitInv, Visiting, FailureHasCause

LEMMA CallInv ==
  ASSUME IInv, Resolve \/ IterDir \/ Visit \/ Finish
  PROVE  IInv'
<1> USE DEF IInv, VisitInv
<1>1. /\ UNCHANGED <<place, dir, op, met>>
      /\ step # "answered" /\ answer = "none" /\ Met(place, dir) \subseteq met
  BY DEF Resolve, IterDir, Visit, Finish, server, agent
<1>2. CASE Resolve
  <2>1. \/ step' = "answered" /\ answer' \notin {"OSError", "PermissionError"}
        \/ step' = "answered" /\ answer' = "PermissionError" /\ place = "barred"
        \/ step' = "iterdir" /\ answer' = answer /\ place # "outside"
    BY <1>2 DEF Resolve, Answer
  <2>2. step' = "iterdir" => place \in Places
    BY <2>1
  <2>3. place = "barred" => "barred" \in met
    BY <1>1, MetIs
  <2> QED
    BY <1>1, <2>1, <2>2, <2>3 DEF Visiting, FailureHasCause
<1>3. CASE IterDir
  <2>1. \/ /\ step' = "visit" /\ answer' = answer
           /\ \A n \in todo' : n \in Names /\ dir[n].present
        \/ /\ Answer("PermissionError") /\ op = "list_log_files"
           /\ place \in {"unreadable", "barred"}
        \/ Answer("OSError") /\ place \in {"absent", "file"}
    BY <1>3 DEF IterDir
  <2>2. place \in Places
    BY <1>3 DEF IterDir, Visiting
  <2>3. CASE step' = "visit" /\ answer' = answer /\ \A n \in todo' : n \in Names /\ dir[n].present
    <3>1. ~Absent.present
      BY DEF Absent
    <3> QED
      BY <1>1, <2>2, <2>3, <3>1 DEF Visiting, FailureHasCause
  <2>4. CASE /\ Answer("PermissionError") /\ op = "list_log_files"
             /\ place \in {"unreadable", "barred"}
    BY <1>1, <2>4, MetIs DEF Answer, Visiting, FailureHasCause
  <2>5. CASE Answer("OSError") /\ place \in {"absent", "file"}
    BY <1>1, <2>5, MetIs DEF Answer, Visiting, FailureHasCause
  <2> QED
    BY <2>1, <2>3, <2>4, <2>5
<1>4. CASE Visit
  <2>1. PICK n \in todo :
        /\ todo' = todo \ {n}
        /\ \/ UNCHANGED <<step, answer>>
           \/ ~PassedOver(n) /\ Look(n) # "there" /\ Answer(Look(n))
    BY <1>4 DEF Visit
  <2>2. step = "visit" /\ n \in Names /\ place \in Places /\ dir[n] \in Entry
    BY <1>4 DEF Visit, Visiting
  <2>3. CASE UNCHANGED <<step, answer>>
    BY <1>1, <2>1, <2>2, <2>3 DEF Visiting, FailureHasCause
  <2>4. CASE ~PassedOver(n) /\ Look(n) # "there" /\ Answer(Look(n))
    <3>1. /\ Look(n) = "PermissionError" => "barred" \in met
          /\ Look(n) = "OSError" => "gone" \in met \/ (~Listed(n) /\ dir[n] # Barred)
          /\ Look(n) \in {"PermissionError", "OSError"}
      <4>1. Met(place, dir) \subseteq met
        BY <1>1
      <4> QED
        BY <2>2, <2>4, <4>1, MetIs DEF Look
    <3>2. ~Listed(n) /\ dir[n] # Barred => "lost" \in met
      <4>1. (dir[n].present /\ dir[n].kind \in Kinds) \/ dir[n] \in {Absent, Dangling, Barred}
        BY <2>2, EntryIs
      <4>2. dir[n] = Dangling => "lost" \in met
        BY <1>1, <2>2, MetIs
      <4> QED
        BY <2>2, <4>1, <4>2 DEF Listed
    <3>3. Look(n) = "OSError" => op # "list_tree"
      BY <2>4 DEF PassedOver
    <3>4. op # "list_tree" => op = "list_log_files"
      BY DEF Ops
    <3> QED
      BY <1>1, <2>4, <3>1, <3>2, <3>3, <3>4 DEF Answer, Visiting, FailureHasCause
  <2> QED
    BY <2>1, <2>3, <2>4
<1>5. CASE Finish
  BY <1>1, <1>5 DEF Finish, Answer, Visiting, FailureHasCause
<1> QED
  BY <1>2, <1>3, <1>4, <1>5

(* A change of an entry or of the directory is remembered.                 *)
LEMMA ServerInv ==
  ASSUME IInv, Create \/ Touch \/ Delete \/ Move
  PROVE  IInv'
<1> USE DEF IInv, VisitInv
<1>1. UNCHANGED <<op, step, todo, answer>> /\ met \subseteq met' /\ Met(place', dir') \subseteq met'
  BY DEF Create, Touch, Delete, Move, Change
<1>2. CASE Move
  <2>1. UNCHANGED dir /\ place' \in Places
    BY <1>2 DEF Move
  <2> QED
    BY <1>1, <2>1 DEF Visiting, FailureHasCause
<1>3. CASE Create \/ Touch \/ Delete
  <2>1. PICK n \in Names, e \in Entry : Change(n, e)
    BY <1>3, ChangeIs
  <2>2. /\ place' = place /\ dir' \in [Names -> Entry]
        /\ \A m \in Names : dir'[m] = dir[m] \/ (dir'[m] = Absent => "lost" \in met')
    BY <2>1 DEF Change
  <2> QED
    BY <1>1, <2>2 DEF Visiting, FailureHasCause
<1> QED
  BY <1>2, <1>3

(* IInv holds whatever becomes of the directory and its entries.           *)
THEOREM Invariance == Spec => []IInv
<1>1. Init => IInv
  <2> SUFFICES ASSUME Init
               PROVE  IInv
    OBVIOUS
  <2>1. dir \in [Names -> Entry] /\ place \in Places \cup {"outside"} /\ op \in Ops
    BY DEF Init
  <2>2. step = "answered" /\ answer = "none"
    BY DEF Init
  <2> QED
    BY <2>1, <2>2 DEF IInv, VisitInv, Visiting, FailureHasCause
<1>2. IInv /\ [Next]_vars => IInv'
  <2> SUFFICES ASSUME IInv, [Next]_vars
               PROVE  IInv'
    OBVIOUS
  <2>1. CASE \E o \in Ops, first \in {-1, 0} : NewListing(o, first)
    BY <2>1, BeginInv DEF NewListing
  <2>2. CASE NextPage
    BY <2>2, BeginInv DEF NextPage, agent, IInv, VisitInv
  <2>3. CASE Resolve \/ IterDir \/ Visit \/ Finish
    BY <2>3, CallInv
  <2>4. CASE Create \/ Touch \/ Delete \/ Move
    BY <2>4, ServerInv
  <2>5. CASE UNCHANGED vars
    BY <2>5 DEF vars, server, agent, IInv, VisitInv, Visiting, FailureHasCause
  <2> QED
    BY <2>1, <2>2, <2>3, <2>4, <2>5 DEF Next
<1> QED
  BY <1>1, <1>2, PTL DEF Spec

(* A listing ends in an exception only if its call met with a cause: for   *)
(* list_tree the directory went away, or it or an entry was out of reach   *)
(* of is_dir(), which stands outside the try (remote_fs/service.py 259);   *)
(* for list_log_files also an entry or a link's target that is not there   *)
(* at item_path.stat() (log_search/service.py 82).                         *)
THEOREM FailuresHaveCauses == Spec => []FailureHasCause
<1>1. IInv => FailureHasCause
  BY DEF IInv
<1> QED
  BY <1>1, Invariance, PTL

-----------------------------------------------------------------------------
(* The order of a listing.                                                 *)
LEMMA NodeFields ==
  ASSUME NEW a \in Node
  PROVE  a.name \in Nat /\ a.name \in Names /\ a.kind \in Kinds /\ a.mtime \in Nat
<1>1. a.name \in Names /\ a.kind \in Kinds /\ a.mtime \in 0..MaxTime
  BY DEF Node
<1>2. Names \subseteq Nat /\ MaxTime \in Nat
  BY ListAssumption
<1>3. 0..MaxTime \subseteq Nat
  BY <1>2
<1> QED
  BY <1>1, <1>2, <1>3

LEMMA BeforeIsOrder ==
  ASSUME NEW o, NEW a \in Node, NEW b \in Node, NEW c \in Node
  PROVE  /\ ~Before(o, a, a)
         /\ Before(o, a, b) /\ Before(o, b, c) => Before(o, a, c)
         /\ a.name # b.name => Before(o, a, b) \/ Before(o, b, a)
<1>1. /\ a.name \in Nat /\ a.kind \in {"directory", "file"} /\ a.mtime \in Nat
      /\ b.name \in Nat /\ b.kind \in {"directory", "file"} /\ b.mtime \in Nat
      /\ c.name \in Nat /\ c.kind \in {"directory", "file"} /\ c.mtime \in Nat
  BY NodeFields DEF Kinds
<1> QED
  BY <1>1 DEF Before

(* An entry that is written to does not fall back.                         *)
LEMMA WrittenStaysBefore ==
  ASSUME NEW o, NEW a \in Node, NEW b \in Node, NEW c \in Node,
         b.name = a.name, b.kind = a.kind, b.mtime >= a.mtime
  PROVE  Before(o, a, c) => Before(o, b, c)
<1>1. /\ a.name \in Nat /\ a.mtime \in Nat /\ b.mtime \in Nat
      /\ c.name \in Nat /\ c.mtime \in Nat
  BY NodeFields
<1> QED
  BY <1>1 DEF Before

OneEach == nodes \subseteq Node /\ IsFiniteSet(nodes) /\ \A x, y \in nodes : x.name = y.name => x = y

LEMMA RanksAreOrder ==
  ASSUME OneEach
  PROVE  /\ Cardinality(nodes) \in Nat
         /\ \A x \in nodes : Rank(x) \in 1..Cardinality(nodes)
         /\ \A x, y \in nodes : Before(op, x, y) <=> Rank(x) < Rank(y)
<1> DEFINE P(x) == {y \in nodes : Before(op, y, x)}
           n == Cardinality(nodes)
<1>1. n \in Nat /\ IsFiniteSet(nodes)
  BY FS_CardinalityType DEF OneEach
<1>2. ASSUME NEW x \in nodes
      PROVE  /\ P(x) \in SUBSET nodes /\ IsFiniteSet(P(x)) /\ Cardinality(P(x)) \in Nat
             /\ x \notin P(x)
             /\ IsFiniteSet(P(x) \cup {x}) /\ Cardinality(P(x) \cup {x}) = Cardinality(P(x)) + 1
  <2>1. x \in Node
    BY DEF OneEach
  <2>2. x \notin P(x)
    BY <2>1, BeforeIsOrder
  <2>3. P(x) \in SUBSET nodes
    OBVIOUS
  <2> HIDE DEF P
  <2> QED
    BY <1>1, <2>2, <2>3, FS_Subset, FS_CardinalityType, FS_AddElement
<1>3. \A x : Rank(x) = Cardinality(P(x)) + 1
  BY DEF Rank
<1>4. ASSUME NEW x \in nodes
      PROVE  Rank(x) \in 1..n
  <2> DEFINE A == P(x) \cup {x}
  <2>1. A \in SUBSET nodes /\ Cardinality(A) = Cardinality(P(x)) + 1
    BY <1>2
  <2>2. Cardinality(P(x)) \in Nat /\ Rank(x) = Cardinality(P(x)) + 1
    BY <1>2, <1>3
  <2> HIDE DEF P, A
  <2>3. Cardinality(A) <= n
    BY <1>1, <2>1, FS_Subset
  <2> QED
    BY <1>1, <2>1, <2>2, <2>3
<1>5. ASSUME NEW x \in nodes, NEW y \in nodes, Before(op, x, y)
      PROVE  Rank(x) < Rank(y)
  <2> DEFINE A == P(x) \cup {x}
             B == P(y)
  <2>1. A \in SUBSET B
    BY <1>5, BeforeIsOrder DEF OneEach
  <2>2. Cardinality(A) = Cardinality(P(x)) + 1 /\ Cardinality(P(x)) \in Nat
    BY <1>2
  <2>3. IsFiniteSet(B) /\ Cardinality(B) \in Nat
    BY <1>2
  <2>4. Rank(x) = Cardinality(P(x)) + 1 /\ Rank(y) = Cardinality(B) + 1
    BY <1>3
  <2> HIDE DEF P, A, B
  <2>5. Cardinality(A) <= Cardinality(B)
    BY <2>1, <2>3, FS_Subset
  <2> QED
    BY <2>2, <2>3, <2>4, <2>5
<1>6. ASSUME NEW x \in nodes, NEW y \in nodes, ~Before(op, x, y)
      PROVE  ~(Rank(x) < Rank(y))
  <2>1. x = y \/ Before(op, y, x)
    BY <1>6, BeforeIsOrder DEF OneEach
  <2>2. Rank(x) \in Nat /\ Rank(y) \in Nat
    BY <1>1, <1>4
  <2>3. x = y \/ Rank(y) < Rank(x)
    BY <1>5, <2>1
  <2> QED
    BY <2>2, <2>3
<1> QED
  BY <1>1, <1>4, <1>5, <1>6

LEMMA SortedByRank ==
  ASSUME OneEach
  PROVE  /\ Sorted \in Seq(nodes) /\ Len(Sorted) = Cardinality(nodes)
         /\ \A i \in 1..Cardinality(nodes) : Sorted[i] \in nodes /\ Rank(Sorted[i]) = i
         /\ \A x \in nodes : x = Sorted[Rank(x)]
<1> DEFINE n == Cardinality(nodes)
           f == [x \in nodes |-> Rank(x)]
<1>1. n \in Nat /\ IsFiniteSet(nodes) /\ \A x \in nodes : Rank(x) \in 1..n
  BY RanksAreOrder DEF OneEach
<1>2. \A x, y \in nodes : Rank(x) = Rank(y) => x = y
  <2> SUFFICES ASSUME NEW x \in nodes, NEW y \in nodes, x # y PROVE Rank(x) # Rank(y)
    OBVIOUS
  <2>1. Before(op, x, y) \/ Before(op, y, x)
    BY BeforeIsOrder DEF OneEach
  <2>2. Rank(x) < Rank(y) \/ Rank(y) < Rank(x)
    BY <2>1, RanksAreOrder
  <2> QED
    BY <1>1, <2>2
<1>3. f \in Injection(nodes, 1..n)
  <2>1. f \in [nodes -> 1..n]
    BY <1>1
  <2> QED
    BY <1>2, <2>1 DEF Injection, IsInjective
<1>4. IsFiniteSet(1..n) /\ Cardinality(1..n) = n
  BY <1>1, FS_Interval
<1>5. f \in Surjection(nodes, 1..n)
  <2> HIDE DEF f, n
  <2>1. Cardinality(nodes) = n
    BY DEF n
  <2> QED
    BY <1>3, <1>4, <2>1, FS_Injection
<1>6. \A i \in 1..n : \E x \in nodes : Rank(x) = i
  BY <1>5 DEF Surjection
<1>7. \A i \in 1..n : Sorted[i] = CHOOSE x \in nodes : Rank(x) = i
  BY DEF Sorted
<1>8. \A i \in 1..n : Sorted[i] \in nodes /\ Rank(Sorted[i]) = i
  BY <1>6, <1>7
<1>9. Sorted \in [1..n -> nodes]
  BY <1>8 DEF Sorted
<1>10. Sorted \in Seq(nodes) /\ Len(Sorted) = n
  <2> DEFINE l == Sorted
  <2>1. l \in [1..n -> nodes]
    BY <1>9
  <2> HIDE DEF l, n
  <2>2. n \in Nat
    BY <1>1 DEF n
  <2>3. l \in Seq(nodes) /\ Len(l) = n
    BY <2>1, <2>2
  <2> QED
    BY <2>3 DEF l
<1>11. \A x \in nodes : x = Sorted[Rank(x)]
  BY <1>1, <1>2, <1>8
<1> QED
  BY <1>8, <1>10, <1>11

(* The first k of a listing.                                               *)
First(k) == {x \in nodes : Rank(x) <= k}

LEMMA FirstAreCounted ==
  ASSUME OneEach, NEW k \in Nat
  PROVE  /\ First(k) \subseteq nodes /\ IsFiniteSet(First(k)) /\ Cardinality(First(k)) \in Nat
         /\ Cardinality(First(k)) <= k
         /\ k <= Cardinality(nodes) => Cardinality(First(k)) = k
         /\ Cardinality(nodes) <= k => First(k) = nodes
<1> DEFINE n == Cardinality(nodes)
           F == First(k)
           f == [x \in F |-> Rank(x)]
           g == [i \in 1..k |-> Sorted[i]]
<1>1. n \in Nat /\ IsFiniteSet(nodes) /\ \A x \in nodes : Rank(x) \in 1..n
  BY RanksAreOrder DEF OneEach
<1>2. /\ \A i \in 1..n : Sorted[i] \in nodes /\ Rank(Sorted[i]) = i
      /\ \A x \in nodes : x = Sorted[Rank(x)]
  BY SortedByRank
<1>3. F \in SUBSET nodes /\ IsFiniteSet(F) /\ Cardinality(F) \in Nat
  <2>1. F \in SUBSET nodes
    BY DEF First
  <2> HIDE DEF F
  <2> QED
    BY <1>1, <2>1, FS_Subset, FS_CardinalityType
<1>4. IsFiniteSet(1..k) /\ Cardinality(1..k) = k
  BY FS_Interval
<1>5. \A x \in F : Rank(x) \in 1..k
  BY <1>1 DEF First
<1>6. Cardinality(F) <= k
  <2> HIDE DEF F
  <2>1. f \in [F -> 1..k]
    BY <1>5
  <2>2. \A x, y \in F : f[x] = f[y] => x = y
    BY <1>2, <1>3
  <2>3. f \in Injection(F, 1..k)
    BY <2>1, <2>2 DEF Injection, IsInjective
  <2> HIDE DEF f
  <2> QED
    BY <1>4, <2>3, FS_Injection
<1>7. ASSUME k <= n
      PROVE  Cardinality(F) = k
  <2>1. \A i \in 1..k : i \in 1..n /\ i <= k
    BY <1>1, <1>7
  <2>2. g \in [1..k -> F]
    BY <1>2, <2>1 DEF First
  <2>3. \A i, j \in 1..k : g[i] = g[j] => i = j
    BY <1>2, <2>1
  <2>4. g \in Injection(1..k, F)
    BY <2>2, <2>3 DEF Injection, IsInjective
  <2> HIDE DEF g, F
  <2>5. k <= Cardinality(F)
    BY <1>3, <1>4, <2>4, FS_Injection
  <2> QED
    BY <1>3, <1>6, <2>5
<1>8. n <= k => F = nodes
  BY <1>1 DEF First
<1> QED
  BY <1>3, <1>6, <1>7, <1>8

-----------------------------------------------------------------------------
(* Types.  An entry is looked at once in a call, so no name is found twice,*)
(* and the offset of a call that reads the directory is not negative.      *)
NodesInv ==
  /\ OneEach
  /\ step \in {"resolve", "iterdir"} => nodes = {}
  /\ step = "visit" => \A x \in nodes : x.name \notin todo /\ ~Skipped(op, x.name, x.kind)
  /\ Visiting => offset \in Nat

TypeInv == TypeOK /\ NodesInv

(* A page: the names at the ranks after the offset.                        *)
PageOf(p, next) ==
  /\ p \in Seq(Names) /\ next \in Nat
  /\ got' = got \o p
  /\ result' = [next |-> next, truncated |-> op = "list_tree" /\ next < Cardinality(nodes)]
  /\ offset + Len(p) = next
  /\ next = offset \/ next <= Cardinality(nodes)
  /\ next < Cardinality(nodes) \/ \A x \in nodes : Rank(x) <= next
  /\ \A i \in 1..Len(p) : \E x \in nodes : p[i] = x.name /\ Rank(x) = offset + i
  /\ \A x \in nodes :
       offset < Rank(x) /\ Rank(x) <= next => Rank(x) - offset \in 1..Len(p) /\ p[Rank(x) - offset] = x.name

LEMMA PageIsThere ==
  ASSUME TypeInv, Finish
  PROVE  \E p, next : PageOf(p, next)
<1> DEFINE sorted == Sorted
           n == Len(sorted)
           end == IF offset + PageSize < n THEN offset + PageSize ELSE n
           page == SubSeq(sorted, offset + 1, end)
           next == offset + Len(page)
           p == [i \in DOMAIN page |-> page[i].name]
<1>1. OneEach /\ offset \in Nat /\ PageSize \in Nat /\ PageSize > 0
  BY ListAssumption DEF Finish, TypeInv, NodesInv, Visiting
<1>2. /\ sorted \in Seq(nodes) /\ n = Cardinality(nodes) /\ n \in Nat
      /\ \A i \in 1..n : sorted[i] \in nodes /\ Rank(sorted[i]) = i
      /\ \A x \in nodes : x = sorted[Rank(x)]
      /\ \A x \in nodes : Rank(x) \in 1..n
  BY <1>1, SortedByRank, RanksAreOrder
<1>3. /\ got' = got \o p
      /\ result' = [next |-> next, truncated |-> op = "list_tree" /\ next < n]
  BY DEF Finish, Page
<1> HIDE DEF sorted, n
<1>4. end \in Nat /\ end <= n /\ end <= offset + PageSize
  BY <1>1, <1>2
<1>5. /\ Len(page) = (IF end < offset + 1 THEN 0 ELSE end - offset)
      /\ DOMAIN page = 1..Len(page)
      /\ \A i \in 1..Len(page) : page[i] = sorted[offset + i]
  <2> HIDE DEF end
  <2>1. /\ Len(SubSeq(sorted, offset + 1, end)) = (IF offset + 1 <= end THEN end - (offset + 1) + 1 ELSE 0)
        /\ \A i \in 1..end - (offset + 1) + 1 : SubSeq(sorted, offset + 1, end)[i] = sorted[(offset + 1) + i - 1]
        /\ DOMAIN SubSeq(sorted, offset + 1, end) = 1..Len(SubSeq(sorted, offset + 1, end))
    BY <1>1, <1>2, <1>4, SubSeqProperties DEF n
  <2>2. \A i : i \in 1..end - (offset + 1) + 1 => (offset + 1) + i - 1 = offset + i
    BY <1>1, <1>4
  <2>3. end - (offset + 1) + 1 = end - offset
    BY <1>1, <1>4
  <2>4. offset + 1 <= end <=> ~(end < offset + 1)
    BY <1>1, <1>4
  <2>5. Len(page) = (IF end < offset + 1 THEN 0 ELSE end - offset)
    BY <2>1, <2>3, <2>4
  <2>6. \A i \in 1..Len(page) : i \in 1..end - (offset + 1) + 1
    BY <1>1, <1>4, <2>5
  <2> HIDE DEF page
  <2> QED
    BY <2>1, <2>2, <2>5, <2>6 DEF page
<1> HIDE DEF page
<1>6. Len(page) \in Nat /\ next \in Nat /\ (next = offset \/ next = end)
  <2> HIDE DEF end
  <2> QED
    BY <1>1, <1>4, <1>5
<1>7. next = offset \/ next <= n
  BY <1>4, <1>6
<1>8. next < n \/ \A x \in nodes : Rank(x) <= next
  BY <1>1, <1>2, <1>6
<1>9. \A i \in 1..Len(page) : offset + i \in 1..n
  <2> HIDE DEF end
  <2> QED
    BY <1>1, <1>2, <1>4, <1>5
<1>10. \A i \in 1..Len(page) :
         page[i] \in nodes /\ Rank(page[i]) = offset + i /\ p[i] = page[i].name
  BY <1>2, <1>5, <1>9
<1>11. p \in Seq(Names) /\ Len(p) = Len(page)
  <2>1. \A x \in nodes : x.name \in Names
    BY <1>1, NodeFields DEF OneEach
  <2>2. p \in [1..Len(page) -> Names]
    BY <1>5, <1>10, <2>1
  <2> HIDE DEF p
  <2>3. Len(page) \in Nat
    BY <1>6
  <2> DEFINE k == Len(page)
  <2> HIDE DEF k
  <2>4. k \in Nat /\ p \in [1..k -> Names]
    BY <2>2, <2>3 DEF k
  <2>5. p \in Seq(Names) /\ Len(p) = k
    BY <2>4
  <2> QED
    BY <2>5 DEF k
<1>12. ASSUME NEW x \in nodes, offset < Rank(x), Rank(x) <= next
       PROVE  Rank(x) - offset \in 1..Len(page) /\ p[Rank(x) - offset] = x.name
  <2>1. Rank(x) \in Nat
    BY <1>2
  <2>2. Rank(x) - offset \in 1..Len(page) /\ offset + (Rank(x) - offset) = Rank(x)
    BY <1>1, <1>6, <1>12, <2>1
  <2>3. page[Rank(x) - offset] = x
    BY <1>2, <1>5, <2>2
  <2> QED
    BY <1>10, <2>2, <2>3
<1> HIDE DEF p, next
<1>13. offset + Len(p) = next
  BY <1>11 DEF next
<1>14. PageOf(p, next)
  BY <1>2, <1>3, <1>6, <1>7, <1>8, <1>10, <1>11, <1>12, <1>13 DEF PageOf, next
<1> QED
  BY <1>14

LEMMA InitType == Init => TypeInv
<1> SUFFICES ASSUME Init PROVE TypeInv
  OBVIOUS
<1>1. dir \in [Names -> Entry] /\ place \in Places \cup {"outside"} /\ 0 \in 0..MaxChanges
  BY ListAssumption DEF Init, Places
<1>2. NoResult \in [next : Nat, truncated : BOOLEAN] /\ <<>> \in Seq(Names)
  BY DEF NoResult
<1>3. OneEach
  BY FS_EmptySet DEF Init, OneEach
<1>4. NodesInv
  BY <1>3 DEF Init, NodesInv, Visiting
<1>5. op \in Ops /\ offset \in Int /\ step = "answered" /\ answer = "none"
  BY DEF Init
<1>6. todo = {} /\ nodes = {} /\ stable = {} /\ quiet \in BOOLEAN /\ met = {}
  BY DEF Init
<1>7. result = NoResult /\ got = <<>> /\ changes = 0 /\ deletions \in 0..changes
  BY DEF Init
<1> QED
  BY <1>1, <1>2, <1>4, <1>5, <1>6, <1>7 DEF TypeInv, TypeOK

LEMMA CallType ==
  ASSUME TypeInv, (\E o \in Ops, first \in {-1, 0} : NewListing(o, first)) \/ NextPage
  PROVE  TypeInv'
<1>1. /\ step' = "resolve" /\ todo' = {} /\ nodes' = {} /\ answer' = "none" /\ result' = NoResult
      /\ UNCHANGED server
  BY DEF NewListing, NextPage, BeginCall
<1>2. NoResult \in [next : Nat, truncated : BOOLEAN] /\ <<>> \in Seq(Names)
  BY DEF NoResult
<1>3. OneEach' /\ met' \subseteq Causes
  BY <1>1, FS_EmptySet DEF OneEach, NewListing, NextPage, BeginCall, Met
<1>4. NodesInv'
  BY <1>1, <1>3 DEF NodesInv, Visiting
<1>5. CASE NextPage
  <2>1. offset' \in Int /\ UNCHANGED agent
    BY <1>5 DEF NextPage, TypeInv, TypeOK
  <2> QED
    BY <1>1, <1>3, <1>2, <1>4, <2>1 DEF server, agent, TypeInv, TypeOK
<1>6. ASSUME NEW o \in Ops, NEW first \in {-1, 0}, NewListing(o, first)
      PROVE  TypeInv'
  <2>1. /\ op' = o /\ offset' = first /\ got' = <<>> /\ stable' \subseteq Names
        /\ deletions' = 0 /\ changes' = 0
    BY <1>6 DEF NewListing, Visible
  <2>2. quiet' \in BOOLEAN
    BY <1>6 DEF NewListing
  <2>3. 0 \in 0..MaxChanges /\ 0 \in 0..0 /\ first \in Int
    BY ListAssumption
  <2> QED
    BY <1>1, <1>2, <1>3, <1>4, <2>1, <2>2, <2>3 DEF server, TypeInv, TypeOK
<1> QED
  BY <1>5, <1>6

LEMMA ResolveType ==
  ASSUME TypeInv, Resolve \/ IterDir
  PROVE  TypeInv'
<1>1. /\ UNCHANGED <<server, agent, met, offset, nodes, result>> /\ nodes = {} /\ step \in {"resolve", "iterdir"}
  BY DEF Resolve, IterDir, TypeInv, NodesInv
<1>2. OneEach'
  BY <1>1 DEF TypeInv, NodesInv, OneEach
<1>3. CASE Resolve
  <2>1. /\ todo' = todo /\ step' \in {"answered", "iterdir"}
        /\ (step' = "iterdir" => ~(offset < 0) /\ answer' = answer)
        /\ answer' \in {"invalid_argument", "path_not_allowed", "path_not_found", "not_a_directory",
                       "PermissionError", answer}
    BY <1>3 DEF Resolve, Answer
  <2>2. step' = "iterdir" => offset \in Nat
    BY <2>1 DEF TypeInv, TypeOK
  <2>3. NodesInv'
    BY <1>1, <1>2, <2>1, <2>2 DEF NodesInv, Visiting
  <2> QED
    BY <1>1, <2>1, <2>3 DEF server, agent, TypeInv, TypeOK
<1>4. CASE IterDir
  <2>1. /\ todo' \subseteq Names /\ step' \in {"answered", "visit"}
        /\ answer' \in {answer, "PermissionError", "OSError"}
    BY <1>4 DEF IterDir, Answer, TypeInv, TypeOK
  <2>2. offset \in Nat
    BY <1>4 DEF IterDir, TypeInv, NodesInv, Visiting
  <2>3. NodesInv'
    BY <1>1, <1>2, <2>1, <2>2 DEF NodesInv, Visiting
  <2> QED
    BY <1>1, <2>1, <2>3 DEF server, agent, TypeInv, TypeOK
<1> QED
  BY <1>3, <1>4

LEMMA VisitType ==
  ASSUME TypeInv, Visit
  PROVE  TypeInv'
<1>1. PICK n \in todo :
        /\ todo' = todo \ {n}
        /\ \/ /\ Listed(n) /\ ~Skipped(op, n, dir[n].kind)
              /\ nodes' = nodes \cup {NodeOf(n)}
              /\ UNCHANGED <<step, answer>>
           \/ UNCHANGED <<nodes, step, answer>>
           \/ Answer("OSError") /\ UNCHANGED nodes
           \/ Answer("PermissionError") /\ UNCHANGED nodes
  <2>1. PICK n \in todo :
          /\ todo' = todo \ {n}
          /\ \/ /\ ~PassedOver(n) /\ Look(n) = "there"
                /\ nodes' = nodes \cup {NodeOf(n)}
                /\ UNCHANGED <<step, answer>>
             \/ UNCHANGED <<nodes, step, answer>>
             \/ Look(n) # "there" /\ Answer(Look(n)) /\ UNCHANGED nodes
    BY DEF Visit
  <2>2. /\ Look(n) = "there" => Listed(n)
        /\ Look(n) \in {"there", "OSError", "PermissionError"}
    BY DEF Look
  <2>3. ~PassedOver(n) /\ Look(n) = "there" => ~Skipped(op, n, dir[n].kind)
    BY DEF PassedOver
  <2>4. Look(n) # "there" => Look(n) = "OSError" \/ Look(n) = "PermissionError"
    BY <2>2
  <2> QED
    BY <2>1, <2>2, <2>3, <2>4
<1>2. /\ UNCHANGED <<server, agent, met, offset, result>> /\ step = "visit" /\ step' \in {"visit", "answered"}
      /\ answer' \in {answer, "OSError", "PermissionError"} /\ n \in Names
  BY <1>1 DEF Visit, Answer, TypeInv, TypeOK
<1>3. OneEach /\ \A x \in nodes : x.name \notin todo /\ ~Skipped(op, x.name, x.kind)
  BY <1>2 DEF TypeInv, NodesInv
<1>4. OneEach' /\ \A x \in nodes' : x.name \notin todo' /\ ~Skipped(op, x.name, x.kind)
  <2>1. CASE nodes' = nodes
    BY <1>1, <1>3, <2>1 DEF OneEach
  <2>2. CASE Listed(n) /\ ~Skipped(op, n, dir[n].kind) /\ nodes' = nodes \cup {NodeOf(n)}
    <3>1. NodeOf(n) \in Node /\ NodeOf(n).name = n /\ NodeOf(n).kind = dir[n].kind
      BY <1>2, <2>2, NodeOfType DEF TypeInv, TypeOK
    <3>2. IsFiniteSet(nodes \cup {NodeOf(n)})
      BY <1>3, FS_AddElement DEF OneEach
    <3> DEFINE y == NodeOf(n)
    <3> HIDE DEF y
    <3>3. /\ nodes' = nodes \cup {y} /\ y \in Node /\ y.name = n /\ y.kind = dir[n].kind
          /\ IsFiniteSet(nodes \cup {y})
      BY <2>2, <3>1, <3>2 DEF y
    <3>4. OneEach'
      BY <1>1, <1>3, <3>3 DEF OneEach
    <3> QED
      BY <1>1, <1>3, <2>2, <3>3, <3>4
  <2> QED
    BY <1>1, <2>1, <2>2
<1>5. NodesInv'
  <2>1. op' = op /\ offset' = offset /\ offset \in Nat
    BY <1>2 DEF agent, TypeInv, NodesInv, Visiting
  <2> QED
    BY <1>2, <1>4, <2>1 DEF NodesInv, Visiting
<1>6. nodes' \subseteq Node
  BY <1>4 DEF OneEach
<1> QED
  BY <1>1, <1>2, <1>5, <1>6 DEF server, agent, TypeInv, TypeOK

LEMMA FinishType ==
  ASSUME TypeInv, Finish
  PROVE  TypeInv'
<1>1. PICK p, next : PageOf(p, next)
  BY PageIsThere
<1>2. /\ step' = "answered" /\ answer' = "ok" /\ nodes' = {}
      /\ UNCHANGED <<server, op, stable, quiet, deletions, met, changes, offset, todo>>
  BY DEF Finish, Answer
<1>3. got' \in Seq(Names)
  BY <1>1 DEF PageOf, TypeInv, TypeOK
<1>4. result' \in [next : Nat, truncated : BOOLEAN]
  <2> DEFINE cut == op = "list_tree" /\ next < Cardinality(nodes)
  <2>1. result' = [next |-> next, truncated |-> cut] /\ next \in Nat
    BY <1>1 DEF PageOf
  <2>2. cut \in BOOLEAN
    OBVIOUS
  <2> HIDE DEF cut
  <2> QED
    BY <2>1, <2>2
<1>5. NodesInv'
  BY <1>2, FS_EmptySet DEF NodesInv, OneEach, Visiting
<1> QED
  BY <1>2, <1>3, <1>4, <1>5 DEF server, TypeInv, TypeOK

LEMMA ServerType ==
  ASSUME TypeInv, Create \/ Touch \/ Delete \/ Move
  PROVE  TypeInv'
<1>1. /\ UNCHANGED <<op, got, offset, step, todo, nodes, answer, result>>
      /\ changes' = changes + 1 /\ changes < MaxChanges /\ quiet' = FALSE
      /\ deletions' \in {deletions, deletions + 1}
      /\ stable' \subseteq stable
  BY DEF Create, Touch, Delete, Move, Change
<1>2. dir' \in [Names -> Entry] /\ place' \in Places \cup {"outside"}
  <2>1. CASE Move
    BY <2>1 DEF Move, TypeInv, TypeOK
  <2>2. CASE Create \/ Touch \/ Delete
    <3>1. PICK n \in Names, e \in Entry : Change(n, e)
      BY <2>2, ChangeIs DEF TypeInv, TypeOK
    <3> QED
      BY <3>1 DEF Change, TypeInv, TypeOK
  <2> QED
    BY <2>1, <2>2
<1>3. changes' \in 0..MaxChanges /\ deletions' \in 0..changes'
  BY <1>1, ListAssumption DEF TypeInv, TypeOK
<1>4. NodesInv'
  BY <1>1 DEF TypeInv, NodesInv, OneEach, Visiting
<1>5. met' \subseteq Causes
  <2>1. met \subseteq Causes /\ "lost" \in Causes
    BY DEF TypeInv, TypeOK, Causes
  <2>2. Met(place, dir') \subseteq Causes /\ Met(place', dir) \subseteq Causes
    BY DEF Met
  <2>3. \/ met' = met \cup Met(place', dir)
        \/ met' = met \cup Met(place, dir') \cup {"lost"}
        \/ met' = met \cup Met(place, dir') \cup {}
    BY DEF Create, Touch, Delete, Move, Change
  <2> QED
    BY <2>1, <2>2, <2>3
<1> QED
  BY <1>1, <1>2, <1>3, <1>4, <1>5 DEF TypeInv, TypeOK

LEMMA StepType == TypeInv /\ [Next]_vars => TypeInv'
<1> SUFFICES ASSUME TypeInv, [Next]_vars PROVE TypeInv'
  OBVIOUS
<1>1. CASE UNCHANGED vars
  BY <1>1 DEF vars, server, agent, TypeInv, TypeOK, NodesInv, OneEach, Visiting
<1> QED
  BY <1>1, CallType, ResolveType, VisitType, FinishType, ServerType DEF Next

(* The variables keep their types: what is found of a directory has each   *)
(* name once, and every page lies within it (remote_fs/service.py 185-260, *)
(* log_search/service.py 45-103).                                          *)
THEOREM TypeCorrect == Spec => []TypeOK
<1>1. TypeInv => TypeOK
  BY DEF TypeInv
<1> QED
  BY <1>1, InitType, StepType, PTL DEF Spec

-----------------------------------------------------------------------------
(* What the pages leave out.  A ledger of the listing: F, what stood before*)
(* the offset when the last page was made; C, the part of F deleted since; *)
(* D, what was deleted since this call found it; L, the entries already    *)
(* lost between two pages.  What is lost when a page is made took the place*)
(* of an entry of C, so every loss is paid by a deletion of its own.       *)
LEMMA Counted ==
  ASSUME NEW F, NEW C \in SUBSET F, NEW X, NEW G,
         IsFiniteSet(F), IsFiniteSet(X), IsFiniteSet(G),
         NEW h \in Injection(F \ C, G), NEW g \in Injection(X, G),
         \A f \in F \ C, x \in X : h[f] # g[x],
         Cardinality(G) <= Cardinality(F)
  PROVE  Cardinality(X) <= Cardinality(C)
<1> DEFINE E == F \ C
           H == {h[f] : f \in E}
           K == {g[x] : x \in X}
<1>1. /\ IsFiniteSet(C) /\ IsFiniteSet(E)
      /\ Cardinality(C) \in Nat /\ Cardinality(F) \in Nat /\ Cardinality(E) \in Nat
      /\ Cardinality(X) \in Nat /\ Cardinality(G) \in Nat
  <2>1. E \in SUBSET F
    OBVIOUS
  <2> HIDE DEF E
  <2> QED
    BY <2>1, FS_Subset, FS_CardinalityType
<1>2. Cardinality(E) = Cardinality(F) - Cardinality(C)
  <2>1. F \cap C = C
    OBVIOUS
  <2> QED
    BY <1>1, <2>1, FS_Difference
<1>3. IsFiniteSet(H) /\ Cardinality(H) = Cardinality(E)
  <2>1. h \in Bijection(E, H)
    BY DEF Injection, IsInjective, Bijection, Surjection
  <2> HIDE DEF E, H
  <2> QED
    BY <1>1, <2>1, FS_Bijection DEF ExistsBijection
<1>4. IsFiniteSet(K) /\ Cardinality(K) = Cardinality(X)
  <2>1. g \in Bijection(X, K)
    BY DEF Injection, IsInjective, Bijection, Surjection
  <2> HIDE DEF K
  <2> QED
    BY <1>1, <2>1, FS_Bijection DEF ExistsBijection
<1>5. H \cap K = {} /\ H \cup K \in SUBSET G
  BY DEF Injection
<1> HIDE DEF E, H, K
<1>6. Cardinality(H \cup K) = Cardinality(E) + Cardinality(X)
  <2>1. Cardinality(H \cap K) = 0
    BY <1>5, FS_EmptySet
  <2>2. Cardinality(H \cup K) = Cardinality(H) + Cardinality(K) - Cardinality(H \cap K)
    BY <1>3, <1>4, FS_Union
  <2> QED
    BY <1>1, <1>3, <1>4, <2>1, <2>2
<1>7. Cardinality(H \cup K) <= Cardinality(G)
  BY <1>5, FS_Subset
<1> QED
  BY <1>1, <1>2, <1>6, <1>7

LEMMA JoinedSet ==
  ASSUME NEW S, NEW s \in Seq(S), NEW r \in Seq(S)
  PROVE  ToSet(s \o r) = ToSet(s) \cup ToSet(r)
<1>1. /\ Len(s) \in Nat /\ Len(r) \in Nat /\ DOMAIN (s \o r) = 1..(Len(s) + Len(r))
      /\ DOMAIN s = 1..Len(s) /\ DOMAIN r = 1..Len(r)
      /\ \A i \in 1..(Len(s) + Len(r)) : (s \o r)[i] = IF i <= Len(s) THEN s[i] ELSE r[i - Len(s)]
  OBVIOUS
<1>2. ASSUME NEW i \in DOMAIN (s \o r)
      PROVE  (s \o r)[i] \in ToSet(s) \cup ToSet(r)
  <2>1. i <= Len(s) => i \in DOMAIN s
    BY <1>1
  <2>2. ~(i <= Len(s)) => i - Len(s) \in DOMAIN r
    BY <1>1
  <2> QED
    BY <1>1, <2>1, <2>2 DEF ToSet
<1>3. ASSUME NEW i \in DOMAIN s
      PROVE  s[i] \in ToSet(s \o r)
  <2>1. i \in 1..(Len(s) + Len(r)) /\ i <= Len(s)
    BY <1>1
  <2> QED
    BY <1>1, <2>1 DEF ToSet
<1>4. ASSUME NEW i \in DOMAIN r
      PROVE  r[i] \in ToSet(s \o r)
  <2> DEFINE j == i + Len(s)
  <2>1. j \in 1..(Len(s) + Len(r)) /\ ~(j <= Len(s)) /\ j - Len(s) = i
    BY <1>1
  <2> HIDE DEF j
  <2> QED
    BY <1>1, <2>1 DEF ToSet
<1> QED
  BY <1>2, <1>3, <1>4 DEF ToSet

Active == step # "answered" \/ answer = "ok"
HintInv == result.truncated => step = "answered" /\ answer = "ok"

(* An entry as it was found, and as it is now or in this call.             *)
Kept(f) == dir[f.name].present /\ dir[f.name].kind = f.kind /\ dir[f.name].mtime >= f.mtime
Found(f) == \E x \in nodes : x.name = f.name /\ x.kind = f.kind /\ x.mtime >= f.mtime
Ahead(f) == step # "visit" \/ f.name \in todo

Sets(F, C, D, L) ==
  /\ F \subseteq Node /\ IsFiniteSet(F) /\ \A f, g \in F : f.name = g.name => f = g
  /\ C \subseteq F /\ D \subseteq nodes /\ (step # "visit" => D = {}) /\ L \subseteq Names
  /\ Cardinality(L) + Cardinality(C) + Cardinality(D) <= deletions

Where(F, C, D) ==
  /\ \A f \in F \ C : IF Ahead(f) THEN Kept(f) ELSE Found(f)
  /\ step = "visit" => \A x \in nodes \ D : Kept(x)

Order(F, L) ==
  /\ step # "answered" => Cardinality(F) = offset
  /\ step = "answered" /\ result.truncated => Cardinality(F) = result.next
  /\ \A f \in F : ~Skipped(op, f.name, f.kind)
  /\ step = "visit" => \A a \in stable : a \in todo \/ NodeOf(a) \in nodes
  /\ \A a \in stable \ (ToSet(got) \cup L) :
       /\ \A f \in F : Before(op, f, NodeOf(a))
       /\ \A b \in stable \cap ToSet(got) : ~Before(op, NodeOf(a), NodeOf(b))
  /\ step = "answered" /\ op = "list_tree" /\ ~result.truncated => stable \subseteq ToSet(got) \cup L

Ledger(F, C, D, L) == Sets(F, C, D, L) /\ Where(F, C, D) /\ Order(F, L)

SkipInv ==
  Active /\ stable # {} =>
    /\ place = "directory" /\ stable \subseteq Visible(op)
    /\ \E F, C, D, L : Ledger(F, C, D, L)

LEMMA StableThere ==
  ASSUME TypeInv, stable \subseteq Visible(op)
  PROVE  \A a \in stable : /\ a \in Names /\ Listed(a) /\ ~Skipped(op, a, dir[a].kind)
                           /\ NodeOf(a) \in Node /\ NodeOf(a).name = a
<1> SUFFICES ASSUME NEW a \in stable
             PROVE  /\ a \in Names /\ Listed(a) /\ ~Skipped(op, a, dir[a].kind)
                    /\ NodeOf(a) \in Node /\ NodeOf(a).name = a
  OBVIOUS
<1>1. a \in Names /\ Listed(a) /\ ~Skipped(op, a, dir[a].kind)
  BY DEF Visible
<1> QED
  BY <1>1, NodeOfType DEF TypeInv, TypeOK

LEMMA HintStep == ASSUME TypeInv, HintInv, [Next]_vars PROVE HintInv'
<1>1. CASE (\E o \in Ops, first \in {-1, 0} : NewListing(o, first)) \/ NextPage
  BY <1>1 DEF NewListing, NextPage, BeginCall, NoResult, HintInv
<1>2. CASE Resolve \/ IterDir \/ Visit
  BY <1>2 DEF Resolve, IterDir, Visit, HintInv
<1>3. CASE Finish
  BY <1>3 DEF Finish, Answer, HintInv
<1>4. CASE Create \/ Touch \/ Delete \/ Move
  BY <1>4 DEF Create, Touch, Delete, Change, Move, HintInv
<1>5. CASE UNCHANGED vars
  BY <1>5 DEF vars, HintInv
<1> QED
  BY <1>1, <1>2, <1>3, <1>4, <1>5 DEF Next

LEMMA SkipBegin ==
  ASSUME TypeInv, HintInv, SkipInv, (\E o \in Ops, first \in {-1, 0} : NewListing(o, first)) \/ NextPage
  PROVE  SkipInv'
<1>1. CASE NextPage
  <2> SUFFICES ASSUME stable' # {}
               PROVE  /\ place' = "directory" /\ stable' \subseteq Visible(op)'
                      /\ \E F, C, D, L : Ledger(F, C, D, L)'
    BY DEF SkipInv
  <2>1. /\ step = "answered" /\ result.truncated /\ offset' = result.next /\ step' = "resolve"
        /\ nodes' = {} /\ ~result'.truncated
        /\ UNCHANGED <<place, dir, op, got, stable, deletions>>
    BY <1>1 DEF NextPage, BeginCall, NoResult, server, agent
  <2>2. Active /\ stable # {}
    BY <2>1 DEF HintInv, Active
  <2>3. PICK F, C, D, L : Ledger(F, C, D, L)
    BY <2>2 DEF SkipInv
  <2>4. D = {}
    BY <2>1, <2>3 DEF Ledger, Sets
  <2>5. Sets(F, C, D, L)'
    BY <2>1, <2>3, <2>4 DEF Ledger, Sets
  <2>6. Where(F, C, D)'
    BY <2>1, <2>3 DEF Ledger, Where, Ahead, Kept
  <2>7. Order(F, L)'
    BY <2>1, <2>3 DEF Ledger, Order, NodeOf
  <2>8. Ledger(F, C, D, L)'
    BY <2>5, <2>6, <2>7 DEF Ledger
  <2> QED
    BY <2>1, <2>2, <2>8 DEF SkipInv, Visible, Listed
<1>2. ASSUME NEW o \in Ops, NEW first \in {-1, 0}, NewListing(o, first)
      PROVE  SkipInv'
  <2> SUFFICES ASSUME stable' # {}
               PROVE  /\ place' = "directory" /\ stable' \subseteq Visible(op)'
                      /\ \E F, C, D, L : Ledger(F, C, D, L)'
    BY DEF SkipInv
  <2>1. /\ op' = o /\ offset' = 0 /\ got' = <<>> /\ stable' = Visible(o) /\ place = "directory"
        /\ deletions' = 0 /\ step' = "resolve" /\ nodes' = {} /\ UNCHANGED <<place, dir>>
    BY <1>2 DEF NewListing, BeginCall, server
  <2>2. Sets({}, {}, {}, {})'
    BY <2>1, FS_EmptySet DEF Sets
  <2>3. Where({}, {}, {})'
    BY <2>1 DEF Where
  <2>4. Order({}, {})'
    <3>1. ToSet(got') = {} /\ Cardinality({}) = 0
      BY <2>1, FS_EmptySet DEF ToSet
    <3>2. step' # "answered" /\ step' # "visit" /\ offset' = 0
      BY <2>1
    <3> QED
      BY <3>1, <3>2 DEF Order
  <2>5. Ledger({}, {}, {}, {})'
    BY <2>2, <2>3, <2>4 DEF Ledger
  <2> QED
    BY <2>1, <2>5 DEF Visible, Listed
<1> QED
  BY <1>1, <1>2

LEMMA SkipResolve ==
  ASSUME TypeInv, HintInv, SkipInv, Resolve \/ IterDir
  PROVE  SkipInv'
<1> SUFFICES ASSUME Active', stable' # {}
             PROVE  /\ place' = "directory" /\ stable' \subseteq Visible(op)'
                    /\ \E F, C, D, L : Ledger(F, C, D, L)'
  BY DEF SkipInv
<1>1. /\ UNCHANGED <<place, dir, op, got, stable, deletions, offset, nodes, result>>
      /\ nodes = {} /\ step \in {"resolve", "iterdir"}
  BY DEF Resolve, IterDir, server, agent, TypeInv, NodesInv
<1>2. /\ place = "directory" /\ stable \subseteq Visible(op)
      /\ \E F, C, D, L : Ledger(F, C, D, L)
  BY <1>1 DEF SkipInv, Active
<1>3. PICK F, C, D, L : Ledger(F, C, D, L)
  BY <1>2
<1>4. \/ step' = "iterdir"
      \/ step' = "visit" /\ todo' = {n \in Names : dir[n].present}
  BY <1>2 DEF Resolve, IterDir, Answer, Active
<1>5. D = {} /\ \A f \in F : Ahead(f) /\ f.name \in Names
  BY <1>1, <1>3, NodeFields DEF Ledger, Sets, Ahead
<1>6. Sets(F, C, D, L)'
  BY <1>1, <1>3, <1>5 DEF Ledger, Sets
<1>7. Where(F, C, D)'
  <2>1. \A f \in F \ C : Kept(f)
    BY <1>3, <1>5 DEF Ledger, Where
  <2>2. \A f \in F \ C : Ahead(f)'
    BY <1>4, <1>5, <2>1 DEF Ahead, Kept
  <2> QED
    BY <1>1, <2>1, <2>2 DEF Where, Kept
<1>8. Order(F, L)'
  <2>1. step' # "answered"
    BY <1>4
  <2>2. step' = "visit" => \A a \in stable : a \in todo'
    BY <1>2, <1>4 DEF Visible, Listed
  <2> QED
    BY <1>1, <1>3, <2>1, <2>2 DEF Ledger, Order, NodeOf
<1>9. Ledger(F, C, D, L)'
  BY <1>6, <1>7, <1>8 DEF Ledger
<1> QED
  BY <1>1, <1>2, <1>9 DEF Visible, Listed

LEMMA SkipVisit ==
  ASSUME TypeInv, HintInv, SkipInv, Visit
  PROVE  SkipInv'
<1> SUFFICES ASSUME Active', stable' # {}
             PROVE  /\ place' = "directory" /\ stable' \subseteq Visible(op)'
                    /\ \E F, C, D, L : Ledger(F, C, D, L)'
  BY DEF SkipInv
<1>1. /\ UNCHANGED <<place, dir, op, got, stable, deletions, offset, result>>
      /\ step = "visit"
  BY DEF Visit, server, agent
<1>2. /\ place = "directory" /\ stable \subseteq Visible(op)
      /\ \E F, C, D, L : Ledger(F, C, D, L)
  BY <1>1 DEF SkipInv, Active
<1>3. PICK F, C, D, L : Ledger(F, C, D, L)
  BY <1>2
<1>4. PICK n \in todo :
        /\ todo' = todo \ {n} /\ step' = "visit"
        /\ IF Listed(n) /\ ~Skipped(op, n, dir[n].kind)
           THEN nodes' = nodes \cup {NodeOf(n)} ELSE nodes' = nodes
  BY <1>1, <1>2, VisitIs DEF Active
<1>5. n \in Names /\ dir \in [Names -> Entry]
  BY DEF TypeInv, TypeOK
<1>6. Sets(F, C, D, L)'
  BY <1>1, <1>3, <1>4 DEF Ledger, Sets
<1>7. Where(F, C, D)'
  <2>1. ASSUME NEW f \in F \ C
        PROVE  (IF Ahead(f) THEN Kept(f) ELSE Found(f))'
    <3>1. IF f.name \in todo THEN Kept(f) ELSE Found(f)
      BY <1>1, <1>3 DEF Ledger, Where, Ahead
    <3>2. Ahead(f)' <=> f.name \in todo /\ f.name # n
      BY <1>4 DEF Ahead
    <3>3. CASE f.name = n
      <4>1. Listed(n) /\ dir[n].kind = f.kind /\ dir[n].mtime >= f.mtime
        <5>1. f \in Node
          BY <1>3 DEF Ledger, Sets
        <5> QED
          BY <3>1, <3>3, <5>1, NodeFields DEF Kept, Listed
      <4>2. ~Skipped(op, n, f.kind)
        BY <1>3, <3>3 DEF Ledger, Order
      <4>3. NodeOf(n) \in nodes'
        BY <1>4, <4>1, <4>2
      <4>4. NodeOf(n).name = n /\ NodeOf(n).kind = f.kind /\ NodeOf(n).mtime >= f.mtime
        BY <4>1 DEF NodeOf
      <4> QED
        BY <3>2, <3>3, <4>3, <4>4 DEF Found
    <3>4. CASE f.name # n
      <4>1. nodes \subseteq nodes'
        BY <1>4
      <4> QED
        BY <1>1, <3>1, <3>2, <3>4, <4>1 DEF Kept, Found
    <3> QED
      BY <3>3, <3>4
  <2>2. ASSUME NEW x \in nodes' \ D
        PROVE  Kept(x)'
    <3>1. CASE x \in nodes
      BY <1>1, <1>3, <3>1 DEF Ledger, Where, Kept
    <3>2. CASE x = NodeOf(n) /\ Listed(n)
      <4>1. /\ x.name = n /\ x.kind = dir[n].kind /\ x.mtime = dir[n].mtime
            /\ dir[n].mtime \in 0..MaxTime
        BY <1>5, <3>2, NodeOfType
      <4>2. dir[n].mtime >= dir[n].mtime
        BY <4>1, ListAssumption
      <4> QED
        BY <1>1, <3>2, <4>1, <4>2 DEF Kept, Listed
    <3> QED
      BY <1>4, <3>1, <3>2
  <2> QED
    BY <2>1, <2>2 DEF Where
<1>8. Order(F, L)'
  <2>1. ASSUME NEW a \in stable
        PROVE  a \in todo' \/ NodeOf(a) \in nodes'
    <3>1. Listed(a) /\ ~Skipped(op, a, dir[a].kind)
      BY <1>2 DEF Visible
    <3>2. a \in todo \/ NodeOf(a) \in nodes
      BY <1>1, <1>3 DEF Ledger, Order
    <3> QED
      BY <1>4, <3>1, <3>2
  <2> QED
    BY <1>1, <1>3, <1>4, <2>1 DEF Ledger, Order, NodeOf
<1>9. Ledger(F, C, D, L)'
  BY <1>6, <1>7, <1>8 DEF Ledger
<1> QED
  BY <1>1, <1>2, <1>9 DEF Visible, Listed

(* The page that is made, and what falls before it.                        *)
LEMMA SkipFinish ==
  ASSUME TypeInv, HintInv, SkipInv, Finish
  PROVE  SkipInv'
<1> SUFFICES ASSUME stable' # {}
             PROVE  /\ place' = "directory" /\ stable' \subseteq Visible(op)'
                    /\ \E F, C, D, L : Ledger(F, C, D, L)'
  BY DEF SkipInv
<1>1. /\ UNCHANGED <<place, dir, op, stable, deletions>>
      /\ step = "visit" /\ todo = {} /\ step' = "answered" /\ nodes' = {}
  BY DEF Finish, server, Answer
<1>2. /\ place = "directory" /\ stable \subseteq Visible(op)
      /\ \E F, C, D, L : Ledger(F, C, D, L)
  BY <1>1 DEF SkipInv, Active
<1>3. PICK F, C, D, L : Ledger(F, C, D, L)
  BY <1>2
<1>4. PICK p, next : PageOf(p, next)
  BY PageIsThere
<1>5. /\ OneEach /\ offset \in Nat /\ next \in Nat /\ got \in Seq(Names) /\ p \in Seq(Names)
      /\ deletions \in Nat /\ IsFiniteSet(Names)
      /\ \A x \in nodes : ~Skipped(op, x.name, x.kind)
  BY <1>1, <1>4, ListAssumption DEF PageOf, TypeInv, TypeOK, NodesInv, Visiting
<1>6. ToSet(got') = ToSet(got) \cup ToSet(p)
  <2>1. got' = got \o p
    BY <1>4 DEF PageOf
  <2> QED
    BY <1>5, <2>1, JoinedSet
<1>7. \A a \in stable : NodeOf(a) \in nodes /\ NodeOf(a) \in Node /\ NodeOf(a).name = a
  <2>1. \A a \in stable : NodeOf(a) \in nodes
    BY <1>1, <1>3 DEF Ledger, Order
  <2> QED
    BY <1>2, <2>1, StableThere
<1>8. /\ \A x \in nodes : Rank(x) \in Nat
      /\ \A x, y \in nodes : Before(op, x, y) <=> Rank(x) < Rank(y)
  BY <1>5, RanksAreOrder
<1> DEFINE X == {a \in stable \ (ToSet(got') \cup L) : Rank(NodeOf(a)) <= offset}
<1>9. X \in SUBSET stable /\ X \in SUBSET Names /\ IsFiniteSet(X) /\ Cardinality(X) \in Nat
  <2>1. X \in SUBSET stable /\ X \in SUBSET Names
    BY <1>2 DEF Visible
  <2> HIDE DEF X
  <2> QED
    BY <1>5, <2>1, FS_Subset, FS_CardinalityType
<1>10. Cardinality(X) <= Cardinality(C)
  <2>1. Cardinality(C) \in Nat
    <3>1. C \in SUBSET F /\ IsFiniteSet(F)
      BY <1>3 DEF Ledger, Sets
    <3> QED
      BY <3>1, FS_Subset, FS_CardinalityType
  <2>2. CASE X = {}
    BY <2>1, <2>2, FS_EmptySet
  <2>3. CASE X # {}
    <3> DEFINE G == First(offset)
               h == [f \in F \ C |-> CHOOSE x \in nodes :
                                        x.name = f.name /\ x.kind = f.kind /\ x.mtime >= f.mtime]
               g == [a \in X |-> NodeOf(a)]
    <3>1. \A f \in F \ C : /\ h[f] \in nodes /\ h[f].name = f.name
                           /\ h[f].kind = f.kind /\ h[f].mtime >= f.mtime
      BY <1>1, <1>3 DEF Ledger, Where, Ahead, Found
    <3>2. ASSUME NEW f \in F \ C, NEW a \in X
          PROVE  Before(op, h[f], NodeOf(a))
      <4>1. Before(op, f, NodeOf(a))
        BY <1>3, <1>6 DEF Ledger, Order
      <4>2. f \in Node /\ h[f] \in Node /\ NodeOf(a) \in Node
        BY <1>3, <1>5, <1>7, <3>1 DEF Ledger, Sets, OneEach
      <4> HIDE DEF h
      <4> QED
        BY <3>1, <4>1, <4>2, WrittenStaysBefore
    <3>3. \A f \in F \ C, a \in X : h[f] # NodeOf(a)
      BY <1>7, <3>2, BeforeIsOrder
    <3>4. \A f \in F \ C : h[f] \in G
      <4>1. PICK a \in X : TRUE
        BY <2>3
      <4>2. \A f \in F \ C : Rank(h[f]) < Rank(NodeOf(a))
        BY <1>7, <1>8, <3>1, <3>2
      <4>3. Rank(NodeOf(a)) <= offset /\ Rank(NodeOf(a)) \in Nat
        BY <1>7, <1>8
      <4> HIDE DEF h
      <4> QED
        BY <1>5, <1>8, <3>1, <4>2, <4>3 DEF First
    <3>5. h \in Injection(F \ C, G)
      <4>1. h \in [F \ C -> G]
        BY <3>4
      <4>2. \A e, f \in F \ C : h[e] = h[f] => e = f
        <5> HIDE DEF h
        <5> QED
          BY <1>3, <3>1 DEF Ledger, Sets
      <4> HIDE DEF h
      <4> QED
        BY <4>1, <4>2 DEF Injection, IsInjective
    <3>6. g \in Injection(X, G)
      <4>1. g \in [X -> G]
        BY <1>7, <1>9 DEF First
      <4>2. \A a, b \in X : g[a] = g[b] => a = b
        BY <1>7, <1>9
      <4> HIDE DEF g
      <4> QED
        BY <4>1, <4>2 DEF Injection, IsInjective
    <3>7. \A f \in F \ C, a \in X : h[f] # g[a]
      BY <3>3
    <3>8. IsFiniteSet(G) /\ Cardinality(G) <= Cardinality(F)
      <4>1. Cardinality(F) = offset
        BY <1>1, <1>3 DEF Ledger, Order
      <4> QED
        BY <1>5, <4>1, FirstAreCounted
    <3>9. IsFiniteSet(F) /\ C \in SUBSET F
      BY <1>3 DEF Ledger, Sets
    <3> HIDE DEF G, h, g, X
    <3> QED
      BY <1>9, <3>5, <3>6, <3>7, <3>8, <3>9, Counted
  <2> QED
    BY <2>2, <2>3
<1>11. PICK F1, D1, L1 : F1 = First(next) /\ D1 = D \cap First(next) /\ L1 = L \cup X
  OBVIOUS
<1>12. Sets(F1, D1, {}, L1)'
  <2>1. F1 \subseteq Node /\ IsFiniteSet(F1) /\ F1 \subseteq nodes
    BY <1>5, <1>11, FirstAreCounted DEF OneEach
  <2>2. \A e, f \in F1 : e.name = f.name => e = f
    BY <1>5, <2>1 DEF OneEach
  <2>3. L1 \subseteq Names /\ D1 \subseteq F1
    BY <1>3, <1>9, <1>11 DEF Ledger, Sets
  <2>4. Cardinality(L1) + Cardinality(D1) + Cardinality({}) <= deletions
    <3> HIDE DEF X
    <3>1. /\ L \in SUBSET Names /\ D \in SUBSET nodes /\ IsFiniteSet(nodes) /\ D1 \in SUBSET D
          /\ C \in SUBSET F /\ IsFiniteSet(F)
      BY <1>3, <1>5, <1>11 DEF Ledger, Sets, OneEach
    <3>2. /\ IsFiniteSet(L) /\ IsFiniteSet(D) /\ IsFiniteSet(D1) /\ IsFiniteSet(C)
          /\ Cardinality(L) \in Nat /\ Cardinality(D) \in Nat /\ Cardinality(D1) \in Nat
          /\ Cardinality(C) \in Nat /\ Cardinality(D1) <= Cardinality(D)
      BY <1>5, <3>1, FS_Subset, FS_CardinalityType
    <3>3. L \cap X \in SUBSET X /\ Cardinality(L \cap X) \in Nat
      BY <1>9, FS_Subset, FS_CardinalityType
    <3>4. Cardinality(L1) = Cardinality(L) + Cardinality(X) - Cardinality(L \cap X)
      BY <1>9, <1>11, <3>2, FS_Union
    <3>5. Cardinality(L) + Cardinality(C) + Cardinality(D) <= deletions
      BY <1>3 DEF Ledger, Sets
    <3>6. Cardinality(L1) <= Cardinality(L) + Cardinality(C) /\ Cardinality(L1) \in Nat
      BY <1>9, <1>10, <3>2, <3>3, <3>4, FS_Union, FS_CardinalityType, <1>11
    <3>7. Cardinality({}) = 0
      BY FS_EmptySet
    <3> QED
      BY <1>5, <3>2, <3>5, <3>6, <3>7
  <2> QED
    BY <1>1, <2>1, <2>2, <2>3, <2>4 DEF Sets
<1>13. Where(F1, D1, {})'
  <2>1. F1 \subseteq nodes
    BY <1>11 DEF First
  <2>2. \A f \in F1 \ D1 : Kept(f)
    BY <1>1, <1>3, <1>11, <2>1 DEF Ledger, Where
  <2> QED
    BY <1>1, <2>2 DEF Where, Ahead, Kept
<1>14. ASSUME NEW a \in stable \ (ToSet(got') \cup L1)
       PROVE  Rank(NodeOf(a)) > next /\ Rank(NodeOf(a)) \in Nat
  <2>1. Rank(NodeOf(a)) \in Nat /\ Rank(NodeOf(a)) > offset
    BY <1>5, <1>7, <1>8, <1>11
  <2>2. a \notin ToSet(p)
    BY <1>6
  <2>3. ~(Rank(NodeOf(a)) <= next)
    <3> SUFFICES ASSUME Rank(NodeOf(a)) <= next PROVE FALSE
      OBVIOUS
    <3> DEFINE i == Rank(NodeOf(a)) - offset
    <3>1. NodeOf(a) \in nodes /\ NodeOf(a).name = a /\ offset < Rank(NodeOf(a))
      BY <1>5, <1>7, <2>1
    <3>2. i \in 1..Len(p) /\ p[i] = a
      BY <1>4, <3>1 DEF PageOf
    <3>3. p[i] \in ToSet(p)
      <4> HIDE DEF i
      <4> QED
        BY <1>5, <3>2 DEF ToSet
    <3> QED
      BY <2>2, <3>2, <3>3
  <2> QED
    BY <1>5, <2>1, <2>3
<1>15. Order(F1, L1)'
  <2>1. /\ result'.next = next /\ (result'.truncated <=> op = "list_tree" /\ next < Cardinality(nodes))
        /\ (next < Cardinality(nodes) \/ \A x \in nodes : Rank(x) <= next)
    BY <1>4 DEF PageOf
  <2>2. result'.truncated => Cardinality(F1) = result'.next
    <3>1. Cardinality(nodes) \in Nat
      BY <1>5, FS_CardinalityType DEF OneEach
    <3> QED
      BY <1>5, <1>11, <2>1, <3>1, FirstAreCounted
  <2>3. \A f \in F1 : ~Skipped(op, f.name, f.kind)
    BY <1>5, <1>11 DEF First
  <2>4. ASSUME NEW a \in stable \ (ToSet(got') \cup L1)
        PROVE  /\ \A f \in F1 : Before(op, f, NodeOf(a))
               /\ \A b \in stable \cap ToSet(got') : ~Before(op, NodeOf(a), NodeOf(b))
    <3>1. Rank(NodeOf(a)) > next /\ Rank(NodeOf(a)) \in Nat /\ NodeOf(a) \in nodes
      BY <1>7, <1>14
    <3>2. \A f \in F1 : Before(op, f, NodeOf(a))
      BY <1>5, <1>8, <1>11, <3>1 DEF First
    <3>3. ASSUME NEW b \in stable, b \in ToSet(got)
          PROVE  ~Before(op, NodeOf(a), NodeOf(b))
      BY <1>3, <1>6, <1>11, <3>3 DEF Ledger, Order
    <3>4. ASSUME NEW b \in stable, b \in ToSet(p)
          PROVE  ~Before(op, NodeOf(a), NodeOf(b))
      <4>1. PICK i \in 1..Len(p) : p[i] = b
        BY <1>5, <3>4 DEF ToSet
      <4>2. PICK x \in nodes : b = x.name /\ Rank(x) = offset + i
        BY <1>4, <4>1 DEF PageOf
      <4>3. x = NodeOf(b)
        BY <1>5, <1>7, <4>2 DEF OneEach
      <4>4. offset + i <= next
        BY <1>4, <1>5 DEF PageOf
      <4>5. ~(Rank(NodeOf(a)) < Rank(NodeOf(b)))
        BY <1>5, <3>1, <4>2, <4>3, <4>4
      <4> QED
        BY <1>7, <1>8, <4>5
    <3> QED
      BY <1>6, <3>2, <3>3, <3>4
  <2>5. op = "list_tree" /\ ~result'.truncated => stable \subseteq ToSet(got') \cup L1
    <3>1. SUFFICES ASSUME op = "list_tree", ~result'.truncated,
                          NEW a \in stable, a \notin ToSet(got') \cup L1
                   PROVE  FALSE
      OBVIOUS
    <3>2. Rank(NodeOf(a)) > next /\ Rank(NodeOf(a)) \in Nat
      BY <1>14, <3>1
    <3>3. Rank(NodeOf(a)) <= next
      BY <1>7, <2>1, <3>1
    <3> QED
      BY <1>5, <3>2, <3>3
  <2>6. \A a : NodeOf(a)' = NodeOf(a)
    BY <1>1 DEF NodeOf
  <2> QED
    BY <1>1, <2>2, <2>3, <2>4, <2>5, <2>6 DEF Order
<1>16. Ledger(F1, D1, {}, L1)'
  BY <1>12, <1>13, <1>15 DEF Ledger
<1> QED
  BY <1>1, <1>2, <1>16 DEF Visible, Listed

(* A deletion is charged to the entry that fell out of the pages made, or  *)
(* to the one found in this call.                                          *)
LEMMA SkipDelete ==
  ASSUME TypeInv, NEW F, NEW C, NEW D, NEW L, Ledger(F, C, D, L),
         NEW n \in Names, deletions' = deletions + 1,
         \A m \in Names : m # n => dir'[m] = dir[m],
         UNCHANGED <<step, todo, nodes>>
  PROVE  \E C1, D1 : Sets(F, C1, D1, L)' /\ Where(F, C1, D1)'
<1>1. /\ F \subseteq Node /\ IsFiniteSet(F) /\ (\A f, g \in F : f.name = g.name => f = g)
      /\ C \in SUBSET F /\ D \in SUBSET nodes /\ (step # "visit" => D = {}) /\ L \in SUBSET Names
      /\ Cardinality(L) + Cardinality(C) + Cardinality(D) <= deletions
  BY DEF Ledger, Sets
<1>2. OneEach /\ IsFiniteSet(nodes) /\ IsFiniteSet(Names) /\ deletions \in Nat
  BY ListAssumption DEF TypeInv, TypeOK, NodesInv, OneEach
<1>3. /\ IsFiniteSet(L) /\ IsFiniteSet(C) /\ IsFiniteSet(D)
      /\ Cardinality(L) \in Nat /\ Cardinality(C) \in Nat /\ Cardinality(D) \in Nat
  BY <1>1, <1>2, FS_Subset, FS_CardinalityType
<1>4. /\ \A f \in F : f.name \in Names
      /\ \A x \in nodes : x.name \in Names
  BY <1>1, <1>2, NodeFields DEF OneEach
<1>5. \A f : Ahead(f)' <=> Ahead(f)
  BY DEF Ahead
<1>6. \A f : Found(f)' <=> Found(f)
  BY DEF Found
<1>7. \A f : f.name \in Names /\ f.name # n => (Kept(f)' <=> Kept(f))
  BY DEF Kept
<1>8. /\ \A f \in F \ C : IF Ahead(f) THEN Kept(f) ELSE Found(f)
      /\ step = "visit" => \A x \in nodes \ D : Kept(x)
  BY DEF Ledger, Where
<1>9. CASE \E f \in F \ C : Ahead(f) /\ f.name = n
  <2> PICK f \in F \ C : Ahead(f) /\ f.name = n
    BY <1>9
  <2> DEFINE C1 == C \cup {f}
  <2>1. Cardinality(C1) = Cardinality(C) + 1 /\ C1 \subseteq F
    BY <1>1, <1>3, FS_AddElement
  <2>2. \A g \in F \ C1 : g \in F \ C /\ g.name # n
    BY <1>1
  <2>3. step = "visit" => \A x \in nodes : x.name # n
    BY DEF Ahead, TypeInv, NodesInv
  <2> HIDE DEF C1
  <2>4. Sets(F, C1, D, L)'
    BY <1>1, <1>2, <1>3, <2>1 DEF Sets
  <2>5. \A g \in F \ C1 : IF Ahead(g) THEN Kept(g)' ELSE Found(g)
    BY <1>4, <1>7, <1>8, <2>2
  <2>6. step = "visit" => \A x \in nodes \ D : Kept(x)'
    BY <1>4, <1>7, <1>8, <2>3
  <2>7. Where(F, C1, D)'
    BY <1>5, <1>6, <2>5, <2>6 DEF Where
  <2> QED
    BY <2>4, <2>7
<1>10. CASE ~(\E f \in F \ C : Ahead(f) /\ f.name = n) /\ step = "visit" /\ \E x \in nodes \ D : x.name = n
  <2> PICK x \in nodes \ D : x.name = n
    BY <1>10
  <2> DEFINE D1 == D \cup {x}
  <2>1. Cardinality(D1) = Cardinality(D) + 1 /\ D1 \subseteq nodes
    BY <1>1, <1>3, FS_AddElement
  <2>2. \A y \in nodes \ D1 : y \in nodes \ D /\ y.name # n
    BY <1>2 DEF OneEach
  <2> HIDE DEF D1
  <2>3. Sets(F, C, D1, L)'
    BY <1>1, <1>2, <1>3, <1>10, <2>1 DEF Sets
  <2>4. \A f \in F \ C : IF Ahead(f) THEN Kept(f)' ELSE Found(f)
    BY <1>4, <1>7, <1>8, <1>10
  <2>5. \A y \in nodes \ D1 : Kept(y)'
    BY <1>4, <1>7, <1>8, <1>10, <2>2
  <2>6. Where(F, C, D1)'
    BY <1>5, <1>6, <2>4, <2>5 DEF Where
  <2> QED
    BY <2>3, <2>6
<1>11. CASE ~(\E f \in F \ C : Ahead(f) /\ f.name = n) /\ ~(step = "visit" /\ \E x \in nodes \ D : x.name = n)
  <2>1. Sets(F, C, D, L)'
    BY <1>1, <1>2, <1>3 DEF Sets
  <2>2. \A f \in F \ C : IF Ahead(f) THEN Kept(f)' ELSE Found(f)
    BY <1>4, <1>7, <1>8, <1>11
  <2>3. step = "visit" => \A y \in nodes \ D : Kept(y)'
    BY <1>4, <1>7, <1>8, <1>11
  <2>4. Where(F, C, D)'
    BY <1>5, <1>6, <2>2, <2>3 DEF Where
  <2> QED
    BY <2>1, <2>4
<1> QED
  BY <1>9, <1>10, <1>11

LEMMA SkipServer ==
  ASSUME TypeInv, HintInv, SkipInv, Create \/ Touch \/ Delete \/ Move
  PROVE  SkipInv'
<1>1. CASE Move
  BY <1>1 DEF Move, SkipInv
<1>2. CASE Create \/ Touch \/ Delete
  <2> SUFFICES ASSUME Active', stable' # {}
               PROVE  /\ place' = "directory" /\ stable' \subseteq Visible(op)'
                      /\ \E F, C, D, L : Ledger(F, C, D, L)'
    BY DEF SkipInv
  <2>1. PICK n \in Names, e \in Entry :
          /\ Change(n, e)
          /\ \/ /\ deletions' = deletions
                /\ Listed(n) => /\ e.present /\ e.kind = dir[n].kind
                                /\ e.mtime >= dir[n].mtime
             \/ Listed(n) /\ deletions' = deletions + 1
    BY <1>2, ChangeIs DEF TypeInv, TypeOK
  <2>2. /\ UNCHANGED <<place, op, got, offset, step, todo, nodes, answer, result>>
        /\ stable' = stable \ {n}
        /\ dir'[n] = e /\ \A m \in Names : m # n => dir'[m] = dir[m]
    BY <2>1 DEF Change, TypeInv, TypeOK
  <2>3. Active /\ stable # {}
    BY <2>2 DEF Active
  <2>4. /\ place = "directory" /\ stable \subseteq Visible(op)
        /\ \E F, C, D, L : Ledger(F, C, D, L)
    BY <2>3 DEF SkipInv
  <2>5. PICK F, C, D, L : Ledger(F, C, D, L)
    BY <2>4
  <2>6. \A a \in stable' : a \in stable /\ NodeOf(a)' = NodeOf(a)
    BY <2>2, <2>4 DEF NodeOf, Visible
  <2>7. stable' \subseteq Visible(op)'
    BY <2>2, <2>4 DEF Visible, Listed
  <2>8. Order(F, L)'
    BY <2>2, <2>5, <2>6 DEF Ledger, Order
  <2>9. \E C1, D1 : Sets(F, C1, D1, L)' /\ Where(F, C1, D1)'
    <3>1. CASE deletions' = deletions + 1
      BY <2>2, <2>5, <3>1, SkipDelete
    <3>2. CASE /\ deletions' = deletions
               /\ Listed(n) => e.present /\ e.kind = dir[n].kind /\ e.mtime >= dir[n].mtime
      <4>1. ASSUME NEW f \in Node, Kept(f)
            PROVE  Kept(f)'
        <5>1. /\ f.name \in Names /\ f.mtime \in Nat /\ dir[f.name].present
              /\ dir[f.name].kind = f.kind /\ dir[f.name].mtime >= f.mtime
          BY <4>1, NodeFields DEF Kept
        <5>2. CASE f.name = n
          <6>1. dir[n].mtime \in Nat /\ e.mtime \in Nat /\ Listed(n)
            <7>1. dir[n].mtime \in 0..MaxTime /\ e.mtime \in 0..MaxTime
              BY EntryIs DEF TypeInv, TypeOK
            <7>2. f.kind \in Kinds
              BY <4>1, NodeFields
            <7> QED
              BY <5>1, <5>2, <7>1, <7>2, ListAssumption DEF Listed
          <6>2. e.mtime >= f.mtime
            BY <3>2, <5>1, <5>2, <6>1
          <6> QED
            BY <2>2, <3>2, <5>1, <5>2, <6>1, <6>2 DEF Kept
        <5>3. CASE f.name # n
          BY <2>2, <5>1, <5>3 DEF Kept
        <5> QED
          BY <5>2, <5>3
      <4>2. F \subseteq Node /\ nodes \subseteq Node
        BY <2>5 DEF Ledger, Sets, TypeInv, TypeOK
      <4>3. Sets(F, C, D, L)'
        BY <2>2, <2>5, <3>2 DEF Ledger, Sets
      <4>4. \A f \in F \ C : IF Ahead(f) THEN Kept(f)' ELSE Found(f)
        BY <2>5, <4>1, <4>2 DEF Ledger, Where
      <4>5. step = "visit" => \A x \in nodes \ D : Kept(x)'
        BY <2>5, <4>1, <4>2 DEF Ledger, Where
      <4>6. \A f : (Ahead(f)' <=> Ahead(f)) /\ (Found(f)' <=> Found(f))
        BY <2>2 DEF Ahead, Found
      <4>7. Where(F, C, D)'
        BY <2>2, <4>4, <4>5, <4>6 DEF Where
      <4> QED
        BY <4>3, <4>7
    <3> QED
      BY <2>1, <3>1, <3>2
  <2>10. PICK C1, D1 : Sets(F, C1, D1, L)' /\ Where(F, C1, D1)'
    BY <2>9
  <2>11. Ledger(F, C1, D1, L)'
    BY <2>8, <2>10 DEF Ledger
  <2> QED
    BY <2>2, <2>4, <2>7, <2>11
<1> QED
  BY <1>1, <1>2

LEMMA SkipStep ==
  ASSUME TypeInv, HintInv, SkipInv, [Next]_vars
  PROVE  SkipInv'
<1>1. CASE UNCHANGED vars
  BY <1>1 DEF vars, server, agent, SkipInv, Active, Visible, Listed, NodeOf, Ledger, Sets, Where, Order,
              Ahead, Kept, Found
<1> QED
  BY <1>1, SkipBegin, SkipResolve, SkipVisit, SkipFinish, SkipServer DEF Next

LEMMA SkipsArePaid ==
  ASSUME TypeInv, HintInv, SkipInv
  PROVE  SkipsAreDeletions
<1> SUFFICES ASSUME answer = "ok", step = "answered"
             PROVE  Cardinality(Missed) <= deletions
  BY DEF SkipsAreDeletions
<1>1. deletions \in Nat /\ IsFiniteSet(Names)
  BY ListAssumption DEF TypeInv, TypeOK
<1>2. CASE stable = {}
  <2>1. Missed = {}
    BY <1>2 DEF Missed
  <2>2. Cardinality(Missed) = 0
    BY <2>1, FS_EmptySet
  <2> QED
    BY <1>1, <2>2
<1>3. CASE stable # {}
  <2>1. PICK F, C, D, L : Ledger(F, C, D, L)
    BY <1>3 DEF SkipInv, Active
  <2>2. Missed \in SUBSET L
    BY <2>1 DEF Missed, Ledger, Order
  <2>3. /\ L \in SUBSET Names /\ C \in SUBSET F /\ IsFiniteSet(F) /\ D = {}
        /\ Cardinality(L) + Cardinality(C) + Cardinality(D) <= deletions
    BY <2>1 DEF Ledger, Sets
  <2>4. /\ IsFiniteSet(L) /\ Cardinality(L) \in Nat /\ Cardinality(C) \in Nat /\ Cardinality(D) = 0
    BY <1>1, <2>3, FS_Subset, FS_CardinalityType, FS_EmptySet
  <2>5. Cardinality(Missed) <= Cardinality(L) /\ Cardinality(Missed) \in Nat
    BY <2>2, <2>4, FS_Subset, FS_CardinalityType
  <2> QED
    BY <1>1, <2>3, <2>4, <2>5
<1> QED
  BY <1>2, <1>3

-----------------------------------------------------------------------------
(* A directory that nobody changes.  What the agent has got is the first   *)
(* part of the listing that every page is cut from.                        *)
Looked ==
  /\ \A x \in nodes : x.name \in Visible(op) /\ x = NodeOf(x.name)
  /\ \A n \in Visible(op) : n \in todo \/ NodeOf(n) \in nodes

Unsent == \A v \in Visible(op) \ ToSet(got), i \in DOMAIN got : Before(op, NodeOf(got[i]), NodeOf(v))

QuietInv ==
  /\ QuietListingIsSorted
  /\ quiet =>
       /\ Active => place = "directory"
       /\ step # "answered" => offset = Len(got)
       /\ result.truncated => result.next = Len(got)
       /\ step = "visit" => Looked
       /\ step # "answered" \/ result.truncated => Unsent

LEMMA QuietBegin ==
  ASSUME TypeInv, HintInv, QuietInv, (\E o \in Ops, first \in {-1, 0} : NewListing(o, first)) \/ NextPage
  PROVE  QuietInv'
<1>1. CASE NextPage
  <2>1. /\ step = "answered" /\ result.truncated /\ offset' = result.next /\ step' = "resolve"
        /\ ~result'.truncated /\ UNCHANGED <<place, dir, op, got, quiet>>
    BY <1>1 DEF NextPage, BeginCall, NoResult, server, agent
  <2>2. Active
    BY <2>1 DEF HintInv, Active
  <2> QED
    BY <2>1, <2>2 DEF QuietInv, QuietListingIsSorted, Visible, Listed, NodeOf, Unsent
<1>2. ASSUME NEW o \in Ops, NEW first \in {-1, 0}, NewListing(o, first)
      PROVE  QuietInv'
  <2>1. /\ got' = <<>> /\ step' = "resolve" /\ ~result'.truncated /\ UNCHANGED <<place, dir>>
        /\ (quiet' => offset' = 0 /\ place = "directory")
    BY <1>2 DEF NewListing, BeginCall, NoResult, server
  <2>2. DOMAIN got' = {} /\ ToSet(got') = {} /\ Len(got') = 0
    BY <2>1 DEF ToSet
  <2>3. QuietListingIsSorted' /\ Unsent'
    BY <2>2 DEF QuietListingIsSorted, Unsent
  <2> QED
    BY <2>1, <2>2, <2>3 DEF QuietInv
<1> QED
  BY <1>1, <1>2

LEMMA QuietLook ==
  ASSUME TypeInv, HintInv, QuietInv, Resolve \/ IterDir \/ Visit
  PROVE  QuietInv'
<1>1. /\ UNCHANGED <<place, dir, op, got, quiet, offset, result>>
      /\ step # "answered" /\ Active
  BY DEF Resolve, IterDir, Visit, server, agent, Active
<1>2. QuietListingIsSorted' /\ (quiet => Unsent')
  BY <1>1 DEF QuietInv, QuietListingIsSorted, Unsent, Visible, Listed, NodeOf
<1>3. quiet => place = "directory" /\ offset = Len(got)
  BY <1>1 DEF QuietInv
<1>4. ASSUME quiet, step' = "visit"
      PROVE  Looked'
  <2>1. CASE IterDir
    <3>1. nodes' = {} /\ todo' = {n \in Names : dir[n].present}
      BY <1>3, <1>4, <2>1 DEF IterDir, TypeInv, NodesInv
    <3> QED
      BY <1>1, <3>1 DEF Looked, Visible, Listed
  <2>2. CASE Visit
    <3>1. PICK n \in todo :
            /\ todo' = todo \ {n}
            /\ IF Listed(n) /\ ~Skipped(op, n, dir[n].kind)
               THEN nodes' = nodes \cup {NodeOf(n)} ELSE nodes' = nodes
      BY <1>3, <1>4, <2>2, VisitIs
    <3>2. Looked /\ n \in Names
      BY <1>4, <2>2 DEF Visit, QuietInv, TypeInv, TypeOK
    <3>3. ASSUME NEW x \in nodes'
          PROVE  x.name \in Visible(op) /\ x = NodeOf(x.name)
      <4>1. CASE x \in nodes
        BY <3>2, <4>1 DEF Looked
      <4>2. CASE x = NodeOf(n) /\ Listed(n) /\ ~Skipped(op, n, dir[n].kind)
        <5>1. x.name = n
          BY <4>2 DEF NodeOf
        <5> QED
          BY <3>2, <4>2, <5>1 DEF Visible
      <4> QED
        BY <3>1, <4>1, <4>2
    <3>4. ASSUME NEW m \in Visible(op)
          PROVE  m \in todo' \/ NodeOf(m) \in nodes'
      BY <3>1, <3>2 DEF Looked, Visible
    <3> QED
      BY <1>1, <3>3, <3>4 DEF Looked, Visible, Listed, NodeOf
  <2>3. CASE Resolve
    BY <1>4, <2>3 DEF Resolve, Answer
  <2> QED
    BY <2>1, <2>2, <2>3
<1> QED
  BY <1>1, <1>2, <1>3, <1>4 DEF QuietInv

(* What the agent has got is what stands before the offset.                *)
LEMMA GotIsFirst ==
  ASSUME TypeInv, QuietInv, quiet, step = "visit", todo = {}
  PROVE  /\ \A n \in Visible(op) : NodeOf(n) \in nodes /\ NodeOf(n).name = n
         /\ \A i \in DOMAIN got : Rank(NodeOf(got[i])) <= offset
         /\ \A x \in nodes : Rank(x) <= offset => x.name \in ToSet(got)
<1> DEFINE k == Len(got)
           h == [i \in 1..k |-> NodeOf(got[i])]
           H == {h[i] : i \in 1..k}
           G == First(offset)
<1>1. /\ OneEach /\ got \in Seq(Names) /\ offset = k /\ k \in Nat /\ DOMAIN got = 1..k
      /\ IsFiniteSet(nodes) /\ dir \in [Names -> Entry]
  BY DEF TypeInv, TypeOK, NodesInv, OneEach, QuietInv
<1>2. /\ \A i, j \in 1..k : i < j => Before(op, h[i], h[j])
      /\ ToSet(got) \subseteq Visible(op)
      /\ \A v \in Visible(op) \ ToSet(got), i \in 1..k : Before(op, h[i], NodeOf(v))
  BY <1>1 DEF QuietInv, QuietListingIsSorted, Unsent
<1>3. \A n \in Visible(op) : NodeOf(n) \in nodes /\ NodeOf(n).name = n
  BY DEF QuietInv, Looked, NodeOf
<1>4. \A i \in 1..k : h[i] \in nodes /\ h[i] \in Node /\ h[i].name = got[i] /\ got[i] \in ToSet(got)
  <2>1. \A i \in 1..k : got[i] \in ToSet(got)
    BY <1>1 DEF ToSet
  <2> QED
    BY <1>1, <1>2, <1>3, <2>1 DEF OneEach
<1> HIDE DEF h
<1>5. IsFiniteSet(H) /\ Cardinality(H) = k /\ H \in SUBSET nodes
  <2>1. \A i, j \in 1..k : h[i] = h[j] => i = j
    <3> SUFFICES ASSUME NEW i \in 1..k, NEW j \in 1..k, i < j
                 PROVE  h[i] # h[j]
      BY <1>1
    <3> QED
      BY <1>2, <1>4, BeforeIsOrder
  <2>2. h \in Bijection(1..k, H)
    <3>1. h \in [1..k -> H]
      BY DEF h
    <3> QED
      BY <2>1, <3>1 DEF Bijection, Injection, IsInjective, Surjection
  <2>3. IsFiniteSet(1..k) /\ Cardinality(1..k) = k
    <3> HIDE DEF k
    <3> QED
      BY <1>1, FS_Interval
  <2>4. H \in SUBSET nodes
    BY <1>4
  <2> HIDE DEF H, k
  <2> QED
    BY <2>2, <2>3, <2>4, FS_Bijection DEF ExistsBijection
<1>6. /\ G \in SUBSET nodes /\ IsFiniteSet(G) /\ Cardinality(G) \in Nat /\ Cardinality(G) <= k
      /\ \A x \in nodes : Rank(x) \in Nat
      /\ \A x, y \in nodes : Before(op, x, y) <=> Rank(x) < Rank(y)
  BY <1>1, FirstAreCounted, RanksAreOrder
<1>7. ASSUME NEW x \in G
      PROVE  x \in H
  <2> SUFFICES ASSUME x \notin H PROVE FALSE
    OBVIOUS
  <2>1. x \in nodes /\ Rank(x) <= offset
    BY DEF First
  <2>2. x.name \in Visible(op) /\ x = NodeOf(x.name)
    BY <2>1 DEF QuietInv, Looked
  <2>3. x.name \notin ToSet(got)
    <3> SUFFICES ASSUME x.name \in ToSet(got) PROVE FALSE
      OBVIOUS
    <3>1. PICK i \in 1..k : x.name = got[i]
      BY <1>1 DEF ToSet
    <3>2. h[i] = x
      BY <2>2, <3>1 DEF h
    <3> QED
      BY <3>2
  <2>4. \A i \in 1..k : Before(op, h[i], x)
    BY <1>2, <2>2, <2>3
  <2>5. \A i \in 1..k : h[i] \in G
    BY <1>1, <1>4, <1>6, <2>1, <2>4 DEF First
  <2> DEFINE A == H \cup {x}
  <2>6. A \in SUBSET G
    BY <2>5
  <2>7. Cardinality(A) = k + 1
    <3> HIDE DEF H
    <3> QED
      BY <1>5, FS_AddElement
  <2> HIDE DEF A, G, H
  <2>8. Cardinality(A) <= Cardinality(G)
    BY <1>6, <2>6, FS_Subset
  <2> QED
    BY <1>1, <1>6, <2>7, <2>8
<1>8. H = G
  <2> HIDE DEF H
  <2>1. k <= Cardinality(nodes)
    BY <1>1, <1>5, FS_Subset
  <2>2. Cardinality(G) = k
    BY <1>1, <2>1, FirstAreCounted
  <2>3. G \in SUBSET H
    BY <1>7
  <2> HIDE DEF G
  <2> QED
    BY <1>5, <2>2, <2>3, FS_Subset
<1>9. \A i \in 1..k : Rank(h[i]) <= offset
  BY <1>8 DEF First
<1>10. ASSUME NEW x \in nodes, Rank(x) <= offset
       PROVE  x.name \in ToSet(got)
  <2>1. x \in H
    BY <1>8, <1>10 DEF First
  <2> QED
    BY <1>4, <2>1
<1> QED
  BY <1>1, <1>3, <1>9, <1>10 DEF h

LEMMA QuietFinish ==
  ASSUME TypeInv, HintInv, QuietInv, Finish
  PROVE  QuietInv'
<1> SUFFICES ASSUME quiet
             PROVE  QuietInv'
  BY DEF Finish, QuietInv, QuietListingIsSorted
<1>1. /\ UNCHANGED <<place, dir, op, quiet>> /\ step = "visit" /\ todo = {} /\ step' = "answered"
  BY DEF Finish, server, Answer
<1>2. PICK p, next : PageOf(p, next)
  BY PageIsThere
<1>3. /\ OneEach /\ offset \in Nat /\ next \in Nat /\ got \in Seq(Names) /\ p \in Seq(Names)
      /\ offset = Len(got) /\ offset + Len(p) = next
      /\ got' = got \o p /\ result'.next = next
      /\ place = "directory"
  BY <1>1, <1>2 DEF PageOf, TypeInv, TypeOK, NodesInv, Visiting, QuietInv, Active
<1>4. /\ \A n \in Visible(op) : NodeOf(n) \in nodes /\ NodeOf(n).name = n
      /\ \A i \in DOMAIN got : Rank(NodeOf(got[i])) <= offset
      /\ \A x \in nodes : Rank(x) <= offset => x.name \in ToSet(got)
  BY <1>1, GotIsFirst
<1>5. /\ \A x \in nodes : Rank(x) \in Nat /\ x.name \in Visible(op) /\ x = NodeOf(x.name)
      /\ \A x, y \in nodes : Before(op, x, y) <=> Rank(x) < Rank(y)
  BY <1>1, <1>3, RanksAreOrder DEF QuietInv, Looked
<1>6. /\ Len(got') = next /\ DOMAIN got' = 1..next
      /\ \A i \in 1..next : got'[i] = IF i <= offset THEN got[i] ELSE p[i - offset]
  BY <1>3
<1>7. ASSUME NEW i \in 1..next
      PROVE  /\ got'[i] \in Visible(op) /\ NodeOf(got'[i]) \in nodes /\ Rank(NodeOf(got'[i])) \in Nat
             /\ IF i <= offset THEN i \in DOMAIN got /\ got'[i] = got[i] /\ Rank(NodeOf(got'[i])) <= offset
                ELSE Rank(NodeOf(got'[i])) = i
  <2>1. CASE i <= offset
    <3>1. i \in DOMAIN got /\ got'[i] = got[i]
      BY <1>3, <1>6, <2>1
    <3>2. got[i] \in Visible(op)
      BY <3>1 DEF ToSet, QuietInv, QuietListingIsSorted
    <3> QED
      BY <1>4, <1>5, <2>1, <3>1, <3>2
  <2>2. CASE ~(i <= offset)
    <3> DEFINE j == i - offset
    <3>1. j \in 1..Len(p) /\ got'[i] = p[j] /\ offset + j = i
      BY <1>3, <1>6, <2>2
    <3> HIDE DEF j
    <3>2. PICK x \in nodes : p[j] = x.name /\ Rank(x) = offset + j
      BY <1>2, <3>1 DEF PageOf
    <3> QED
      BY <1>5, <2>2, <3>1, <3>2
  <2> QED
    BY <2>1, <2>2
<1>8. ASSUME NEW i \in 1..next, NEW j \in 1..next, i < j
      PROVE  Before(op, NodeOf(got'[i]), NodeOf(got'[j]))
  <2>1. CASE j <= offset
    <3>1. i <= offset
      BY <1>3, <1>8, <2>1
    <3> QED
      BY <1>7, <1>8, <2>1, <3>1 DEF QuietInv, QuietListingIsSorted
  <2>2. CASE ~(j <= offset)
    <3>1. Rank(NodeOf(got'[j])) = j /\ Rank(NodeOf(got'[i])) \in Nat
      BY <1>7, <2>2
    <3>2. Rank(NodeOf(got'[i])) <= offset \/ Rank(NodeOf(got'[i])) = i
      BY <1>7
    <3>3. Rank(NodeOf(got'[i])) < Rank(NodeOf(got'[j]))
      BY <1>3, <1>8, <2>2, <3>1, <3>2
    <3> QED
      BY <1>5, <1>7, <3>3
  <2> QED
    BY <2>1, <2>2
<1>9. ToSet(got') \subseteq Visible(op)
  BY <1>6, <1>7 DEF ToSet
<1>10. ASSUME NEW v \in Visible(op) \ ToSet(got'), NEW i \in 1..next
       PROVE  Before(op, NodeOf(got'[i]), NodeOf(v))
  <2>1. NodeOf(v) \in nodes /\ NodeOf(v).name = v /\ Rank(NodeOf(v)) \in Nat
    BY <1>4, <1>5
  <2>2. v \notin ToSet(got) /\ v \notin ToSet(p)
    BY <1>3, JoinedSet
  <2>3. ~(Rank(NodeOf(v)) <= offset)
    BY <1>4, <2>1, <2>2
  <2>4. ~(Rank(NodeOf(v)) <= next)
    <3> SUFFICES ASSUME Rank(NodeOf(v)) <= next PROVE FALSE
      OBVIOUS
    <3> DEFINE j == Rank(NodeOf(v)) - offset
    <3>1. offset < Rank(NodeOf(v))
      BY <1>3, <2>1, <2>3
    <3>2. j \in 1..Len(p) /\ p[j] = v
      BY <1>2, <2>1, <3>1 DEF PageOf
    <3>3. p[j] \in ToSet(p)
      <4> HIDE DEF j
      <4> QED
        BY <1>3, <3>2 DEF ToSet
    <3> QED
      BY <2>2, <3>2, <3>3
  <2>5. Rank(NodeOf(got'[i])) <= next
    <3>1. offset <= next /\ i <= next
      BY <1>3
    <3> QED
      BY <1>3, <1>7, <3>1
  <2>6. Rank(NodeOf(got'[i])) < Rank(NodeOf(v)) /\ NodeOf(got'[i]) \in nodes
    BY <1>3, <1>7, <2>1, <2>4, <2>5
  <2> QED
    BY <1>5, <2>1, <2>6
<1>11. \A n : NodeOf(n)' = NodeOf(n)
  BY <1>1 DEF NodeOf
<1>12. Visible(op)' = Visible(op)
  BY <1>1 DEF Visible, Listed
<1>13. QuietListingIsSorted'
  BY <1>1, <1>6, <1>8, <1>9, <1>11, <1>12 DEF QuietListingIsSorted
<1>14. Unsent'
  BY <1>1, <1>6, <1>10, <1>11, <1>12 DEF Unsent
<1> QED
  BY <1>1, <1>3, <1>6, <1>13, <1>14 DEF QuietInv

LEMMA QuietStep ==
  ASSUME TypeInv, HintInv, QuietInv, [Next]_vars
  PROVE  QuietInv'
<1>1. CASE UNCHANGED vars
  BY <1>1 DEF vars, server, agent, QuietInv, QuietListingIsSorted, Active, Looked, Unsent, Visible, Listed, NodeOf
<1>2. CASE Create \/ Touch \/ Delete \/ Move
  <2>1. quiet' = FALSE
    BY <1>2 DEF Create, Touch, Delete, Change, Move
  <2> QED
    BY <2>1 DEF QuietInv, QuietListingIsSorted
<1> QED
  BY <1>1, <1>2, QuietBegin, QuietLook, QuietFinish DEF Next

(* PageInv holds however the entries and the pages interleave.             *)
PageInv == TypeInv /\ HintInv /\ SkipInv /\ QuietInv

LEMMA InitPages == Init => PageInv
<1> SUFFICES ASSUME Init PROVE PageInv
  OBVIOUS
<1>1. /\ step = "answered" /\ answer = "none" /\ ~result.truncated /\ got = <<>>
  BY DEF Init, NoResult
<1>2. DOMAIN got = {} /\ ToSet(got) = {}
  BY <1>1 DEF ToSet
<1>3. HintInv /\ SkipInv /\ QuietInv
  BY <1>1, <1>2 DEF HintInv, SkipInv, Active, QuietInv, QuietListingIsSorted
<1> QED
  BY <1>3, InitType DEF PageInv

(* The pages of a listing are the directory: in order and complete when    *)
(* nobody changes it, and each entry that falls between two pages is paid  *)
(* for by a deletion of its own (remote_fs/service.py 236-260).            *)
THEOREM PagesAreWhole == Spec => []PagesAreTheListing
<1>1. PageInv /\ [Next]_vars => PageInv'
  BY StepType, HintStep, SkipStep, QuietStep DEF PageInv
<1>2. PageInv => PagesAreTheListing
  BY SkipsArePaid DEF PageInv, QuietInv, PagesAreTheListing
<1> QED
  BY <1>1, <1>2, InitPages, PTL DEF Spec

=============================================================================
