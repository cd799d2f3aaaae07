-------------------------- MODULE RemoteFileProofs --------------------------
(***************************************************************************)
(* Proofs about RemoteFile, for any limits, texts and number of files.     *)
(* - What an answer says of the path was found in one of the accesses of   *)
(*   the call; SeenInv keeps the history of the path up with what each     *)
(*   access could find.                                                    *)
(* - The pages make up the file because each ends with a line that had     *)
(*   ended: PagesInv says so, and LinesStay that such a line stays.        *)
(* - A search is right because its loop is right after each line, ScanInv. *)
(***************************************************************************)
EXTENDS RemoteFile, FiniteSetTheorems, SequenceTheorems, WellFoundedInduction, TLAPS

SeenInv ==
  /\ step # "answered" => answer = "none" /\ Facts(texts, current, access) \subseteq seen
  /\ step = "read" => "readable" \in seen

IInv == SeenInv /\ AnswerWasTrue

(* The history knows what an access is about to find.                      *)
LEMMA AccessFinds ==
  ASSUME SeenInv, step # "answered"
  PROVE  /\ current = Absent => "absent" \in seen
         /\ current = Directory => "directory" \in seen
         /\ IsFile(current) /\ Len(texts[current]) > MaxFileSize => "large" \in seen
         /\ IsFile(current) /\ HasNul(texts[current]) => "binary" \in seen
         /\ access # "granted" => "unreadable" \in seen
         /\ access = "granted" => "readable" \in seen
BY DEF SeenInv, Facts, FactNames

LEMMA BeginInv ==
  ASSUME BeginCall, UNCHANGED files
  PROVE  IInv'
<1>1. step' = "exists" /\ answer' = "none" /\ seen' = Facts(texts', current', access')
  BY DEF BeginCall, files
<1> QED
  BY <1>1 DEF IInv, SeenInv, AnswerWasTrue

LEMMA AccessInv ==
  ASSUME IInv, Exists \/ IsDir \/ Stat \/ BinaryCheck \/ Open
  PROVE  IInv'
<1>1. step # "answered" /\ UNCHANGED <<texts, current, access, seen>>
  BY DEF Exists, IsDir, Stat, BinaryCheck, Open, Unread, files
<1>2. SeenInv'
  BY <1>1, AccessFinds DEF IInv, SeenInv, Exists, IsDir, Stat, BinaryCheck, Open, Answer
<1>3. AnswerWasTrue'
  <2> SUFFICES ASSUME step' = "answered"
               PROVE  /\ answer' \in {"path_not_found", "FileNotFoundError"} => "absent" \in seen
                      /\ answer' \in {"not_a_file", "IsADirectoryError"} => "directory" \in seen
                      /\ answer' = "file_too_large" => "large" \in seen
                      /\ answer' = "binary_file_not_supported" => "binary" \in seen
                      /\ answer' = "PermissionError" => "unreadable" \in seen
                      /\ answer' \notin {"ok", "line_out_of_range"}
    BY <1>1 DEF AnswerWasTrue
  <2> USE <1>1, AccessFinds DEF IInv, Answer
  <2>1. CASE Exists
    BY <2>1 DEF Exists
  <2>2. CASE IsDir
    BY <2>2 DEF IsDir
  <2>3. CASE Stat
    BY <2>3 DEF Stat
  <2>4. CASE BinaryCheck
    BY <2>4 DEF BinaryCheck, IsBinary
  <2>5. CASE Open
    BY <2>5 DEF Open
  <2> QED
    BY <2>1, <2>2, <2>3, <2>4, <2>5
<1> QED
  BY <1>2, <1>3 DEF IInv

(* What is computed from the text says of the path that it could be read.  *)
LEMMA ReadInv ==
  ASSUME IInv, Read
  PROVE  IInv'
<1>1. /\ step = "read" /\ step' = "answered" /\ answer' \in {"ok", "line_out_of_range"}
      /\ UNCHANGED seen
  BY DEF Read, ReadFile, SearchFile, Answer
<1> QED
  BY <1>1 DEF IInv, SeenInv, AnswerWasTrue

(* The programs on the server change the path under the eyes of "seen".    *)
LEMMA ServerInv ==
  ASSUME IInv, Changed
  PROVE  IInv'
<1>1. seen' = seen \cup Facts(texts', current', access') /\ UNCHANGED <<step, answer>>
  BY DEF Changed
<1> QED
  BY <1>1 DEF IInv, SeenInv, AnswerWasTrue

(* IInv holds whatever becomes of the file between two accesses.           *)
THEOREM Invariance == Spec => []IInv
<1>1. Init => IInv
  BY DEF Init, IInv, SeenInv, AnswerWasTrue
<1>2. IInv /\ [Next]_vars => IInv'
  <2> SUFFICES ASSUME IInv, [Next]_vars
               PROVE  IInv'
    OBVIOUS
  <2>1. CASE (\E c \in Calls : NewCall(c)) \/ NextPage
    BY <2>1, BeginInv DEF NewCall, NextPage, files
  <2>2. CASE Exists \/ IsDir \/ Stat \/ BinaryCheck \/ Open
    BY <2>2, AccessInv
  <2>3. CASE Read
    BY <2>3, ReadInv
  <2>4. CASE Write \/ Rotate \/ Unlink \/ MakeDirectory \/ Chmod
    BY <2>4, ServerInv DEF Write, Rotate, Unlink, MakeDirectory, Chmod
  <2>5. CASE UNCHANGED vars
    BY <2>5 DEF vars, files, IInv, SeenInv, AnswerWasTrue
  <2> QED
    BY <2>1, <2>2, <2>3, <2>4, <2>5 DEF Next
<1> QED
  BY <1>1, <1>2, PTL DEF Spec

(* What an answer of remote_read_file, remote_search_file or search_log    *)
(* says of the path was so at some moment of the call, however the file is *)
(* rotated, removed or replaced (remote_fs/service.py 143-181 and 431-606, *)
(* log_search/service.py 105-188).                                         *)
THEOREM AnswersWereTrue == Spec => []AnswerWasTrue
<1>1. IInv => AnswerWasTrue
  BY DEF IInv
<1> QED
  BY <1>1, Invariance, PTL

-----------------------------------------------------------------------------
(* Lines.  Breaks are counted from the left, so each has a number of its   *)
(* own and each number up to their count is the number of one.             *)
LEMMA BreaksAreFinite ==
  ASSUME NEW t \in Texts, NEW S
  PROVE  /\ Breaks(t, S) \subseteq 1..Len(t)
         /\ IsFiniteSet(Breaks(t, S))
         /\ Cardinality(Breaks(t, S)) \in Nat
<1>1. Breaks(t, S) \subseteq 1..Len(t) /\ Len(t) \in Nat
  BY DEF Breaks, Texts
<1>2. IsFiniteSet(1..Len(t))
  BY <1>1, FS_Interval
<1> QED
  BY <1>1, <1>2, FS_Subset, FS_CardinalityType

LEMMA RankGrows ==
  ASSUME NEW t \in Texts, NEW S, NEW b \in Breaks(t, S)
  PROVE  /\ Rank(t, S, b) \in 1..Cardinality(Breaks(t, S))
         /\ \A a \in Breaks(t, S) : a < b => Rank(t, S, a) < Rank(t, S, b)
<1> DEFINE U(x) == {c \in Breaks(t, S) : c <= x}
<1>1. /\ Breaks(t, S) \subseteq Nat /\ IsFiniteSet(Breaks(t, S))
      /\ Cardinality(Breaks(t, S)) \in Nat
  BY BreaksAreFinite DEF Texts
<1>2. \A x : IsFiniteSet(U(x)) /\ Cardinality(U(x)) \in Nat
             /\ Cardinality(U(x)) <= Cardinality(Breaks(t, S))
  BY <1>1, FS_Subset, FS_CardinalityType
<1>3. Cardinality(U(b)) # 0
  BY <1>1, <1>2, FS_EmptySet
<1>4. ASSUME NEW a \in Breaks(t, S), a < b
      PROVE  Cardinality(U(a)) < Cardinality(U(b))
  <2>1. U(a) \in SUBSET U(b) /\ b \in U(b) /\ b \notin U(a)
    BY <1>1, <1>4
  <2>2. Cardinality(U(a)) <= Cardinality(U(b)) /\ Cardinality(U(b)) # Cardinality(U(a))
    <3> HIDE DEF U
    <3> QED BY <1>2, <2>1, FS_Subset
  <2> QED
    BY <1>2, <2>2
<1> QED
  BY <1>1, <1>2, <1>3, <1>4 DEF Rank

LEMMA EndIsBreak ==
  ASSUME NEW t \in Texts, NEW S, NEW k \in 1..Cardinality(Breaks(t, S))
  PROVE  /\ EndOf(t, S, k) \in Breaks(t, S)
         /\ Rank(t, S, EndOf(t, S, k)) = k
         /\ \A b \in Breaks(t, S) : Rank(t, S, b) = k => b = EndOf(t, S, k)
<1> DEFINE B == Breaks(t, S)
           n == Cardinality(B)
           f == [b \in B |-> Rank(t, S, b)]
<1>1. B \subseteq Nat /\ IsFiniteSet(B) /\ n \in Nat
  BY BreaksAreFinite DEF Texts
<1>2. \A a, b \in B : f[a] = f[b] => a = b
  <2> SUFFICES ASSUME NEW a \in B, NEW b \in B, a # b PROVE f[a] # f[b]
    OBVIOUS
  <2>1. f[a] \in Nat /\ f[b] \in Nat
    BY <1>1, RankGrows
  <2>2. CASE a < b
    BY <2>1, <2>2, RankGrows
  <2>3. CASE b < a
    BY <2>1, <2>3, RankGrows
  <2> QED
    BY <1>1, <2>2, <2>3
<1>3. f \in Injection(B, 1..n)
  <2>1. f \in [B -> 1..n]
    BY RankGrows
  <2> QED
    BY <1>2, <2>1 DEF Injection, IsInjective
<1>4. IsFiniteSet(1..n) /\ Cardinality(1..n) = n
  BY <1>1, FS_Interval
<1>5. f \in Surjection(B, 1..n)
  <2> HIDE DEF f, B, n
  <2>1. Cardinality(B) = n
    BY DEF n
  <2> QED
    BY <1>3, <1>4, <2>1, FS_Injection
<1>6. PICK b \in B : Rank(t, S, b) = k
  BY <1>5 DEF Surjection
<1>7. EndOf(t, S, k) = CHOOSE x \in B : Rank(t, S, x) = k
  <2>1. ~(k > n)
    BY <1>1
  <2> QED
    BY <2>1 DEF EndOf
<1>8. EndOf(t, S, k) \in B /\ Rank(t, S, EndOf(t, S, k)) = k
  BY <1>6, <1>7
<1> QED
  BY <1>2, <1>8

LEMMA EndsInText ==
  ASSUME NEW t \in Texts, NEW S, NEW k \in Nat \ {0}
  PROVE  /\ EndOf(t, S, k) \in 1..Len(t) + 1
         /\ StartOf(t, S, k) \in Nat \ {0}
<1>1. \A j \in Nat \ {0} : EndOf(t, S, j) \in 1..Len(t) + 1
  <2> SUFFICES ASSUME NEW j \in Nat \ {0} PROVE EndOf(t, S, j) \in 1..Len(t) + 1
    OBVIOUS
  <2>1. Len(t) \in Nat /\ Breaks(t, S) \subseteq 1..Len(t) /\ Cardinality(Breaks(t, S)) \in Nat
    BY BreaksAreFinite DEF Texts
  <2>2. CASE j > Cardinality(Breaks(t, S))
    BY <2>1, <2>2 DEF EndOf
  <2>3. CASE ~(j > Cardinality(Breaks(t, S)))
    BY <2>1, <2>3, EndIsBreak
  <2> QED
    BY <2>2, <2>3
<1>2. StartOf(t, S, k) \in Nat \ {0}
  <2>1. k # 1 => EndOf(t, S, k - 1) \in Nat
    BY <1>1 DEF Texts
  <2> QED
    BY <2>1 DEF StartOf
<1> QED
  BY <1>1, <1>2

LEMMA LinesType ==
  ASSUME NEW t \in Texts, NEW S
  PROVE  /\ LinesOf(t, S) \in Seq(Lines)
         /\ Len(LinesOf(t, S)) = LineCount(t, S)
         /\ LineCount(t, S) \in Nat
         /\ LineCount(t, S) - 1 <= Cardinality(Breaks(t, S))
         /\ Cardinality(Breaks(t, S)) <= LineCount(t, S)
<1>1. Cardinality(Breaks(t, S)) \in Nat
  BY BreaksAreFinite
<1>2. /\ LineCount(t, S) \in Nat
      /\ LineCount(t, S) - 1 <= Cardinality(Breaks(t, S))
      /\ Cardinality(Breaks(t, S)) <= LineCount(t, S)
  BY <1>1 DEF LineCount
<1>3. ASSUME NEW k \in 1..LineCount(t, S)
      PROVE  SubSeq(t, StartOf(t, S, k), EndOf(t, S, k) - 1) \in Lines
  <2>1. k \in Nat \ {0}
    BY <1>2
  <2>2. StartOf(t, S, k) \in Nat \ {0} /\ EndOf(t, S, k) \in 1..Len(t) + 1 /\ Len(t) \in Nat
    BY <2>1, EndsInText DEF Texts
  <2>3. \A i \in StartOf(t, S, k)..EndOf(t, S, k) - 1 : i \in 1..Len(t)
    BY <2>2
  <2>4. \A i \in StartOf(t, S, k)..EndOf(t, S, k) - 1 : t[i] \in Chars
    BY <2>3 DEF Texts
  <2> QED
    BY <2>2, <2>4, SubSeqProperties DEF Lines
<1>4. LinesOf(t, S) \in [1..LineCount(t, S) -> Lines]
  BY <1>3 DEF LinesOf
<1>5. LinesOf(t, S) \in Seq(Lines) /\ Len(LinesOf(t, S)) = LineCount(t, S)
  <2> DEFINE n == LineCount(t, S)
             l == LinesOf(t, S)
  <2>1. n \in Nat /\ l \in [1..n -> Lines]
    BY <1>2, <1>4
  <2> HIDE DEF n, l
  <2>2. l \in Seq(Lines) /\ Len(l) = n
    BY <2>1
  <2> QED
    BY <2>2 DEF n, l
<1> QED
  BY <1>2, <1>5

(* A text that grows keeps the lines that had ended.                       *)
Begins(t, u) == Len(t) <= Len(u) /\ \A i \in 1..Len(t) : u[i] = t[i]

LEMMA RanksStay ==
  ASSUME NEW t \in Texts, NEW u \in Texts, NEW S, Begins(t, u)
  PROVE  /\ Breaks(t, S) \subseteq Breaks(u, S)
         /\ \A b \in 1..Len(t) : Rank(u, S, b) = Rank(t, S, b)
         /\ Cardinality(Breaks(t, S)) <= Cardinality(Breaks(u, S))
<1>1. Breaks(t, S) = {b \in Breaks(u, S) : b <= Len(t)}
  BY DEF Breaks, Begins, Texts
<1>2. \A b \in 1..Len(t) : {c \in Breaks(u, S) : c <= b} = {c \in Breaks(t, S) : c <= b}
  <2>1. Breaks(u, S) \subseteq Nat /\ Len(t) \in Nat
    BY BreaksAreFinite DEF Texts
  <2> QED
    BY <1>1, <2>1
<1>3. Cardinality(Breaks(t, S)) <= Cardinality(Breaks(u, S))
  BY <1>1, BreaksAreFinite, FS_Subset
<1> QED
  BY <1>1, <1>2, <1>3 DEF Rank

LEMMA LinesStay ==
  ASSUME NEW t \in Texts, NEW u \in Texts, NEW S, Begins(t, u)
  PROVE  \A k \in 1..Cardinality(Breaks(t, S)) :
           /\ k \in 1..LineCount(t, S) /\ k \in 1..LineCount(u, S)
           /\ LinesOf(u, S)[k] = LinesOf(t, S)[k]
<1> DEFINE n == Cardinality(Breaks(t, S))
<1>1. n \in Nat /\ Cardinality(Breaks(u, S)) \in Nat /\ n <= Cardinality(Breaks(u, S))
  BY BreaksAreFinite, RanksStay
<1>2. ASSUME NEW k \in 1..n
      PROVE  EndOf(u, S, k) = EndOf(t, S, k) /\ EndOf(t, S, k) \in 1..Len(t)
  <2>1. EndOf(t, S, k) \in Breaks(t, S) /\ Rank(t, S, EndOf(t, S, k)) = k
    BY EndIsBreak
  <2>2. EndOf(t, S, k) \in 1..Len(t) /\ EndOf(t, S, k) \in Breaks(u, S)
    BY <2>1, BreaksAreFinite, RanksStay
  <2>3. Rank(u, S, EndOf(t, S, k)) = k
    BY <2>1, <2>2, RanksStay
  <2>4. k \in 1..Cardinality(Breaks(u, S))
    BY <1>1
  <2> QED
    BY <2>2, <2>3, <2>4, EndIsBreak
<1> SUFFICES ASSUME NEW k \in 1..n
             PROVE  /\ k \in 1..LineCount(t, S) /\ k \in 1..LineCount(u, S)
                    /\ LinesOf(u, S)[k] = LinesOf(t, S)[k]
  OBVIOUS
<1>3. k \in 1..LineCount(t, S) /\ k \in 1..LineCount(u, S)
  BY <1>1, LinesType
<1>4. StartOf(u, S, k) = StartOf(t, S, k)
  <2>1. CASE k = 1
    BY <2>1 DEF StartOf
  <2>2. CASE k # 1
    <3>1. k - 1 \in 1..n
      BY <1>1, <2>2
    <3> QED
      BY <1>2, <2>2, <3>1 DEF StartOf
  <2> QED
    BY <2>1, <2>2
<1>5. SubSeq(u, StartOf(t, S, k), EndOf(t, S, k) - 1)
        = SubSeq(t, StartOf(t, S, k), EndOf(t, S, k) - 1)
  <2> DEFINE a == StartOf(t, S, k)
             b == EndOf(t, S, k) - 1
  <2>1. Len(t) \in Nat /\ Len(u) \in Nat
    BY DEF Texts
  <2>2. a \in Nat \ {0} /\ b \in 0..Len(t)
    BY <1>1, <1>2, <2>1, EndsInText
  <2>3. \A i \in a..b : i \in 1..Len(t) /\ i \in 1..Len(u)
    BY <2>1, <2>2 DEF Begins
  <2> HIDE DEF a, b
  <2>4. \A i \in a..b : u[i] = t[i] /\ t[i] \in Chars
    BY <2>3 DEF Begins, Texts
  <2> QED
    BY <2>2, <2>4 DEF a, b
<1> QED
  BY <1>2, <1>3, <1>4, <1>5 DEF LinesOf

-----------------------------------------------------------------------------
(* The loop of a search.  A function of the numbers up to Len(order) that  *)
(* is defined from the number before is there: were there a first number   *)
(* with none up to it, the one up to the number before could be extended.  *)
LEMMA LoopSteps ==
  ASSUME NEW all, NEW order, Len(order) \in Nat
  PROVE  /\ Loop(all, order)[0] = NoResult
         /\ \A n \in 1..Len(order) :
              Loop(all, order)[n] = Scan(all, Loop(all, order)[n - 1], order[n])
<1> DEFINE IsLoop(f, m) ==
             f = [n \in 0..m |-> IF n = 0 THEN NoResult ELSE Scan(all, f[n - 1], order[n])]
           Without == {m \in 0..Len(order) : ~\E f : IsLoop(f, m)}
           loop == CHOOSE f : IsLoop(f, Len(order))
<1>1. ASSUME Without # {}
      PROVE  FALSE
  <2>1. Without \subseteq Nat
    OBVIOUS
  <2>2. PICK m \in Without : \A k \in Without : ~ (<<k, m>> \in OpToRel(<, Nat))
    <3> HIDE DEF Without
    <3> QED
      BY <1>1, <2>1, NatLessThanWellFounded, WFMin
  <2>3. m \in 0..Len(order) /\ ~\E f : IsLoop(f, m)
    OBVIOUS
  <2>4. m # 0
    <3>1. IsLoop([n \in 0..0 |-> NoResult], 0)
      OBVIOUS
    <3> QED
      BY <2>3, <3>1
  <2>5. m - 1 \in 0..Len(order) /\ m - 1 \in Nat
    BY <2>3, <2>4
  <2>6. m - 1 \notin Without
    <3>1. <<m - 1, m>> \in OpToRel(<, Nat)
      <4>1. <<m - 1, m>> \in Nat \X Nat /\ <<m - 1, m>>[1] < <<m - 1, m>>[2]
        BY <2>3, <2>5
      <4> QED
        BY <4>1 DEF OpToRel
    <3> QED
      BY <2>2, <3>1
  <2>7. PICK f : IsLoop(f, m - 1)
    BY <2>5, <2>6
  <2> DEFINE g == [n \in 0..m |-> IF n = m THEN Scan(all, f[m - 1], order[m]) ELSE f[n]]
  <2>8. ASSUME NEW n \in 0..m
        PROVE  g[n] = IF n = 0 THEN NoResult ELSE Scan(all, g[n - 1], order[n])
    <3>1. CASE n = m
      <4>1. g[n] = Scan(all, f[m - 1], order[m]) /\ m - 1 \in 0..m /\ m - 1 # m
        BY <2>4, <2>5, <3>1
      <4>2. g[m - 1] = f[m - 1]
        BY <4>1
      <4> QED
        BY <2>4, <3>1, <4>1, <4>2
    <3>2. CASE n # m
      <4>1. n \in 0..m - 1 /\ g[n] = f[n]
        BY <2>3, <3>2
      <4>2. f[n] = IF n = 0 THEN NoResult ELSE Scan(all, f[n - 1], order[n])
        BY <2>7, <4>1
      <4>3. n # 0 => n - 1 \in 0..m /\ n - 1 # m
        BY <2>3, <4>1
      <4>4. n # 0 => g[n - 1] = f[n - 1]
        BY <4>3
      <4> QED
        BY <4>1, <4>2, <4>4
    <3> QED
      BY <3>1, <3>2
  <2>9. IsLoop(g, m)
    <3> DEFINE h == [n \in 0..m |-> IF n = 0 THEN NoResult ELSE Scan(all, g[n - 1], order[n])]
    <3>1. g = h
      <4>1. g = [n \in 0..m |-> g[n]]
        OBVIOUS
      <4> HIDE DEF g
      <4> QED
        BY <2>8, <4>1
    <3> QED
      BY <3>1
  <2> QED
    BY <2>3, <2>9
<1>2. IsLoop(loop, Len(order))
  <2>1. \E f : IsLoop(f, Len(order))
    BY <1>1
  <2> HIDE DEF IsLoop
  <2> QED
    BY <2>1
<1>3. Loop(all, order) = loop
  BY DEF Loop
<1> HIDE DEF loop
<1>4. \A n \in 0..Len(order) :
        loop[n] = IF n = 0 THEN NoResult ELSE Scan(all, loop[n - 1], order[n])
  BY <1>2
<1>5. 0 \in 0..Len(order) /\ \A n \in 1..Len(order) : n \in 0..Len(order) /\ n # 0
  OBVIOUS
<1> QED
  BY <1>3, <1>4, <1>5

-----------------------------------------------------------------------------
(* Types.  A call has no result before it reads, and reads with arguments  *)
(* that name a range.                                                      *)
TypeInv ==
  /\ TypeOK
  /\ step = "read" => handle \in DOMAIN texts
  /\ step \in {"open", "read"} => ~InvalidRange
  /\ step # "answered" => result = NoResult

LEMMA SlicesAreLines ==
  ASSUME NEW all \in Seq(Lines), NEW a \in Nat, NEW b \in Int
  PROVE  /\ Slice(all, a, b) \in Seq(Lines)
         /\ a <= b /\ b <= Len(all) =>
              Slice(all, a, b) = SubSeq(all, a + 1, b) /\ Len(Slice(all, a, b)) = b - a
         /\ a <= Len(all) =>
              Len(Slice(all, a, b)) = IF b <= a THEN 0 ELSE IF b < Len(all) THEN b - a ELSE Len(all) - a
<1> DEFINE e == IF b < Len(all) THEN b ELSE Len(all)
<1>1. Len(all) \in Nat /\ e \in Int /\ e <= Len(all) /\ a + 1 \in Int
  OBVIOUS
<1>2. \A i \in a + 1..e : i \in 1..Len(all)
  BY <1>1
<1>3. \A i \in a + 1..e : all[i] \in Lines
  BY <1>2
<1>4. /\ SubSeq(all, a + 1, e) \in Seq(Lines)
      /\ Len(SubSeq(all, a + 1, e)) = IF a + 1 <= e THEN e - (a + 1) + 1 ELSE 0
  <2> HIDE DEF e
  <2> QED BY <1>1, <1>3, SubSeqProperties
<1> QED
  BY <1>1, <1>4 DEF Slice

LEMMA SelectedRange ==
  ASSUME TypeOK, ~InvalidRange, call.op = "read", NEW total \in Nat
  PROVE  /\ Selected(total).from \in Nat
         /\ Selected(total).from < total =>
              Selected(total).to \in Selected(total).from + 1..total
         /\ call.tail = 0 => Selected(total).from = call.start - 1
<1>1. call.start \in Int /\ call.max \in Int /\ call.tail \in Int
  BY DEF TypeOK, CallType
<1>2. call.tail >= 0 /\ (call.tail = 0 => call.start >= 1)
  BY <1>1 DEF InvalidRange
<1>3. MaxReadLines \in Nat \ {0} /\ DefaultReadLines \in Nat \ {0}
  BY FileAssumption
<1> DEFINE max == IF call.max > 0 THEN Least(call.max, MaxReadLines) ELSE DefaultReadLines
           from == IF call.tail > 0 THEN Most(total - Least(call.tail, MaxReadLines), 0)
                   ELSE call.start - 1
           to == IF call.tail > 0 THEN total ELSE Least(from + max, total)
<1>4. max \in Nat \ {0}
  BY <1>1, <1>3 DEF Least
<1>5. from \in Nat /\ (call.tail = 0 => from = call.start - 1)
  BY <1>1, <1>2, <1>3 DEF Least, Most
<1>6. from < total => to \in from + 1..total
  <2> HIDE DEF max, from
  <2> QED BY <1>4, <1>5 DEF Least
<1>7. Selected(total).from = from /\ Selected(total).to = to
  BY DEF Selected
<1> QED
  BY <1>5, <1>6, <1>7

LEMMA InitType == Init => TypeInv
<1> SUFFICES ASSUME Init PROVE TypeInv
  OBVIOUS
<1>1. PICK t \in InitialTexts : texts = <<t>>
  BY DEF Init
<1>2. t \in Texts
  BY FileAssumption
<1>3. texts \in Seq(Texts) /\ DOMAIN texts = {1}
  BY <1>1, <1>2
<1>4. call \in CallType
  BY FileAssumption DEF Init
<1>5. lines = <<>> /\ lines \in Seq(Lines) /\ got \in Seq(Lines) /\ Len(lines) = 0
  BY DEF Init
<1>6. ResultOK(result)
  BY <1>5 DEF Init, ResultOK, NoResult
<1>7. {writes, chmods} \subseteq Nat /\ access \in Accesses /\ seen \subseteq FactNames
  BY DEF Init
<1>8. TypeOK
  BY <1>3, <1>4, <1>5, <1>6, <1>7 DEF Init, TypeOK
<1> QED
  BY <1>8 DEF Init, TypeInv

LEMMA FactsType == \A ts, c, a : Facts(ts, c, a) \subseteq FactNames
BY DEF Facts

LEMMA LaterPage ==
  ASSUME NEW c \in CallType, NEW k \in Int
  PROVE  [c EXCEPT !.start = k] \in CallType
<1> DEFINE d == [c EXCEPT !.start = k]
<1>1. c = [op |-> c.op, allowed |-> c.allowed, start |-> c.start, max |-> c.max,
           tail |-> c.tail, query |-> c.query, fromEnd |-> c.fromEnd]
  BY DEF CallType
<1>2. d = [op |-> c.op, allowed |-> c.allowed, start |-> k, max |-> c.max,
           tail |-> c.tail, query |-> c.query, fromEnd |-> c.fromEnd]
  BY <1>1
<1>3. /\ c.op \in Ops /\ c.allowed \in BOOLEAN /\ c.max \in Int /\ c.tail \in Int
      /\ c.query \in {"text", "", "bad_regex"} /\ c.fromEnd \in BOOLEAN
  BY DEF CallType
<1> HIDE DEF d
<1> QED
  BY <1>2, <1>3, Zenon DEF CallType

LEMMA CallStarts ==
  ASSUME TypeInv, (\E c \in Calls : NewCall(c)) \/ NextPage
  PROVE  TypeInv' /\ lines' = <<>> /\ result' = NoResult /\ step' = "exists" /\ answer' = "none"
<1>1. /\ UNCHANGED <<texts, current, access, writes, chmods>>
      /\ step' = "exists" /\ handle' = Absent /\ lines' = <<>> /\ answer' = "none"
      /\ result' = NoResult /\ seen' = Facts(texts, current, access)
  BY DEF NewCall, NextPage, BeginCall, files
<1>2. call' \in CallType
  <2>1. CASE \E c \in Calls : NewCall(c)
    BY <2>1, FileAssumption DEF NewCall
  <2>2. CASE NextPage
    <3>1. result.end \in Int
      BY DEF TypeInv, TypeOK, ResultOK
    <3>2. call \in CallType /\ call' = [call EXCEPT !.start = result.end + 1]
      BY <2>2 DEF NextPage, TypeInv, TypeOK
    <3> QED
      BY <3>1, <3>2, LaterPage
  <2> QED
    BY <2>1, <2>2
<1>3. got' \in Seq(Lines) /\ steady' \in BOOLEAN
  <2>1. got \in Seq(Lines) /\ steady \in BOOLEAN /\ <<>> \in Seq(Lines)
    BY DEF TypeInv, TypeOK
  <2>2. CASE \E c \in Calls : NewCall(c)
    BY <2>1, <2>2 DEF NewCall
  <2>3. CASE NextPage
    BY <2>1, <2>3 DEF NextPage
  <2> QED
    BY <2>2, <2>3
<1>4. ResultOK(result)'
  BY <1>1 DEF ResultOK, NoResult
<1>5. lines' \in Seq(Lines)
  BY <1>1
<1>6. TypeOK'
  BY <1>1, <1>2, <1>3, <1>4, <1>5, FactsType DEF TypeInv, TypeOK
<1> QED
  BY <1>1, <1>6 DEF TypeInv

LEMMA AccessType ==
  ASSUME TypeInv, Exists \/ IsDir \/ Stat \/ BinaryCheck \/ Open
  PROVE  /\ TypeInv'
         /\ UNCHANGED <<texts, current, call, got, steady, lines, result>>
         /\ step # "answered"
         /\ step' = "answered" => answer' \notin {"ok", "none"}
<1>1. /\ UNCHANGED <<texts, current, call, got, steady, lines, result, seen, writes,
                    access, chmods>>
      /\ step # "answered"
  BY DEF Exists, IsDir, Stat, BinaryCheck, Open, Unread, files, agent
<1>2. /\ step' \in {"answered", "exists", "is_dir", "stat", "binary", "open", "read"}
      /\ answer' \in {"none", "ok", "path_not_found", "not_a_file", "file_too_large",
                 "binary_file_not_supported", "invalid_argument", "invalid_regex",
                 "path_not_allowed", "line_out_of_range",
                 "FileNotFoundError", "IsADirectoryError", "PermissionError"}
      /\ step' = "answered" => answer' \notin {"ok", "none"}
  BY DEF Exists, IsDir, Stat, BinaryCheck, Open, Answer, TypeInv, TypeOK
<1>3. handle' \in {Absent} \cup DOMAIN texts /\ (step' = "read" => handle' \in DOMAIN texts)
  <2>1. CASE Open
    BY <2>1 DEF Open, Answer, IsFile, TypeInv, TypeOK, Absent, Directory
  <2>2. CASE Exists \/ IsDir \/ Stat \/ BinaryCheck
    BY <2>2 DEF Exists, IsDir, Stat, BinaryCheck, Answer, Unread, TypeInv, TypeOK
  <2> QED
    BY <2>1, <2>2
<1>4. step' \in {"open", "read"} => ~InvalidRange
  BY DEF Exists, IsDir, Stat, BinaryCheck, Open, Answer, TypeInv, InvalidRange
<1>5. ResultOK(result)' /\ InvalidRange' = InvalidRange
  BY <1>1 DEF TypeInv, TypeOK, ResultOK, InvalidRange
<1>6. TypeOK'
  BY <1>1, <1>2, <1>3, <1>5 DEF TypeInv, TypeOK
<1>7. result' = NoResult
  BY <1>1 DEF TypeInv
<1> QED
  BY <1>1, <1>2, <1>3, <1>4, <1>5, <1>6, <1>7 DEF TypeInv

(* The programs on the server only add to the texts.                       *)
LEMMA ServerType ==
  ASSUME TypeInv, Write \/ Rotate \/ Unlink \/ MakeDirectory \/ Chmod
  PROVE  /\ TypeInv'
         /\ UNCHANGED <<call, got, step, handle, lines, answer, result>>
         /\ \A i \in DOMAIN texts : i \in DOMAIN texts' /\ Begins(texts[i], texts'[i])
         /\ \A i \in DOMAIN texts : texts[i] \in Texts /\ texts'[i] \in Texts
         /\ steady' => steady /\ current' = current
<1>1. /\ UNCHANGED <<call, got, step, handle, lines, answer, result>>
      /\ steady' = (steady /\ UNCHANGED current)
      /\ seen' = seen \cup Facts(texts', current', access')
  BY DEF Write, Rotate, Unlink, MakeDirectory, Chmod, Changed
<1>2. texts \in Seq(Texts) /\ Len(texts) \in Nat /\ DOMAIN texts = 1..Len(texts)
  BY DEF TypeInv, TypeOK
<1>3. /\ texts' \in Seq(Texts)
      /\ \A i \in DOMAIN texts : i \in DOMAIN texts' /\ Begins(texts[i], texts'[i])
  <2>1. CASE Write
    <3>1. PICK i \in DOMAIN texts, c \in WrittenChars : texts' = [texts EXCEPT ![i] = Append(@, c)]
      BY <2>1 DEF Write
    <3>2. texts[i] \in Texts /\ c \in Chars
      BY <1>2, FileAssumption
    <3>3. Append(texts[i], c) \in Texts /\ Begins(texts[i], Append(texts[i], c))
      BY <3>2 DEF Texts, Begins
    <3>4. \A j \in DOMAIN texts : texts[j] \in Texts /\ Begins(texts[j], texts[j])
      BY <1>2 DEF Begins, Texts
    <3>5. texts' \in Seq(Texts) /\ DOMAIN texts' = DOMAIN texts
      BY <1>2, <3>1, <3>3
    <3> QED
      BY <3>1, <3>3, <3>4, <3>5
  <2>2. CASE Rotate
    <3>1. PICK t \in RotatedTexts : texts' = Append(texts, t)
      BY <2>2 DEF Rotate
    <3>2. t \in Texts
      BY FileAssumption
    <3>3. texts' \in Seq(Texts) /\ \A j \in DOMAIN texts : j \in DOMAIN texts' /\ texts'[j] = texts[j]
      BY <1>2, <3>1, <3>2
    <3>4. \A j \in DOMAIN texts : texts[j] \in Texts /\ Begins(texts[j], texts[j])
      BY <1>2 DEF Begins, Texts
    <3> QED
      BY <3>3, <3>4
  <2>3. CASE Unlink \/ MakeDirectory \/ Chmod
    <3>1. texts' = texts
      BY <2>3 DEF Unlink, MakeDirectory, Chmod
    <3>2. \A j \in DOMAIN texts : texts[j] \in Texts /\ Begins(texts[j], texts[j])
      BY <1>2 DEF Begins, Texts
    <3> QED
      BY <1>2, <3>1, <3>2
  <2> QED
    BY <2>1, <2>2, <2>3
<1>4. \A i \in DOMAIN texts : texts[i] \in Texts /\ texts'[i] \in Texts
  BY <1>2, <1>3
<1>5. current' \in {Absent, Directory} \cup DOMAIN texts'
  <2>1. CASE Write
    BY <1>3, <2>1 DEF Write, TypeInv, TypeOK
  <2>2. CASE Rotate
    BY <1>2, <1>3, <2>2 DEF Rotate, TypeInv, TypeOK
  <2>3. CASE Unlink \/ MakeDirectory \/ Chmod
    BY <2>3 DEF Unlink, MakeDirectory, Chmod, TypeInv, TypeOK
  <2> QED
    BY <2>1, <2>2, <2>3
<1>6. {writes', chmods'} \subseteq Nat /\ access' \in Accesses
  <2>1. {writes, chmods} \subseteq Nat /\ access \in Accesses
    BY DEF TypeInv, TypeOK
  <2> QED
    BY <2>1 DEF Write, Rotate, Unlink, MakeDirectory, Chmod
<1>7. ResultOK(result)' /\ InvalidRange' = InvalidRange
  BY <1>1 DEF TypeInv, TypeOK, ResultOK, InvalidRange
<1>8. /\ handle' \in {Absent} \cup DOMAIN texts'
      /\ seen' \subseteq FactNames
      /\ steady' \in BOOLEAN
  BY <1>1, <1>3, FactsType DEF TypeInv, TypeOK
<1>9. TypeOK'
  BY <1>1, <1>3, <1>5, <1>6, <1>7, <1>8 DEF TypeInv, TypeOK
<1>10. TypeInv'
  BY <1>1, <1>3, <1>7, <1>9 DEF TypeInv
<1> QED
  BY <1>1, <1>3, <1>4, <1>10

-----------------------------------------------------------------------------
(* A match with the lines around it.                                       *)
LEMMA ContextIsRight ==
  ASSUME NEW all \in Seq(Lines), NEW k \in 1..Len(all)
  PROVE  LET h == Context(all, k) IN
           /\ h \in [line : 1..Len(all), before : Seq(Lines), after : Seq(Lines)]
           /\ h.line = k
           /\ Len(h.before) = Least(ContextLines, k - 1)
           /\ Len(h.after) = Least(ContextLines, Len(all) - k)
           /\ h.before \o <<all[k]>> \o h.after =
                SubSeq(all, k - Len(h.before), k + Len(h.after))
<1> DEFINE n == Len(all)
           a == Most(0, k - 1 - ContextLines)
           before == Slice(all, a, k - 1)
           after == Slice(all, k, k + ContextLines)
           b == k + Least(ContextLines, n - k)
<1>1. ContextLines \in Nat /\ n \in Nat /\ k \in Nat /\ 1 <= k /\ k <= n
  BY FileAssumption
<1>2. /\ a \in 0..k - 1 /\ k - 1 - a = Least(ContextLines, k - 1)
      /\ b \in k..n /\ b - k = Least(ContextLines, n - k)
  BY <1>1 DEF Most, Least
<1>3. before = SubSeq(all, a + 1, k - 1) /\ Len(before) = k - 1 - a /\ before \in Seq(Lines)
  <2>1. a \in Nat /\ k - 1 \in Int /\ a <= k - 1 /\ k - 1 <= Len(all)
    BY <1>1, <1>2
  <2> HIDE DEF a
  <2>2. Slice(all, a, k - 1) \in Seq(Lines)
    BY <2>1, SlicesAreLines
  <2>3. /\ Slice(all, a, k - 1) = SubSeq(all, a + 1, k - 1)
        /\ Len(Slice(all, a, k - 1)) = k - 1 - a
    BY <2>1, SlicesAreLines
  <2> QED
    BY <2>2, <2>3
<1>4. after \in Seq(Lines) /\ Len(after) = b - k
  <2>1. k + ContextLines \in Int /\ k <= Len(all) /\ k \in Nat
    BY <1>1
  <2>2. /\ after \in Seq(Lines)
        /\ Len(after) = IF k + ContextLines <= k THEN 0
                        ELSE IF k + ContextLines < n THEN (k + ContextLines) - k ELSE n - k
    <3>1. Slice(all, k, k + ContextLines) \in Seq(Lines)
      BY <2>1, SlicesAreLines
    <3>2. ASSUME NEW y \in Int
          PROVE  Len(Slice(all, k, y))
                   = IF y <= k THEN 0 ELSE IF y < Len(all) THEN y - k ELSE Len(all) - k
      BY <2>1, SlicesAreLines
    <3>3. Len(Slice(all, k, k + ContextLines))
            = IF k + ContextLines <= k THEN 0
              ELSE IF k + ContextLines < Len(all) THEN (k + ContextLines) - k ELSE Len(all) - k
      <4> DEFINE y == k + ContextLines
      <4>1. y \in Int
        BY <2>1
      <4> HIDE DEF y
      <4>2. Len(Slice(all, k, y))
              = IF y <= k THEN 0 ELSE IF y < Len(all) THEN y - k ELSE Len(all) - k
        BY <3>2, <4>1
      <4> QED
        BY <4>2 DEF y
    <3> QED
      BY <3>1, <3>3
  <2>3. b - k = IF k + ContextLines <= k THEN 0
                ELSE IF k + ContextLines < n THEN (k + ContextLines) - k ELSE n - k
    BY <1>1 DEF Least
  <2> HIDE DEF b
  <2> QED
    BY <2>2, <2>3
<1>5. after = SubSeq(all, k + 1, b)
  <2>1. b = IF k + ContextLines < n THEN k + ContextLines ELSE n
    BY <1>1 DEF Least
  <2> QED
    BY <2>1 DEF Slice
<1>6. before \o <<all[k]>> = SubSeq(all, a + 1, k)
  <2> HIDE DEF a
  <2>1. <<all[k]>> = SubSeq(all, k, k)
    BY <1>1
  <2>2. /\ a + 1 \in 1..Len(all) + 1 /\ k - 1 \in (a + 1) - 1..Len(all)
        /\ k \in k - 1..Len(all) /\ (k - 1) + 1 = k
    BY <1>1, <1>2
  <2>3. ASSUME NEW x \in 1..Len(all) + 1, NEW y \in x - 1..Len(all), NEW z \in y..Len(all)
        PROVE  SubSeq(all, x, y) \o SubSeq(all, y + 1, z) = SubSeq(all, x, z)
    BY ConcatAdjacentSubSeq
  <2>4. SubSeq(all, a + 1, k - 1) \o SubSeq(all, (k - 1) + 1, k) = SubSeq(all, a + 1, k)
    <3> DEFINE x == a + 1
               y == k - 1
    <3>1. x \in 1..Len(all) + 1 /\ y \in x - 1..Len(all) /\ k \in y..Len(all)
      BY <2>2
    <3> HIDE DEF x, y
    <3>2. SubSeq(all, x, y) \o SubSeq(all, y + 1, k) = SubSeq(all, x, k)
      BY <2>3, <3>1
    <3> QED
      BY <3>2 DEF x, y
  <2> HIDE DEF before
  <2> QED
    BY <1>3, <2>1, <2>2, <2>4
<1>7. SubSeq(all, a + 1, k) \o after = SubSeq(all, a + 1, b)
  <2> HIDE DEF a, b
  <2> DEFINE x == a + 1
  <2>1. x \in 1..Len(all) + 1 /\ k \in x - 1..Len(all) /\ b \in k..Len(all)
    BY <1>1, <1>2
  <2> HIDE DEF after, x
  <2>2. SubSeq(all, x, k) \o SubSeq(all, k + 1, b) = SubSeq(all, x, b)
    BY <2>1, ConcatAdjacentSubSeq
  <2> QED
    BY <1>5, <2>2 DEF x
<1>8. k - Len(before) = a + 1 /\ k + Len(after) = b
  <2> HIDE DEF a, b, before, after
  <2> QED BY <1>1, <1>2, <1>3, <1>4
<1>9. Context(all, k) = [line |-> k, before |-> before, after |-> after]
  BY DEF Context
<1> HIDE DEF a, b, before, after
<1>10. /\ Context(all, k).line = k /\ Context(all, k).before = before
       /\ Context(all, k).after = after
  BY <1>9
<1>11. Context(all, k) \in [line : 1..Len(all), before : Seq(Lines), after : Seq(Lines)]
  BY <1>3, <1>4, <1>9
<1>12. Len(before) = Least(ContextLines, k - 1) /\ Len(after) = Least(ContextLines, Len(all) - k)
  BY <1>2, <1>3, <1>4
<1>13. (before \o <<all[k]>>) \o after = SubSeq(all, k - Len(before), k + Len(after))
  BY <1>6, <1>7, <1>8
<1> QED
  BY <1>10, <1>11, <1>12, <1>13

-----------------------------------------------------------------------------
(* Searches.  After n lines of the order the loop has, in that order, the  *)
(* matches among them, or when it is truncated the first of them.          *)
Orders(all) ==
  {order \in Seq(1..Len(all)) :
     /\ Len(order) = Len(all)
     /\ \A p, q \in 1..Len(all) : order[p] = order[q] => p = q}

Results(all) ==
  [start : {0}, end : {0}, truncated : BOOLEAN,
   hits : Seq([line : 1..Len(all), before : Seq(Lines), after : Seq(Lines)])]

Found(acc, k) == \E i \in DOMAIN acc.hits : acc.hits[i].line = k

ScanInv(all, order, acc, n) ==
  /\ acc \in Results(all)
  /\ Len(acc.hits) <= MaxMatches
  /\ \A i \in DOMAIN acc.hits : acc.hits[i] = Context(all, acc.hits[i].line)
  /\ \A i \in DOMAIN acc.hits :
       \E p \in 1..n : acc.hits[i].line = order[p] /\ Hit(all[order[p]])
  /\ \A i, j \in DOMAIN acc.hits : acc.hits[i].line = acc.hits[j].line => i = j
  /\ \A p \in 1..n : Hit(all[order[p]]) /\ ~Found(acc, order[p]) =>
       /\ acc.truncated
       /\ \A q \in 1..n : Found(acc, order[q]) => q < p
  /\ acc.truncated => Len(acc.hits) = MaxMatches
  /\ acc.truncated /\ call.op = "search_log" =>
       \E p \in 1..n : Hit(all[order[p]]) /\ ~Found(acc, order[p])

LEMMA ScanStarts ==
  ASSUME NEW all \in Seq(Lines), NEW order
  PROVE  ScanInv(all, order, NoResult, 0)
<1>1. NoResult \in Results(all)
  BY DEF NoResult, Results
<1>2. NoResult.hits = <<>> /\ NoResult.truncated = FALSE /\ Len(NoResult.hits) <= MaxMatches
  BY FileAssumption DEF NoResult
<1> QED
  BY <1>1, <1>2 DEF ScanInv

LEMMA ResultFields ==
  ASSUME NEW all, NEW acc \in Results(all), NEW x
  PROVE  /\ [acc EXCEPT !.truncated = x]
              = [start |-> 0, end |-> 0, truncated |-> x, hits |-> acc.hits]
         /\ [acc EXCEPT !.hits = Append(@, x)]
              = [start |-> 0, end |-> 0, truncated |-> acc.truncated, hits |-> Append(acc.hits, x)]
         /\ [acc EXCEPT !.hits = x]
              = [start |-> 0, end |-> 0, truncated |-> acc.truncated, hits |-> x]
<1>1. PICK t, h : acc = [start |-> 0, end |-> 0, truncated |-> t, hits |-> h]
  <2>1. acc = [start |-> acc.start, end |-> acc.end, truncated |-> acc.truncated, hits |-> acc.hits]
    BY DEF Results
  <2>2. acc.start = 0 /\ acc.end = 0
    BY DEF Results
  <2> QED
    BY <2>1, <2>2
<1>2. acc.truncated = t /\ acc.hits = h
  BY <1>1
<1>3. /\ [acc EXCEPT !.truncated = x] = [start |-> 0, end |-> 0, truncated |-> x, hits |-> h]
      /\ [acc EXCEPT !.hits = x] = [start |-> 0, end |-> 0, truncated |-> t, hits |-> x]
  BY <1>1
<1>4. [acc EXCEPT !.hits = Append(@, x)]
        = [start |-> 0, end |-> 0, truncated |-> t, hits |-> Append(h, x)]
  BY <1>1
<1> QED
  BY <1>2, <1>3, <1>4

(* A line that changes nothing.                                            *)
LEMMA ScanSkips ==
  ASSUME NEW all \in Seq(Lines), NEW order \in Orders(all), NEW acc,
         NEW n \in 1..Len(all), ScanInv(all, order, acc, n - 1), ~Hit(all[order[n]])
  PROVE  ScanInv(all, order, acc, n)
<1>1. \A p \in 1..n : p \in 1..n - 1 \/ p = n
  OBVIOUS
<1>2. \A p \in 1..n - 1 : p \in 1..n
  OBVIOUS
<1>3. ~Found(acc, order[n])
  <2>1. ASSUME NEW i \in DOMAIN acc.hits, acc.hits[i].line = order[n]
        PROVE  FALSE
    <3>1. PICK p \in 1..n - 1 : acc.hits[i].line = order[p] /\ Hit(all[order[p]])
      BY DEF ScanInv
    <3> QED
      BY <2>1, <3>1
  <2> QED
    BY <2>1 DEF Found
<1> QED
  BY <1>1, <1>2, <1>3 DEF ScanInv

(* A line that is looked at when the hits are enough.                      *)
LEMMA ScanIsFull ==
  ASSUME NEW all \in Seq(Lines), NEW order \in Orders(all), NEW acc,
         NEW n \in 1..Len(all), ScanInv(all, order, acc, n - 1),
         Len(acc.hits) >= MaxMatches,
         call.op = "search_log" => Hit(all[order[n]])
  PROVE  ScanInv(all, order, [acc EXCEPT !.truncated = TRUE], n)
<1> DEFINE full == [acc EXCEPT !.truncated = TRUE]
<1>1. acc \in Results(all)
  BY DEF ScanInv
<1>2. full \in Results(all) /\ full.hits = acc.hits /\ full.truncated = TRUE
  <2>2. full = [start |-> 0, end |-> 0, truncated |-> TRUE, hits |-> acc.hits]
    BY <1>1, ResultFields
  <2> HIDE DEF full
  <2> QED
    BY <1>1, <2>2 DEF Results
<1>3. \A p \in 1..n : p \in 1..n - 1 \/ p = n
  OBVIOUS
<1>4. \A p \in 1..n - 1 : p \in 1..n /\ p < n
  OBVIOUS
<1>5. ~Found(acc, order[n])
  <2>1. ASSUME NEW i \in DOMAIN acc.hits, acc.hits[i].line = order[n]
        PROVE  FALSE
    <3>1. PICK p \in 1..n - 1 : acc.hits[i].line = order[p]
      BY DEF ScanInv
    <3>2. p \in 1..Len(all) /\ n \in 1..Len(all) /\ p # n
      OBVIOUS
    <3> QED
      BY <2>1, <3>1, <3>2 DEF Orders
  <2> QED
    BY <2>1 DEF Found
<1>6. \A k : Found(full, k) <=> Found(acc, k)
  BY <1>2 DEF Found
<1>7. Len(full.hits) = MaxMatches
  <2>1. Len(acc.hits) <= MaxMatches /\ Len(acc.hits) \in Nat /\ MaxMatches \in Nat
    BY <1>1, FileAssumption DEF ScanInv, Results
  <2> HIDE DEF full
  <2> QED
    BY <1>2, <2>1
<1>8. \A p \in 1..n : Hit(all[order[p]]) /\ ~Found(acc, order[p]) =>
        \A q \in 1..n : Found(acc, order[q]) => q < p
  BY <1>3, <1>4, <1>5 DEF ScanInv
<1>9. /\ \A i \in DOMAIN acc.hits : acc.hits[i] = Context(all, acc.hits[i].line)
      /\ \A i \in DOMAIN acc.hits :
           \E p \in 1..n : acc.hits[i].line = order[p] /\ Hit(all[order[p]])
      /\ \A i, j \in DOMAIN acc.hits : acc.hits[i].line = acc.hits[j].line => i = j
  BY <1>4 DEF ScanInv
<1>10. n \in 1..n
  OBVIOUS
<1>11. Len(full.hits) <= MaxMatches
  <2> HIDE DEF full
  <2> QED BY <1>7, FileAssumption
<1> HIDE DEF full
<1>12. /\ \A i \in DOMAIN full.hits : full.hits[i] = Context(all, full.hits[i].line)
       /\ \A i \in DOMAIN full.hits :
           \E p \in 1..n : full.hits[i].line = order[p] /\ Hit(all[order[p]])
       /\ \A i, j \in DOMAIN full.hits : full.hits[i].line = full.hits[j].line => i = j
  BY <1>2, <1>9
<1>13. \A p \in 1..n : Hit(all[order[p]]) /\ ~Found(full, order[p]) =>
        \A q \in 1..n : Found(full, order[q]) => q < p
  BY <1>6, <1>8
<1>14. call.op = "search_log" => \E p \in 1..n : Hit(all[order[p]]) /\ ~Found(full, order[p])
  BY <1>5, <1>6, <1>10
<1> QED
  BY <1>2, <1>7, <1>11, <1>12, <1>13, <1>14 DEF ScanInv, full

(* A match while there is room for it.                                     *)
LEMMA ScanFinds ==
  ASSUME NEW all \in Seq(Lines), NEW order \in Orders(all), NEW acc,
         NEW n \in 1..Len(all), ScanInv(all, order, acc, n - 1),
         ~(Len(acc.hits) >= MaxMatches), Hit(all[order[n]])
  PROVE  ScanInv(all, order, [acc EXCEPT !.hits = Append(@, Context(all, order[n]))], n)
<1> DEFINE h == Context(all, order[n])
           next == [acc EXCEPT !.hits = Append(@, h)]
           HitType == [line : 1..Len(all), before : Seq(Lines), after : Seq(Lines)]
<1>1. acc \in Results(all) /\ Len(acc.hits) < MaxMatches
  <2>1. acc \in Results(all)
    BY DEF ScanInv
  <2>2. Len(acc.hits) \in Nat /\ MaxMatches \in Nat
    BY <2>1, FileAssumption DEF Results
  <2> QED
    BY <2>1, <2>2
<1>2. order[n] \in 1..Len(all)
  BY DEF Orders
<1>3. h \in HitType /\ h.line = order[n]
  BY <1>2, ContextIsRight
<1>4. acc.hits \in Seq(HitType) /\ acc.start = 0 /\ acc.end = 0
  BY <1>1 DEF Results
<1>5. next = [start |-> 0, end |-> 0, truncated |-> acc.truncated,
              hits |-> Append(acc.hits, h)]
  <2> HIDE DEF h
  <2> QED
    BY <1>1, ResultFields
<1> HIDE DEF next, h, HitType
<1>6. /\ next.hits = Append(acc.hits, h) /\ next.truncated = acc.truncated
      /\ next \in Results(all)
  <2>1. Append(acc.hits, h) \in Seq(HitType)
    BY <1>3, <1>4
  <2> QED
    BY <1>1, <1>5, <2>1 DEF Results, HitType
<1>7. /\ DOMAIN next.hits = DOMAIN acc.hits \cup {Len(acc.hits) + 1}
      /\ \A i \in DOMAIN acc.hits : next.hits[i] = acc.hits[i]
      /\ next.hits[Len(acc.hits) + 1] = h
      /\ Len(next.hits) = Len(acc.hits) + 1
      /\ Len(acc.hits) + 1 \notin DOMAIN acc.hits
  BY <1>3, <1>4, <1>6
<1>8. acc.truncated = FALSE
  <2>1. acc.truncated => Len(acc.hits) = MaxMatches
    BY DEF ScanInv
  <2>2. Len(acc.hits) # MaxMatches
    BY <1>1, <1>4, FileAssumption
  <2>3. acc.truncated \in BOOLEAN
    BY <1>1 DEF Results
  <2> QED
    BY <2>1, <2>2, <2>3
<1>9. Len(next.hits) <= MaxMatches
  BY <1>1, <1>4, <1>7, FileAssumption
<1>10. \A k : Found(next, k) <=> Found(acc, k) \/ k = order[n]
  BY <1>3, <1>7 DEF Found
<1>11. \A p \in 1..n : Hit(all[order[p]]) => Found(next, order[p])
  <2>1. \A p \in 1..n : p \in 1..n - 1 \/ p = n
    OBVIOUS
  <2>2. \A p \in 1..n - 1 : Hit(all[order[p]]) => Found(acc, order[p])
    BY <1>8 DEF ScanInv
  <2> QED
    BY <1>10, <2>1, <2>2
<1>12. \A i \in DOMAIN next.hits : next.hits[i] = Context(all, next.hits[i].line)
  <2>1. \A i \in DOMAIN acc.hits : acc.hits[i] = Context(all, acc.hits[i].line)
    BY DEF ScanInv
  <2>2. h = Context(all, h.line)
    BY <1>3 DEF h
  <2> QED
    BY <1>7, <2>1, <2>2
<1>13. \A i \in DOMAIN next.hits :
         \E p \in 1..n : next.hits[i].line = order[p] /\ Hit(all[order[p]])
  <2>1. \A i \in DOMAIN acc.hits :
          \E p \in 1..n - 1 : acc.hits[i].line = order[p] /\ Hit(all[order[p]])
    BY DEF ScanInv
  <2>2. n \in 1..n /\ \A p \in 1..n - 1 : p \in 1..n
    OBVIOUS
  <2> QED
    BY <1>3, <1>7, <2>1, <2>2
<1>14. \A i, j \in DOMAIN next.hits : next.hits[i].line = next.hits[j].line => i = j
  <2>1. \A i, j \in DOMAIN acc.hits : acc.hits[i].line = acc.hits[j].line => i = j
    BY DEF ScanInv
  <2>2. \A i \in DOMAIN acc.hits : acc.hits[i].line # order[n]
    <3> SUFFICES ASSUME NEW i \in DOMAIN acc.hits PROVE acc.hits[i].line # order[n]
      OBVIOUS
    <3>1. PICK p \in 1..n - 1 : acc.hits[i].line = order[p]
      BY DEF ScanInv
    <3>2. p \in 1..Len(all) /\ n \in 1..Len(all) /\ p # n
      OBVIOUS
    <3> QED
      BY <3>1, <3>2 DEF Orders
  <2> QED
    BY <1>3, <1>7, <2>1, <2>2
<1> QED
  BY <1>6, <1>8, <1>9, <1>11, <1>12, <1>13, <1>14 DEF ScanInv, next, h

LEMMA ScanStep ==
  ASSUME NEW all \in Seq(Lines), NEW order \in Orders(all), NEW acc,
         NEW n \in 1..Len(all), ScanInv(all, order, acc, n - 1)
  PROVE  ScanInv(all, order, Scan(all, acc, order[n]), n)
<1>1. acc.truncated \in BOOLEAN
  BY DEF ScanInv, Results
<1> DEFINE enough == Len(acc.hits) >= MaxMatches
           full == [acc EXCEPT !.truncated = TRUE]
           next == [acc EXCEPT !.hits = Append(@, Context(all, order[n]))]
<1>2. Scan(all, acc, order[n]) =
        IF call.op = "search_file"
          THEN IF enough THEN full ELSE IF Hit(all[order[n]]) THEN next ELSE acc
          ELSE IF ~Hit(all[order[n]]) THEN acc ELSE IF enough THEN full ELSE next
  BY DEF Scan
<1>3. enough /\ (call.op = "search_log" => Hit(all[order[n]])) => ScanInv(all, order, full, n)
  BY ScanIsFull
<1>4. ~enough /\ Hit(all[order[n]]) => ScanInv(all, order, next, n)
  BY ScanFinds
<1>5. ~Hit(all[order[n]]) => ScanInv(all, order, acc, n)
  BY ScanSkips
<1> HIDE DEF enough, full, next
<1>6. CASE call.op = "search_file"
  BY <1>2, <1>3, <1>4, <1>5, <1>6
<1>7. CASE call.op # "search_file"
  BY <1>2, <1>3, <1>4, <1>5, <1>7
<1> QED
  BY <1>6, <1>7

(* Were there a first number of lines after which the loop is wrong, it    *)
(* would be right one line before.                                         *)
LEMMA LoopIsRight ==
  ASSUME NEW all \in Seq(Lines), NEW order \in Orders(all)
  PROVE  ScanInv(all, order, Loop(all, order)[Len(order)], Len(order))
<1> DEFINE Wrong == {n \in 0..Len(order) : ~ScanInv(all, order, Loop(all, order)[n], n)}
<1>1. Len(order) = Len(all) /\ Len(order) \in Nat
  BY DEF Orders
<1>2. Wrong = {}
  <2> SUFFICES ASSUME Wrong # {} PROVE FALSE
    OBVIOUS
  <2>1. Wrong \subseteq Nat
    BY <1>1
  <2>2. PICK n \in Wrong : \A k \in Wrong : ~ (<<k, n>> \in OpToRel(<, Nat))
    <3> HIDE DEF Wrong
    <3> QED
      BY <2>1, NatLessThanWellFounded, WFMin
  <2>3. n \in 0..Len(order) /\ ~ScanInv(all, order, Loop(all, order)[n], n)
    OBVIOUS
  <2>4. n # 0
    BY <1>1, <2>3, LoopSteps, ScanStarts
  <2>5. n \in 1..Len(all) /\ n \in 1..Len(order) /\ n - 1 \in 0..Len(order) /\ n - 1 \in Nat
    BY <1>1, <2>3, <2>4
  <2>6. n - 1 \notin Wrong
    <3>1. <<n - 1, n>> \in OpToRel(<, Nat)
      <4>1. <<n - 1, n>> \in Nat \X Nat /\ <<n - 1, n>>[1] < <<n - 1, n>>[2]
        BY <2>5
      <4> QED
        BY <4>1 DEF OpToRel
    <3> QED
      BY <2>2, <3>1
  <2>7. ScanInv(all, order, Loop(all, order)[n - 1], n - 1)
    BY <2>5, <2>6
  <2>8. Loop(all, order)[n] = Scan(all, Loop(all, order)[n - 1], order[n])
    BY <1>1, <2>5, LoopSteps
  <2> QED
    BY <2>3, <2>5, <2>7, <2>8, ScanStep
<1> QED
  BY <1>1, <1>2

(* What the loop over all lines found, in either order of the hits.        *)
SearchOrder(all) ==
  IF call.op = "search_log" \/ call.fromEnd THEN Reverse([k \in DOMAIN all |-> k])
  ELSE [k \in DOMAIN all |-> k]

LEMMA OrderOfLines ==
  ASSUME NEW all \in Seq(Lines)
  PROVE  LET order == SearchOrder(all)
             newest == call.op = "search_log" \/ call.fromEnd IN
           /\ order \in Orders(all)
           /\ \A k \in DOMAIN all : \E p \in 1..Len(all) : order[p] = k
           /\ \A p, q \in 1..Len(all) :
                q < p => IF newest THEN order[p] < order[q] ELSE order[p] > order[q]
<1> DEFINE n == Len(all)
           up == [k \in 1..n |-> k]
           down == [k \in 1..n |-> n - k + 1]
<1>1. n \in Nat /\ DOMAIN all = 1..n
  OBVIOUS
<1>2. up \in Seq(1..n) /\ Len(up) = n
  BY <1>1
<1>3. Reverse(up) = [k \in 1..n |-> up[n - k + 1]]
  BY <1>2 DEF Reverse
<1>4. \A k \in 1..n : n - k + 1 \in 1..n
  BY <1>1
<1>5. Reverse(up) = down
  BY <1>3, <1>4
<1>6. down \in [1..n -> 1..n] /\ down \in Seq(1..n) /\ Len(down) = n
  BY <1>1, <1>4
<1>7. \A k \in 1..n : up[k] = k /\ down[k] = n - k + 1
  OBVIOUS
<1> HIDE DEF up, down
<1>8. CASE call.op = "search_log" \/ call.fromEnd
  <2>1. SearchOrder(all) = down
    BY <1>1, <1>5, <1>8 DEF SearchOrder, up
  <2>2. down \in Orders(all)
    <3>1. \A p, q \in 1..n : down[p] = down[q] => p = q
      BY <1>1, <1>7
    <3> QED BY <1>6, <3>1 DEF Orders
  <2>3. \A k \in 1..n : n - k + 1 \in 1..n /\ down[n - k + 1] = k
    BY <1>1, <1>4, <1>7
  <2>4. \A p, q \in 1..n : q < p => down[p] < down[q]
    BY <1>1, <1>7
  <2> QED
    BY <1>1, <1>8, <2>1, <2>2, <2>3, <2>4
<1>9. CASE ~(call.op = "search_log" \/ call.fromEnd)
  <2>1. SearchOrder(all) = up
    BY <1>1, <1>9 DEF SearchOrder, up
  <2>2. up \in Orders(all)
    BY <1>1, <1>2, <1>7 DEF Orders
  <2>3. \A k \in 1..n : up[k] = k
    BY <1>7
  <2>4. \A p, q \in 1..n : q < p => up[p] > up[q]
    BY <1>1, <1>7
  <2> QED
    BY <1>1, <1>9, <2>1, <2>2, <2>3, <2>4
<1> QED
  BY <1>8, <1>9

LEMMA SearchResult ==
  ASSUME TypeInv, step = "read", NEW all \in Seq(Lines), SearchFile(all)
  PROVE  LET order == SearchOrder(all)
             found == Loop(all, order)[Len(order)] IN
           /\ result' \in Results(all)
           /\ result'.truncated = found.truncated
           /\ result'.hits = IF call.op = "search_log" THEN Reverse(found.hits) ELSE found.hits
           /\ ScanInv(all, order, found, Len(all))
<1> DEFINE order == SearchOrder(all)
           found == Loop(all, order)[Len(order)]
<1>1. order \in Orders(all)
  BY OrderOfLines
<1>2. ScanInv(all, order, found, Len(all))
  BY <1>1, LoopIsRight DEF Orders
<1>3. found \in Results(all)
  BY <1>2 DEF ScanInv
<1>4. result' = [found EXCEPT !.hits = IF call.op = "search_log" THEN Reverse(@) ELSE @]
  BY DEF SearchFile, SearchOrder
<1> DEFINE hits == IF call.op = "search_log" THEN Reverse(found.hits) ELSE found.hits
           HitType == [line : 1..Len(all), before : Seq(Lines), after : Seq(Lines)]
<1> HIDE DEF found
<1>5. hits \in Seq(HitType)
  <2>1. found.hits \in Seq(HitType)
    BY <1>3 DEF Results
  <2> DEFINE h == found.hits
             T == HitType
  <2>2. h \in Seq(T)
    BY <2>1
  <2> HIDE DEF h, T
  <2>3. Reverse(h) \in Seq(T)
    <3>1. Len(h) \in Nat /\ \A i \in 1..Len(h) : Len(h) - i + 1 \in 1..Len(h)
      BY <2>2
    <3>2. \A i \in 1..Len(h) : h[Len(h) - i + 1] \in T
      BY <2>2, <3>1
    <3>3. Reverse(h) = [i \in 1..Len(h) |-> h[Len(h) - i + 1]]
      BY DEF Reverse
    <3> QED
      BY <3>1, <3>2, <3>3
  <2> QED
    BY <2>2, <2>3 DEF h, T
<1>6. result' = [found EXCEPT !.hits = hits]
  BY <1>4
<1>7. result' = [start |-> 0, end |-> 0, truncated |-> found.truncated, hits |-> hits]
  <2> HIDE DEF hits
  <2> QED BY <1>3, <1>6, ResultFields
<1>8. found.truncated \in BOOLEAN
  BY <1>3 DEF Results
<1>9. result' \in Results(all)
  <2> HIDE DEF hits
  <2> QED BY <1>5, <1>7, <1>8 DEF Results
<1>10. result'.truncated = found.truncated /\ result'.hits = hits
  <2> HIDE DEF hits
  <2> QED BY <1>7
<1> QED
  BY <1>2, <1>9, <1>10 DEF found

(* The hits of an answer, whichever way they were sorted.                  *)
LEMMA AnswerHits ==
  ASSUME TypeInv, step = "read", NEW all \in Seq(Lines), SearchFile(all)
  PROVE  LET acc == Loop(all, SearchOrder(all))[Len(SearchOrder(all))]
             hits == result'.hits IN
           /\ ScanInv(all, SearchOrder(all), acc, Len(all))
           /\ result'.truncated = acc.truncated
           /\ Len(hits) = Len(acc.hits) /\ Len(hits) \in Nat /\ DOMAIN hits = 1..Len(hits)
           /\ \A i \in DOMAIN hits : hits[i] = Context(all, hits[i].line)
           /\ \A i \in DOMAIN hits : hits[i].line \in DOMAIN all
           /\ \A i, j \in DOMAIN hits : hits[i].line = hits[j].line => i = j
           /\ \A k : Found(acc, k) <=> \E i \in DOMAIN hits : hits[i].line = k
<1> DEFINE acc == Loop(all, SearchOrder(all))[Len(SearchOrder(all))]
           hits == result'.hits
           f == acc.hits
           n == Len(f)
<1>1. /\ ScanInv(all, SearchOrder(all), acc, Len(all))
      /\ result'.truncated = acc.truncated
      /\ hits = IF call.op = "search_log" THEN Reverse(f) ELSE f
  BY SearchResult
<1> HIDE DEF acc
<1>2. /\ f \in Seq([line : 1..Len(all), before : Seq(Lines), after : Seq(Lines)])
      /\ \A i \in DOMAIN f : f[i] = Context(all, f[i].line)
      /\ \A i, j \in DOMAIN f : f[i].line = f[j].line => i = j
  <2>1. acc \in Results(all)
    BY <1>1 DEF ScanInv
  <2>2. f \in Seq([line : 1..Len(all), before : Seq(Lines), after : Seq(Lines)])
    BY <2>1 DEF Results
  <2> QED
    BY <1>1, <2>2 DEF ScanInv
<1>3. n \in Nat /\ DOMAIN f = 1..n
  BY <1>2
<1>4. \A i \in 1..n : f[i].line \in 1..Len(all)
  <2> DEFINE T == [line : 1..Len(all), before : Seq(Lines), after : Seq(Lines)]
  <2>1. f \in Seq(T) /\ \A h \in T : h.line \in 1..Len(all)
    BY <1>2
  <2> HIDE DEF T
  <2> QED
    BY <1>3, <2>1
<1>5. DOMAIN all = 1..Len(all)
  OBVIOUS
<1>6. \A k : Found(acc, k) <=> \E i \in 1..n : f[i].line = k
  BY <1>3 DEF Found
<1> HIDE DEF f, n, hits
<1>7. CASE call.op = "search_log"
  <2>1. n = Len(f)
    BY DEF n
  <2>2. hits = [i \in 1..n |-> f[n - i + 1]]
    BY <1>1, <1>7, <2>1 DEF Reverse
  <2>3. Len(hits) = n /\ DOMAIN hits = 1..n
    BY <1>3, <2>2
  <2>4. \A i \in 1..n : n - i + 1 \in 1..n /\ n - (n - i + 1) + 1 = i
    BY <1>3
  <2>5. \A i \in 1..n : hits[i] = f[n - i + 1]
    BY <2>2
  <2>6. \A i, j \in 1..n : hits[i].line = hits[j].line => i = j
    <3> SUFFICES ASSUME NEW i \in 1..n, NEW j \in 1..n, hits[i].line = hits[j].line
                 PROVE  i = j
      OBVIOUS
    <3>1. n - i + 1 \in DOMAIN f /\ n - j + 1 \in DOMAIN f
      BY <1>3, <2>4
    <3>2. f[n - i + 1].line = f[n - j + 1].line
      BY <2>5
    <3>3. n - i + 1 = n - j + 1
      BY <1>2, <3>1, <3>2
    <3> QED
      BY <1>3, <3>3
  <2>7. \A k : (\E i \in 1..n : hits[i].line = k) <=> \E i \in 1..n : f[i].line = k
    <3> SUFFICES ASSUME NEW k
                 PROVE  (\E i \in 1..n : hits[i].line = k) <=> \E i \in 1..n : f[i].line = k
      OBVIOUS
    <3>1. ASSUME NEW i \in 1..n, hits[i].line = k PROVE \E j \in 1..n : f[j].line = k
      BY <2>4, <2>5, <3>1
    <3>2. ASSUME NEW i \in 1..n, f[i].line = k PROVE \E j \in 1..n : hits[j].line = k
      <4>1. n - i + 1 \in 1..n /\ hits[n - i + 1] = f[i]
        BY <2>4, <2>5
      <4> QED
        BY <3>2, <4>1
    <3> QED
      BY <3>1, <3>2
  <2>8. \A i \in 1..n : hits[i] = Context(all, hits[i].line) /\ hits[i].line \in 1..Len(all)
    BY <1>2, <1>3, <1>4, <2>4, <2>5
  <2> QED
    BY <1>1, <1>3, <1>5, <1>6, <2>1, <2>3, <2>6, <2>7, <2>8 DEF acc, hits, f
<1>8. CASE call.op # "search_log"
  <2>1. hits = f /\ n = Len(f)
    BY <1>1, <1>8 DEF n
  <2> QED
    BY <1>1, <1>2, <1>3, <1>4, <1>5, <1>6, <2>1 DEF acc, hits, f
<1> QED
  BY <1>7, <1>8

LEMMA HitsAreCounted ==
  ASSUME NEW hits, Len(hits) \in Nat, DOMAIN hits = 1..Len(hits),
         \A i, j \in DOMAIN hits : hits[i].line = hits[j].line => i = j
  PROVE  Cardinality({hits[i].line : i \in DOMAIN hits}) = Len(hits)
<1> DEFINE n == Len(hits)
           T == {hits[i].line : i \in 1..n}
           f == [i \in 1..n |-> hits[i].line]
<1>1. IsFiniteSet(1..n) /\ Cardinality(1..n) = n
  BY FS_Interval
<1>2. f \in Surjection(1..n, T)
  BY DEF Surjection
<1>3. f \in Injection(1..n, T)
  <2>1. f \in [1..n -> T]
    OBVIOUS
  <2>2. \A i, j \in 1..n : f[i] = f[j] => i = j
    OBVIOUS
  <2> QED
    BY <2>1, <2>2 DEF Injection, IsInjective
<1> HIDE DEF f
<1>4. Cardinality(T) = Cardinality(1..n)
  <2> HIDE DEF T
  <2> QED BY <1>1, <1>2, <1>3, FS_Surjection
<1> QED
  BY <1>1, <1>4

LEMMA SearchRight ==
  ASSUME TypeInv, step = "read", lines' \in Seq(Lines), SearchFile(lines'), call' = call
  PROVE  SearchIsRight' /\ result' \in Results(lines')
<1> DEFINE all == lines'
           order == SearchOrder(all)
           acc == Loop(all, order)[Len(order)]
           hits == result'.hits
           found == {hits[i].line : i \in DOMAIN hits}
           matches == {k \in DOMAIN all : Hit(all[k])}
           newest == call.op = "search_log" \/ call.fromEnd
<1>1. /\ ScanInv(all, order, acc, Len(all))
      /\ result'.truncated = acc.truncated
      /\ Len(hits) = Len(acc.hits) /\ Len(hits) \in Nat /\ DOMAIN hits = 1..Len(hits)
      /\ \A i \in DOMAIN hits : hits[i] = Context(all, hits[i].line)
      /\ \A i \in DOMAIN hits : hits[i].line \in DOMAIN all
      /\ \A i, j \in DOMAIN hits : hits[i].line = hits[j].line => i = j
      /\ \A k : Found(acc, k) <=> \E i \in DOMAIN hits : hits[i].line = k
  BY AnswerHits
<1>2. result' \in Results(all)
  BY SearchResult
<1>3. /\ order \in Orders(all)
      /\ \A k \in DOMAIN all : \E p \in 1..Len(all) : order[p] = k
      /\ \A p, q \in 1..Len(all) :
           q < p => IF newest THEN order[p] < order[q] ELSE order[p] > order[q]
  BY OrderOfLines
<1>4. \A k : Found(acc, k) <=> k \in found
  BY <1>1
<1>5. Cardinality(found) = Len(hits)
  <2> HIDE DEF hits
  <2> QED BY <1>1, HitsAreCounted
<1> HIDE DEF acc, found
<1>6. /\ \A p \in 1..Len(all) : Hit(all[order[p]]) /\ order[p] \notin found =>
           /\ acc.truncated
           /\ \A q \in 1..Len(all) : order[q] \in found => q < p
      /\ acc.truncated => Len(acc.hits) = MaxMatches
      /\ acc.truncated /\ call.op = "search_log" =>
           \E p \in 1..Len(all) : Hit(all[order[p]]) /\ order[p] \notin found
  BY <1>1, <1>4 DEF ScanInv
<1>7. \A p \in 1..Len(all) : order[p] \in DOMAIN all
  BY <1>3 DEF Orders
<1>8. found \subseteq matches
  <2> SUFFICES ASSUME NEW k \in found PROVE k \in matches
    OBVIOUS
  <2>1. PICK i \in DOMAIN acc.hits : acc.hits[i].line = k
    BY <1>4 DEF Found
  <2>2. PICK p \in 1..Len(all) : acc.hits[i].line = order[p] /\ Hit(all[order[p]])
    BY <1>1 DEF ScanInv
  <2> QED
    BY <1>7, <2>1, <2>2
<1> HIDE DEF order, newest
<1>9. ~result'.truncated => found = matches
  <2> SUFFICES ASSUME ~result'.truncated, NEW k \in matches PROVE k \in found
    BY <1>8
  <2>1. PICK p \in 1..Len(all) : order[p] = k
    BY <1>3
  <2> QED
    BY <1>1, <1>6, <2>1
<1>10. \A f \in found, k \in matches \ found : IF newest THEN k < f ELSE k > f
  <2> SUFFICES ASSUME NEW f \in found, NEW k \in matches \ found
               PROVE  IF newest THEN k < f ELSE k > f
    OBVIOUS
  <2>1. PICK p \in 1..Len(all) : order[p] = k
    BY <1>3
  <2>2. PICK q \in 1..Len(all) : order[q] = f
    BY <1>3, <1>8
  <2>3. q < p
    BY <1>6, <2>1, <2>2
  <2> QED
    BY <1>3, <2>1, <2>2, <2>3
<1>11. result'.truncated => Len(hits) = MaxMatches
  BY <1>1, <1>6
<1>12. call.op = "search_log" /\ result'.truncated => matches # found
  BY <1>1, <1>6, <1>7
<1>13. SearchIsComplete'
  BY <1>5, <1>8, <1>9, <1>10, <1>11, <1>12 DEF SearchIsComplete, Answered, found, newest
<1>14. ContextSurrounds'
  <2> SUFFICES ASSUME NEW i \in DOMAIN result'.hits
               PROVE  LET h == result'.hits[i] IN
                        /\ Len(h.before) = Least(ContextLines, h.line - 1)
                        /\ Len(h.after) = Least(ContextLines, Len(all) - h.line)
                        /\ h.before \o <<all[h.line]>> \o h.after =
                             SubSeq(all, h.line - Len(h.before), h.line + Len(h.after))
    BY DEF ContextSurrounds
  <2>1. PICK k \in 1..Len(all) : hits[i] = Context(all, k)
    BY <1>1
  <2> DEFINE h == Context(all, k)
  <2>2. /\ h.line = k
        /\ Len(h.before) = Least(ContextLines, k - 1)
        /\ Len(h.after) = Least(ContextLines, Len(all) - k)
        /\ (h.before \o <<all[k]>>) \o h.after =
             SubSeq(all, k - Len(h.before), k + Len(h.after))
    <3> DEFINE s == lines'
    <3>1. s \in Seq(Lines) /\ k \in 1..Len(s)
      BY <2>1
    <3> HIDE DEF s
    <3>2. LET g == Context(s, k) IN
            /\ g.line = k
            /\ Len(g.before) = Least(ContextLines, k - 1)
            /\ Len(g.after) = Least(ContextLines, Len(s) - k)
            /\ (g.before \o <<s[k]>>) \o g.after =
                 SubSeq(s, k - Len(g.before), k + Len(g.after))
      BY <3>1, ContextIsRight
    <3> QED
      BY <3>2 DEF s
  <2> HIDE DEF h
  <2>3. result'.hits[i] = h
    BY <2>1 DEF h
  <2> QED
    BY <2>2, <2>3
<1> QED
  BY <1>2, <1>13, <1>14 DEF SearchIsRight

-----------------------------------------------------------------------------
(* Pages.  Every line that the agent has got had ended when it was read,   *)
(* so it stays as it was, and the next page begins behind the last.        *)
Current == LinesOf(texts[current], SplitBreaks)

Has(last) ==
  /\ current \in DOMAIN texts
  /\ last \in 1..Cardinality(Breaks(texts[current], SplitBreaks))
  /\ Len(got) <= last
  /\ got = SubSeq(Current, last + 1 - Len(got), last)

Paging == call.op = "read" /\ call.tail = 0 /\ steady /\ got # <<>>

PagesInv ==
  /\ steady /\ step = "read" => handle = current
  /\ Paging /\ step # "answered" => Has(call.start - 1)
  /\ Paging /\ step = "answered" /\ answer = "ok" /\ result.truncated => Has(result.end)
  /\ PagesAreTheFile

LEMMA LinesAgree ==
  ASSUME NEW s \in Seq(Lines), NEW u \in Seq(Lines), NEW m \in Nat \ {0}, NEW n \in Nat,
         n <= Len(s), n <= Len(u), \A k \in 1..n : u[k] = s[k]
  PROVE  SubSeq(u, m, n) = SubSeq(s, m, n)
<1>1. \A k \in m..n : k \in 1..n /\ k \in 1..Len(s) /\ k \in 1..Len(u)
  OBVIOUS
<1>2. \A k \in m..n : u[k] = s[k] /\ s[k] \in Lines /\ u[k] \in Lines
  BY <1>1
<1>3. /\ SubSeq(s, m, n) \in Seq(Lines)
      /\ Len(SubSeq(s, m, n)) = IF m <= n THEN n - m + 1 ELSE 0
      /\ \A i \in 1..n - m + 1 : SubSeq(s, m, n)[i] = s[m + i - 1]
  BY <1>2, SubSeqProperties
<1>4. /\ SubSeq(u, m, n) \in Seq(Lines)
      /\ Len(SubSeq(u, m, n)) = IF m <= n THEN n - m + 1 ELSE 0
      /\ \A i \in 1..n - m + 1 : SubSeq(u, m, n)[i] = u[m + i - 1]
  BY <1>2, SubSeqProperties
<1>5. ASSUME NEW i \in 1..Len(SubSeq(s, m, n))
      PROVE  SubSeq(u, m, n)[i] = SubSeq(s, m, n)[i]
  <2>1. i \in 1..n - m + 1 /\ m + i - 1 \in m..n
    BY <1>3, <1>5
  <2> QED
    BY <1>2, <1>3, <1>4, <2>1
<1> QED
  BY <1>3, <1>4, <1>5, SeqEqual

(* What the agent has got stays so while the file grows.                   *)
LEMMA HasStays ==
  ASSUME TypeInv, NEW last, Has(last), got' = got, current' = current,
         current \in DOMAIN texts', texts'[current] \in Texts,
         Begins(texts[current], texts'[current])
  PROVE  Has(last)'
<1> DEFINE t == texts[current]
           u == texts'[current]
           n == Cardinality(Breaks(t, SplitBreaks))
<1>1. t \in Texts /\ u \in Texts
  BY DEF TypeInv, TypeOK, Has
<1>2. /\ n \in Nat /\ Cardinality(Breaks(u, SplitBreaks)) \in Nat
      /\ n <= Cardinality(Breaks(u, SplitBreaks))
  BY <1>1, BreaksAreFinite, RanksStay
<1>3. last \in 1..n /\ Len(got) \in Nat /\ Len(got) <= last
  BY DEF Has, TypeInv, TypeOK
<1>4. \A k \in 1..n : LinesOf(u, SplitBreaks)[k] = LinesOf(t, SplitBreaks)[k]
  BY <1>1, LinesStay
<1>5. /\ LinesOf(t, SplitBreaks) \in Seq(Lines) /\ LinesOf(u, SplitBreaks) \in Seq(Lines)
      /\ n <= Len(LinesOf(t, SplitBreaks)) /\ n <= Len(LinesOf(u, SplitBreaks))
      /\ Len(LinesOf(t, SplitBreaks)) \in Nat /\ Len(LinesOf(u, SplitBreaks)) \in Nat
  BY <1>1, <1>2, LinesType
<1>6. SubSeq(LinesOf(u, SplitBreaks), last + 1 - Len(got), last)
        = SubSeq(LinesOf(t, SplitBreaks), last + 1 - Len(got), last)
  <2> DEFINE m == last + 1 - Len(got)
             s == LinesOf(t, SplitBreaks)
             r == LinesOf(u, SplitBreaks)
  <2>1. m \in Nat \ {0} /\ last \in Nat /\ last <= Len(s) /\ last <= Len(r)
    BY <1>2, <1>3, <1>5
  <2>2. \A k \in 1..last : r[k] = s[k]
    BY <1>2, <1>3, <1>4
  <2>3. s \in Seq(Lines) /\ r \in Seq(Lines)
    BY <1>5
  <2> HIDE DEF m, s, r
  <2>4. SubSeq(r, m, last) = SubSeq(s, m, last)
    BY <2>1, <2>2, <2>3, LinesAgree
  <2> QED
    BY <2>4 DEF m, s, r
<1>7. last \in 1..Cardinality(Breaks(u, SplitBreaks))
  BY <1>2, <1>3
<1> QED
  BY <1>3, <1>6, <1>7 DEF Has, Current

(* A page that is read extends what the agent has.                         *)
LEMMA ReadFileRight ==
  ASSUME TypeInv, PagesInv, SearchIsRight, step = "read",
         lines' = LinesOf(texts[handle], SplitBreaks), ReadFile(lines'),
         UNCHANGED <<files, call, steady, handle>>
  PROVE  /\ ResultOK(result)' /\ got' \in Seq(Lines)
         /\ step' = "answered" /\ answer' \in {"ok", "line_out_of_range"}
         /\ SearchIsRight' /\ PagesInv'
<1> DEFINE all == lines'
           sel == Selected(Len(all))
           from == sel.from
           to == sel.to
<1>1. texts[handle] \in Texts
  BY DEF TypeInv, TypeOK
<1>2. all \in Seq(Lines) /\ Len(all) \in Nat
  BY <1>1, LinesType
<1>3. result = NoResult /\ ~InvalidRange /\ call.op = "read"
  BY DEF TypeInv, ReadFile
<1>4. /\ from \in Nat
      /\ from < Len(all) => to \in from + 1..Len(all)
      /\ call.tail = 0 => from = call.start - 1
  BY <1>2, <1>3, SelectedRange DEF TypeInv
<1>5. got \in Seq(Lines) /\ Len(got) \in Nat /\ call.start \in Int
  <2>1. got \in Seq(Lines) /\ call \in CallType
    BY DEF TypeInv, TypeOK
  <2>2. Len(got) \in Nat
    BY <2>1
  <2>3. call.start \in Int
    BY <2>1 DEF CallType
  <2> QED
    BY <2>1, <2>2, <2>3
<1>a. \/ all = <<>> /\ answer' = "ok" /\ UNCHANGED <<result, got>>
      \/ /\ all # <<>> /\ from >= Len(all)
         /\ answer' = "line_out_of_range" /\ UNCHANGED <<result, got>>
      \/ /\ all # <<>> /\ from < Len(all)
         /\ answer' = "ok"
         /\ result' = [NoResult EXCEPT !.start = from + 1, !.end = to, !.truncated = to < Len(all)]
         /\ got' = got \o Slice(all, from, to)
  BY DEF ReadFile, Answer
<1>6. step' = "answered" /\ answer' \in {"ok", "line_out_of_range"}
  BY DEF ReadFile, Answer
<1>7. \A i \in DOMAIN result'.hits : FALSE
  <2> HIDE DEF from, to
  <2>1. CASE result' = [NoResult EXCEPT !.start = from + 1, !.end = to, !.truncated = to < Len(all)]
    <3>1. result'.hits = <<>>
      BY <2>1 DEF NoResult
    <3> QED BY <3>1
  <2>2. CASE result' = result
    <3>1. result'.hits = <<>>
      BY <1>3, <2>2 DEF NoResult
    <3> QED BY <3>1
  <2> QED BY <1>a, <2>1, <2>2
<1>8. SearchIsRight'
  BY <1>3, <1>7 DEF SearchIsRight, SearchIsComplete, ContextSurrounds, Answered
<1> HIDE DEF from, to
<1>9. CASE all # <<>> /\ from < Len(all)
  <2>1. /\ result' = [NoResult EXCEPT !.start = from + 1, !.end = to, !.truncated = to < Len(all)]
        /\ got' = got \o Slice(all, from, to)
        /\ answer' = "ok"
    BY <1>2, <1>4, <1>9, <1>a
  <2>2. result' = [start |-> from + 1, end |-> to, truncated |-> to < Len(all), hits |-> <<>>]
    BY <2>1 DEF NoResult
  <2>3. to \in from + 1..Len(all) /\ to \in Nat
    BY <1>2, <1>4, <1>9
  <2>4. ResultOK(result)'
    <3>1. result'.start = from + 1 /\ result'.end = to /\ result'.truncated \in BOOLEAN
      BY <2>2
    <3>2. from + 1 \in 0..Len(all) /\ to \in 0..Len(all)
      BY <1>2, <1>4, <1>9, <2>3
    <3> QED
      BY <1>7, <3>1, <3>2 DEF ResultOK
  <2>5. /\ Slice(all, from, to) \in Seq(Lines)
        /\ Slice(all, from, to) = SubSeq(all, from + 1, to)
        /\ Len(Slice(all, from, to)) = to - from
    <3>1. from \in Nat /\ to \in Int /\ from <= to /\ to <= Len(all)
      BY <1>4, <2>3
    <3> DEFINE s == lines'
    <3>2. s \in Seq(Lines) /\ from \in Nat /\ to \in Int /\ from <= to /\ to <= Len(s)
      BY <1>2, <3>1
    <3> HIDE DEF s
    <3>3. Slice(s, from, to) \in Seq(Lines)
      BY <3>2, SlicesAreLines
    <3>4. Slice(s, from, to) = SubSeq(s, from + 1, to) /\ Len(Slice(s, from, to)) = to - from
      BY <3>2, SlicesAreLines
    <3> QED
      BY <3>3, <3>4 DEF s
  <2>6. got' \in Seq(Lines) /\ Len(got') = Len(got) + (to - from) /\ Len(got') \in Nat
    <3> DEFINE page == Slice(all, from, to)
    <3>1. page \in Seq(Lines) /\ Len(page) = to - from /\ got' = got \o page
      BY <2>1, <2>5
    <3> HIDE DEF page
    <3>2. got \o page \in Seq(Lines) /\ Len(got \o page) = Len(got) + Len(page)
      BY <1>5, <3>1, ConcatProperties
    <3>3. to - from \in Nat
      BY <1>4, <2>3
    <3> QED
      BY <1>5, <3>1, <3>2, <3>3
  <2>7. ASSUME call.tail = 0, steady
        PROVE  Len(got') <= to /\ got' = SubSeq(all, to + 1 - Len(got'), to)
    <3>1. from = call.start - 1 /\ handle = current
      BY <1>4, <2>7 DEF PagesInv
    <3>2. Len(got) <= from /\ got = SubSeq(all, from + 1 - Len(got), from)
      <4>1. CASE got = <<>>
        <5>1. from + 1 - Len(got) = from + 1 /\ Len(got) = 0
          BY <1>4, <4>1
        <5>2. SubSeq(all, from + 1, from) = <<>>
          BY <1>4, SubSeqEmpty
        <5> QED
          BY <1>4, <4>1, <5>1, <5>2
      <4>2. CASE got # <<>>
        <5>1. Has(call.start - 1)
          BY <1>3, <2>7, <4>2 DEF PagesInv, Paging
        <5> QED
          BY <3>1, <5>1 DEF Has, Current
      <4> QED
        BY <4>1, <4>2
    <3> DEFINE m == from + 1 - Len(got)
    <3>3. m \in 1..Len(all) + 1 /\ from \in m - 1..Len(all) /\ to \in from..Len(all)
      BY <1>2, <1>4, <1>5, <1>9, <2>3, <3>2
    <3>4. SubSeq(all, m, from) \o SubSeq(all, from + 1, to) = SubSeq(all, m, to)
      <4> DEFINE s == lines'
      <4>1. s \in Seq(Lines) /\ m \in 1..Len(s) + 1 /\ from \in m - 1..Len(s) /\ to \in from..Len(s)
        BY <1>2, <3>3
      <4> HIDE DEF m, s
      <4>2. SubSeq(s, m, from) \o SubSeq(s, from + 1, to) = SubSeq(s, m, to)
        BY <4>1, ConcatAdjacentSubSeq
      <4> QED
        BY <4>2 DEF s
    <3>5. to + 1 - Len(got') = m /\ Len(got') <= to
      <4> DEFINE x == Len(got)
                 y == Len(got')
      <4>1. x \in Nat /\ y = x + (to - from) /\ x <= from
        BY <1>5, <2>6, <3>2
      <4> HIDE DEF x, y
      <4>2. to + 1 - y = from + 1 - x /\ y <= to
        BY <1>4, <2>3, <4>1
      <4> QED
        BY <4>2 DEF x, y
    <3> QED
      BY <2>1, <2>5, <3>2, <3>4, <3>5
  <2>8. result'.start = from + 1 /\ result'.end = to /\ (result'.truncated <=> to < Len(all))
    BY <2>2
  <2>9. PagesAreTheFile'
    <3> SUFFICES ASSUME call.tail = 0, steady
                 PROVE  LET first == call.start - (Len(got') - (to + 1 - (from + 1))) IN
                          /\ got' = SubSeq(all, first, to)
                          /\ ~(to < Len(all)) => to = Len(all)
      BY <2>8 DEF PagesAreTheFile
    <3>1. call.start - (Len(got') - (to + 1 - (from + 1))) = to + 1 - Len(got')
      <4> DEFINE y == Len(got')
                 c == call.start
      <4>1. y \in Nat /\ from = c - 1 /\ c \in Int
        BY <1>4, <1>5, <2>6
      <4> HIDE DEF y, c
      <4>2. c - (y - (to + 1 - (from + 1))) = to + 1 - y
        BY <2>3, <4>1
      <4> QED
        BY <4>2 DEF y, c
    <3>2. got' = SubSeq(all, to + 1 - Len(got'), to)
      BY <2>7
    <3>3. ~(to < Len(all)) => to = Len(all)
      BY <1>2, <2>3
    <3> QED
      BY <3>1, <3>2, <3>3
  <2>10. ASSUME Paging', result'.truncated
         PROVE  Has(result.end)'
    <3>1. call.tail = 0 /\ steady /\ handle = current
      BY <2>10 DEF Paging, PagesInv
    <3>2. to <= Cardinality(Breaks(texts[handle], SplitBreaks))
      <4>1. to < Len(all) /\ Len(all) = LineCount(texts[handle], SplitBreaks)
        BY <1>1, <2>8, <2>10, LinesType
      <4> QED
        BY <1>1, <1>2, <2>3, <4>1, LinesType, BreaksAreFinite
    <3>3. to \in 1..Cardinality(Breaks(texts[handle], SplitBreaks))
      BY <1>1, <1>4, <2>3, <3>2, BreaksAreFinite
    <3>4. texts' = texts /\ current' = current /\ handle \in DOMAIN texts
      BY DEF files, TypeInv
    <3>5. Current' = all
      BY <3>1, <3>4 DEF Current
    <3>6. Len(got') <= to /\ got' = SubSeq(all, to + 1 - Len(got'), to)
      BY <2>7, <3>1
    <3> QED
      BY <2>8, <3>1, <3>3, <3>4, <3>5, <3>6 DEF Has
  <2>11. PagesInv'
    BY <1>6, <2>9, <2>10 DEF PagesInv
  <2> QED
    BY <1>6, <1>8, <2>4, <2>6, <2>11
<1>10. CASE ~(all # <<>> /\ from < Len(all))
  <2>1. UNCHANGED <<result, got>>
    BY <1>10, <1>a
  <2>2. ResultOK(result)'
    BY <1>2, <1>3, <2>1 DEF ResultOK, NoResult
  <2>3. ~result'.truncated
    BY <1>3, <2>1 DEF NoResult
  <2>4. Paging' => answer' # "ok"
    <3> SUFFICES ASSUME Paging', answer' = "ok" PROVE FALSE
      OBVIOUS
    <3>1. all = <<>>
      BY <1>10, <1>a
    <3>2. Paging /\ handle = current
      BY <2>1 DEF Paging, PagesInv
    <3>3. Has(call.start - 1)
      BY <3>2 DEF PagesInv
    <3>4. Cardinality(Breaks(texts[handle], SplitBreaks)) >= 1
      BY <1>1, <3>2, <3>3, BreaksAreFinite DEF Has
    <3>5. Len(all) >= 1
      BY <1>1, <3>4, LinesType, BreaksAreFinite
    <3> QED
      BY <3>1, <3>5
  <2>5. PagesAreTheFile'
    BY <2>4 DEF PagesAreTheFile, Answered, Paging
  <2>6. PagesInv'
    BY <1>6, <2>3, <2>5 DEF PagesInv
  <2> QED
    BY <1>5, <1>6, <1>8, <2>1, <2>2, <2>6
<1> QED
  BY <1>9, <1>10

LEMMA ReadStep ==
  ASSUME TypeInv, PagesInv, SearchIsRight, Read
  PROVE  TypeInv' /\ PagesInv' /\ SearchIsRight'
<1>1. /\ step = "read" /\ lines' = LinesOf(texts[handle], SplitBreaks)
      /\ UNCHANGED <<texts, current, access, call, steady, handle, seen, writes, chmods>>
  BY DEF Read, files
<1>2. texts[handle] \in Texts
  BY <1>1 DEF TypeInv, TypeOK
<1>3. lines' \in Seq(Lines)
  BY <1>1, <1>2, LinesType
<1>4. /\ ResultOK(result)' /\ got' \in Seq(Lines)
      /\ step' = "answered" /\ answer' \in {"ok", "line_out_of_range"}
      /\ SearchIsRight' /\ PagesInv'
  <2>1. CASE ReadFile(lines')
    BY <1>1, <2>1, ReadFileRight DEF files
  <2>2. CASE SearchFile(lines')
    <3>1. SearchIsRight' /\ result' \in Results(lines')
      BY <1>1, <1>3, <2>2, SearchRight
    <3>2. ResultOK(result)'
      <4>1. /\ result'.start = 0 /\ result'.end = 0 /\ result'.truncated \in BOOLEAN
            /\ result'.hits \in Seq([line : 1..Len(lines'), before : Seq(Lines), after : Seq(Lines)])
        BY <3>1 DEF Results
      <4> DEFINE T == [line : 1..Len(lines'), before : Seq(Lines), after : Seq(Lines)]
                 h == result'.hits
      <4>2. h \in Seq(T) /\ \A x \in T : x.line \in 1..Len(lines')
        BY <4>1
      <4> HIDE DEF T, h
      <4>3. \A j \in DOMAIN h : h[j].line \in 1..Len(lines')
        BY <4>2
      <4>4. DOMAIN lines' = 1..Len(lines') /\ 0 \in 0..Len(lines')
        BY <1>3
      <4> QED
        BY <4>1, <4>3, <4>4 DEF ResultOK, h
    <3>3. call.op # "read" /\ step' = "answered" /\ answer' = "ok" /\ got' = got
      BY <2>2 DEF SearchFile, Answer
    <3>4. got' \in Seq(Lines)
      BY <3>3 DEF TypeInv, TypeOK
    <3>5. PagesInv'
      BY <1>1, <3>3 DEF PagesInv, Paging, PagesAreTheFile, Answered
    <3> QED
      BY <3>1, <3>2, <3>3, <3>4, <3>5
  <2> QED
    BY <2>1, <2>2 DEF Read
<1>5. TypeOK'
  BY <1>1, <1>3, <1>4 DEF TypeInv, TypeOK
<1> QED
  BY <1>4, <1>5 DEF TypeInv

LEMMA CallPages ==
  ASSUME TypeInv, PagesInv, (\E c \in Calls : NewCall(c)) \/ NextPage
  PROVE  PagesInv'
<1>1. step' = "exists"
  BY CallStarts
<1>2. CASE \E c \in Calls : NewCall(c)
  <2>1. got' = <<>>
    BY <1>2 DEF NewCall
  <2> QED
    BY <1>1, <2>1 DEF PagesInv, Paging, PagesAreTheFile, Answered
<1>3. CASE NextPage
  <2>1. /\ step = "answered" /\ answer = "ok" /\ call.op = "read" /\ call.tail = 0
        /\ result.truncated /\ call' = [call EXCEPT !.start = result.end + 1]
        /\ UNCHANGED <<texts, current, got, steady>>
    BY <1>3 DEF NextPage, files
  <2>2. call'.start = result.end + 1 /\ result.end \in Int
    <3>1. call \in CallType /\ result.end \in Int
      BY DEF TypeInv, TypeOK, ResultOK
    <3> QED
      BY <2>1, <3>1 DEF CallType
  <2>3. Paging' => Has(result.end)
    BY <2>1 DEF PagesInv, Paging
  <2>4. call'.start - 1 = result.end
    BY <2>2
  <2>5. Paging' => Has(call.start - 1)'
    BY <2>1, <2>3, <2>4 DEF Has, Current
  <2> QED
    BY <1>1, <2>5 DEF PagesInv, PagesAreTheFile, Answered
<1> QED
  BY <1>2, <1>3

LEMMA AccessPages ==
  ASSUME TypeInv, PagesInv, Exists \/ IsDir \/ Stat \/ BinaryCheck \/ Open
  PROVE  PagesInv'
<1>1. /\ UNCHANGED <<texts, current, call, got, steady, lines, result>>
      /\ step # "answered"
      /\ step' = "answered" => answer' # "ok"
  BY AccessType
<1>2. Paging' => Has(call.start - 1)'
  BY <1>1 DEF PagesInv, Paging, Has, Current
<1>3. steady' /\ step' = "read" => handle' = current'
  <2>1. CASE Open
    BY <1>1, <2>1 DEF Open, Answer
  <2>2. CASE Exists \/ IsDir \/ Stat \/ BinaryCheck
    <3>1. step' # "read"
      BY <2>2 DEF Exists, IsDir, Stat, BinaryCheck, Answer
    <3> QED
      BY <3>1
  <2> QED
    BY <2>1, <2>2
<1> QED
  BY <1>1, <1>2, <1>3 DEF PagesInv, PagesAreTheFile, Answered

LEMMA ServerPages ==
  ASSUME TypeInv, PagesInv, Write \/ Rotate \/ Unlink \/ MakeDirectory \/ Chmod
  PROVE  PagesInv'
<1>1. /\ UNCHANGED <<call, got, step, handle, lines, answer, result>>
      /\ \A i \in DOMAIN texts : i \in DOMAIN texts' /\ Begins(texts[i], texts'[i])
      /\ \A i \in DOMAIN texts : texts[i] \in Texts /\ texts'[i] \in Texts
      /\ steady' => steady /\ current' = current
  BY ServerType
<1>2. ASSUME NEW last, steady', Has(last)
      PROVE  Has(last)'
  <2>1. current \in DOMAIN texts /\ current' = current
    BY <1>1, <1>2 DEF Has
  <2> QED
    BY <1>1, <1>2, <2>1, HasStays
<1>3. Paging' /\ step' # "answered" => Has(call.start - 1)'
  <2> SUFFICES ASSUME Paging', step' # "answered" PROVE Has(call.start - 1)'
    OBVIOUS
  <2>1. Has(call.start - 1) /\ steady'
    BY <1>1 DEF PagesInv, Paging
  <2> DEFINE last == call.start - 1
  <2>2. last' = last
    BY <1>1
  <2> HIDE DEF last
  <2>3. Has(last)
    BY <2>1 DEF last
  <2>4. ASSUME NEW l, Has(l) PROVE Has(l)'
    BY <1>2, <2>1, <2>4
  <2> QED
    BY <1>1, <2>3, <2>4 DEF last, Has
<1>4. Paging' /\ step' = "answered" /\ answer' = "ok" /\ result'.truncated => Has(result.end)'
  <2> SUFFICES ASSUME Paging', step' = "answered", answer' = "ok", result'.truncated
               PROVE  Has(result.end)'
    OBVIOUS
  <2>1. Has(result.end) /\ steady'
    BY <1>1 DEF PagesInv, Paging
  <2>2. ASSUME NEW l, Has(l) PROVE Has(l)'
    BY <1>2, <2>1, <2>2
  <2> QED
    BY <1>1, <2>1, <2>2 DEF Has
<1>5. PagesAreTheFile'
  BY <1>1 DEF PagesInv, PagesAreTheFile, Answered
<1> QED
  BY <1>1, <1>3, <1>4, <1>5 DEF PagesInv

(* A search is right when it is answered, and stays so until it is asked   *)
(* again: nothing else changes what it is about.                           *)
LEMMA SearchStays ==
  ASSUME SearchIsRight,
         \/ UNCHANGED <<call, step, answer, lines, result>>
         \/ (step' # "answered" \/ answer' # "ok") /\ UNCHANGED <<lines, result>>
         \/ step' = "exists" /\ result' = NoResult
  PROVE  SearchIsRight'
<1>1. CASE UNCHANGED <<call, step, answer, lines, result>>
  <2>1. SearchIsComplete'
    BY <1>1, SMTT(60) DEF SearchIsRight, SearchIsComplete, Answered
  <2>2. ContextSurrounds'
    BY <1>1 DEF SearchIsRight, ContextSurrounds
  <2> QED
    BY <2>1, <2>2 DEF SearchIsRight
<1>2. CASE (step' # "answered" \/ answer' # "ok") /\ UNCHANGED <<lines, result>>
  BY <1>2 DEF SearchIsRight, SearchIsComplete, ContextSurrounds, Answered
<1>3. CASE step' = "exists" /\ result' = NoResult
  <2>1. \A j \in DOMAIN result'.hits : FALSE
    BY <1>3 DEF NoResult
  <2> QED
    BY <1>3, <2>1 DEF SearchIsRight, SearchIsComplete, ContextSurrounds, Answered
<1> QED
  BY <1>1, <1>2, <1>3

THEOREM FileInvariance == Spec => [](TypeInv /\ PagesInv /\ SearchIsRight)
<1>1. Init => PagesInv /\ SearchIsRight
  <2> SUFFICES ASSUME Init PROVE PagesInv /\ SearchIsRight
    OBVIOUS
  <2>1. /\ step = "answered" /\ answer = "none" /\ got = <<>>
        /\ \A j \in DOMAIN result.hits : FALSE
    BY DEF Init, NoResult
  <2> QED
    BY <2>1 DEF PagesInv, Paging, PagesAreTheFile, Answered, SearchIsRight, SearchIsComplete,
                ContextSurrounds
<1>2. TypeInv /\ PagesInv /\ SearchIsRight /\ [Next]_vars
        => TypeInv' /\ PagesInv' /\ SearchIsRight'
  <2> SUFFICES ASSUME TypeInv, PagesInv, SearchIsRight, [Next]_vars
               PROVE  TypeInv' /\ PagesInv' /\ SearchIsRight'
    OBVIOUS
  <2>1. CASE (\E c \in Calls : NewCall(c)) \/ NextPage
    BY <2>1, CallStarts, CallPages, SearchStays
  <2>2. CASE Exists \/ IsDir \/ Stat \/ BinaryCheck \/ Open
    BY <2>2, AccessType, AccessPages, SearchStays
  <2>3. CASE Read
    BY <2>3, ReadStep
  <2>4. CASE Write \/ Rotate \/ Unlink \/ MakeDirectory \/ Chmod
    BY <2>4, ServerType, ServerPages, SearchStays
  <2>5. CASE UNCHANGED vars
    <3> USE <2>5 DEF vars, files, agent
    <3>1. TypeInv'
      BY DEF TypeInv, TypeOK, ResultOK, InvalidRange
    <3>2. PagesInv'
      BY DEF PagesInv, Paging, Has, Current, PagesAreTheFile, Answered
    <3>3. SearchIsRight'
      BY SearchStays
    <3> QED
      BY <3>1, <3>2, <3>3
  <2> QED
    BY <2>1, <2>2, <2>3, <2>4, <2>5 DEF Next
<1> QED
  BY <1>1, <1>2, InitType, PTL DEF Spec

(* What the file tools keep has its type: a page lies within the lines     *)
(* that were read, whatever the arguments (remote_fs/service.py 471-506).  *)
THEOREM TypeCorrect == Spec => []TypeOK
<1>1. TypeInv => TypeOK
  BY DEF TypeInv
<1> QED
  BY <1>1, FileInvariance, PTL

(* The pages of remote_read_file make up the file as far as it was read,   *)
(* each line once and whole, while it grows (service.py 431-506).          *)
THEOREM PagesMakeTheFile == Spec => []PagesAreTheFile
<1>1. PagesInv => PagesAreTheFile
  BY DEF PagesInv
<1> QED
  BY <1>1, FileInvariance, PTL

(* A search of a file of any length finds the matches it should, with the  *)
(* lines around them (remote_fs/service.py 508-606, log_search/service.py  *)
(* 154-188).                                                               *)
THEOREM SearchesAreRight == Spec => []SearchIsRight
<1> QED
  BY FileInvariance, PTL

=============================================================================
