----------------------- MODULE ErrorInspectionProofs -----------------------
(***************************************************************************)
(* Theorems about the error a caller gets, for every list of failures of   *)
(* the terminator, every end of the helpers and every exit: it tells of    *)
(* everything that failed, once and in order, under the reason the run     *)
(* ended for, and hands out the output that was collected.                 *)
(***************************************************************************)
EXTENDS ErrorInspection, FiniteSetTheorems, WellFoundedInduction, TLAPS

(***************************************************************************)
(* Lists of failures.                                                      *)
(***************************************************************************)

\* The list has each failure of the set once, and nothing else.
Lists(list, failures) ==
    /\ list \in Seq(failures) /\ IsInjective(list)
    /\ \A f \in failures : \E i \in DOMAIN list : list[i] = f

\* No failure comes before one of an earlier stage.
InOrder(list) ==
    \A i, j \in DOMAIN list : i < j =>
        CleanupFailureRank(list[i]) <= CleanupFailureRank(list[j])

\* The failed tee of a stream comes before its failed read.
TeeFirst(list) ==
    \A i, j \in DOMAIN list : i < j =>
        ~ \E s \in OutputStream : list[i] = Failure(s, "read") /\ list[j] = Failure(s, "write")

\* A list may follow one that has no failed read of a stream whose tee failed in
\* this one.
MayFollow(later, earlier) ==
    \A s \in OutputStream : ~(Failure(s, "read") \in earlier /\ Failure(s, "write") \in later)

Stage == {"tree", "child", "wait", "time", "stdout", "stderr", "stdin"}

StageFailure == [at : Stage, what : What]

\* The rank of a failure is the place of its stage.
LEMMA RankOfStage ==
    ASSUME NEW f \in StageFailure
    PROVE  CleanupFailureRank(f) \in 1..7 /\ Stages[CleanupFailureRank(f)] = f.at
<1>1. DOMAIN Stages = 1..7
  BY DEF Stages
<1>2. \E rank \in 1..7 : Stages[rank] = f.at
  <2>1. f.at \in Stage
    BY DEF StageFailure
  <2> QED
    BY <2>1 DEF Stage, Stages
<1> QED
  BY <1>1, <1>2 DEF CleanupFailureRank

\* The empty list has nothing and is in order.
LEMMA ListsNone == Lists(<<>>, {}) /\ InOrder(<<>>) /\ TeeFirst(<<>>)
  BY DEF Lists, InOrder, TeeFirst, IsInjective

\* A list of one failure has it once.
LEMMA ListsOne ==
    ASSUME NEW f
    PROVE  Lists(<<f>>, {f}) /\ TeeFirst(<<f>>)
<1>1. <<f>> \in Seq({f}) /\ DOMAIN <<f>> = {1} /\ <<f>>[1] = f
  OBVIOUS
<1> QED
  BY <1>1 DEF Lists, TeeFirst, IsInjective

\* Lists of different failures can be concatenated.
LEMMA ListsConcat ==
    ASSUME NEW S, NEW T, NEW s, NEW t, Lists(s, S), Lists(t, T), S \cap T = {}
    PROVE  /\ Lists(s \o t, S \cup T)
           /\ TeeFirst(s) /\ TeeFirst(t) /\ MayFollow(T, S) => TeeFirst(s \o t)
<1> DEFINE m == Len(s)
           n == Len(t)
           u == s \o t
<1>1. /\ m \in Nat /\ n \in Nat /\ DOMAIN s = 1..m /\ DOMAIN t = 1..n
      /\ \A i \in 1..m : s[i] \in S
      /\ \A i \in 1..n : t[i] \in T
  BY DEF Lists
<1>2. /\ u \in Seq(S \cup T) /\ DOMAIN u = 1..(m + n)
      /\ \A i \in 1..m : u[i] = s[i]
      /\ \A i \in (m + 1)..(m + n) : u[i] = t[i - m]
      /\ \A i \in 1..n : u[m + i] = t[i]
  BY DEF Lists
<1> HIDE DEF m, n, u
<1>3. \A i \in 1..(m + n) : i \in 1..m \/ (i \in (m + 1)..(m + n) /\ i - m \in 1..n)
  BY <1>1
<1>4. IsInjective(u)
  <2> SUFFICES ASSUME NEW i \in 1..(m + n), NEW j \in 1..(m + n), u[i] = u[j] PROVE i = j
    BY <1>2 DEF IsInjective
  <2>1. CASE i \in 1..m /\ j \in 1..m
    BY <1>1, <1>2, <2>1 DEF Lists, IsInjective
  <2>2. CASE i \in (m + 1)..(m + n) /\ j \in (m + 1)..(m + n)
    <3>1. i - m \in 1..n /\ j - m \in 1..n /\ t[i - m] = t[j - m]
      BY <1>1, <1>2, <2>2
    <3>2. i - m = j - m
      BY <1>1, <3>1 DEF Lists, IsInjective
    <3> QED
      BY <1>1, <3>2
  <2>3. CASE i \in 1..m /\ j \in (m + 1)..(m + n)
    <3>1. j - m \in 1..n
      BY <1>1, <2>3
    <3>2. u[i] \in S /\ u[j] \in T
      BY <1>1, <1>2, <2>3, <3>1
    <3> QED
      BY <3>2
  <2>4. CASE j \in 1..m /\ i \in (m + 1)..(m + n)
    <3>1. i - m \in 1..n
      BY <1>1, <2>4
    <3>2. u[j] \in S /\ u[i] \in T
      BY <1>1, <1>2, <2>4, <3>1
    <3> QED
      BY <3>2
  <2> QED
    BY <1>3, <2>1, <2>2, <2>3, <2>4
<1>5. \A f \in S \cup T : \E i \in 1..(m + n) : u[i] = f
  <2> SUFFICES ASSUME NEW f \in S \cup T PROVE \E i \in 1..(m + n) : u[i] = f
    OBVIOUS
  <2>1. CASE f \in S
    <3>1. PICK i \in 1..m : s[i] = f
      BY <1>1, <2>1 DEF Lists
    <3> QED
      BY <1>1, <1>2, <3>1
  <2>2. CASE f \in T
    <3>1. PICK i \in 1..n : t[i] = f
      BY <1>1, <2>2 DEF Lists
    <3>2. m + i \in 1..(m + n) /\ u[m + i] = f
      BY <1>1, <1>2, <3>1
    <3> QED
      BY <3>2
  <2> QED
    BY <2>1, <2>2
<1>6. ASSUME TeeFirst(s), TeeFirst(t), MayFollow(T, S)
      PROVE  TeeFirst(u)
  <2> SUFFICES ASSUME NEW i \in 1..(m + n), NEW j \in 1..(m + n), i < j,
                      NEW r \in OutputStream,
                      u[i] = Failure(r, "read"), u[j] = Failure(r, "write")
               PROVE  FALSE
    BY <1>2 DEF TeeFirst
  <2>1. CASE i \in 1..m /\ j \in 1..m
    BY <1>1, <1>2, <1>6, <2>1 DEF TeeFirst
  <2>2. CASE i \in (m + 1)..(m + n) /\ j \in (m + 1)..(m + n)
    <3>1. i - m \in 1..n /\ j - m \in 1..n /\ i - m < j - m
          /\ t[i - m] = u[i] /\ t[j - m] = u[j]
      BY <1>1, <1>2, <2>2
    <3> QED
      BY <1>1, <1>6, <3>1 DEF TeeFirst
  <2>3. CASE i \in 1..m /\ j \in (m + 1)..(m + n)
    <3>1. u[i] \in S /\ u[j] \in T
      BY <1>1, <1>2, <1>3, <2>3
    <3> QED
      BY <1>6, <3>1 DEF MayFollow
  <2>4. CASE j \in 1..m /\ i \in (m + 1)..(m + n)
    BY <1>1, <2>4
  <2> QED
    BY <1>3, <2>1, <2>2, <2>3, <2>4
<1> QED
  BY <1>2, <1>4, <1>5, <1>6 DEF Lists, u

\* The first of a list, and the others.
LEMMA ListsTail ==
    ASSUME NEW S, NEW s, Lists(s, S), s # <<>>
    PROVE  /\ Head(s) \in S /\ Lists(Tail(s), S \ {Head(s)})
           /\ TeeFirst(s) => /\ TeeFirst(Tail(s))
                             /\ MayFollow(S \ {Head(s)}, {Head(s)})
           /\ InOrder(s) => \A f \in S \ {Head(s)} :
                             CleanupFailureRank(Head(s)) <= CleanupFailureRank(f)
<1> DEFINE n == Len(s)
           u == Tail(s)
<1>1. n \in Nat \ {0} /\ DOMAIN s = 1..n /\ \A i \in 1..n : s[i] \in S
  BY DEF Lists
<1>2. /\ Head(s) = s[1] /\ u \in Seq(S) /\ DOMAIN u = 1..(n - 1) /\ Len(u) = n - 1
      /\ \A i \in 1..(n - 1) : u[i] = s[i + 1]
  BY <1>1 DEF Lists
<1> HIDE DEF n, u
<1>3. \A i \in 1..(n - 1) : i + 1 \in 1..n /\ i + 1 # 1 /\ 1 < i + 1
  BY <1>1
<1>4. 1 \in 1..n /\ Head(s) \in S
  BY <1>1, <1>2
<1>a. \A i, j \in 1..n : s[i] = s[j] => i = j
  BY <1>1 DEF Lists, IsInjective
<1>5. ASSUME NEW i \in 1..(n - 1)
      PROVE  u[i] # Head(s)
  <2>1. i + 1 \in 1..n /\ i + 1 # 1
    BY <1>3
  <2>2. s[i + 1] # s[1]
    BY <1>4, <1>a, <2>1
  <2> QED
    BY <1>2, <2>2
<1>6. u \in Seq(S \ {Head(s)})
  <2>1. \A i \in 1..Len(u) : u[i] \in S \ {Head(s)}
    BY <1>1, <1>2, <1>3, <1>5
  <2> QED
    BY <1>1, <1>2, <2>1
<1>7. IsInjective(u)
  <2> SUFFICES ASSUME NEW i \in 1..(n - 1), NEW j \in 1..(n - 1), u[i] = u[j] PROVE i = j
    BY <1>2 DEF IsInjective
  <2>1. i + 1 \in 1..n /\ j + 1 \in 1..n /\ s[i + 1] = s[j + 1]
    BY <1>2, <1>3
  <2>2. i + 1 = j + 1
    BY <1>a, <2>1
  <2> QED
    BY <1>1, <2>2
<1>8. ASSUME NEW f \in S \ {Head(s)}
      PROVE  \E i \in 1..(n - 1) : u[i] = f
  <2>1. PICK i \in 1..n : s[i] = f
    BY <1>1 DEF Lists
  <2>2. i - 1 \in 1..(n - 1) /\ u[i - 1] = s[(i - 1) + 1] /\ (i - 1) + 1 = i
    BY <1>1, <1>2, <2>1
  <2> QED
    BY <2>1, <2>2
<1>9. ASSUME TeeFirst(s)
      PROVE  TeeFirst(u) /\ MayFollow(S \ {Head(s)}, {Head(s)})
  <2>1. TeeFirst(u)
    <3> SUFFICES ASSUME NEW i \in 1..(n - 1), NEW j \in 1..(n - 1), i < j
                 PROVE  ~ \E r \in OutputStream : /\ u[i] = Failure(r, "read")
                                                  /\ u[j] = Failure(r, "write")
      BY <1>2 DEF TeeFirst
    <3>1. i + 1 < j + 1 /\ i + 1 \in 1..n /\ j + 1 \in 1..n
      BY <1>1
    <3>2. u[i] = s[i + 1] /\ u[j] = s[j + 1]
      BY <1>2
    <3> QED
      BY <1>1, <1>9, <3>1, <3>2 DEF TeeFirst
  <2>2. ASSUME NEW r \in OutputStream, Failure(r, "read") = Head(s),
               Failure(r, "write") \in S \ {Head(s)}
        PROVE  FALSE
    <3>1. PICK i \in 1..(n - 1) : u[i] = Failure(r, "write")
      BY <1>8, <2>2
    <3>2. i + 1 \in 1..n /\ 1 < i + 1 /\ s[i + 1] = Failure(r, "write")
      BY <1>2, <1>3, <3>1
    <3>3. s[1] = Failure(r, "read")
      BY <1>2, <2>2
    <3>4. \A a, b \in 1..n : a < b =>
             ~(s[a] = Failure(r, "read") /\ s[b] = Failure(r, "write"))
      BY <1>1, <1>9 DEF TeeFirst
    <3> QED
      BY <1>4, <3>2, <3>3, <3>4
  <2> QED
    BY <2>1, <2>2 DEF MayFollow
<1>10. ASSUME InOrder(s), NEW f \in S \ {Head(s)}
       PROVE  CleanupFailureRank(Head(s)) <= CleanupFailureRank(f)
  <2>1. PICK i \in 1..n : s[i] = f
    BY <1>1 DEF Lists
  <2>2. 1 < i
    BY <1>1, <1>2, <1>10, <2>1
  <2> QED
    BY <1>1, <1>2, <1>4, <1>10, <2>1, <2>2 DEF InOrder
<1> QED
  BY <1>2, <1>4, <1>6, <1>7, <1>8, <1>9, <1>10 DEF Lists, u

(***************************************************************************)
(* Sorting by stage.                                                       *)
(***************************************************************************)

\* Sorting moves the failures by a permutation that keeps those of one stage in
\* their order.
LEMMA SortPermutes ==
    ASSUME NEW list \in Seq(StageFailure)
    PROVE  LET N == 1..Len(list)
               Rank(i) == CleanupFailureRank(list[i])
           IN  \E p \in Bijection(N, N) :
                 /\ SortByRank(list) = [k \in N |-> list[p[k]]]
                 /\ \A k, l \in N : k < l =>
                      \/ Rank(p[k]) < Rank(p[l])
                      \/ Rank(p[k]) = Rank(p[l]) /\ p[k] < p[l]
<1> DEFINE n == Len(list)
           N == 1..n
           Rank(i) == CleanupFailureRank(list[i])
           Before(i, j) == Rank(i) < Rank(j) \/ (Rank(i) = Rank(j) /\ i < j)
           UpTo(i) == {j \in N : Rank(j) < Rank(i) \/ (Rank(j) = Rank(i) /\ j <= i)}
           place == [i \in N |-> Cardinality(UpTo(i))]
           p == [k \in N |-> CHOOSE i \in N : Cardinality(UpTo(i)) = k]
<1>1. n \in Nat /\ DOMAIN list = N /\ \A i \in N : i \in Nat /\ Rank(i) \in Nat
  <2>1. \A i \in N : list[i] \in StageFailure
    OBVIOUS
  <2> QED
    BY <2>1, RankOfStage
<1>2. IsFiniteSet(N) /\ Cardinality(N) = n
  BY <1>1, FS_Interval
<1> HIDE DEF n, Rank
<1>3. ASSUME NEW i \in N
      PROVE  IsFiniteSet(UpTo(i)) /\ place[i] \in N
  <2>1. UpTo(i) \subseteq N /\ i \in UpTo(i)
    BY <1>1
  <2>2. IsFiniteSet(UpTo(i)) /\ Cardinality(UpTo(i)) <= n
    BY <1>2, <2>1, FS_Subset
  <2>3. Cardinality(UpTo(i)) \in Nat /\ Cardinality(UpTo(i)) # 0
    BY <2>1, <2>2, FS_CardinalityType, FS_EmptySet
  <2> QED
    BY <1>1, <2>2, <2>3
<1>4. ASSUME NEW i \in N, NEW j \in N, Before(i, j)
      PROVE  place[i] < place[j]
  <2>1. UpTo(i) \subseteq UpTo(j) /\ j \in UpTo(j) /\ j \notin UpTo(i)
    BY <1>1, <1>4
  <2>2. Cardinality(UpTo(i)) <= Cardinality(UpTo(j))
        /\ Cardinality(UpTo(i)) # Cardinality(UpTo(j))
    BY <1>3, <2>1, FS_Subset
  <2>3. place[i] \in N /\ place[j] \in N
    BY <1>3
  <2> QED
    BY <1>1, <2>2, <2>3
<1>5. \A i, j \in N : i = j \/ Before(i, j) \/ Before(j, i)
  BY <1>1
<1>6. place \in Injection(N, N)
  <2>1. place \in [N -> N]
    BY <1>3
  <2>2. \A i, j \in N : place[i] = place[j] => i = j
    <3> SUFFICES ASSUME NEW i \in N, NEW j \in N, place[i] = place[j], i # j PROVE FALSE
      OBVIOUS
    <3>1. place[i] < place[j] \/ place[j] < place[i]
      BY <1>4, <1>5
    <3>2. place[i] \in Nat
      BY <1>1, <2>1
    <3> HIDE DEF place
    <3> QED
      BY <3>1, <3>2
  <2> HIDE DEF place
  <2> QED
    BY <2>1, <2>2 DEF Injection, IsInjective
<1>7. \A k \in N : \E i \in N : place[i] = k
  <2>1. place \in Surjection(N, N)
    BY <1>2, <1>6, FS_Injection
  <2> QED
    BY <2>1 DEF Surjection
<1>8. \A k \in N : p[k] \in N /\ place[p[k]] = k
  BY <1>7
<1>9. \A i \in N : p[place[i]] = i
  <2> SUFFICES ASSUME NEW i \in N PROVE p[place[i]] = i
    OBVIOUS
  <2>1. place[i] \in N
    BY <1>3
  <2>2. p[place[i]] \in N /\ place[p[place[i]]] = place[i]
    BY <1>8, <2>1
  <2> HIDE DEF place, p
  <2> QED
    BY <1>6, <2>2 DEF Injection, IsInjective
<1>10. SortByRank(list) = [k \in N |-> list[p[k]]]
  BY <1>1 DEF SortByRank, Rank
<1> HIDE DEF place, p
<1>11. p \in Bijection(N, N)
  <2>1. p \in [N -> N]
    BY <1>8 DEF p
  <2>2. IsInjective(p)
    BY <1>8, <2>1 DEF IsInjective
  <2>3. \A i \in N : \E k \in N : p[k] = i
    BY <1>3, <1>9
  <2> QED
    BY <2>1, <2>2, <2>3 DEF Bijection, Injection, Surjection
<1>12. ASSUME NEW k \in N, NEW l \in N, k < l
       PROVE  Before(p[k], p[l])
  <2>1. p[k] \in N /\ p[l] \in N /\ place[p[k]] = k /\ place[p[l]] = l
    BY <1>8
  <2>2. p[k] # p[l] /\ ~Before(p[l], p[k])
    <3>1. ~(l < k) /\ k # l
      BY <1>1, <1>12
    <3> QED
      BY <1>4, <2>1, <3>1
  <2> QED
    BY <1>5, <2>1, <2>2
<1> QED
  BY <1>10, <1>11, <1>12 DEF n, Rank

\* A sorted list has the same failures, by stage.
LEMMA SortLists ==
    ASSUME NEW S \in SUBSET StageFailure, NEW s, Lists(s, S)
    PROVE  /\ Lists(SortByRank(s), S) /\ InOrder(SortByRank(s))
           /\ TeeFirst(s) => TeeFirst(SortByRank(s))
<1> DEFINE n == Len(s)
           N == 1..n
           Rank(i) == CleanupFailureRank(s[i])
           u == SortByRank(s)
<1>1. /\ n \in Nat /\ DOMAIN s = N
      /\ \A i \in N : s[i] \in S /\ Rank(i) \in Nat
      /\ \A i, j \in N : s[i] = s[j] => i = j
      /\ \A f \in S : \E i \in N : s[i] = f
  <2>1. \A i \in N : s[i] \in S
    BY DEF Lists
  <2>2. \A i \in N : Rank(i) \in Nat
    BY <2>1, RankOfStage
  <2> QED
    BY <2>1, <2>2 DEF Lists, IsInjective
<1>2. PICK p \in Bijection(N, N) :
         /\ u = [k \in N |-> s[p[k]]]
         /\ \A k, l \in N : k < l =>
              \/ Rank(p[k]) < Rank(p[l])
              \/ Rank(p[k]) = Rank(p[l]) /\ p[k] < p[l]
  <2>1. s \in Seq(StageFailure)
    BY DEF Lists
  <2> QED
    BY <2>1, SortPermutes
<1> HIDE DEF n, Rank, u
<1>3. /\ p \in [N -> N]
      /\ \A k, l \in N : p[k] = p[l] => k = l
      /\ \A i \in N : \E k \in N : p[k] = i
  BY <1>2 DEF Bijection, Injection, Surjection, IsInjective
<1>4. u \in Seq(S) /\ DOMAIN u = N
  BY <1>1, <1>2, <1>3
<1>5. IsInjective(u)
  <2> SUFFICES ASSUME NEW k \in N, NEW l \in N, u[k] = u[l] PROVE k = l
    BY <1>4 DEF IsInjective
  <2>1. p[k] \in N /\ p[l] \in N /\ s[p[k]] = s[p[l]]
    BY <1>2, <1>3
  <2>2. p[k] = p[l]
    BY <1>1, <2>1
  <2> QED
    BY <1>3, <2>2
<1>6. \A f \in S : \E k \in N : u[k] = f
  BY <1>1, <1>2, <1>3
<1>7. InOrder(u)
  <2> SUFFICES ASSUME NEW k \in N, NEW l \in N, k < l
               PROVE  CleanupFailureRank(u[k]) <= CleanupFailureRank(u[l])
    BY <1>4 DEF InOrder
  <2>1. p[k] \in N /\ p[l] \in N /\ Rank(p[k]) \in Nat /\ Rank(p[l]) \in Nat
    BY <1>1, <1>3
  <2>2. Rank(p[k]) <= Rank(p[l])
    BY <1>2, <2>1
  <2> QED
    BY <1>2, <2>2 DEF Rank
<1>8. ASSUME TeeFirst(s)
      PROVE  TeeFirst(u)
  <2> SUFFICES ASSUME NEW k \in N, NEW l \in N, k < l, NEW r \in OutputStream,
                      u[k] = Failure(r, "read"), u[l] = Failure(r, "write")
               PROVE  FALSE
    BY <1>4 DEF TeeFirst
  <2>1. /\ p[k] \in N /\ p[l] \in N
        /\ s[p[k]] = Failure(r, "read") /\ s[p[l]] = Failure(r, "write")
    BY <1>2, <1>3
  <2>2. Rank(p[k]) = Rank(p[l])
    BY <2>1 DEF Rank, CleanupFailureRank, Failure
  <2>3. p[k] < p[l]
    BY <1>1, <1>2, <2>1, <2>2
  <2> QED
    BY <1>1, <1>8, <2>1, <2>3 DEF TeeFirst
<1> QED
  BY <1>4, <1>5, <1>6, <1>7, <1>8 DEF Lists, u

(***************************************************************************)
(* Errors under construction.                                              *)
(***************************************************************************)

\* The error gives its cleanup failures once and in order.
Reports(error, why, output, captured, failures) ==
    /\ error = [reason |-> why, output |-> output, captured |-> captured,
                cleanup |-> error.cleanup]
    /\ failures \subseteq StageFailure
    /\ Lists(error.cleanup, failures) /\ InOrder(error.cleanup) /\ TeeFirst(error.cleanup)

\* Failures that are ready to be added to an error.
Ready(list, failures) ==
    /\ failures \subseteq StageFailure /\ Lists(list, failures) /\ TeeFirst(list)

\* A new error has no cleanup failures.
LEMMA ReportsNew ==
    ASSUME NEW why, NEW output
    PROVE  Reports(FromReason(why, output), why, output, None, {})
  BY ListsNone DEF Reports, FromReason

\* Failures that are ready are added to an error once and in order.
LEMMA ReportsCleanup ==
    ASSUME NEW e, NEW why, NEW output, NEW captured, NEW S, NEW T, NEW t,
           Reports(e, why, output, captured, S), Ready(t, T), S \cap T = {},
           MayFollow(T, S)
    PROVE  Reports(WithCleanupFailures(e, t), why, output, captured, S \cup T)
<1> DEFINE u == e.cleanup \o t
           f == WithCleanupFailures(e, t)
<1>1. S \cup T \in SUBSET StageFailure /\ Lists(u, S \cup T) /\ TeeFirst(u)
  BY ListsConcat DEF Reports, Ready
<1>2. /\ Lists(SortByRank(u), S \cup T) /\ InOrder(SortByRank(u))
      /\ TeeFirst(SortByRank(u))
  BY <1>1, SortLists
<1>3. f = [reason |-> why, output |-> output, captured |-> captured,
           cleanup |-> SortByRank(u)]
  BY DEF Reports, WithCleanupFailures
<1> HIDE DEF f, u
<1>4. f.cleanup = SortByRank(u)
  BY <1>3
<1> QED
  BY <1>1, <1>2, <1>3, <1>4 DEF Reports, f

\* Failures of two kinds that are ready are so one after the other.
LEMMA ReadyConcat ==
    ASSUME NEW S, NEW T, NEW s, NEW t, Ready(s, S), Ready(t, T), S \cap T = {},
           MayFollow(T, S)
    PROVE  Ready(s \o t, S \cup T)
  BY ListsConcat DEF Ready

\* No failure is ready to be added.
LEMMA ReadyNone == Ready(<<>>, {})
  BY ListsNone DEF Ready

\* A single failure is ready to be added.
LEMMA ReadyOne == ASSUME NEW f \in StageFailure PROVE Ready(<<f>>, {f})
  BY ListsOne DEF Ready

(***************************************************************************)
(* What happened, stage by stage.                                          *)
(***************************************************************************)

ReaderSet(s) ==
    (IF reader[s] \in {"read", "readAfterWrite"} THEN {Failure(s, "read")} ELSE {})
        \cup (IF reader[s] \in {"write", "readAfterWrite"} THEN {Failure(s, "write")} ELSE {})

WriterSet == IF writer = "failed" THEN {Failure("stdin", "write")} ELSE {}

CancelSet(h) == IF h \in cancelFail THEN {Failure(h, "cancel")} ELSE {}

HelperSet == ReaderSet("stdout") \cup ReaderSet("stderr") \cup WriterSet

AllCancelSet == CancelSet("stdout") \cup CancelSet("stderr") \cup CancelSet("stdin")

ClockSet == IF clockFails /\ ClockIsRead THEN {ClockFailure} ELSE {}

\* What the stages ended with.
HistoryInv ==
    /\ path \in {"complete", "abort", "stop"}
    /\ process \in ProcessFailures
    /\ reader \in [OutputStream -> ReaderEnds \cup {None}]
    /\ cancelFail \subseteq OutputStream \cup {"stdin"}
    /\ clockFails \in BOOLEAN /\ terminated \in BOOLEAN /\ statusSeen \in BOOLEAN
    /\ path = "complete" => /\ reason = None /\ terminated
                            /\ process = <<>> /\ cancelFail = {}
    /\ path = "abort" => reason = "StartFailed"
    /\ path = "stop" => reason \in Reasons
    /\ TerminatorIsConsistent

\* A run that is about to report has a history.
LEMMA HistoryInit == ReportInit => HistoryInv
<1> SUFFICES ASSUME ReportInit PROVE HistoryInv
  OBVIOUS
<1>1. TerminatorIsConsistent
  BY DEF ReportInit
<1> QED
  BY <1>1 DEF ReportInit, HistoryInv

\* What happened is what the terminator, the cancellations, the helpers and the clock
\* failed at.
LEMMA HappenedByStage ==
    ASSUME HistoryInv
    PROVE  Happened = ToSet(process) \cup AllCancelSet \cup HelperSet \cup ClockSet
<1>1. {Failure(h, "cancel") : h \in cancelFail} = AllCancelSet
  BY DEF HistoryInv, AllCancelSet, CancelSet, OutputStream
<1>2. {Failure(s, "read") : s \in
                 {t \in OutputStream : reader[t] \in {"read", "readAfterWrite"}}}
      \cup {Failure(s, "write") : s \in
                 {t \in OutputStream : reader[t] \in {"write", "readAfterWrite"}}}
      = ReaderSet("stdout") \cup ReaderSet("stderr")
  BY DEF ReaderSet, OutputStream
<1> DEFINE R == {Failure(s, "read") : s \in
                    {t \in OutputStream : reader[t] \in {"read", "readAfterWrite"}}}
           W == {Failure(s, "write") : s \in
                    {t \in OutputStream : reader[t] \in {"write", "readAfterWrite"}}}
<1>3. Happened = ToSet(process) \cup {Failure(h, "cancel") : h \in cancelFail}
                    \cup R \cup W \cup WriterSet \cup ClockSet
  BY DEF Happened, WriterSet, ClockSet, ClockFailure
<1>4. HelperSet = (R \cup W) \cup WriterSet
  BY <1>2 DEF HelperSet
<1> HIDE DEF R, W
<1> QED
  BY <1>1, <1>3, <1>4

\* What terminate reports is ready to be added: each of its steps fails once.
LEMMA ReadyProcess ==
    ASSUME HistoryInv
    PROVE  Ready(process, ToSet(process)) /\ ToSet(process) \subseteq ProcessFailure
<1>1. process \in Seq(ProcessFailure) /\ IsInjective(process)
  BY ReportAssumption DEF HistoryInv
<1>2. /\ ToSet(process) \subseteq ProcessFailure
      /\ \A i \in DOMAIN process : process[i] \in ToSet(process)
      /\ \A f \in ToSet(process) : \E i \in DOMAIN process : process[i] = f
  BY <1>1 DEF ToSet
<1>3. process \in Seq(ToSet(process))
  BY <1>1, <1>2
<1>4. ProcessFailure \subseteq StageFailure
  BY DEF ProcessFailure, StageFailure, Stage, What
<1>5. TeeFirst(process)
  BY <1>1 DEF TeeFirst, ProcessFailure, Failure, OutputStream
<1> QED
  BY <1>1, <1>2, <1>3, <1>4, <1>5 DEF Ready, Lists

\* So is what a reader ended with: its tee fails before its read.
LEMMA ReadyReader ==
    ASSUME NEW s \in OutputStream
    PROVE  Ready(ReaderFailures(s), ReaderSet(s))
<1>1. Failure(s, "read") \in StageFailure /\ Failure(s, "write") \in StageFailure
  BY DEF Failure, StageFailure, Stage, What, OutputStream
<1>2. CASE reader[s] = "read"
  <2>1. ReaderFailures(s) = <<Failure(s, "read")>> /\ ReaderSet(s) = {Failure(s, "read")}
    BY <1>2 DEF ReaderFailures, ReaderSet
  <2> QED
    BY <1>1, <2>1, ReadyOne
<1>3. CASE reader[s] = "write"
  <2>1. ReaderFailures(s) = <<Failure(s, "write")>> /\ ReaderSet(s) = {Failure(s, "write")}
    BY <1>3 DEF ReaderFailures, ReaderSet
  <2> QED
    BY <1>1, <2>1, ReadyOne
<1>4. CASE reader[s] = "readAfterWrite"
  <2> DEFINE w == Failure(s, "write")
             r == Failure(s, "read")
  <2>1. ReaderFailures(s) = <<w>> \o <<r>> /\ ReaderSet(s) = {w} \cup {r}
    BY <1>4 DEF ReaderFailures, ReaderSet
  <2>2. r.what = "read" /\ w.what = "write" /\ \A t : Failure(t, "write").what = "write"
    BY DEF Failure
  <2>3. {w} \cap {r} = {} /\ MayFollow({r}, {w})
    BY <2>2 DEF MayFollow
  <2>4. Ready(<<w>>, {w}) /\ Ready(<<r>>, {r})
    BY <1>1, ReadyOne
  <2> HIDE DEF w, r
  <2>5. Ready(<<w>> \o <<r>>, {w} \cup {r})
    BY <2>3, <2>4, ReadyConcat
  <2> QED
    BY <2>1, <2>5
<1>5. CASE reader[s] \notin {"read", "write", "readAfterWrite"}
  <2>1. ReaderFailures(s) = <<>> /\ ReaderSet(s) = {}
    BY <1>5 DEF ReaderFailures, ReaderSet
  <2> QED
    BY <2>1, ReadyNone
<1> QED
  BY <1>2, <1>3, <1>4, <1>5

\* So is what the writer ended with.
LEMMA ReadyWriter == Ready(WriterFailures, WriterSet)
<1>1. Failure("stdin", "write") \in StageFailure
  BY DEF Failure, StageFailure, Stage, What
<1> QED
  BY <1>1, ReadyOne, ReadyNone DEF WriterFailures, WriterSet

\* So is the failure to cancel a helper.
LEMMA ReadyCancellation ==
    ASSUME NEW h \in OutputStream \cup {"stdin"}
    PROVE  Ready(CancellationFailures(h), CancelSet(h))
<1>1. Failure(h, "cancel") \in StageFailure
  BY DEF Failure, StageFailure, Stage, What, OutputStream
<1> QED
  BY <1>1, ReadyOne, ReadyNone DEF CancellationFailures, CancelSet

\* A set of failures at some stages, with or without failures to cancel.
LEMMA StagesOfSets ==
    /\ \A s : \A f \in ReaderSet(s) : f.at = s /\ f.what \in {"read", "write"}
    /\ \A f \in WriterSet : f.at = "stdin" /\ f.what = "write"
    /\ \A h : \A f \in CancelSet(h) : f.at = h /\ f.what = "cancel"
    /\ \A f \in ClockSet : f.at = "time" /\ f.what = "elapsed"
    /\ \A f \in ToSet(process) : HistoryInv => f.at \in {"tree", "child", "wait"}
  BY ReadyProcess
     DEF ReaderSet, WriterSet, CancelSet, ClockSet, ClockFailure, Failure, ProcessFailure

\* Failures at different stages are different, and their lists can follow each
\* other.
LEMMA StagesApart ==
    ASSUME NEW S, NEW T, \A f \in S, g \in T : f.at # g.at
    PROVE  S \cap T = {} /\ MayFollow(T, S)
<1>1. \A r, what : Failure(r, what).at = r
  BY DEF Failure
<1> QED
  BY <1>1 DEF MayFollow

\* Failures to cancel can follow any others.
LEMMA CancellationsApart ==
    ASSUME NEW S, NEW T, \A f \in S : f.what # "cancel", \A f \in T : f.what = "cancel"
    PROVE  S \cap T = {} /\ MayFollow(T, S)
<1>1. \A r, what : Failure(r, what).what = what
  BY DEF Failure
<1> QED
  BY <1>1 DEF MayFollow

\* A list of failures at one stage is in order.
LEMMA InOrderAtOneStage ==
    ASSUME NEW S \in SUBSET StageFailure, NEW s, Lists(s, S), NEW at, \A f \in S : f.at = at
    PROVE  InOrder(s)
<1> SUFFICES ASSUME NEW i \in DOMAIN s, NEW j \in DOMAIN s
             PROVE  CleanupFailureRank(s[i]) <= CleanupFailureRank(s[j])
  BY DEF InOrder
<1>1. s[i] \in S /\ s[j] \in S
  BY DEF Lists
<1>2. CleanupFailureRank(s[i]) \in 1..7
  BY <1>1, RankOfStage
<1>3. CleanupFailureRank(s[i]) = CleanupFailureRank(s[j])
  BY <1>1 DEF CleanupFailureRank
<1> QED
  BY <1>2, <1>3

\* Lists in order are so one after the other if the stages of the second are not
\* before those of the first.
LEMMA InOrderConcat ==
    ASSUME NEW S, NEW T, NEW s, NEW t, Lists(s, S), Lists(t, T), InOrder(s), InOrder(t),
           \A f \in S, g \in T : CleanupFailureRank(f) <= CleanupFailureRank(g)
    PROVE  InOrder(s \o t)
<1> DEFINE m == Len(s)
           n == Len(t)
           u == s \o t
<1>1. /\ m \in Nat /\ n \in Nat /\ DOMAIN s = 1..m /\ DOMAIN t = 1..n
      /\ \A i \in 1..m : s[i] \in S
      /\ \A i \in 1..n : t[i] \in T
  BY DEF Lists
<1>2. /\ DOMAIN u = 1..(m + n)
      /\ \A i \in 1..m : u[i] = s[i]
      /\ \A i \in (m + 1)..(m + n) : u[i] = t[i - m]
  BY DEF Lists
<1> HIDE DEF m, n, u
<1> SUFFICES ASSUME NEW i \in 1..(m + n), NEW j \in 1..(m + n), i < j
             PROVE  CleanupFailureRank(u[i]) <= CleanupFailureRank(u[j])
  BY <1>2 DEF InOrder, u
<1>3. CASE i \in 1..m /\ j \in 1..m
  BY <1>1, <1>2, <1>3 DEF InOrder
<1>4. CASE i \in 1..m /\ j \in (m + 1)..(m + n)
  <2>1. j - m \in 1..n
    BY <1>1, <1>4
  <2>2. u[i] \in S /\ u[j] \in T
    BY <1>1, <1>2, <1>4, <2>1
  <2> QED
    BY <2>2
<1>5. CASE i \in (m + 1)..(m + n) /\ j \in (m + 1)..(m + n)
  <2>1. i - m \in 1..n /\ j - m \in 1..n /\ i - m < j - m
    BY <1>1, <1>5
  <2>2. u[i] = t[i - m] /\ u[j] = t[j - m]
    BY <1>2, <1>5
  <2> QED
    BY <1>1, <2>1, <2>2 DEF InOrder
<1> QED
  BY <1>1, <1>3, <1>4, <1>5

\* The ranks of the clock and of the helpers.
LEMMA RankAt ==
    ASSUME NEW f \in StageFailure
    PROVE  /\ f.at = "time" => CleanupFailureRank(f) = 4
           /\ f.at = "stdout" => CleanupFailureRank(f) = 5
           /\ f.at = "stderr" => CleanupFailureRank(f) = 6
           /\ f.at = "stdin" => CleanupFailureRank(f) = 7
<1> DEFINE r == CleanupFailureRank(f)
<1>1. r \in 1..7 /\ Stages[r] = f.at
  BY RankOfStage
<1> HIDE DEF r
<1>2. r \in {1, 2, 3, 4, 5, 6, 7}
  BY <1>1
<1>3. /\ Stages[1] = "tree" /\ Stages[2] = "child" /\ Stages[3] = "wait"
      /\ Stages[4] = "time" /\ Stages[5] = "stdout" /\ Stages[6] = "stderr"
      /\ Stages[7] = "stdin"
  BY DEF Stages
<1> QED
  BY <1>1, <1>2, <1>3 DEF r

\* The failures of all helpers are ready, and in order already.
LEMMA ReadyHelpers ==
    Ready(HelperFailures, HelperSet) /\ InOrder(HelperFailures)
<1> DEFINE out == ReaderFailures("stdout")
           err == ReaderFailures("stderr")
           O == ReaderSet("stdout")
           E == ReaderSet("stderr")
<1>1. Ready(out, O) /\ Ready(err, E) /\ Ready(WriterFailures, WriterSet)
  BY ReadyReader, ReadyWriter DEF OutputStream
<1>2. /\ \A f \in O : f.at = "stdout"
      /\ \A f \in E : f.at = "stderr"
      /\ \A f \in WriterSet : f.at = "stdin"
  BY StagesOfSets
<1>3. /\ \A f \in O : f \in StageFailure /\ CleanupFailureRank(f) = 5
      /\ \A f \in E : f \in StageFailure /\ CleanupFailureRank(f) = 6
      /\ \A f \in WriterSet : f \in StageFailure /\ CleanupFailureRank(f) = 7
  BY <1>1, <1>2, RankAt DEF Ready
<1> HIDE DEF out, err, O, E
<1>4. InOrder(out) /\ InOrder(err) /\ InOrder(WriterFailures)
  <2>1. InOrder(out)
    BY <1>1, <1>2, InOrderAtOneStage DEF Ready
  <2>2. InOrder(err)
    BY <1>1, <1>2, InOrderAtOneStage DEF Ready
  <2>3. InOrder(WriterFailures)
    BY <1>1, <1>2, InOrderAtOneStage DEF Ready
  <2> QED
    BY <2>1, <2>2, <2>3
<1>5. Ready(out \o err, O \cup E) /\ InOrder(out \o err)
  <2>1. O \cap E = {} /\ MayFollow(E, O)
    BY <1>2, StagesApart
  <2>2. \A f \in O, g \in E : CleanupFailureRank(f) <= CleanupFailureRank(g)
    BY <1>3
  <2> QED
    BY <1>1, <1>4, <2>1, <2>2, ReadyConcat, InOrderConcat DEF Ready
<1>6. Ready((out \o err) \o WriterFailures, (O \cup E) \cup WriterSet)
      /\ InOrder((out \o err) \o WriterFailures)
  <2>1. (O \cup E) \cap WriterSet = {} /\ MayFollow(WriterSet, O \cup E)
    BY <1>2, StagesApart
  <2>2. \A f \in O \cup E, g \in WriterSet :
            CleanupFailureRank(f) <= CleanupFailureRank(g)
    BY <1>3
  <2> QED
    BY <1>1, <1>4, <1>5, <2>1, <2>2, ReadyConcat, InOrderConcat DEF Ready
<1> QED
  BY <1>6 DEF HelperFailures, HelperSet, out, err, O, E

\* Failures of a reader or the writer, and the failure to cancel it.
LEMMA ReadyWithCancellation ==
    ASSUME NEW h \in OutputStream \cup {"stdin"}, NEW s, NEW S, Ready(s, S),
           \A f \in S : f.at = h /\ f.what # "cancel"
    PROVE  /\ Ready(s \o CancellationFailures(h), S \cup CancelSet(h))
           /\ \A f \in S \cup CancelSet(h) : f.at = h
<1>1. Ready(CancellationFailures(h), CancelSet(h))
  BY ReadyCancellation
<1>2. \A f \in CancelSet(h) : f.at = h /\ f.what = "cancel"
  BY StagesOfSets
<1>3. S \cap CancelSet(h) = {} /\ MayFollow(CancelSet(h), S)
  BY <1>2, CancellationsApart
<1> QED
  BY <1>1, <1>2, <1>3, ReadyConcat

\* The failures of the helpers and of their cancellations are ready, as push_*_failures
\* collects them.
LEMMA ReadyPushed == Ready(PushedFailures, HelperSet \cup AllCancelSet)
<1> DEFINE O == ReaderSet("stdout") \cup CancelSet("stdout")
           E == ReaderSet("stderr") \cup CancelSet("stderr")
           I == WriterSet \cup CancelSet("stdin")
           out == ReaderFailures("stdout")
           outCancel == CancellationFailures("stdout")
           err == ReaderFailures("stderr")
           errCancel == CancellationFailures("stderr")
           in == WriterFailures
           inCancel == CancellationFailures("stdin")
<1>1. Ready(out \o outCancel, O) /\ \A f \in O : f.at = "stdout"
  BY ReadyReader, ReadyWithCancellation, StagesOfSets DEF OutputStream
<1>2. Ready(err \o errCancel, E) /\ \A f \in E : f.at = "stderr"
  BY ReadyReader, ReadyWithCancellation, StagesOfSets DEF OutputStream
<1>3. Ready(in \o inCancel, I) /\ \A f \in I : f.at = "stdin"
  BY ReadyWriter, ReadyWithCancellation, StagesOfSets DEF OutputStream
<1>5. PushedFailures = ((out \o outCancel) \o (err \o errCancel)) \o (in \o inCancel)
  BY DEF PushedFailures
<1> HIDE DEF O, E, I, out, outCancel, err, errCancel, in, inCancel
<1>6. Ready((out \o outCancel) \o (err \o errCancel), O \cup E)
  BY <1>1, <1>2, StagesApart, ReadyConcat
<1>7. Ready(((out \o outCancel) \o (err \o errCancel)) \o (in \o inCancel), (O \cup E) \cup I)
  <2>1. \A f \in O \cup E, g \in I : f.at # g.at
    BY <1>1, <1>2, <1>3
  <2> QED
    BY <1>3, <1>6, <2>1, StagesApart, ReadyConcat
<1>8. (O \cup E) \cup I = HelperSet \cup AllCancelSet
  BY DEF HelperSet, AllCancelSet, O, E, I
<1> QED
  BY <1>5, <1>7, <1>8

\* The failures to cancel are ready, as stop_and_finalize adds them.
LEMMA ReadyCancellations == Ready(AllCancellationFailures, AllCancelSet)
<1> DEFINE o == CancellationFailures("stdout")
           e == CancellationFailures("stderr")
           i == CancellationFailures("stdin")
           O == CancelSet("stdout")
           E == CancelSet("stderr")
           I == CancelSet("stdin")
<1>1. Ready(o, O) /\ Ready(e, E) /\ Ready(i, I)
  BY ReadyCancellation DEF OutputStream
<1>2. /\ \A f \in O : f.at = "stdout"
      /\ \A f \in E : f.at = "stderr"
      /\ \A f \in I : f.at = "stdin"
  BY StagesOfSets
<1> HIDE DEF o, e, i, O, E, I
<1>3. Ready(o \o e, O \cup E)
  BY <1>1, <1>2, StagesApart, ReadyConcat
<1>4. Ready((o \o e) \o i, (O \cup E) \cup I)
  <2>1. \A f \in O \cup E, g \in I : f.at # g.at
    BY <1>2
  <2> QED
    BY <1>1, <1>3, <2>1, StagesApart, ReadyConcat
<1> QED
  BY <1>4 DEF AllCancellationFailures, AllCancelSet, o, e, i, O, E, I

(***************************************************************************)
(* The result of the monitor.                                              *)
(***************************************************************************)

\* Output is in one place, and it is that of the helpers.
CarriesOutput(error) ==
    \/ error.output = None /\ error.captured = HelperOutput
    \/ error.output = HelperOutput /\ error.captured = None

\* An output is not None, what an error has without one.
LEMMA OutputIsSome == HelperOutput # None /\ EarlySnapshot # None
<1>1. HelperOutput \in Output /\ EarlySnapshot \in Output
  BY DEF HelperOutput, EarlySnapshot, Output
<1> QED
  BY <1>1, ReportAssumption

\* What collect_output_results has to report.
Collectable == HelperSet \cup ClockSet

\* What collect_output_results reports happened at the clock or at a helper.
LEMMA CollectableStages ==
    ASSUME HistoryInv
    PROVE  /\ Collectable \subseteq StageFailure
           /\ \A f \in Collectable : /\ f.at \in {"time", "stdout", "stderr", "stdin"}
                                     /\ f.what # "cancel" /\ f # None
<1>1. HelperSet \subseteq StageFailure
  BY ReadyHelpers DEF Ready
<1>2. ClockSet \subseteq StageFailure
  BY DEF ClockSet, ClockFailure, Failure, StageFailure, Stage, What
<1>3. \A f \in HelperSet : f.at \in {"stdout", "stderr", "stdin"} /\ f.what # "cancel"
  BY StagesOfSets DEF HelperSet
<1>4. \A f \in ClockSet : f.at \in {"time"} /\ f.what # "cancel"
  BY StagesOfSets
<1>5. StageFailure \subseteq Failures
  <2>1. Stage \subseteq ToSet(Stages)
    BY DEF Stage, Stages, ToSet
  <2> QED
    BY <2>1 DEF StageFailure, Failures
<1> QED
  BY <1>1, <1>2, <1>3, <1>4, <1>5, ReportAssumption DEF Collectable

\* What collect_output_results returns: a success if nothing failed, else an error under
\* the earliest failure, with the others as cleanup failures; and the output.
LEMMA Collected ==
    ASSUME HistoryInv, ClockIsRead
    PROVE  LET final == CollectOutputResults
           IN  /\ Collectable = {} => final = Ok
               /\ Collectable # {} =>
                     /\ final.reason \in Collectable
                     /\ Reports(final, final.reason, final.output, final.captured,
                                Collectable \ {final.reason})
                     /\ MayFollow(Collectable \ {final.reason}, {final.reason})
                     /\ \A f \in Collectable \ {final.reason} :
                          CleanupFailureRank(final.reason) <= CleanupFailureRank(f)
               /\ CarriesOutput(final)
<1> DEFINE final == CollectOutputResults
<1>1. CASE clockFails
  <2> DEFINE bare == FromReason(ClockFailure, None)
             e == WithCapturedOutput(bare, HelperOutput)
  <2>1. Reports(bare, ClockFailure, None, None, {})
    BY ReportsNew
  <2>2. Reports(e, ClockFailure, None, HelperOutput, {})
    BY <2>1 DEF Reports, WithCapturedOutput
  <2>3. Ready(HelperFailures, HelperSet) /\ MayFollow(HelperSet, {})
    BY ReadyHelpers DEF MayFollow
  <2>4. final = WithCleanupFailures(e, HelperFailures)
    BY <1>1 DEF CollectOutputResults
  <2> HIDE DEF e, final
  <2>5. Reports(WithCleanupFailures(e, HelperFailures),
                ClockFailure, None, HelperOutput, {} \cup HelperSet)
    BY <2>2, <2>3, ReportsCleanup
  <2>6. /\ final.reason = ClockFailure /\ final.output = None
        /\ final.captured = HelperOutput
    BY <2>4, <2>5 DEF Reports
  <2>7. Collectable = HelperSet \cup {ClockFailure}
    BY <1>1 DEF Collectable, ClockSet
  <2>8. /\ ClockFailure.at = "time"
        /\ \A f \in HelperSet : f.at \in {"stdout", "stderr", "stdin"} /\ f \in StageFailure
    BY ReadyHelpers, StagesOfSets DEF ClockFailure, Failure, HelperSet, Ready
  <2>9. HelperSet = Collectable \ {ClockFailure}
    BY <2>7, <2>8
  <2>10. MayFollow(HelperSet, {ClockFailure})
    BY <2>8, StagesApart
  <2>11. \A f \in HelperSet : CleanupFailureRank(ClockFailure) <= CleanupFailureRank(f)
    <3>1. ClockFailure \in StageFailure
      BY <2>7, CollectableStages
    <3>2. /\ CleanupFailureRank(ClockFailure) = 4
          /\ \A f \in HelperSet : CleanupFailureRank(f) \in {5, 6, 7}
      BY <2>8, <3>1, RankAt
    <3> QED
      BY <3>2
  <2>12. Reports(final, ClockFailure, None, HelperOutput, HelperSet)
    BY <2>4, <2>5
  <2> QED
    BY <2>6, <2>7, <2>9, <2>10, <2>11, <2>12 DEF CarriesOutput, final
<1>2. CASE ~clockFails /\ HelperFailures = <<>>
  <2>1. HelperSet = {}
    BY <1>2, ReadyHelpers DEF Ready, Lists
  <2>2. Collectable = {}
    BY <1>2, <2>1 DEF Collectable, ClockSet
  <2>3. final = Ok
    BY <1>2 DEF CollectOutputResults
  <2> QED
    BY <2>2, <2>3 DEF CarriesOutput, Ok, FromReason
<1>3. CASE ~clockFails /\ HelperFailures # <<>>
  <2> DEFINE why == Head(HelperFailures)
             bare == FromReason(why, HelperOutput)
             others == Tail(HelperFailures)
             O == HelperSet \ {why}
  <2>1. Collectable = HelperSet
    BY <1>3 DEF Collectable, ClockSet
  <2>2. final = WithCleanupFailures(bare, others)
    BY <1>3 DEF CollectOutputResults
  <2>3. Reports(bare, why, HelperOutput, None, {})
    BY ReportsNew
  <2>4. /\ why \in HelperSet /\ Ready(others, O) /\ MayFollow(O, {why})
        /\ \A f \in O : CleanupFailureRank(why) <= CleanupFailureRank(f)
    BY <1>3, ReadyHelpers, ListsTail DEF Ready
  <2>5. {} \cap O = {} /\ MayFollow(O, {})
    BY DEF MayFollow
  <2> HIDE DEF bare, others, O, why, final
  <2>6. Reports(WithCleanupFailures(bare, others), why, HelperOutput, None, {} \cup O)
    BY <2>3, <2>4, <2>5, ReportsCleanup
  <2>7. Reports(final, why, HelperOutput, None, O)
    BY <2>2, <2>6
  <2>8. final.reason = why /\ final.output = HelperOutput /\ final.captured = None
    BY <2>7 DEF Reports
  <2> QED
    BY <2>1, <2>4, <2>7, <2>8 DEF CarriesOutput, final, O
<1> QED
  BY <1>1, <1>2, <1>3

\* All of it becomes cleanup failures when another error comes first.
LEMMA ReadyCollected ==
    ASSUME HistoryInv, ClockIsRead
    PROVE  Ready(IntoCleanupFailures(CollectOutputResults), Collectable)
<1> DEFINE final == CollectOutputResults
           why == final.reason
           O == Collectable \ {why}
<1>1. CASE Collectable = {}
  <2>1. final = Ok
    BY <1>1, Collected
  <2>2. IntoCleanupFailures(final) = <<>> \o <<>>
    BY <2>1 DEF IntoCleanupFailures, Ok, FromReason, Demoted
  <2> QED
    BY <1>1, <2>2, ReadyNone
<1>2. CASE Collectable # {}
  <2>1. why \in Collectable /\ MayFollow(O, {why}) /\ Ready(final.cleanup, O)
    BY <1>2, Collected DEF Reports, Ready
  <2>2. Demoted(why) = <<why>> /\ Ready(<<why>>, {why})
    BY <2>1, CollectableStages, ReadyOne DEF Demoted
  <2>3. IntoCleanupFailures(final) = <<why>> \o final.cleanup
    BY <2>2 DEF IntoCleanupFailures
  <2>4. {why} \cap O = {} /\ {why} \cup O = Collectable
    BY <2>1
  <2> HIDE DEF final, why, O
  <2>5. Ready(<<why>> \o final.cleanup, {why} \cup O)
    BY <2>1, <2>2, <2>4, ReadyConcat
  <2> QED
    BY <2>3, <2>4, <2>5 DEF final
<1> QED
  BY <1>1, <1>2

\* What the monitor returns: everything that happened, under the reason it
\* stopped for or the first failure, and the output collected.
ResultDue(error) ==
    /\ Reports(error, error.reason, error.output, error.captured,
               Happened \ {error.reason})
    /\ IF path # "complete" THEN error.reason = PrimaryReason
       ELSE IF Happened = {} THEN error = Ok
       ELSE /\ error.reason \in Happened
            /\ \A f \in Happened \ {error.reason} :
                 CleanupFailureRank(error.reason) <= CleanupFailureRank(f)
    /\ error.output = None \/ error.captured = None
    /\ ClockIsRead => CarriesOutput(error)
    /\ ~terminated => error.output = None
    /\ reason = "OutputLimitExceeded" => error.output = None /\ error.captured # None

\* The reason for a stop is none of the failures.
LEMMA PrimaryReasonIsApart ==
    ASSUME HistoryInv, path # "complete"
    PROVE  /\ PrimaryReason # None /\ PrimaryReason \notin Happened
           /\ Happened \ {PrimaryReason} = Happened
<1>1. /\ PrimaryReason.at \in {"wait", "time", "run"}
      /\ PrimaryReason.at \in {"wait", "time"} => PrimaryReason.what = "stop"
  BY DEF PrimaryReason, Failure
<1>2. PrimaryReason # None
  <2>1. {"wait", "time"} \subseteq ToSet(Stages)
    <3>1. DOMAIN Stages = 1..7 /\ Stages[3] = "wait" /\ Stages[4] = "time"
      BY DEF Stages
    <3> QED
      BY <3>1 DEF ToSet
  <2>2. PrimaryReason \in Failures
    BY <2>1 DEF HistoryInv, PrimaryReason, Failure, Failures
  <2> QED
    BY <2>2, ReportAssumption
<1>3. /\ HelperSet \subseteq StageFailure /\ AllCancelSet \subseteq StageFailure
      /\ ToSet(process) \subseteq StageFailure /\ ClockSet \subseteq StageFailure
  BY ReadyHelpers, ReadyCancellations, ReadyProcess, CollectableStages
     DEF Ready, Collectable
<1>4. Happened \subseteq StageFailure
  BY <1>3, HappenedByStage
<1>5. \A f \in StageFailure : f.what # "stop" /\ f.at # "run"
  BY DEF StageFailure, Stage, What
<1> QED
  BY <1>1, <1>2, <1>4, <1>5

\* A run that was not stopped meets failures of the helpers and the clock only.
LEMMA HappenedOfComplete ==
    ASSUME HistoryInv, path = "complete"
    PROVE  Happened = Collectable
<1>1. ToSet(process) = {}
  BY DEF HistoryInv, ToSet
<1>2. AllCancelSet = {}
  BY DEF HistoryInv, AllCancelSet, CancelSet
<1> QED
  BY <1>1, <1>2, HappenedByStage DEF Collectable

\* complete builds the result that is due.
LEMMA CompleteDue ==
    ASSUME HistoryInv, Complete
    PROVE  ResultDue(result')
<1>1. path = "complete" /\ ClockIsRead
  BY DEF Complete, ClockIsRead
<1>2. Happened = Collectable
  BY <1>1, HappenedOfComplete
<1>3. reason # "OutputLimitExceeded" /\ terminated
  BY <1>1, ReportAssumption DEF HistoryInv, StopCondition
<1> DEFINE final == CollectOutputResults
<1>4. result' = final
  BY DEF Complete
<1>5. CarriesOutput(final)
  BY <1>1, Collected
<1>6. final.output = None \/ final.captured = None
  BY <1>5 DEF CarriesOutput
<1>7. CASE Happened = {}
  <2>1. final = Ok
    BY <1>1, <1>2, <1>7, Collected
  <2>2. Reports(Ok, None, HelperOutput, None, {})
    BY ReportsNew DEF Ok
  <2>3. Ok.reason = None /\ Ok.output = HelperOutput /\ Ok.captured = None
    BY DEF Ok, FromReason
  <2> HIDE DEF final
  <2>4. Reports(final, final.reason, final.output, final.captured, Happened \ {final.reason})
    BY <1>7, <2>1, <2>2, <2>3
  <2> QED
    BY <1>1, <1>3, <1>4, <1>5, <1>6, <1>7, <2>1, <2>4 DEF ResultDue
<1>8. CASE Happened # {}
  <2>1. /\ final.reason \in Collectable
        /\ Reports(final, final.reason, final.output, final.captured,
                   Collectable \ {final.reason})
        /\ \A f \in Collectable \ {final.reason} :
             CleanupFailureRank(final.reason) <= CleanupFailureRank(f)
    BY <1>1, <1>2, <1>8, Collected
  <2> HIDE DEF final
  <2> QED
    BY <1>1, <1>2, <1>3, <1>4, <1>5, <1>6, <1>8, <2>1 DEF ResultDue
<1> QED
  BY <1>7, <1>8

\* The failures of the terminator can be followed by any others, and those to
\* cancel a helper can follow any.
LEMMA ProcessApart ==
    ASSUME HistoryInv
    PROVE  /\ ToSet(process) \cap (HelperSet \cup AllCancelSet) = {}
           /\ MayFollow(HelperSet \cup AllCancelSet, ToSet(process))
           /\ ToSet(process) \cap AllCancelSet = {}
           /\ (ToSet(process) \cup AllCancelSet) \cap Collectable = {}
           /\ MayFollow(Collectable, ToSet(process) \cup AllCancelSet)
           /\ MayFollow(AllCancelSet, ToSet(process))
           /\ Collectable \cap ToSet(process) = {} /\ MayFollow(ToSet(process), Collectable)
           /\ MayFollow(AllCancelSet, Collectable \cup ToSet(process))
<1>1. \A f \in ToSet(process) : f.at \in {"tree", "child", "wait"}
  BY StagesOfSets
<1>2. \A f \in HelperSet : f.at \in {"stdout", "stderr", "stdin"} /\ f.what # "cancel"
  BY StagesOfSets DEF HelperSet
<1>3. \A f \in AllCancelSet : f.at \in {"stdout", "stderr", "stdin"} /\ f.what = "cancel"
  BY StagesOfSets DEF AllCancelSet
<1>4. \A f \in Collectable : f.at \in {"time", "stdout", "stderr", "stdin"}
                            /\ f.what # "cancel"
  BY CollectableStages
<1>5. \A r, what : Failure(r, what).at = r /\ Failure(r, what).what = what
  BY DEF Failure
<1>6. \A r \in OutputStream : r \in {"stdout", "stderr"}
  BY DEF OutputStream
<1> QED
  BY <1>1, <1>2, <1>3, <1>4, <1>5, <1>6 DEF MayFollow

\* An error under the reason for a stop that has all that happened.
LEMMA StopDue ==
    ASSUME HistoryInv, path # "complete", NEW r, NEW output, NEW captured,
           Reports(r, PrimaryReason, output, captured, Happened),
           output = None \/ captured = None,
           ClockIsRead => \/ output = None /\ captured = HelperOutput
                          \/ output = HelperOutput /\ captured = None,
           ~terminated => output = None,
           reason = "OutputLimitExceeded" => output = None /\ captured # None
    PROVE  ResultDue(r)
<1>1. r.reason = PrimaryReason /\ r.output = output /\ r.captured = captured
  BY DEF Reports
<1>2. Happened \ {PrimaryReason} = Happened
  BY PrimaryReasonIsApart
<1>3. CarriesOutput(r) <=> \/ output = None /\ captured = HelperOutput
                           \/ output = HelperOutput /\ captured = None
  BY <1>1 DEF CarriesOutput
<1> QED
  BY <1>1, <1>2, <1>3 DEF ResultDue

\* abort builds the result that is due.
LEMMA AbortDue ==
    ASSUME HistoryInv, Abort
    PROVE  ResultDue(result')
<1>1. path = "abort" /\ reason = "StartFailed" /\ ~ClockIsRead /\ ClockSet = {}
  BY DEF Abort, HistoryInv, ClockIsRead, ClockSet
<1> DEFINE e == FromReason(PrimaryReason, None)
           added == process \o PushedFailures
           T == ToSet(process) \cup (HelperSet \cup AllCancelSet)
<1>2. Reports(e, PrimaryReason, None, None, {})
  BY ReportsNew
<1>3. Ready(added, T)
  BY ReadyProcess, ReadyPushed, ProcessApart, ReadyConcat
<1>4. result' = WithCleanupFailures(e, added)
  BY DEF Abort
<1>5. {} \cap T = {} /\ MayFollow(T, {})
  BY DEF MayFollow
<1>6. {} \cup T = Happened
  BY <1>1, HappenedByStage
<1> HIDE DEF e, added, T
<1>7. Reports(WithCleanupFailures(e, added), PrimaryReason, None, None, {} \cup T)
  BY <1>2, <1>3, <1>5, ReportsCleanup
<1>8. Reports(result', PrimaryReason, None, None, Happened)
  BY <1>4, <1>6, <1>7
<1> QED
  BY <1>1, <1>8, StopDue

\* The terminator's failures added to a new error.
LEMMA WithProcessFailures ==
    ASSUME HistoryInv, NEW e, NEW output, NEW captured,
           Reports(e, PrimaryReason, output, captured, {})
    PROVE  Reports(WithCleanupFailures(e, process), PrimaryReason, output, captured,
                   ToSet(process))
<1>1. MayFollow(ToSet(process), {}) /\ {} \cap ToSet(process) = {}
      /\ Ready(process, ToSet(process))
  BY ReadyProcess DEF MayFollow
<1>2. Reports(WithCleanupFailures(e, process), PrimaryReason, output, captured,
              {} \cup ToSet(process))
  BY <1>1, ReportsCleanup
<1> QED
  BY <1>2

\* The failures of the helpers added to those of the terminator.
LEMMA WithPushedFailures ==
    ASSUME HistoryInv, ~ClockIsRead, NEW e, NEW output, NEW captured,
           Reports(e, PrimaryReason, output, captured, ToSet(process))
    PROVE  Reports(WithCleanupFailures(e, PushedFailures), PrimaryReason, output, captured,
                   Happened)
<1>1. Reports(WithCleanupFailures(e, PushedFailures), PrimaryReason, output, captured,
              ToSet(process) \cup (HelperSet \cup AllCancelSet))
  BY ReadyPushed, ProcessApart, ReportsCleanup
<1>2. ToSet(process) \cup (HelperSet \cup AllCancelSet) = Happened
  BY HappenedByStage DEF ClockSet
<1> QED
  BY <1>1, <1>2

\* So does stop_and_finalize when termination failed,
LEMMA StopUnterminatedDue ==
    ASSUME HistoryInv, StopUnterminated
    PROVE  ResultDue(result')
<1> DEFINE new == FromReason(PrimaryReason, None)
           primary == WithCleanupFailures(new, process)
           captured == IF reason = "OutputLimitExceeded" THEN EarlySnapshot ELSE None
           error == IF reason = "OutputLimitExceeded"
                    THEN WithCapturedOutput(primary, EarlySnapshot)
                    ELSE primary
<1>1. path = "stop" /\ ~ClockIsRead /\ result' = WithCleanupFailures(error, PushedFailures)
  BY DEF StopUnterminated, ClockIsRead
<1>2. Reports(primary, PrimaryReason, None, None, ToSet(process))
  BY ReportsNew, WithProcessFailures
<1>3. Reports(error, PrimaryReason, None, captured, ToSet(process))
  <2> HIDE DEF primary
  <2> QED
    BY <1>2 DEF Reports, WithCapturedOutput
<1>4. reason = "OutputLimitExceeded" => captured # None
  BY OutputIsSome
<1> HIDE DEF error, captured
<1>5. Reports(result', PrimaryReason, None, captured, Happened)
  BY <1>1, <1>3, WithPushedFailures
<1> QED
  BY <1>1, <1>4, <1>5, StopDue

\* when there is no output to report,
LEMMA StopWithoutOutputDue ==
    ASSUME HistoryInv, StopWithoutOutput
    PROVE  ResultDue(result')
<1> DEFINE new == FromReason(PrimaryReason, None)
           error == WithCleanupFailures(new, process)
<1>1. path = "stop" /\ ~ClockIsRead /\ result' = WithCleanupFailures(error, PushedFailures)
  BY DEF StopWithoutOutput, ClockIsRead
<1>2. reason # "OutputLimitExceeded"
  BY DEF StopWithoutOutput, RetainsOutput, StopCondition
<1>3. Reports(error, PrimaryReason, None, None, ToSet(process))
  BY ReportsNew, WithProcessFailures
<1> HIDE DEF error
<1>4. Reports(result', PrimaryReason, None, None, Happened)
  BY <1>1, <1>3, WithPushedFailures
<1> QED
  BY <1>1, <1>2, <1>4, StopDue

\* and when the output was collected, demoting what failed on the way.
LEMMA StopWithOutputDue ==
    ASSUME HistoryInv, StopWithOutput
    PROVE  ResultDue(result')
<1> DEFINE final == CollectOutputResults
           P == ToSet(process)
           C == AllCancelSet
           WithCleanup(error) ==
               WithCleanupFailures(WithCleanupFailures(error, process),
                                   AllCancellationFailures)
<1>1. path = "stop" /\ ClockIsRead
  BY DEF StopWithOutput, ClockIsRead
<1>2. Ready(process, P) /\ Ready(AllCancellationFailures, C)
      /\ Ready(IntoCleanupFailures(final), Collectable)
  BY <1>1, ReadyProcess, ReadyCancellations, ReadyCollected
<1>3. Happened = (P \cup C) \cup Collectable
  BY HappenedByStage DEF Collectable
<1>4. CarriesOutput(final)
  BY <1>1, Collected
<1>5. CASE reason = "OutputLimitExceeded"
  <2> DEFINE e == LimitError(final)
             f == WithCleanupFailures(e, process)
             g == WithCleanupFailures(f, AllCancellationFailures)
  <2>1. TakeCapturedOutput(final) = HelperOutput
    BY <1>4, OutputIsSome DEF TakeCapturedOutput, CarriesOutput
  <2>2. Reports(FromReason(PrimaryReason, None), PrimaryReason, None, None, {})
    BY ReportsNew
  <2>3. Reports(e, PrimaryReason, None, HelperOutput, {})
    BY <2>1, <2>2 DEF LimitError, Reports, WithCapturedOutput
  <2>4. result' = WithCleanupFailures(g, IntoCleanupFailures(final))
    BY <1>5 DEF StopWithOutput
  <2> HIDE DEF e, f, g, final
  <2>5. Reports(f, PrimaryReason, None, HelperOutput, P)
    BY <2>3, WithProcessFailures DEF f
  <2>6. Reports(g, PrimaryReason, None, HelperOutput, P \cup C)
    BY <1>2, <2>5, ProcessApart, ReportsCleanup DEF g
  <2>7. Reports(WithCleanupFailures(g, IntoCleanupFailures(final)),
                PrimaryReason, None, HelperOutput, (P \cup C) \cup Collectable)
    BY <1>2, <2>6, ProcessApart, ReportsCleanup
  <2>8. Reports(result', PrimaryReason, None, HelperOutput, Happened)
    BY <1>3, <2>4, <2>7
  <2>9. terminated
    BY DEF StopWithOutput
  <2> QED
    BY <1>1, <2>8, <2>9, OutputIsSome, StopDue
<1>6. CASE reason # "OutputLimitExceeded"
  <2> DEFINE e == StopError(final)
             f == WithCleanupFailures(e, process)
             g == WithCleanupFailures(f, AllCancellationFailures)
             new == FromReason(PrimaryReason, None)
  <2>1. result' = g
    BY <1>6 DEF StopWithOutput
  <2>2. \E output, captured :
            /\ Reports(e, PrimaryReason, output, captured, Collectable)
            /\ \/ output = None /\ captured = HelperOutput
               \/ output = HelperOutput /\ captured = None
    <3>1. CASE Collectable = {}
      <4>1. e = FromReason(PrimaryReason, HelperOutput)
        BY <1>1, <3>1, Collected DEF StopError
      <4> HIDE DEF e
      <4> QED
        BY <3>1, <4>1, ReportsNew
    <3>2. CASE Collectable # {}
      <4>1. final.reason \in Collectable
        BY <1>1, <3>2, Collected
      <4>2. final # Ok
        BY <4>1, CollectableStages DEF Ok, FromReason
      <4> DEFINE half == [new EXCEPT !.output = final.output]
                 moved == WithCapturedOutput(half, final.captured)
      <4>3. e = WithCleanupFailures(moved, IntoCleanupFailures(final))
        BY <4>2 DEF StopError, WithFinalizationError, FromReason
      <4>4. moved = [reason |-> PrimaryReason, output |-> final.output,
                     captured |-> final.captured, cleanup |-> <<>>]
        <5>1. new = [reason |-> PrimaryReason, output |-> None, captured |-> None,
                     cleanup |-> <<>>]
          BY DEF FromReason
        <5> HIDE DEF new, final
        <5>2. half = [reason |-> PrimaryReason, output |-> final.output, captured |-> None,
                      cleanup |-> <<>>]
          BY <5>1
        <5> HIDE DEF half
        <5> QED
          BY <5>2 DEF WithCapturedOutput
      <4>5. Reports(moved, PrimaryReason, final.output, final.captured, {})
        <5> HIDE DEF final, moved
        <5>1. moved.cleanup = <<>>
          BY <4>4
        <5> QED
          BY <4>4, <5>1, ListsNone DEF Reports
      <4>6. {} \cap Collectable = {} /\ MayFollow(Collectable, {})
        BY DEF MayFollow
      <4> HIDE DEF e, moved, final
      <4>7. Reports(WithCleanupFailures(moved, IntoCleanupFailures(final)),
                    PrimaryReason, final.output, final.captured, {} \cup Collectable)
        BY <1>2, <4>5, <4>6, ReportsCleanup
      <4>8. Reports(e, PrimaryReason, final.output, final.captured, Collectable)
        BY <4>3, <4>7
      <4> QED
        BY <1>4, <4>8 DEF CarriesOutput
    <3> QED
      BY <3>1, <3>2
  <2>3. PICK output, captured :
            /\ Reports(e, PrimaryReason, output, captured, Collectable)
            /\ \/ output = None /\ captured = HelperOutput
               \/ output = HelperOutput /\ captured = None
    BY <2>2
  <2> HIDE DEF e, f, g
  <2>4. Reports(f, PrimaryReason, output, captured, Collectable \cup P)
    BY <1>2, <2>3, ProcessApart, ReportsCleanup DEF f
  <2>5. (Collectable \cup P) \cap C = {}
    BY ProcessApart
  <2>6. Reports(g, PrimaryReason, output, captured, (Collectable \cup P) \cup C)
    BY <1>2, <2>4, <2>5, ProcessApart, ReportsCleanup DEF g
  <2>7. (Collectable \cup P) \cup C = Happened
    BY <1>3
  <2>8. Reports(result', PrimaryReason, output, captured, Happened)
    BY <2>1, <2>6, <2>7
  <2>9. terminated
    BY DEF StopWithOutput
  <2> QED
    BY <1>1, <1>6, <2>3, <2>8, <2>9, StopDue
<1> QED
  BY <1>5, <1>6

(***************************************************************************)
(* The invariant of a call.                                                *)
(***************************************************************************)

\* Nothing was started, or the result of the monitor is classified.
OutcomeDue ==
    \/ /\ Happened = {} /\ path = "abort" /\ process = <<>>
       /\ \E kind \in PreparationKinds : outcome = FromReason(Failure("start", kind), None)
    \/ /\ result # None /\ path = "abort"
       /\ \E kind \in AbortKinds :
            outcome = [result EXCEPT !.reason = Failure("start", kind)]
    \/ result # None /\ path # "abort" /\ outcome = result
    \/ /\ result = Ok
       /\ outcome \in {UnexpectedExitError, Ok,
                       FromReason(Failure("run", "OutputTruncated"), HelperOutput)}

InspectionInv ==
    /\ HistoryInv
    /\ status \in Statuses
    /\ result # None => ResultDue(result)
    /\ outcome # None => OutcomeDue

\* Nothing was reported yet.
LEMMA InspectionInvInit == InspectionInit => InspectionInv
  BY HistoryInit DEF InspectionInit, InspectionInv, ReportInit

\* What happened does not change.
LEMMA HistoryKept ==
    ASSUME UNCHANGED historyVars
    PROVE  /\ HistoryInv' <=> HistoryInv
           /\ Happened' = Happened
           /\ \A r : ResultDue(r)' <=> ResultDue(r)
           /\ HelperOutput' = HelperOutput
<1> USE DEF historyVars
<1>1. TerminatorIsConsistent' <=> TerminatorIsConsistent
  BY DEF TerminatorIsConsistent
<1>2. HistoryInv' <=> HistoryInv
  BY <1>1 DEF HistoryInv
<1>3. ClockIsRead' <=> ClockIsRead
  BY DEF ClockIsRead, RetainsOutput
<1>4. Happened' = Happened
  BY <1>3 DEF Happened
<1>5. HelperOutput' = HelperOutput /\ PrimaryReason' = PrimaryReason
  BY DEF HelperOutput, PrimaryReason
<1>6. \A r : ResultDue(r)' <=> ResultDue(r)
  <2>1. \A r : CarriesOutput(r)' <=> CarriesOutput(r)
    BY <1>5 DEF CarriesOutput
  <2>2. Ok' = Ok
    BY <1>5 DEF Ok
  <2> QED
    BY <1>3, <1>4, <1>5, <2>1, <2>2 DEF ResultDue
<1> QED
  BY <1>2, <1>4, <1>5, <1>6

\* A success is not None, the result of a run that goes on.
LEMMA OkIsSome == Ok # None
<1>1. HelperOutput \in Output
  BY DEF HelperOutput, Output
<1> QED
  BY <1>1, SuccessAssumption DEF Ok

\* Neither the monitor nor run_with breaks the invariant.
LEMMA InspectionInvStep ==
    InspectionInv /\ [InspectionNext]_inspectionVars => InspectionInv'
<1> SUFFICES ASSUME InspectionInv, [InspectionNext]_inspectionVars PROVE InspectionInv'
  OBVIOUS
<1>0. HistoryInv /\ status \in Statuses
  BY DEF InspectionInv
<1>1. CASE ReportNext /\ UNCHANGED <<status, truncated, outcome>>
  <2>1. result = None /\ UNCHANGED historyVars
    BY <1>1 DEF ReportNext
  <2>2. ResultDue(result')
    BY <1>0, <1>1, CompleteDue, AbortDue, StopUnterminatedDue, StopWithoutOutputDue,
       StopWithOutputDue DEF ReportNext
  <2>3. HistoryInv' /\ status' \in Statuses
    BY <1>0, <1>1, <2>1, HistoryKept
  <2>4. (result # None => ResultDue(result))'
    BY <2>1, <2>2, HistoryKept
  <2>5. outcome' # None => OutcomeDue'
    <3> SUFFICES ASSUME outcome' # None PROVE OutcomeDue'
      OBVIOUS
    <3>1. /\ Happened = {} /\ path = "abort" /\ process = <<>>
          /\ \E kind \in PreparationKinds :
                outcome = FromReason(Failure("start", kind), None)
      BY <1>1, <2>1, OkIsSome DEF InspectionInv, OutcomeDue
    <3>2. Happened' = {} /\ path' = "abort" /\ process' = <<>> /\ outcome' = outcome
      BY <1>1, <2>1, <3>1, HistoryKept DEF historyVars
    <3> QED
      BY <3>1, <3>2 DEF OutcomeDue
  <2> QED
    BY <2>3, <2>4, <2>5 DEF InspectionInv
<1>2. ASSUME UNCHANGED <<historyVars, status, result>>, outcome' # None => OutcomeDue'
      PROVE  InspectionInv'
  <2>1. HistoryInv' /\ status' \in Statuses
    BY <1>0, <1>2, HistoryKept
  <2>2. (result # None => ResultDue(result))'
    BY <1>2, HistoryKept DEF InspectionInv
  <2> QED
    BY <1>2, <2>1, <2>2 DEF InspectionInv
<1>3. CASE Refuse
  <2>1. UNCHANGED <<historyVars, status, result>>
    BY <1>3 DEF Refuse, Returns
  <2>2. PICK kind \in PreparationKinds :
           outcome' = FromReason(Failure("start", kind), None)
    BY <1>3 DEF Refuse, Returns
  <2>3. path = "abort" /\ process = <<>> /\ Happened = {}
    <3>1. /\ path = "abort" /\ process = <<>> /\ cancelFail = {} /\ writer = "ok"
          /\ \A s \in OutputStream : reader[s] = None
      BY <1>3 DEF Refuse
    <3>2. ~ClockIsRead
      BY <3>1 DEF ClockIsRead
    <3>3. ToSet(process) = {}
      BY <3>1 DEF ToSet
    <3>4. \A s \in OutputStream : reader[s] \notin {"read", "write", "readAfterWrite"}
      BY <3>1, ReportAssumption DEF ReaderEnd
    <3> QED
      BY <3>1, <3>2, <3>3, <3>4 DEF Happened
  <2>4. path' = "abort" /\ process' = <<>> /\ Happened' = {}
    BY <2>1, <2>3, HistoryKept DEF historyVars
  <2> QED
    BY <1>2, <2>1, <2>2, <2>4 DEF OutcomeDue
<1>4. CASE ReturnError
  <2>1. UNCHANGED <<historyVars, status, result>> /\ result # None
    BY <1>4 DEF ReturnError, Returns
  <2>2. CASE path = "abort"
    <3>1. PICK kind \in AbortKinds :
             outcome' = [result EXCEPT !.reason = Failure("start", kind)]
      BY <1>4, <2>2 DEF ReturnError, Returns
    <3>2. path' = "abort" /\ result' # None
          /\ outcome' = [result' EXCEPT !.reason = Failure("start", kind)]
      BY <2>1, <2>2, <3>1 DEF historyVars
    <3> QED
      BY <1>2, <2>1, <3>2 DEF OutcomeDue
  <2>3. CASE path # "abort"
    <3>1. outcome' = result
      BY <1>4, <2>3 DEF ReturnError, Returns
    <3>2. path' # "abort" /\ outcome' = result' /\ result' # None
      BY <2>1, <2>3, <3>1 DEF historyVars
    <3> QED
      BY <1>2, <2>1, <3>2 DEF OutcomeDue
  <2> QED
    BY <2>2, <2>3
<1>5. CASE Classify
  <2>1. UNCHANGED <<historyVars, status, result>> /\ result = Ok
    BY <1>5 DEF Classify, Returns
  <2>2. HelperOutput' = HelperOutput
    BY <2>1, HistoryKept
  <2>3. Ok' = Ok /\ UnexpectedExitError' = UnexpectedExitError
    BY <2>1, <2>2 DEF Ok, UnexpectedExitError, UnexpectedExit
  <2>4. outcome' \in {UnexpectedExitError, Ok,
                      FromReason(Failure("run", "OutputTruncated"), HelperOutput)}
    BY <1>5 DEF Classify, Returns
  <2>5. OutcomeDue'
    BY <2>1, <2>2, <2>3, <2>4 DEF OutcomeDue
  <2> QED
    BY <1>2, <2>1, <2>5
<1>6. CASE UNCHANGED inspectionVars
  <2>1. UNCHANGED <<historyVars, status, result, outcome>>
    BY <1>6 DEF inspectionVars, reportVars
  <2>2. HelperOutput' = HelperOutput /\ Happened' = Happened /\ path' = path
        /\ process' = process
    BY <2>1, HistoryKept DEF historyVars
  <2>3. Ok' = Ok /\ UnexpectedExitError' = UnexpectedExitError
    BY <2>1, <2>2 DEF Ok, UnexpectedExitError, UnexpectedExit
  <2>4. outcome # None => OutcomeDue'
    BY <2>1, <2>2, <2>3 DEF OutcomeDue, InspectionInv
  <2> QED
    BY <1>2, <2>1, <2>4
<1> QED
  BY <1>1, <1>3, <1>4, <1>5, <1>6 DEF InspectionNext

\* The invariant of a call.
LEMMA InspectionInvAlways == InspectionSpec => []InspectionInv
  BY InspectionInvInit, InspectionInvStep, PTL DEF InspectionSpec

(***************************************************************************)
(* The theorems.                                                           *)
(***************************************************************************)

\* A list has a failure at one place if it lists it, else nowhere.
LEMMA ListedOnce ==
    ASSUME NEW S, NEW list, Lists(list, S), NEW f
    PROVE  Cardinality({i \in DOMAIN list : list[i] = f}) = IF f \in S THEN 1 ELSE 0
<1> DEFINE At == {i \in DOMAIN list : list[i] = f}
<1>1. CASE f \in S
  <2>1. PICK i \in DOMAIN list : list[i] = f
    BY <1>1 DEF Lists
  <2>2. At = {i}
    BY <2>1 DEF Lists, IsInjective
  <2> QED
    BY <1>1, <2>2, FS_Singleton
<1>2. CASE f \notin S
  <2>1. At = {}
    BY <1>2 DEF Lists
  <2> QED
    BY <1>2, <2>1, FS_EmptySet
<1> QED
  BY <1>1, <1>2

\* A failure is not None, the reason of a success.
LEMMA StageFailureIsSome == None \notin StageFailure
<1>1. Stage \subseteq ToSet(Stages)
  BY DEF Stage, Stages, ToSet
<1>2. StageFailure \subseteq Failures
  BY <1>1 DEF StageFailure, Failures
<1> QED
  BY <1>2, ReportAssumption

\* What happened are failures at the stages of a run.
LEMMA HappenedIsSome == HistoryInv => None \notin Happened /\ Happened \subseteq StageFailure
<1> SUFFICES ASSUME HistoryInv PROVE None \notin Happened /\ Happened \subseteq StageFailure
  OBVIOUS
<1>1. Happened \subseteq StageFailure
  <2>1. /\ HelperSet \subseteq StageFailure /\ AllCancelSet \subseteq StageFailure
        /\ ToSet(process) \subseteq StageFailure /\ ClockSet \subseteq StageFailure
    BY ReadyHelpers, ReadyCancellations, ReadyProcess, CollectableStages
       DEF Ready, Collectable
  <2> QED
    BY <2>1, HappenedByStage
<1> QED
  BY <1>1, StageFailureIsSome

\* The result of the monitor in an invariant state.
LEMMA ResultFacts ==
    ASSUME InspectionInv, result # None
    PROVE  /\ Lists(result.cleanup, Happened \ {result.reason})
           /\ InOrder(result.cleanup) /\ TeeFirst(result.cleanup)
           /\ result = Ok <=> result.reason = None
           /\ result = Ok => Happened = {} /\ path = "complete"
           /\ path # "complete" => result.reason = PrimaryReason /\ result.reason \notin Happened
           /\ result # Ok /\ path = "complete" =>
                 /\ result.reason \in Happened
                 /\ \A f \in Happened \ {result.reason} :
                      CleanupFailureRank(result.reason) <= CleanupFailureRank(f)
<1>1. HistoryInv /\ ResultDue(result)
  BY DEF InspectionInv
<1>2. Ok.reason = None
  BY DEF Ok, FromReason
<1>3. None \notin Happened
  BY <1>1, HappenedIsSome
<1>4. path # "complete" => /\ result.reason = PrimaryReason /\ PrimaryReason # None
                           /\ PrimaryReason \notin Happened
  BY <1>1, PrimaryReasonIsApart DEF ResultDue
<1>5. path = "complete" => \/ Happened = {} /\ result = Ok
                           \/ /\ result.reason \in Happened
                              /\ \A f \in Happened \ {result.reason} :
                                   CleanupFailureRank(result.reason) <= CleanupFailureRank(f)
  BY <1>1 DEF ResultDue
<1>6. /\ Lists(result.cleanup, Happened \ {result.reason})
      /\ InOrder(result.cleanup) /\ TeeFirst(result.cleanup)
  BY <1>1 DEF ResultDue, Reports
<1> QED
  BY <1>2, <1>3, <1>4, <1>5, <1>6

\* The invariant implies ErrorIsTrue.
LEMMA TrueInErrors == InspectionInv => ErrorIsTrue
<1> SUFFICES ASSUME InspectionInv PROVE ErrorIsTrue
  OBVIOUS
<1>1. EveryFailureReportedOnce
  <2>1. result = Ok => Happened = {}
    BY OkIsSome, ResultFacts
  <2>2. ASSUME IsError
        PROVE  /\ \A f \in Happened : Occurrences(f) = 1
               /\ ToSet(result.cleanup) \subseteq Happened
    <3>1. result # None /\ Lists(result.cleanup, Happened \ {result.reason})
      BY <2>2, ResultFacts DEF IsError
    <3>2. ASSUME NEW f \in Happened
          PROVE  Occurrences(f) = 1
      <4>1. Cardinality({i \in DOMAIN result.cleanup : result.cleanup[i] = f})
                = IF f \in Happened \ {result.reason} THEN 1 ELSE 0
        BY <3>1, ListedOnce
      <4> QED
        BY <4>1 DEF Occurrences
    <3>3. ToSet(result.cleanup) \subseteq Happened
      BY <3>1 DEF Lists, ToSet
    <3> QED
      BY <3>2, <3>3
  <2> QED
    BY <2>1, <2>2 DEF EveryFailureReportedOnce
<1>2. CleanupFailuresInOrder
  BY ResultFacts DEF CleanupFailuresInOrder, IsError, InOrder, TeeFirst
<1>3. ReasonIsWhyRunEnded
  <2> SUFFICES ASSUME IsError, path = "complete", NEW i \in DOMAIN result.cleanup
               PROVE  CleanupFailureRank(result.reason) <= CleanupFailureRank(result.cleanup[i])
    BY ResultFacts DEF ReasonIsWhyRunEnded, IsError
  <2>1. result.cleanup[i] \in Happened \ {result.reason}
    BY ResultFacts DEF IsError, Lists
  <2> QED
    BY <2>1, ResultFacts DEF IsError
<1> QED
  BY <1>1, <1>2, <1>3 DEF ErrorIsTrue

\* For every combination of ends of the terminator, the helpers and the clock:
\* each failure is in the error once, in the order of the stages, and the reason
\* is why the run ended (stop_and_finalize, complete, abort and the sorting and
\* demotion in command_error.rs).
THEOREM ErrorTellsAll == InspectionSpec => []ErrorIsTrue
  BY TrueInErrors, InspectionInvAlways, PTL

\* The invariant implies OutputSurvives.
LEMMA SurvivesInErrors == InspectionInv => OutputSurvives
<1> SUFFICES ASSUME InspectionInv PROVE OutputSurvives
  OBVIOUS
<1>1. ASSUME result # None
      PROVE  /\ result.output = None \/ result.captured = None
             /\ ClockIsRead => CarriesOutput(result)
             /\ reason = "OutputLimitExceeded" => result.output = None /\ result.captured # None
             /\ result = [reason |-> result.reason, output |-> result.output,
                          captured |-> result.captured, cleanup |-> result.cleanup]
  BY <1>1 DEF InspectionInv, ResultDue, Reports
<1>2. CollectedOutputSurvives
  BY <1>1, OutputIsSome
     DEF CollectedOutputSurvives, IsError, CarriesOutput, TakeCapturedOutput
<1>3. OneCarrier
  <2> SUFFICES ASSUME outcome # None
               PROVE  outcome.output = None \/ outcome.captured = None
    BY DEF OneCarrier, Failed
  <2>1. OutcomeDue
    BY DEF InspectionInv
  <2>2. \A why, output : FromReason(why, output).captured = None
    BY DEF FromReason
  <2>3. ASSUME result # None, NEW why
        PROVE  LET e == [result EXCEPT !.reason = why]
               IN  e.output = result.output /\ e.captured = result.captured
    BY <1>1, <2>3
  <2> QED
    BY <1>1, <2>1, <2>2, <2>3, OkIsSome DEF OutcomeDue, UnexpectedExitError, Ok
<1> QED
  BY <1>2, <1>3 DEF OutputSurvives

\* Output that was collected can be taken out of the error, in one place; an
\* exceeded limit hands out captured output only.
THEOREM OutputIsHandedOut == InspectionSpec => []OutputSurvives
  BY SurvivesInErrors, InspectionInvAlways, PTL

(***************************************************************************)
(* Reading the error.                                                      *)
(***************************************************************************)

\* A list is as long as the set it lists is large.
LEMMA ListsCount ==
    ASSUME NEW S, NEW list, Lists(list, S)
    PROVE  Cardinality(S) = Len(list)
<1> DEFINE n == Len(list)
           N == 1..n
<1>1. n \in Nat /\ DOMAIN list = N /\ list \in [N -> S]
  BY DEF Lists
<1>2. list \in Bijection(N, S)
  BY <1>1 DEF Lists, IsInjective, Bijection, Injection, Surjection
<1>3. ExistsBijection(N, S)
  BY <1>2 DEF ExistsBijection
<1> HIDE DEF n
<1>4. Cardinality(S) = n
  BY <1>1, <1>3, FS_CountingElements
<1> QED
  BY <1>4 DEF n

\* A set of indices has a least one.
LEMMA LeastIndex ==
    ASSUME NEW T, T \subseteq Nat, T # {}
    PROVE  \E i \in T : \A j \in T : i <= j
<1>1. PICK i \in T : \A j \in T : ~(<<j, i>> \in OpToRel(<, Nat))
  BY NatLessThanWellFounded, WFMin
<1>2. \A j \in T : ~(j < i)
  BY <1>1 DEF OpToRel
<1> QED
  BY <1>2

\* A stage has a first failure if one is listed.
LEMMA FirstIsFound ==
    ASSUME NEW error, error.cleanup \in Seq(StageFailure), NEW stage
    PROVE  FirstAt(error, stage) # None
               <=> \E i \in DOMAIN error.cleanup : error.cleanup[i].at = stage
<1> DEFINE list == error.cleanup
           found == {i \in DOMAIN list : list[i].at = stage}
           first == CHOOSE i \in found : \A j \in found : i <= j
<1>1. CASE found = {}
  BY <1>1 DEF FirstAt
<1>2. CASE found # {}
  <2>1. found \subseteq Nat
    OBVIOUS
  <2>2. \E i \in found : \A j \in found : i <= j
    BY <1>2, <2>1, LeastIndex
  <2>3. first \in found
    BY <2>2
  <2>4. list[first] \in StageFailure
    <3>1. first \in DOMAIN list
      BY <2>3
    <3> HIDE DEF first
    <3> QED
      BY <3>1
  <2>5. FirstAt(error, stage) = list[first]
    BY <1>2 DEF FirstAt
  <2> QED
    BY <1>2, <2>4, <2>5, StageFailureIsSome
<1> QED
  BY <1>1, <1>2

\* What a helper or the clock failed with has a kind of its own, with a source.
LEMMA CollectableKinds ==
    ASSUME HistoryInv, NEW f \in Collectable
    PROVE  /\ HasSource(KindOf(f)) /\ KindOf(f) # "UnexpectedExit"
           /\ CleanupFields(f) = DebugFields(KindOf(f)) \ {"stream"}
<1>1. CASE f \in ClockSet
  <2>1. f.at = "time"
    BY <1>1, StagesOfSets
  <2>2. KindOf(f) = "TimeFailed" /\ CleanupFields(f) = {"source"}
    BY <2>1 DEF KindOf, CleanupFields, OutputStream
  <2>3. DebugFields("TimeFailed") = {"source"}
    BY DEF DebugFields
  <2> QED
    BY <2>2, <2>3 DEF HasSource
<1>2. CASE f \in WriterSet
  <2>1. f.at = "stdin"
    BY <1>2, StagesOfSets
  <2>2. KindOf(f) = "WriteInputFailed" /\ CleanupFields(f) = {"source"}
    BY <2>1 DEF KindOf, CleanupFields, OutputStream
  <2>3. DebugFields("WriteInputFailed") = {"source"}
    BY DEF DebugFields
  <2> QED
    BY <2>2, <2>3 DEF HasSource
<1>3. CASE f \in ReaderSet("stdout") \cup ReaderSet("stderr")
  <2>1. f.at \in {"stdout", "stderr"} /\ f.what \in {"read", "write"}
    BY <1>3, StagesOfSets
  <2>2. CASE f.what = "read"
    <3>1. KindOf(f) = "ReadOutputFailed" /\ CleanupFields(f) = {"source"}
      BY <2>1, <2>2 DEF KindOf, CleanupFields, OutputStream
    <3>2. DebugFields("ReadOutputFailed") = {"stream", "source"}
      BY DEF DebugFields
    <3> QED
      BY <3>1, <3>2 DEF HasSource
  <2>3. CASE f.what = "write"
    <3>1. KindOf(f) = "WriteOutputFailed" /\ CleanupFields(f) = {"path", "source"}
      BY <2>1, <2>3 DEF KindOf, CleanupFields, OutputStream
    <3>2. DebugFields("WriteOutputFailed") = {"stream", "path", "source"}
      BY DEF DebugFields
    <3> QED
      BY <3>1, <3>2 DEF HasSource
  <2> QED
    BY <2>1, <2>2, <2>3
<1> QED
  BY <1>1, <1>2, <1>3 DEF Collectable, HelperSet

\* The kind of an error that is not a failure of a stage.
LEMMA StartKinds ==
    ASSUME NEW kind
    PROVE  KindOf(Failure("start", kind)) = kind
  BY DEF KindOf, Failure, OutputStream

\* The kind of an error of the run itself.
LEMMA RunKinds ==
    ASSUME NEW kind
    PROVE  KindOf(Failure("run", kind)) = kind
  BY DEF KindOf, Failure, OutputStream

\* A run that was stopped has not met an unexpected exit.
LEMMA PrimaryKinds ==
    ASSUME HistoryInv, path # "complete"
    PROVE  KindOf(PrimaryReason) # "UnexpectedExit"
<1>1. CASE reason = "WaitFailed"
  BY <1>1 DEF PrimaryReason, Failure, KindOf
<1>2. CASE reason = "TimeFailed"
  BY <1>2 DEF PrimaryReason, Failure, KindOf
<1>3. CASE reason \notin {"WaitFailed", "TimeFailed"}
  <2>1. KindOf(PrimaryReason) = reason
    BY <1>3, RunKinds DEF PrimaryReason
  <2> QED
    BY <1>3, <2>1, ReportAssumption DEF HistoryInv, StopCondition
<1> QED
  BY <1>1, <1>2, <1>3

\* The error of a call in an invariant state.
LEMMA OutcomeFacts ==
    ASSUME InspectionInv, Failed
    PROVE  /\ Lists(outcome.cleanup, Happened \ {outcome.reason})
           /\ outcome.reason \in Happened => outcome.reason \in Collectable
           /\ KindOf(outcome.reason) = "UnexpectedExit" => outcome = UnexpectedExitError
           /\ ~terminated => outcome.output = None
<1>1. HistoryInv /\ OutcomeDue /\ outcome # Ok /\ (result # None => ResultDue(result))
  BY DEF InspectionInv, Failed
<1>2. Happened \subseteq StageFailure /\ \A f \in StageFailure : f.at # "start"
  BY <1>1, HappenedIsSome DEF StageFailure, Stage
<1>3. \A kind : Failure("start", kind) \notin Happened
  BY <1>2 DEF Failure
<1>4. \A why, output : /\ FromReason(why, output).reason = why
                       /\ FromReason(why, output).output = output
                       /\ FromReason(why, output).cleanup = <<>>
  BY DEF FromReason
<1>5. CASE /\ Happened = {} /\ path = "abort" /\ process = <<>>
           /\ \E kind \in PreparationKinds :
                outcome = FromReason(Failure("start", kind), None)
  <2>1. PICK kind \in PreparationKinds : outcome = FromReason(Failure("start", kind), None)
    BY <1>5
  <2>2. KindOf(outcome.reason) # "UnexpectedExit"
    BY <1>4, <2>1, StartKinds DEF PreparationKinds
  <2> QED
    BY <1>4, <1>5, <2>1, <2>2, ListsNone
<1>6. CASE /\ result # None /\ path = "abort"
           /\ \E kind \in AbortKinds :
                outcome = [result EXCEPT !.reason = Failure("start", kind)]
  <2>1. PICK kind \in AbortKinds : outcome = [result EXCEPT !.reason = Failure("start", kind)]
    BY <1>6
  <2>2. result = [reason |-> result.reason, output |-> result.output,
                  captured |-> result.captured, cleanup |-> result.cleanup]
    BY <1>1, <1>6 DEF ResultDue, Reports
  <2>3. /\ outcome.reason = Failure("start", kind) /\ outcome.output = result.output
        /\ outcome.cleanup = result.cleanup
    BY <2>1, <2>2
  <2>4. KindOf(outcome.reason) # "UnexpectedExit"
    BY <2>3, StartKinds DEF AbortKinds
  <2>5. Lists(result.cleanup, Happened \ {result.reason}) /\ result.reason \notin Happened
    BY <1>6, ResultFacts
  <2>6. Happened \ {result.reason} = Happened \ {outcome.reason}
    BY <1>3, <2>3, <2>5
  <2>7. ~terminated => outcome.output = None
    BY <1>1, <1>6, <2>3 DEF ResultDue
  <2> QED
    BY <1>3, <2>3, <2>4, <2>5, <2>6, <2>7
<1>7. CASE result # None /\ path # "abort" /\ outcome = result
  <2>1. Lists(result.cleanup, Happened \ {result.reason})
    BY <1>7, ResultFacts
  <2>2. ~terminated => outcome.output = None
    BY <1>1, <1>7 DEF ResultDue
  <2>3. CASE path = "complete"
    <3>1. result.reason \in Happened
      BY <1>1, <1>7, <2>3, ResultFacts
    <3>2. Happened = Collectable
      BY <1>1, <2>3, HappenedOfComplete
    <3> QED
      BY <1>1, <1>7, <2>1, <2>2, <3>1, <3>2, CollectableKinds
  <2>4. CASE path # "complete"
    <3>1. result.reason = PrimaryReason /\ result.reason \notin Happened
      BY <1>7, <2>4, ResultFacts
    <3> QED
      BY <1>1, <1>7, <2>1, <2>2, <2>4, <3>1, PrimaryKinds
  <2> QED
    BY <2>3, <2>4
<1>8. CASE /\ result = Ok
           /\ outcome \in {UnexpectedExitError, Ok,
                           FromReason(Failure("run", "OutputTruncated"), HelperOutput)}
  <2>1. Happened = {} /\ path = "complete" /\ terminated
    BY <1>1, <1>8, OkIsSome, ResultFacts DEF HistoryInv
  <2>2. CASE outcome = UnexpectedExitError
    BY <1>4, <2>1, <2>2, ListsNone DEF UnexpectedExitError
  <2>3. CASE outcome = FromReason(Failure("run", "OutputTruncated"), HelperOutput)
    <3>1. KindOf(outcome.reason) # "UnexpectedExit"
      BY <1>4, <2>3, RunKinds
    <3> QED
      BY <1>4, <2>1, <2>3, <3>1, ListsNone
  <2> QED
    BY <1>1, <1>8, <2>2, <2>3
<1> QED
  BY <1>1, <1>5, <1>6, <1>7, <1>8 DEF OutcomeDue

\* The texts of a reason agree for every kind.
LEMMA TextsOfKinds == ASSUME NEW kind PROVE MessageFields(kind) = DebugFields(kind)
  BY DEF MessageFields, DebugFields

\* The invariant implies NothingIsHidden.
LEMMA ShownInErrors == InspectionInv => NothingIsHidden
<1> SUFFICES ASSUME InspectionInv, Failed
             PROVE  EverySourceReachable /\ MessageCountsFailures /\ TextsAgree
  BY DEF NothingIsHidden, EverySourceReachable, MessageCountsFailures, TextsAgree
<1>1. HistoryInv
  BY DEF InspectionInv
<1>2. /\ Lists(outcome.cleanup, Happened \ {outcome.reason})
      /\ outcome.reason \in Happened => outcome.reason \in Collectable
  BY OutcomeFacts
<1>3. EverySourceReachable
  <2> SUFFICES ASSUME NEW f \in Happened
               PROVE  f \in {Source(outcome)} \cup ToSet(outcome.cleanup)
    BY DEF EverySourceReachable
  <2>1. CASE f = outcome.reason
    <3>1. HasSource(KindOf(outcome.reason))
      BY <1>1, <1>2, <2>1, CollectableKinds
    <3> QED
      BY <2>1, <3>1 DEF Source
  <2>2. CASE f # outcome.reason
    BY <1>2, <2>2 DEF Lists, ToSet
  <2> QED
    BY <2>1, <2>2
<1>4. MessageCountsFailures
  BY <1>2, ListsCount DEF MessageCountsFailures, MessageCount
<1>5. TextsAgree
  <2>1. MessageFields(KindOf(outcome.reason)) = DebugFields(KindOf(outcome.reason))
    BY TextsOfKinds
  <2>2. ASSUME NEW i \in DOMAIN outcome.cleanup, Demoted(outcome.cleanup[i]) # <<>>,
               outcome.cleanup[i].what # "cancel"
        PROVE  CleanupFields(outcome.cleanup[i]) =
                   DebugFields(KindOf(outcome.cleanup[i])) \ {"stream"}
    <3> DEFINE f == outcome.cleanup[i]
    <3>1. f \in Happened
      BY <1>2 DEF Lists
    <3>2. f.at \in {"time", "stdout", "stderr", "stdin"}
      BY <2>2 DEF Demoted
    <3> HIDE DEF f
    <3>3. f \notin ToSet(process)
      BY <1>1, <3>2, StagesOfSets
    <3>4. f \notin AllCancelSet
      BY <2>2, StagesOfSets DEF AllCancelSet, f
    <3>5. f \in Collectable
      BY <1>1, <3>1, <3>3, <3>4, HappenedByStage DEF Collectable
    <3> QED
      BY <1>1, <3>5, CollectableKinds DEF f
  <2> QED
    BY <2>1, <2>2 DEF TextsAgree
<1> QED
  BY <1>3, <1>4, <1>5

\* For every combination of ends: whatever failed can be reached from the error,
\* as its source or as one of the cleanup failures, its message announces as many
\* failures as there are, and what the texts of a reason and of a demoted failure
\* mention is the same (Error::source, Display and Debug in command_error.rs,
\* command_error_reason.rs and command_cleanup_failure.rs).
THEOREM ErrorHidesNothing == InspectionSpec => []NothingIsHidden
  BY ShownInErrors, InspectionInvAlways, PTL

\* What the terminator failed to do is listed, and what the first failure of a
\* stage finds is listed.
LEMMA ProcessIsListed ==
    ASSUME InspectionInv, Failed
    PROVE  /\ outcome.cleanup \in Seq(StageFailure)
           /\ \A f \in ToSet(process) : \E i \in DOMAIN outcome.cleanup : outcome.cleanup[i] = f
           /\ \A i \in DOMAIN outcome.cleanup :
                 outcome.cleanup[i].at = "tree" => outcome.cleanup[i] \in ToSet(process)
<1>1. HistoryInv
  BY DEF InspectionInv
<1>2. /\ Lists(outcome.cleanup, Happened \ {outcome.reason})
      /\ outcome.reason \in Happened => outcome.reason \in Collectable
  BY OutcomeFacts
<1>3. Happened \subseteq StageFailure
  BY <1>1, HappenedIsSome
<1>4. outcome.cleanup \in Seq(StageFailure)
  BY <1>2, <1>3 DEF Lists
<1>5. Happened = ToSet(process) \cup AllCancelSet \cup Collectable
  BY <1>1, HappenedByStage DEF Collectable
<1>6. ToSet(process) \cap Collectable = {}
  BY <1>1, ProcessApart
<1>7. \A f \in AllCancelSet \cup Collectable : f.at # "tree"
  BY <1>1, CollectableStages, StagesOfSets DEF AllCancelSet
<1>8. ToSet(process) \subseteq Happened \ {outcome.reason}
  BY <1>2, <1>5, <1>6
<1> QED
  BY <1>2, <1>4, <1>5, <1>7, <1>8 DEF Lists

\* The invariant implies FateOfChildIsTold.
LEMMA FateInErrors == InspectionInv => FateOfChildIsTold
<1> SUFFICES ASSUME InspectionInv, Failed
             PROVE  SurvivorIsTold /\ UnexpectedExitIsExplained
  BY DEF FateOfChildIsTold, SurvivorIsTold, UnexpectedExitIsExplained
<1>1. HistoryInv /\ status \in Statuses
  BY DEF InspectionInv
<1>2. process \in Seq(ProcessFailure)
  BY <1>1, ReadyProcess, ReportAssumption DEF HistoryInv
<1>3. UnexpectedExitError.output = HelperOutput /\ HelperOutput # None
      /\ UnexpectedExitError.reason.code = status.code
  BY OutputIsSome DEF UnexpectedExitError, FromReason, UnexpectedExit
<1>4. ASSUME ~terminated
      PROVE  /\ ExitCode(outcome) = None
             /\ ChildSource(outcome) # None \/ FirstAt(outcome, "wait") # None
  <2>1. outcome.output = None /\ KindOf(outcome.reason) # "UnexpectedExit"
    BY <1>3, <1>4, OutcomeFacts
  <2>2. ExitCode(outcome) = None
    BY <2>1 DEF ExitCode
  <2> DEFINE last == process[Len(process)]
  <2>3. process # <<>> /\ last.at \in {"child", "wait"}
    BY <1>1, <1>4 DEF HistoryInv, TerminatorIsConsistent, Failure
  <2>4. last \in ToSet(process)
    BY <1>2, <2>3 DEF ToSet
  <2>5. PICK i \in DOMAIN outcome.cleanup : outcome.cleanup[i] = last
    BY <2>4, ProcessIsListed
  <2>6. FirstAt(outcome, last.at) # None
    BY <2>5, ProcessIsListed, FirstIsFound
  <2> QED
    BY <2>2, <2>3, <2>6 DEF ChildSource
<1>5. ProcessTreeSource(outcome) # None <=> \E i \in DOMAIN process : process[i].at = "tree"
  <2>1. ProcessTreeSource(outcome) # None
            <=> \E i \in DOMAIN outcome.cleanup : outcome.cleanup[i].at = "tree"
    BY ProcessIsListed, FirstIsFound DEF ProcessTreeSource
  <2>2. (\E i \in DOMAIN outcome.cleanup : outcome.cleanup[i].at = "tree")
            <=> \E f \in ToSet(process) : f.at = "tree"
    BY ProcessIsListed
  <2>3. (\E f \in ToSet(process) : f.at = "tree")
            <=> \E i \in DOMAIN process : process[i].at = "tree"
    BY DEF ToSet
  <2> QED
    BY <2>1, <2>2, <2>3
<1>6. ASSUME KindOf(outcome.reason) = "UnexpectedExit"
      PROVE  UnexpectedExitDetail(outcome) =
                 IF status.code # None THEN <<"code", status.code>>
                 ELSE <<"signal", status.signal>>
  <2>1. outcome.output # None /\ outcome.reason.code = status.code
    BY <1>3, <1>6, OutcomeFacts
  <2>2. (status.code = None) # (status.signal = None)
    BY <1>1, InspectionAssumption
  <2>3. CASE status.code = None
    BY <2>1, <2>2, <2>3 DEF UnexpectedExitDetail
  <2>4. CASE status.code # None
    BY <2>1, <2>2, <2>4 DEF UnexpectedExitDetail
  <2> QED
    BY <2>3, <2>4
<1> QED
  BY <1>4, <1>5, <1>6 DEF SurvivorIsTold, UnexpectedExitIsExplained

\* For every combination of ends: an error after which the child may still run
\* has no exit code and tells why it may, an error tells of the tree exactly when
\* killing it failed, and that of an unexpected exit gives the code or the signal
\* (terminate, exit_code, child_source, process_tree_source and
\* unexpected_exit_detail in command_error.rs).
THEOREM ErrorTellsFate == InspectionSpec => []FateOfChildIsTold
  BY FateInErrors, InspectionInvAlways, PTL
=============================================================================
