--------------------------- MODULE JobHistoryProofs ---------------------------
(***************************************************************************)
(* Proofs about JobHistory for any scopes, errors, limit, number of jobs   *)
(* and clock: unresolved_job_failures reports exactly the failures that    *)
(* are current, and pruning takes no row that is still needed.             *)
(***************************************************************************)
EXTENDS JobHistory, FiniteSetTheorems, TLAPS

-----------------------------------------------------------------------------
(* Numbers and sequences *)

(* Induction on an interval, about the set of the numbers that have a property. *)
LEMMA Induction ==
  ASSUME NEW N \in Nat, NEW P, 0 \in P, \A n \in 1..N : n - 1 \in P => n \in P
  PROVE  0..N \subseteq P
<1> SUFFICES ASSUME NEW k \in 0..N, k \notin P PROVE FALSE
  OBVIOUS
<1> DEFINE T == {n \in 0..N : n \notin P}
           R == OpToRel(<, Nat)
<1>1. IsWellFoundedOn(R, Nat)
  BY NatLessThanWellFounded
<1>2. \A x, y \in Nat : x < y => <<x, y>> \in R
  BY DEF OpToRel
<1> HIDE DEF R
<1>3. PICK x \in T : \A y \in T : ~(<<y, x>> \in R)
  <2>1. T \subseteq Nat /\ T # {}
    OBVIOUS
  <2> HIDE DEF T
  <2> QED
    BY <1>1, <2>1, WFMin
<1>4. x # 0 /\ x - 1 \in 0..N /\ x - 1 \notin P
  OBVIOUS
<1>5. x - 1 \in T /\ x - 1 \in Nat /\ x \in Nat /\ x - 1 < x
  BY <1>4
<1> HIDE DEF T
<1> QED
  BY <1>2, <1>3, <1>5

(* A value is carried through N steps, whatever each of them makes of it. *)
LEMMA Iterates ==
  ASSUME NEW S, NEW a \in S, NEW N \in Nat, NEW step \in [1..N -> [S -> S]]
  PROVE  \E f \in [0..N -> S] : f[0] = a /\ \A n \in 1..N : f[n] = step[n][f[n - 1]]
<1> DEFINE Upto(k, f) == f \in [0..N -> S] /\ f[0] = a /\ \A n \in 1..k : f[n] = step[n][f[n - 1]]
           P == {k \in 0..N : \E f : Upto(k, f)}
<1>1. 0 \in P
  <2>1. Upto(0, [n \in 0..N |-> a])
    OBVIOUS
  <2>2. 0 \in 0..N
    OBVIOUS
  <2> HIDE DEF Upto
  <2> QED
    BY <2>1, <2>2
<1>2. ASSUME NEW k \in 1..N, k - 1 \in P PROVE k \in P
  <2>1. PICK f : Upto(k - 1, f)
    BY <1>2
  <2> DEFINE g == [n \in 0..N |-> IF n = k THEN step[k][f[k - 1]] ELSE f[n]]
  <2>2. f[k - 1] \in S /\ step[k][f[k - 1]] \in S
    BY <2>1
  <2>3. g \in [0..N -> S] /\ g[0] = a
    BY <2>1, <2>2
  <2>4. ASSUME NEW n \in 1..k PROVE g[n] = step[n][g[n - 1]]
    <3>1. n \in 0..N /\ n - 1 \in 0..N /\ n - 1 # k
      OBVIOUS
    <3>2. g[n - 1] = f[n - 1]
      BY <3>1
    <3> QED
      BY <2>1, <3>1, <3>2
  <2>5. Upto(k, g)
    BY <2>3, <2>4
  <2>6. k \in 0..N
    OBVIOUS
  <2> HIDE DEF g, Upto
  <2> QED
    BY <2>5, <2>6
<1> HIDE DEF P
<1>3. N \in P
  <2>1. \A n \in 1..N : n - 1 \in P => n \in P
    BY <1>2
  <2>2. 0..N \subseteq P
    BY <1>1, <2>1, Induction
  <2> QED
    BY <2>2
<1> QED
  BY <1>3 DEF P

(* The elements of a sequence, and sequences over a larger set. *)
LEMMA ElementOf ==
  ASSUME NEW S, NEW s \in Seq(S), NEW n \in 1..Len(s)
  PROVE  s[n] \in S
  OBVIOUS

LEMMA SeqWithin ==
  ASSUME NEW S, NEW T, S \subseteq T, NEW s \in Seq(S)
  PROVE  s \in Seq(T)
  OBVIOUS

(* The elements of a finite set of numbers have the ranks 1, 2, ... *)
LEMMA Ranks ==
  ASSUME NEW P, P \subseteq Nat, IsFiniteSet(P), NEW k \in 1..Cardinality(P)
  PROVE  \E n \in P : Cardinality({m \in P : m <= n}) = k
<1> DEFINE Upto(x) == {y \in P : y <= x}
           rank == [x \in P |-> Cardinality(Upto(x))]
<1>1. PICK n \in Nat : n = Cardinality(P)
  BY FS_CardinalityType
<1>2. ASSUME NEW x \in P PROVE rank[x] \in 1..n
  <2>1. Upto(x) \in SUBSET P /\ {x} \in SUBSET Upto(x)
    OBVIOUS
  <2>2. IsFiniteSet(Upto(x)) /\ Cardinality(Upto(x)) <= n
    BY <1>1, <2>1, FS_Subset
  <2>3. Cardinality({x}) <= Cardinality(Upto(x)) /\ Cardinality({x}) = 1
    BY <2>1, <2>2, FS_Subset, FS_Singleton
  <2>4. Cardinality(Upto(x)) \in Nat
    BY <2>2, FS_CardinalityType
  <2> HIDE DEF Upto
  <2> QED
    BY <2>2, <2>3, <2>4
<1>3. ASSUME NEW x \in P, NEW y \in P, x < y PROVE rank[x] # rank[y]
  <2>0. x \in Nat /\ y \in Nat /\ P \subseteq Nat
    OBVIOUS
  <2>1. Upto(x) \in SUBSET Upto(y) /\ y \in Upto(y) /\ y \notin Upto(x)
    <3>1. ASSUME NEW z \in Upto(x) PROVE z \in Upto(y)
      <4>1. z \in P /\ z <= x /\ z \in Nat
        BY <2>0
      <4>2. z <= y
        BY <1>3, <2>0, <4>1
      <4> QED
        BY <4>1, <4>2
    <3>2. y <= y /\ ~(y <= x)
      BY <1>3, <2>0
    <3> QED
      BY <3>1, <3>2
  <2>2. Upto(y) \in SUBSET P
    OBVIOUS
  <2>3. IsFiniteSet(Upto(y))
    BY <2>2, FS_Subset
  <2>4. Cardinality(Upto(y)) = Cardinality(Upto(x)) => Upto(y) = Upto(x)
    BY <2>1, <2>3, FS_Subset
  <2> QED
    BY <2>1, <2>4
<1>4. \A x, y \in P : x # y => rank[x] # rank[y]
  <2> SUFFICES ASSUME NEW x \in P, NEW y \in P, x # y PROVE rank[x] # rank[y]
    OBVIOUS
  <2>1. x < y \/ y < x
    OBVIOUS
  <2> HIDE DEF rank
  <2> QED
    BY <1>3, <2>1
<1>5. rank \in [P -> 1..n]
  BY <1>2
<1>6. \A x \in P : rank[x] = Cardinality({m \in P : m <= x})
  OBVIOUS
<1> HIDE DEF rank
<1>7. rank \in Injection(P, 1..n)
  BY <1>4, <1>5 DEF Injection, IsInjective
<1>8. IsFiniteSet(1..n) /\ Cardinality(1..n) = n
  BY FS_Interval
<1>9. rank \in Surjection(P, 1..n)
  BY <1>1, <1>7, <1>8, FS_Injection
<1> QED
  BY <1>1, <1>6, <1>9 DEF Surjection

LEMMA SubsequenceFacts ==
  ASSUME NEW S, NEW s \in Seq(S), NEW places \in SUBSET DOMAIN s
  PROVE  /\ Subsequence(s, places) \in Seq({s[n] : n \in places})
         /\ Len(Subsequence(s, places)) = Cardinality(places)
         /\ Len(s) \in places =>
              /\ Cardinality(places) \in Nat \ {0}
              /\ Subsequence(s, places)[Cardinality(places)] = s[Len(s)]
<1> DEFINE Upto(n) == {m \in places : m <= n}
           place(k) == CHOOSE n \in places : Cardinality(Upto(n)) = k
<1>1. places \subseteq 1..Len(s) /\ Len(s) \in Nat
  OBVIOUS
<1>2. IsFiniteSet(places) /\ places \subseteq Nat
  <2>1. IsFiniteSet(1..Len(s))
    BY <1>1, FS_Interval
  <2> QED
    BY <1>1, <2>1, FS_Subset
<1>3. PICK c \in Nat : c = Cardinality(places)
  BY <1>2, FS_CardinalityType
<1>4. ASSUME NEW k \in 1..c PROVE place(k) \in places /\ Cardinality(Upto(place(k))) = k
  <2>1. k \in 1..Cardinality(places)
    BY <1>3
  <2>2. \E n \in places : Cardinality(Upto(n)) = k
    BY <1>2, <2>1, Ranks
  <2> HIDE DEF Upto
  <2> QED
    BY <2>2
<1>5. Subsequence(s, places) = [k \in 1..c |-> s[place(k)]]
  BY <1>3 DEF Subsequence
<1> HIDE DEF place
<1>6. Subsequence(s, places) \in Seq({s[n] : n \in places}) /\ Len(Subsequence(s, places)) = c
  <2>1. \A k \in 1..c : s[place(k)] \in {s[n] : n \in places}
    BY <1>4
  <2>2. Subsequence(s, places) \in [1..c -> {s[n] : n \in places}]
    BY <1>5, <2>1
  <2> QED
    BY <2>2
<1>7. ASSUME Len(s) \in places PROVE c # 0 /\ s[place(c)] = s[Len(s)]
  <2>1. c # 0
    BY <1>2, <1>3, <1>7, FS_EmptySet
  <2>2. c \in 1..c
    BY <2>1
  <2>3. place(c) \in places /\ Cardinality(Upto(place(c))) = c
    BY <1>4, <2>2
  <2>4. Upto(place(c)) \in SUBSET places
    OBVIOUS
  <2>5. Upto(place(c)) = places
    BY <1>2, <1>3, <2>3, <2>4, FS_Subset
  <2>6. Len(s) <= place(c)
    BY <1>7, <2>5
  <2>7. place(c) = Len(s)
    BY <1>1, <2>3, <2>6
  <2> QED
    BY <2>1, <2>7
<1>8. c # 0 => Subsequence(s, places)[c] = s[place(c)]
  BY <1>5
<1> QED
  BY <1>3, <1>6, <1>7, <1>8

-----------------------------------------------------------------------------
(* The loop of unresolved_job_failures *)

Accumulators(R) ==
    [successes : SUBSET Subjects, visited : SUBSET Subjects, recorded : SUBSET R,
     unresolved : SUBSET (R \X Subjects)]
Untouched == [successes |-> {}, visited |-> {}, recorded |-> {}, unresolved |-> {}]

(* The loop visits the outcomes one by one and keeps its accumulators well formed. *)
LEMMA ScanSteps ==
  ASSUME HistoryTypeOK
  PROVE  /\ Scan \in [0..Len(outcomes) -> Accumulators(rows)]
         /\ Scan[0] = Untouched
         /\ \A n \in 1..Len(outcomes) : Scan[n] = Visit(Scan[n - 1], NthOutcome(n))
<1> DEFINE S == Accumulators(rows)
           L == Len(outcomes)
           step == [n \in 1..L |-> [acc \in S |-> Visit(acc, NthOutcome(n))]]
<1>1. L \in Nat
  BY DEF HistoryTypeOK
<1>2. ASSUME NEW acc \in S, NEW n \in 1..L PROVE Visit(acc, NthOutcome(n)) \in S
  <2>1. NthOutcome(n) \in [job : rows, subject : Subjects, ok : BOOLEAN]
    <3>1. L - n + 1 \in 1..L
      BY <1>1
    <3>2. outcomes \in Seq([job : rows, subject : Subjects, ok : BOOLEAN])
      BY DEF HistoryTypeOK
    <3>3. outcomes[L - n + 1] \in [job : rows, subject : Subjects, ok : BOOLEAN]
      BY <3>1, <3>2, ElementOf
    <3> QED
      BY <3>3 DEF NthOutcome
  <2>2. PICK o \in [job : rows, subject : Subjects, ok : BOOLEAN] : o = NthOutcome(n)
    BY <2>1
  <2>3. /\ acc.successes \in SUBSET Subjects /\ acc.visited \in SUBSET Subjects
        /\ acc.recorded \in SUBSET rows /\ acc.unresolved \in SUBSET (rows \X Subjects)
    BY DEF Accumulators
  <2>4. o.job \in rows /\ o.subject \in Subjects /\ <<o.job, o.subject>> \in rows \X Subjects
    OBVIOUS
  <2>5. [acc EXCEPT !.successes = @ \cup {o.subject}] \in S
    BY <2>3, <2>4 DEF Accumulators
  <2>6. [acc EXCEPT !.recorded = @ \cup {o.job}] \in S
    BY <2>3, <2>4 DEF Accumulators
  <2>7. \A us \in SUBSET (rows \X Subjects) :
          [acc EXCEPT !.recorded = @ \cup {o.job}, !.visited = @ \cup {o.subject},
                      !.unresolved = us] \in S
    BY <2>3, <2>4 DEF Accumulators
  <2>8. acc.unresolved \cup {<<o.job, o.subject>>} \in SUBSET (rows \X Subjects)
    BY <2>3, <2>4
  <2> HIDE DEF L, S
  <2> QED
    BY <2>2, <2>3, <2>5, <2>6, <2>7, <2>8 DEF Visit
<1>3. step \in [1..L -> [S -> S]]
  BY <1>2
<1>4. Untouched \in S
  BY DEF Untouched, Accumulators
<1>5. PICK f \in [0..L -> S] : f[0] = Untouched /\ \A n \in 1..L : f[n] = step[n][f[n - 1]]
  <2> HIDE DEF L, S, step
  <2> QED
    BY <1>1, <1>3, <1>4, Iterates
<1> DEFINE eq(g) == g = [n \in 0..L |-> IF n = 0 THEN Untouched ELSE Visit(g[n - 1], NthOutcome(n))]
<1>6. eq(f)
  <2>1. \A n \in 0..L : f[n] = IF n = 0 THEN Untouched ELSE Visit(f[n - 1], NthOutcome(n))
    <3> SUFFICES ASSUME NEW n \in 0..L, n # 0 PROVE f[n] = Visit(f[n - 1], NthOutcome(n))
      BY <1>5
    <3>1. n \in 1..L /\ n - 1 \in 0..L
      BY <1>1
    <3>2. f[n - 1] \in S
      BY <1>5, <3>1
    <3> HIDE DEF L, S
    <3> QED
      BY <1>5, <3>1, <3>2
  <2> HIDE DEF L, S
  <2> QED
    BY <2>1, <1>5
<1>7. eq(Scan)
  BY <1>6, Zenon DEF Scan, Untouched
<1>8. /\ Scan = [n \in 0..L |-> Scan[n]] /\ Scan[0] = Untouched
      /\ \A n \in 1..L : Scan[n] = Visit(Scan[n - 1], NthOutcome(n))
  <2>1. PICK g : g = Scan
    OBVIOUS
  <2>2. eq(g)
    BY <1>7, <2>1
  <2>3. \A n \in 1..L : n \in 0..L /\ n # 0
    BY <1>1
  <2>4. 0 \in 0..L
    BY <1>1
  <2>5. \A n \in 0..L : g[n] = IF n = 0 THEN Untouched ELSE Visit(g[n - 1], NthOutcome(n))
    BY <2>2
  <2>6. g = [n \in 0..L |-> g[n]]
    BY <2>2
  <2> HIDE DEF L, eq
  <2> QED
    BY <2>1, <2>3, <2>4, <2>5, <2>6
<1> DEFINE P == {n \in 0..L : Scan[n] \in S}
<1>9. 0..L \subseteq P
  <2> HIDE DEF S
  <2>1. 0 \in P
    BY <1>1, <1>4, <1>8
  <2>2. ASSUME NEW n \in 1..L, n - 1 \in P PROVE n \in P
    <3>1. n \in 0..L /\ Scan[n - 1] \in S
      BY <1>1, <2>2
    <3>2. Scan[n] \in S
      BY <1>2, <1>8, <3>1
    <3> QED
      BY <3>1, <3>2
  <2> HIDE DEF P, L
  <2> QED
    BY <1>1, <2>1, <2>2, Induction
<1> QED
  BY <1>8, <1>9

(* The places the loop has seen after n outcomes, and what it is to have found there. *)
Seen(n) == (Len(outcomes) - n + 1)..Len(outcomes)
IsCurrent(m) ==
    /\ FailureAt(m)
    /\ \A k \in (m + 1)..Len(outcomes) :
         outcomes[k].subject = outcomes[m].subject => ~outcomes[k].ok /\ ~FailureAt(k)
    /\ ~NewerHealthyObservation(outcomes[m].job, outcomes[m].subject)

Found(n) ==
    [successes |-> {outcomes[m].subject : m \in {k \in Seen(n) : outcomes[k].ok}},
     visited |-> {outcomes[m].subject : m \in {k \in Seen(n) : FailureAt(k)}},
     recorded |-> {outcomes[m].job : m \in {k \in Seen(n) : ~outcomes[k].ok}},
     unresolved |-> {<<outcomes[m].job, outcomes[m].subject>> :
                       m \in {k \in Seen(n) : IsCurrent(k)}}]

(* The updates of the accumulators. *)
LEMMA Updates ==
  ASSUME NEW s, NEW v, NEW r, NEW u, NEW x, NEW y, NEW z,
         NEW acc, acc = [successes |-> s, visited |-> v, recorded |-> r, unresolved |-> u]
  PROVE  /\ [acc EXCEPT !.successes = @ \cup x] =
              [successes |-> s \cup x, visited |-> v, recorded |-> r, unresolved |-> u]
         /\ [acc EXCEPT !.recorded = @ \cup x] =
              [successes |-> s, visited |-> v, recorded |-> r \cup x, unresolved |-> u]
         /\ [acc EXCEPT !.recorded = @ \cup x, !.visited = @ \cup y, !.unresolved = z] =
              [successes |-> s, visited |-> v \cup y, recorded |-> r \cup x, unresolved |-> z]
<1>1. [acc EXCEPT !.successes = @ \cup x] =
        [successes |-> s \cup x, visited |-> v, recorded |-> r, unresolved |-> u]
  OBVIOUS
<1>2. [acc EXCEPT !.recorded = @ \cup x] =
        [successes |-> s, visited |-> v, recorded |-> r \cup x, unresolved |-> u]
  OBVIOUS
<1>3. [acc EXCEPT !.recorded = @ \cup x, !.visited = @ \cup y, !.unresolved = z] =
        [successes |-> s, visited |-> v \cup y, recorded |-> r \cup x, unresolved |-> z]
  <2> DEFINE new == [acc EXCEPT !.recorded = @ \cup x, !.visited = @ \cup y, !.unresolved = z]
  <2>1. /\ new.successes = s /\ new.visited = v \cup y /\ new.recorded = r \cup x
        /\ new.unresolved = z
    OBVIOUS
  <2>2. new = [f \in {"successes", "visited", "recorded", "unresolved"} |-> new[f]]
    OBVIOUS
  <2> HIDE DEF new
  <2>3. new = [successes |-> s, visited |-> v \cup y, recorded |-> r \cup x, unresolved |-> z]
    BY <2>1, <2>2
  <2> QED
    BY <2>3 DEF new
<1> QED
  BY <1>1, <1>2, <1>3

(* What one more outcome adds to what is found. *)
LEMMA FoundStep ==
  ASSUME HistoryTypeOK, NEW n \in 1..Len(outcomes)
  PROVE  Visit(Found(n - 1), NthOutcome(n)) = Found(n)
<1> DEFINE L == Len(outcomes)
           p == L - n + 1
<1>1. L \in Nat /\ outcomes \in Seq([job : rows, subject : Subjects, ok : BOOLEAN])
  BY DEF HistoryTypeOK
<1>2. p \in 1..L /\ Seen(n) = Seen(n - 1) \cup {p} /\ p \notin Seen(n - 1)
      /\ Seen(n - 1) = (p + 1)..L
  BY <1>1 DEF Seen
<1>3. PICK o \in [job : rows, subject : Subjects, ok : BOOLEAN] : o = outcomes[p]
  BY <1>1, <1>2, ElementOf
<1>4. NthOutcome(n) = o
  BY <1>3 DEF NthOutcome
<1> HIDE DEF p, L
<1> DEFINE old == Found(n - 1)
           resolved == \/ o.subject \in old.visited \cup old.successes
                       \/ NewerHealthyObservation(o.job, o.subject)
<1>5. FailureAt(p) <=> ~o.ok /\ o.job \in RecentJobs
  BY <1>3 DEF FailureAt
<1>6. FailureAt(p) => (IsCurrent(p) <=> ~resolved)
  <2>1. o.subject \in old.visited <=> \E k \in (p + 1)..L : FailureAt(k) /\ outcomes[k].subject = o.subject
    BY <1>2 DEF Found
  <2>2. o.subject \in old.successes <=> \E k \in (p + 1)..L : outcomes[k].ok /\ outcomes[k].subject = o.subject
    BY <1>2 DEF Found
  <2>3. IsCurrent(p) <=>
          /\ FailureAt(p)
          /\ \A k \in (p + 1)..L : outcomes[k].subject = o.subject => ~outcomes[k].ok /\ ~FailureAt(k)
          /\ ~NewerHealthyObservation(o.job, o.subject)
    BY <1>3 DEF IsCurrent, L
  <2> QED
    BY <2>1, <2>2, <2>3
<1>7. Found(n).successes = old.successes \cup (IF o.ok THEN {o.subject} ELSE {})
  BY <1>2, <1>3 DEF Found
<1>8. Found(n).recorded = old.recorded \cup (IF o.ok THEN {} ELSE {o.job})
  BY <1>2, <1>3 DEF Found
<1>9. Found(n).visited = old.visited \cup (IF FailureAt(p) THEN {o.subject} ELSE {})
  BY <1>2, <1>3 DEF Found
<1>10. Found(n).unresolved = old.unresolved \cup (IF IsCurrent(p) THEN {<<o.job, o.subject>>} ELSE {})
  BY <1>2, <1>3 DEF Found
<1>11. IsCurrent(p) => FailureAt(p)
  BY DEF IsCurrent
<1>12. /\ old = [successes |-> old.successes, visited |-> old.visited,
                 recorded |-> old.recorded, unresolved |-> old.unresolved]
       /\ Found(n) = [successes |-> Found(n).successes, visited |-> Found(n).visited,
                      recorded |-> Found(n).recorded, unresolved |-> Found(n).unresolved]
  BY DEF Found
<1> HIDE DEF old
<1>13. CASE o.ok
  <2>1. Visit(old, o) = [old EXCEPT !.successes = @ \cup {o.subject}]
    BY <1>13 DEF Visit
  <2>2. Visit(old, o) = [successes |-> old.successes \cup {o.subject}, visited |-> old.visited,
                         recorded |-> old.recorded, unresolved |-> old.unresolved]
    BY <1>12, <2>1, Updates
  <2>3. /\ Found(n).successes = old.successes \cup {o.subject} /\ Found(n).visited = old.visited
        /\ Found(n).recorded = old.recorded /\ Found(n).unresolved = old.unresolved
    BY <1>5, <1>7, <1>8, <1>9, <1>10, <1>11, <1>13
  <2>4. Found(n) = Visit(old, o)
    BY <1>12, <2>2, <2>3, Zenon
  <2> QED
    BY <1>4, <2>4 DEF old
<1>14. CASE ~o.ok /\ o.job \notin RecentJobs
  <2>1. Visit(old, o) = [old EXCEPT !.recorded = @ \cup {o.job}]
    BY <1>14 DEF Visit
  <2>2. Visit(old, o) = [successes |-> old.successes, visited |-> old.visited,
                         recorded |-> old.recorded \cup {o.job}, unresolved |-> old.unresolved]
    BY <1>12, <2>1, Updates
  <2>3. /\ Found(n).successes = old.successes /\ Found(n).visited = old.visited
        /\ Found(n).recorded = old.recorded \cup {o.job} /\ Found(n).unresolved = old.unresolved
    BY <1>5, <1>7, <1>8, <1>9, <1>10, <1>11, <1>14
  <2>4. Found(n) = Visit(old, o)
    BY <1>12, <2>2, <2>3, Zenon
  <2> QED
    BY <1>4, <2>4 DEF old
<1>15. CASE FailureAt(p)
  <2> DEFINE us == IF resolved THEN old.unresolved ELSE old.unresolved \cup {<<o.job, o.subject>>}
  <2>1. Visit(old, o) = [old EXCEPT !.recorded = @ \cup {o.job}, !.visited = @ \cup {o.subject},
                                    !.unresolved = us]
    BY <1>5, <1>15 DEF Visit
  <2> HIDE DEF us
  <2>2. Visit(old, o) = [successes |-> old.successes, visited |-> old.visited \cup {o.subject},
                         recorded |-> old.recorded \cup {o.job}, unresolved |-> us]
    BY <1>12, <2>1, Updates
  <2>3. /\ Found(n).successes = old.successes /\ Found(n).visited = old.visited \cup {o.subject}
        /\ Found(n).recorded = old.recorded \cup {o.job}
    BY <1>5, <1>7, <1>8, <1>9, <1>15
  <2>4. Found(n).unresolved = us
    <3> HIDE DEF resolved
    <3> QED
      BY <1>6, <1>10, <1>15 DEF us
  <2>5. Found(n) = Visit(old, o)
    BY <1>12, <2>2, <2>3, <2>4, Zenon
  <2> QED
    BY <1>4, <2>5 DEF old
<1> QED
  BY <1>5, <1>13, <1>14, <1>15

(* The loop's accumulators are what there is to find. *)
LEMMA ScanFinds ==
  ASSUME HistoryTypeOK
  PROVE  \A n \in 0..Len(outcomes) : Scan[n] = Found(n)
<1> DEFINE P == {n \in 0..Len(outcomes) : Scan[n] = Found(n)}
<1>1. Len(outcomes) \in Nat
  BY DEF HistoryTypeOK
<1>2. 0 \in P
  <2>1. Seen(0) = {}
    BY <1>1 DEF Seen
  <2>2. Found(0) = Untouched
    BY <2>1 DEF Found, Untouched
  <2> QED
    BY <1>1, <2>2, ScanSteps
<1>3. ASSUME NEW n \in 1..Len(outcomes), n - 1 \in P PROVE n \in P
  <2>1. n \in 0..Len(outcomes) /\ Scan[n - 1] = Found(n - 1)
    BY <1>1, <1>3
  <2>2. Scan[n] = Found(n)
    BY <2>1, ScanSteps, FoundStep
  <2> QED
    BY <2>1, <2>2
<1>4. 0..Len(outcomes) \subseteq P
  <2> HIDE DEF P
  <2> QED
    BY <1>1, <1>2, <1>3, Induction
<1> QED
  BY <1>4

(* After the loop. *)
LEMMA ScanResult ==
  ASSUME HistoryTypeOK
  PROVE  /\ Scan[Len(outcomes)].unresolved = CurrentFailures
         /\ Scan[Len(outcomes)] = Found(Len(outcomes))
         /\ Seen(Len(outcomes)) = 1..Len(outcomes)
<1>1. Len(outcomes) \in Nat
  BY DEF HistoryTypeOK
<1>2. Len(outcomes) \in 0..Len(outcomes) /\ Seen(Len(outcomes)) = 1..Len(outcomes)
  BY <1>1 DEF Seen
<1>3. Scan[Len(outcomes)] = Found(Len(outcomes))
  BY <1>2, ScanFinds
<1>4. Found(Len(outcomes)).unresolved = CurrentFailures
  BY <1>2 DEF Found, CurrentFailures, IsCurrent, NewerHealthyObservation
<1> QED
  BY <1>2, <1>3, <1>4

(* Of two rows one is newer. *)
LEMMA NewerTotal ==
  ASSUME HistoryTypeOK, NEW i \in rows, NEW k \in rows, i # k
  PROVE  Newer(job, i, k) \/ Newer(job, k, i)
<1>1. /\ i \in Ids /\ k \in Ids /\ job[i].started \in 0..MaxTime /\ job[k].started \in 0..MaxTime
  BY DEF HistoryTypeOK
<1>2. i \in Nat /\ k \in Nat
  BY <1>1, HistoryAssumption DEF Ids
<1>3. job[i].started \in Nat /\ job[k].started \in Nat
  BY <1>1, HistoryAssumption
<1> QED
  BY <1>2, <1>3 DEF Newer

(* A failure that is reported: an outcome that is current, or a failed row without one. *)
Reported(m, f) == m \in 1..Len(outcomes) /\ IsCurrent(m) /\ f = <<outcomes[m].job, outcomes[m].subject>>

(* A row of the second pass: no outcome of its subject was a success or a recent failure. *)
Legacy(i, f) ==
    /\ i \in rows /\ f = <<i, SubjectOf(job[i].scope)>>
    /\ ~NewerHealthyObservation(f[1], f[2])
    /\ \A m \in 1..Len(outcomes) :
         outcomes[m].subject = f[2] => ~outcomes[m].ok /\ ~FailureAt(m)

LEMMA ReportedOrLegacy ==
  ASSUME HistoryTypeOK, NEW f \in UnresolvedJobFailures
  PROVE  (\E m \in 1..Len(outcomes) : Reported(m, f)) \/ (\E i \in rows : Legacy(i, f))
<1> DEFINE acc == Scan[Len(outcomes)]
<1>1. CASE f \in acc.unresolved
  <2>1. f \in Found(Len(outcomes)).unresolved
    BY <1>1, ScanResult
  <2> QED
    BY <2>1, ScanResult DEF Found, Reported
<1>2. CASE f \in LegacyFailures
  <2>1. PICK i \in RecentJobs :
          /\ f = <<i, SubjectOf(job[i].scope)>>
          /\ SubjectOf(job[i].scope) \notin acc.visited \cup acc.successes
          /\ ~NewerHealthyObservation(i, SubjectOf(job[i].scope))
    BY <1>2 DEF LegacyFailures
  <2>2. i \in rows
    BY DEF RecentJobs, Newest
  <2>3. /\ acc.visited = {outcomes[m].subject : m \in {k \in 1..Len(outcomes) : FailureAt(k)}}
        /\ acc.successes = {outcomes[m].subject : m \in {k \in 1..Len(outcomes) : outcomes[k].ok}}
    BY ScanResult DEF Found
  <2> HIDE DEF acc
  <2>4. \A m \in 1..Len(outcomes) :
          outcomes[m].subject = f[2] => ~outcomes[m].ok /\ ~FailureAt(m)
    BY <2>1, <2>3
  <2> QED
    BY <2>1, <2>2, <2>4 DEF Legacy
<1> QED
  BY <1>1, <1>2 DEF UnresolvedJobFailures

(* No two failures of the second pass are about one subject. *)
LEMMA LegacyOnce ==
  ASSUME HistoryTypeOK, NEW f \in LegacyFailures, NEW g \in LegacyFailures, f[2] = g[2]
  PROVE  f = g
<1> DEFINE legacy == {i \in RecentJobs : job[i].status = "failed" /\ i \notin Scan[Len(outcomes)].recorded}
<1>1. ASSUME NEW h \in LegacyFailures
      PROVE  \E i \in legacy :
               /\ h = <<i, SubjectOf(job[i].scope)>>
               /\ \A k \in legacy : Newer(job, k, i) => SubjectOf(job[k].scope) # SubjectOf(job[i].scope)
  BY DEF LegacyFailures
<1>2. legacy \subseteq rows
  BY DEF RecentJobs, Newest
<1> HIDE DEF legacy
<1>3. PICK i \in legacy :
        /\ f = <<i, SubjectOf(job[i].scope)>>
        /\ \A k \in legacy : Newer(job, k, i) => SubjectOf(job[k].scope) # SubjectOf(job[i].scope)
  BY <1>1
<1>4. PICK k \in legacy :
        /\ g = <<k, SubjectOf(job[k].scope)>>
        /\ \A j \in legacy : Newer(job, j, k) => SubjectOf(job[j].scope) # SubjectOf(job[k].scope)
  BY <1>1
<1>5. SubjectOf(job[i].scope) = SubjectOf(job[k].scope)
  BY <1>3, <1>4
<1>6. i = k
  BY <1>2, <1>3, <1>4, <1>5, NewerTotal
<1> QED
  BY <1>3, <1>4, <1>6

(* unresolved_job_failures names a subject once. *)
LEMMA SubjectOnce ==
  ASSUME HistoryTypeOK, NEW f \in UnresolvedJobFailures, NEW g \in UnresolvedJobFailures, f[2] = g[2]
  PROVE  f = g
<1>1. ASSUME NEW h, NEW m \in 1..Len(outcomes), Reported(m, h)
      PROVE  h[2] = outcomes[m].subject /\ FailureAt(m) /\ IsCurrent(m)
  BY <1>1 DEF Reported, IsCurrent
<1>2. CASE (\E m \in 1..Len(outcomes) : Reported(m, f)) /\ \E m \in 1..Len(outcomes) : Reported(m, g)
  <2>1. PICK m \in 1..Len(outcomes) : Reported(m, f)
    BY <1>2
  <2>2. PICK k \in 1..Len(outcomes) : Reported(k, g)
    BY <1>2
  <2>3. Len(outcomes) \in Nat
    BY DEF HistoryTypeOK
  <2>4. outcomes[m].subject = outcomes[k].subject
    BY <1>1, <2>1, <2>2
  <2>5. ~(m < k)
    <3> SUFFICES ASSUME m < k PROVE FALSE
      OBVIOUS
    <3>1. k \in (m + 1)..Len(outcomes)
      BY <2>3
    <3> QED
      BY <1>1, <2>1, <2>2, <2>4, <3>1 DEF IsCurrent
  <2>6. ~(k < m)
    <3> SUFFICES ASSUME k < m PROVE FALSE
      OBVIOUS
    <3>1. m \in (k + 1)..Len(outcomes)
      BY <2>3
    <3> QED
      BY <1>1, <2>1, <2>2, <2>4, <3>1 DEF IsCurrent
  <2>7. m = k
    BY <2>3, <2>5, <2>6
  <2> QED
    BY <2>1, <2>2, <2>7 DEF Reported
<1>3. ASSUME NEW h, NEW m \in 1..Len(outcomes), Reported(m, h), NEW j, NEW i \in rows, Legacy(i, j)
      PROVE  h[2] # j[2]
  BY <1>1, <1>3 DEF Legacy
<1>4. CASE f \in LegacyFailures /\ g \in LegacyFailures
  BY <1>4, LegacyOnce
<1>5. ASSUME NEW h \in UnresolvedJobFailures, h \notin LegacyFailures
      PROVE  \E m \in 1..Len(outcomes) : Reported(m, h)
  <2>1. h \in Found(Len(outcomes)).unresolved
    BY <1>5, ScanResult DEF UnresolvedJobFailures
  <2> QED
    BY <2>1, ScanResult DEF Found, Reported
<1> QED
  BY <1>2, <1>3, <1>4, <1>5, ReportedOrLegacy

(* What is not recorded again is still going on. *)
LEMMA EpisodeGoesOn ==
  ASSUME HistoryTypeOK, NEW f \in UnresolvedJobFailures
  PROVE  /\ ~NewerHealthyObservation(f[1], f[2])
         /\ \A n \in 1..Len(outcomes) :
              outcomes[n].ok /\ outcomes[n].subject = f[2]
                => \E m \in (n + 1)..Len(outcomes) : outcomes[m].job = f[1] /\ ~outcomes[m].ok
<1>1. CASE \E m \in 1..Len(outcomes) : Reported(m, f)
  <2>1. PICK m \in 1..Len(outcomes) : Reported(m, f)
    BY <1>1
  <2>2. /\ f[1] = outcomes[m].job /\ f[2] = outcomes[m].subject
        /\ ~NewerHealthyObservation(f[1], f[2]) /\ ~outcomes[m].ok
    BY <2>1 DEF Reported, IsCurrent, FailureAt
  <2>3. \A k \in (m + 1)..Len(outcomes) : outcomes[k].subject = f[2] => ~outcomes[k].ok
    BY <2>1, <2>2 DEF Reported, IsCurrent
  <2>4. ASSUME NEW n \in 1..Len(outcomes), outcomes[n].ok, outcomes[n].subject = f[2]
        PROVE  m \in (n + 1)..Len(outcomes)
    <3>1. Len(outcomes) \in Nat
      BY DEF HistoryTypeOK
    <3>2. n \notin (m + 1)..Len(outcomes) /\ n # m
      BY <2>2, <2>3, <2>4
    <3> QED
      BY <3>1, <3>2
  <2> QED
    BY <2>2, <2>4
<1>2. CASE \E i \in rows : Legacy(i, f)
  BY <1>2 DEF Legacy
<1> QED
  BY <1>1, <1>2, ReportedOrLegacy

(* What the report says, in every well-formed history. *)
LEMMA ReportIsCurrent ==
  HistoryTypeOK => UnresolvedIsCurrent
<1> SUFFICES ASSUME HistoryTypeOK PROVE UnresolvedIsCurrent
  OBVIOUS
<1>1. DedupOnlyWithinEpisode
  BY EpisodeGoesOn DEF DedupOnlyWithinEpisode, AlreadyRecorded
<1>2. \A f, g \in UnresolvedJobFailures : f[2] = g[2] => f = g
  BY SubjectOnce
<1> QED
  BY <1>1, <1>2, ScanResult DEF UnresolvedIsCurrent

-----------------------------------------------------------------------------
(* What the writers of the history insert and prune *)

Outcomes(set) == [job : set, subject : Subjects, ok : BOOLEAN]
JobRecords == [scope : Scopes \cup {"none"}, status : {"none", "running", "succeeded", "failed"},
               started : 0..MaxTime, finished : 0..MaxTime, error : Errors \cup {"none"}]

LEMMA SubjectType ==
  ASSUME NEW s \in AllScopes
  PROVE  SubjectOf(s) \in Subjects
  BY DEF AllScopes, SubjectOf, Subjects

LEMMA CoverageType ==
  ASSUME NEW s \in AllScopes, NEW ok \in SUBSET {"project"}, NEW demanded \in BOOLEAN
  PROVE  Coverage(s, ok, demanded) \in SUBSET Subjects
<1>1. SystemCoverage(ok, demanded) \in SUBSET Subjects
  BY DEF SystemCoverage, Subjects
<1> QED
  BY <1>1 DEF Coverage, AllScopes, Subjects

(* The list of subjects, in which each has one place. *)
LEMMA OrderOfSubjects ==
  ASSUME NEW order, order = <<"assessment", "system", "gateway", "project", "resource">>
  PROVE  /\ order \in Seq(Subjects) /\ DOMAIN order = 1..5
         /\ \A s \in Subjects : \E n \in 1..5 : {m \in 1..5 : order[m] = s} = {n}
<1>1. order \in Seq(Subjects) /\ DOMAIN order = 1..5
  BY DEF Subjects
<1>2. order[1] = "assessment" /\ order[2] = "system" /\ order[3] = "gateway" /\ order[4] = "project"
      /\ order[5] = "resource"
  OBVIOUS
<1>3. \A m \in 1..5 : m = 1 \/ m = 2 \/ m = 3 \/ m = 4 \/ m = 5
  OBVIOUS
<1>4. ASSUME NEW s \in Subjects PROVE \E n \in 1..5 : {m \in 1..5 : order[m] = s} = {n}
  <2>1. PICK n \in 1..5 : order[n] = s
    BY <1>2 DEF Subjects
  <2>2. \A m \in 1..5 : order[m] = s => m = n
    BY <1>2, <1>3, <2>1
  <2> QED
    BY <2>1, <2>2
<1> QED
  BY <1>1, <1>4

LEMMA InsertType ==
  ASSUME NEW set, NEW os \in Seq(Outcomes(set)), NEW i \in set, NEW subjects \in SUBSET Subjects,
         NEW ok \in BOOLEAN
  PROVE  InsertOutcomes(os, i, subjects, ok) \in Seq(Outcomes(set))
<1> DEFINE recorded == {os[n].subject : n \in {n \in 1..Len(os) : os[n].job = i /\ os[n].ok = ok}}
           order == <<"assessment", "system", "gateway", "project", "resource">>
           places == {n \in DOMAIN order : order[n] \in subjects \ recorded}
           new == Subsequence(order, places)
           added == [n \in 1..Len(new) |-> [job |-> i, subject |-> new[n], ok |-> ok]]
<1>1. order \in Seq(Subjects) /\ places \in SUBSET DOMAIN order
  BY OrderOfSubjects
<1> HIDE DEF order, recorded
<1>2. new \in Seq({order[n] : n \in places})
  <2> HIDE DEF places
  <2> QED
    BY <1>1, SubsequenceFacts
<1>3. {order[n] : n \in places} \subseteq Subjects
  OBVIOUS
<1>4. new \in Seq(Subjects)
  <2> HIDE DEF new, places
  <2> QED
    BY <1>2, <1>3, SeqWithin
<1> HIDE DEF new
<1>5. Len(new) \in Nat /\ \A n \in 1..Len(new) : new[n] \in Subjects
  BY <1>4
<1>6. \A n \in 1..Len(new) : [job |-> i, subject |-> new[n], ok |-> ok] \in Outcomes(set)
  BY <1>5 DEF Outcomes
<1>7. added \in Seq(Outcomes(set))
  <2>1. added \in [1..Len(new) -> Outcomes(set)]
    BY <1>6
  <2> HIDE DEF added
  <2> QED
    BY <1>5, <2>1
<1>8. InsertOutcomes(os, i, subjects, ok) = os \o added
  BY DEF InsertOutcomes, new, places, order, recorded
<1> HIDE DEF added
<1> QED
  BY <1>7, <1>8

(* The first outcome of a job. *)
LEMMA InsertFirst ==
  ASSUME NEW set, NEW os \in Seq(Outcomes(set)), NEW i, i \notin set, NEW s \in Subjects,
         NEW ok \in BOOLEAN
  PROVE  InsertOutcomes(os, i, {s}, ok) = Append(os, [job |-> i, subject |-> s, ok |-> ok])
<1> DEFINE recorded == {os[n].subject : n \in {n \in 1..Len(os) : os[n].job = i /\ os[n].ok = ok}}
           order == <<"assessment", "system", "gateway", "project", "resource">>
           places == {n \in DOMAIN order : order[n] \in {s} \ recorded}
           new == Subsequence(order, places)
           o == [job |-> i, subject |-> s, ok |-> ok]
           added == [n \in 1..Len(new) |-> [job |-> i, subject |-> new[n], ok |-> ok]]
<1>1. recorded = {}
  <2>1. ASSUME NEW n \in 1..Len(os) PROVE os[n].job # i
    <3>1. os[n] \in Outcomes(set)
      BY ElementOf
    <3> QED
      BY <3>1 DEF Outcomes
  <2> QED
    BY <2>1
<1> HIDE DEF recorded
<1>2. order \in Seq(Subjects) /\ DOMAIN order = 1..5
  BY OrderOfSubjects
<1>3. PICK n \in 1..5 : {m \in 1..5 : order[m] = s} = {n}
  BY OrderOfSubjects
<1> HIDE DEF order
<1>4. places = {n} /\ order[n] = s
  <2>1. places = {m \in 1..5 : order[m] = s}
    BY <1>1, <1>2
  <2> QED
    BY <1>3, <2>1
<1>5. Cardinality({n}) = 1
  BY FS_Singleton
<1>6. new \in Seq({order[m] : m \in {n}}) /\ Len(new) = 1
  <2>1. {n} \in SUBSET DOMAIN order
    BY <1>2
  <2> HIDE DEF places
  <2> QED
    BY <1>2, <1>4, <1>5, <2>1, SubsequenceFacts
<1> HIDE DEF new
<1>7. new[1] = s
  <2>1. new[1] \in {order[m] : m \in {n}}
    BY <1>6
  <2> QED
    BY <1>4, <2>1
<1>8. added = <<o>>
  <2> HIDE DEF o
  <2>1. added = [k \in 1..1 |-> o]
    BY <1>6, <1>7 DEF o
  <2> HIDE DEF added
  <2> QED
    BY <2>1
<1>9. InsertOutcomes(os, i, {s}, ok) = os \o added
  BY DEF InsertOutcomes, new, places, order, recorded
<1> HIDE DEF added, o
<1>10. os \o <<o>> = Append(os, o)
  OBVIOUS
<1> QED
  BY <1>8, <1>9, <1>10 DEF o

LEMMA CascadeFacts ==
  ASSUME NEW set, NEW os \in Seq(Outcomes(set)), NEW kept
  PROVE  /\ DeleteCascade(os, kept) \in Seq(Outcomes(kept))
         /\ Len(os) # 0 /\ os[Len(os)].job \in kept =>
              /\ Len(DeleteCascade(os, kept)) # 0
              /\ DeleteCascade(os, kept)[Len(DeleteCascade(os, kept))] = os[Len(os)]
<1> DEFINE places == {n \in DOMAIN os : os[n].job \in kept}
<1>1. DeleteCascade(os, kept) = Subsequence(os, places) /\ places \in SUBSET DOMAIN os
  BY DEF DeleteCascade
<1>2. {os[n] : n \in places} \subseteq Outcomes(kept)
  <2>1. ASSUME NEW n \in places PROVE os[n] \in Outcomes(kept)
    <3>1. os[n] \in Outcomes(set)
      BY ElementOf
    <3> QED
      BY <3>1 DEF Outcomes
  <2> QED
    BY <2>1
<1>3. ASSUME Len(os) # 0, os[Len(os)].job \in kept PROVE Len(os) \in places
  <2>1. Len(os) \in DOMAIN os
    BY <1>3
  <2> QED
    BY <1>3, <2>1
<1> HIDE DEF places
<1>4. /\ Subsequence(os, places) \in Seq({os[n] : n \in places})
      /\ Len(Subsequence(os, places)) = Cardinality(places)
      /\ Len(os) \in places => /\ Cardinality(places) \in Nat \ {0}
                               /\ Subsequence(os, places)[Cardinality(places)] = os[Len(os)]
  BY <1>1, SubsequenceFacts
<1>5. Subsequence(os, places) \in Seq(Outcomes(kept))
  BY <1>2, <1>4, SeqWithin
<1> QED
  BY <1>1, <1>3, <1>4, <1>5

(* Rows that are well formed, none started after t, later ids no earlier. *)
WellKept(set, j, t) ==
    /\ set \subseteq Ids /\ j \in [Ids -> JobRecords]
    /\ \A i \in set : j[i].status # "none" /\ j[i].scope \in Scopes /\ j[i].started <= t
    /\ \A i, k \in set : i < k => j[i].started <= j[k].started

(* The largest id ever given out is in the table. *)
Top(set, u) == u \in 0..MaxJobs /\ set \subseteq 1..u /\ (u # 0 => u \in set)

(* Nothing is newer than the row with the largest id. *)
LEMMA TopIsNewest ==
  ASSUME NEW set, NEW j, NEW t, NEW u, WellKept(set, j, t), Top(set, u), NEW part \in SUBSET set, u \in part
  PROVE  u \in Newest(j, part)
<1>1. ASSUME NEW i \in part PROVE ~Newer(j, i, u)
  <2>1. i \in 1..u /\ u \in 1..u /\ u \in Nat
    BY HistoryAssumption DEF Top
  <2>2. i \in Ids /\ u \in Ids
    BY DEF WellKept
  <2>3. j[i].started \in 0..MaxTime /\ j[u].started \in 0..MaxTime
    BY <2>2 DEF WellKept, JobRecords
  <2>4. j[i].started \in Nat /\ j[u].started \in Nat
    BY <2>3, HistoryAssumption
  <2>5. CASE i = u
    BY <2>1, <2>4, <2>5 DEF Newer
  <2>6. CASE i < u
    <3>1. j[i].started <= j[u].started
      BY <2>6 DEF WellKept
    <3> QED
      BY <2>1, <2>4, <2>6, <3>1 DEF Newer
  <2> QED
    BY <2>1, <2>5, <2>6
<1>2. {i \in part : Newer(j, i, u)} = {}
  BY <1>1
<1>3. Cardinality({i \in part : Newer(j, i, u)}) = 0
  BY <1>2, FS_EmptySet
<1>4. 0 < Limit
  BY HistoryAssumption
<1> QED
  BY <1>3, <1>4 DEF Newest

(* What a pruning write leaves. *)
LEMMA PruneStep ==
  ASSUME NEW set, NEW j, NEW t, NEW u, NEW os \in Seq(Outcomes(set)),
         WellKept(set, j, t), Top(set, u), PruneTo(j, set, os)
  PROVE  /\ rows' \subseteq set
         /\ WellKept(rows', job', t) /\ Top(rows', u)
         /\ outcomes' \in Seq(Outcomes(rows'))
         /\ \A i \in set : j[i].status = "running" => i \in rows'
         /\ \A i \in rows' : job'[i] = j[i]
<1>1. rows' = PruneOldJobs(j, set)
  BY DEF PruneTo
<1>2. job' = [i \in Ids |-> IF i \in rows' THEN j[i] ELSE NoJob]
  BY DEF PruneTo
<1>3. rows' \subseteq set /\ \A i \in set : j[i].status = "running" => i \in rows'
  BY <1>1 DEF PruneOldJobs, Newest
<1>4. set \subseteq Ids
  BY DEF WellKept
<1>5. \A i \in rows' : job'[i] = j[i]
  BY <1>2, <1>3, <1>4
<1>6. u # 0 => u \in rows'
  <2> SUFFICES ASSUME u # 0 PROVE u \in rows'
    OBVIOUS
  <2> DEFINE finished == {i \in set : j[i].status # "running"}
  <2>1. u \in set
    BY DEF Top
  <2>2. CASE j[u].status = "running"
    BY <1>3, <2>1, <2>2
  <2>3. CASE j[u].status # "running"
    <3>1. u \in finished /\ finished \in SUBSET set
      BY <2>1, <2>3
    <3>2. u \in Newest(j, finished)
      <4> HIDE DEF finished
      <4> QED
        BY <3>1, TopIsNewest
    <3> QED
      BY <1>1, <3>2 DEF PruneOldJobs
  <2> QED
    BY <2>2, <2>3
<1>7. Top(rows', u)
  BY <1>3, <1>6 DEF Top
<1>8. WellKept(rows', job', t)
  <2>1. NoJob \in JobRecords
    BY HistoryAssumption DEF NoJob, JobRecords
  <2>2. \A i \in Ids : j[i] \in JobRecords
    BY DEF WellKept
  <2>3. job' \in [Ids -> JobRecords]
    BY <1>2, <2>1, <2>2
  <2> QED
    BY <1>3, <1>4, <1>5, <2>3 DEF WellKept
<1>9. outcomes' \in Seq(Outcomes(rows'))
  BY CascadeFacts DEF PruneTo
<1> QED
  BY <1>3, <1>5, <1>7, <1>8, <1>9

(* The inductive invariant: ids are given out in order and the last one stays, *)
(* and nothing in the history is later than the clock.                         *)
HistoryInv ==
    /\ HistoryTypeOK
    /\ WellKept(rows, job, now)
    /\ \E u \in 0..MaxJobs : used = 1..u /\ Top(rows, u)
    /\ \A s \in Subjects : observed[s] <= now

(* The outcomes of fail_running_jobs. *)
LEMMA InterruptedType ==
  ASSUME HistoryInv
  PROVE  Interrupted[MaxJobs] \in Seq(Outcomes(rows))
<1> DEFINE S == Seq(Outcomes(rows))
           step == [n \in 1..MaxJobs |-> [os \in S |-> FailInterrupted(os, n)]]
           eq(g) == g = [n \in 0..MaxJobs |-> IF n = 0 THEN outcomes ELSE FailInterrupted(g[n - 1], n)]
<1>1. MaxJobs \in Nat
  BY HistoryAssumption
<1>2. ASSUME NEW os \in S, NEW n \in 1..MaxJobs PROVE FailInterrupted(os, n) \in S
  <2>1. CASE n \in rows /\ job[n].status = "running"
    <3>1. {SubjectOf(job[n].scope)} \in SUBSET Subjects
      BY <2>1, HistoryAssumption, SubjectType DEF HistoryInv, WellKept
    <3> QED
      BY <2>1, <3>1, InsertType DEF FailInterrupted
  <2> QED
    BY <2>1 DEF FailInterrupted
<1> HIDE DEF S
<1>3. step \in [1..MaxJobs -> [S -> S]]
  BY <1>2
<1>4. outcomes \in S
  BY DEF S, HistoryInv, HistoryTypeOK, Outcomes
<1>5. PICK f \in [0..MaxJobs -> S] : f[0] = outcomes /\ \A n \in 1..MaxJobs : f[n] = step[n][f[n - 1]]
  <2> HIDE DEF step
  <2> QED
    BY <1>1, <1>3, <1>4, Iterates
<1>6. eq(f)
  <2>1. ASSUME NEW n \in 0..MaxJobs
        PROVE  f[n] = IF n = 0 THEN outcomes ELSE FailInterrupted(f[n - 1], n)
    <3> SUFFICES ASSUME n # 0 PROVE f[n] = FailInterrupted(f[n - 1], n)
      BY <1>5
    <3>1. n \in 1..MaxJobs /\ n - 1 \in 0..MaxJobs
      BY <1>1
    <3>2. f[n - 1] \in S
      BY <1>5, <3>1
    <3> QED
      BY <1>5, <3>1, <3>2
  <2> QED
    BY <1>5, <2>1
<1>7. eq(Interrupted)
  BY <1>6, Zenon DEF Interrupted
<1>8. /\ Interrupted[0] = outcomes
      /\ \A n \in 1..MaxJobs : Interrupted[n] = FailInterrupted(Interrupted[n - 1], n)
  <2>1. PICK g : g = Interrupted
    OBVIOUS
  <2>2. eq(g)
    BY <1>7, <2>1
  <2>3. \A n \in 0..MaxJobs : g[n] = IF n = 0 THEN outcomes ELSE FailInterrupted(g[n - 1], n)
    BY <2>2
  <2>4. 0 \in 0..MaxJobs /\ \A n \in 1..MaxJobs : n \in 0..MaxJobs /\ n # 0
    BY <1>1
  <2> HIDE DEF eq
  <2> QED
    BY <2>1, <2>3, <2>4
<1> DEFINE P == {n \in 0..MaxJobs : Interrupted[n] \in S}
<1>9. 0..MaxJobs \subseteq P
  <2>1. 0 \in P
    BY <1>1, <1>4, <1>8
  <2>2. ASSUME NEW n \in 1..MaxJobs, n - 1 \in P PROVE n \in P
    <3>1. n \in 0..MaxJobs /\ Interrupted[n - 1] \in S
      BY <1>1, <2>2
    <3> QED
      BY <1>2, <1>8, <3>1
  <2> HIDE DEF P
  <2> QED
    BY <1>1, <2>1, <2>2, Induction
<1> QED
  BY <1>1, <1>9 DEF S

-----------------------------------------------------------------------------
(* The invariant is inductive *)

LEMMA InvFacts ==
  ASSUME HistoryInv
  PROVE  /\ job \in [Ids -> JobRecords] /\ rows \subseteq Ids /\ outcomes \in Seq(Outcomes(rows))
         /\ now \in 1..MaxTime /\ now \in 0..MaxTime /\ now \in Nat
         /\ \A i \in rows : /\ job[i] \in JobRecords /\ job[i].scope \in AllScopes
                            /\ SubjectOf(job[i].scope) \in Subjects
<1>1. /\ job \in [Ids -> JobRecords] /\ rows \subseteq Ids /\ outcomes \in Seq(Outcomes(rows))
      /\ now \in 1..MaxTime
  BY DEF HistoryInv, HistoryTypeOK, JobRecords, Outcomes
<1>2. now \in 0..MaxTime /\ now \in Nat
  BY <1>1, HistoryAssumption
<1>3. \A i \in rows : job[i] \in JobRecords /\ job[i].scope \in AllScopes
  BY <1>1, HistoryAssumption DEF HistoryInv, WellKept
<1> QED
  BY <1>1, <1>2, <1>3, SubjectType

(* The id after the last one that was given out. *)
LEMMA NextId ==
  ASSUME HistoryInv, NEW u \in 0..MaxJobs, used = 1..u, Top(rows, u), Cardinality(used) < MaxJobs
  PROVE  /\ NextJobId = u + 1 /\ u + 1 \in Ids /\ u + 1 \notin rows /\ u + 1 \in 0..MaxJobs
         /\ used \cup {u + 1} = 1..(u + 1)
<1>1. u \in Nat /\ MaxJobs \in Nat
  BY HistoryAssumption
<1>2. Cardinality(1..u) = u
  BY <1>1, FS_Interval
<1>3. u < MaxJobs
  BY <1>2
<1>4. /\ u + 1 \in Ids /\ u + 1 \notin rows /\ u + 1 \in 0..MaxJobs
      /\ used \cup {u + 1} = 1..(u + 1)
  BY <1>1, <1>3 DEF Ids, Top
<1>5. /\ \A k \in rows : k < u + 1
      /\ u + 1 = 1 \/ (u + 1) - 1 \in rows
  BY <1>1 DEF Top
<1>6. ASSUME NEW i \in Ids, \A k \in rows : k < i, i = 1 \/ (i - 1) \in rows PROVE i = u + 1
  <2>1. i \in Nat
    BY <1>1 DEF Ids
  <2>2. CASE u = 0
    <3>1. rows = {}
      BY <2>2 DEF Top
    <3> QED
      BY <1>6, <2>2, <3>1
  <2>3. CASE u # 0
    <3>1. u < i
      BY <1>6, <2>3 DEF Top
    <3>2. i = 1 \/ i - 1 <= u
      BY <1>1, <1>6, <2>1 DEF Top
    <3> QED
      BY <1>1, <2>1, <2>3, <3>1, <3>2
  <2> QED
    BY <2>2, <2>3
<1>7. NextJobId = u + 1
  BY <1>4, <1>5, <1>6 DEF NextJobId
<1> QED
  BY <1>4, <1>7

(* A write to rows that keeps their scopes and starts. *)
LEMMA SameStarts ==
  ASSUME HistoryInv, NEW j \in [Ids -> JobRecords],
         \A k \in rows : /\ j[k].scope = job[k].scope /\ j[k].started = job[k].started
                         /\ j[k].status # "none"
  PROVE  WellKept(rows, j, now)
  BY DEF HistoryInv, WellKept

(* A new row. *)
LEMMA NewRow ==
  ASSUME HistoryInv, NEW u \in 0..MaxJobs, Top(rows, u), u + 1 \in Ids, u + 1 \notin rows,
         NEW r \in JobRecords, r.status # "none", r.scope \in Scopes, r.started = now
  PROVE  WellKept(rows \cup {u + 1}, [job EXCEPT ![u + 1] = r], now) /\ Top(rows \cup {u + 1}, u + 1)
<1> DEFINE j == [job EXCEPT ![u + 1] = r]
           i == u + 1
<1>1. u \in Nat /\ MaxJobs \in Nat /\ now \in Nat
  BY HistoryAssumption, InvFacts
<1>2. j \in [Ids -> JobRecords]
  BY InvFacts
<1>3. j[i] = r /\ \A k \in rows : j[k] = job[k] /\ k < i /\ k \in Ids
  <2>1. \A k \in rows : k < i /\ k # i /\ k \in Ids
    BY <1>1, InvFacts DEF Top
  <2> QED
    BY <2>1, InvFacts
<1> HIDE DEF j
<1>4. \A k \in rows : job[k].started <= now
  BY DEF HistoryInv, WellKept
<1>5. \A k \in rows \cup {i} : j[k].status # "none" /\ j[k].scope \in Scopes /\ j[k].started <= now
  <2>1. \A k \in rows : job[k].status # "none" /\ job[k].scope \in Scopes
    BY DEF HistoryInv, WellKept
  <2> QED
    BY <1>1, <1>3, <1>4, <2>1
<1>6. ASSUME NEW a \in rows \cup {i}, NEW b \in rows \cup {i}, a < b PROVE j[a].started <= j[b].started
  <2>1. CASE a \in rows /\ b \in rows
    <3>1. job[a].started <= job[b].started
      BY <1>6, <2>1 DEF HistoryInv, WellKept
    <3> QED
      BY <1>3, <2>1, <3>1
  <2>2. CASE a \in rows /\ b = i
    BY <1>3, <1>4, <2>2
  <2>3. a # i
    <3> SUFFICES ASSUME a = i PROVE FALSE
      OBVIOUS
    <3>1. i < b /\ i \in Nat
      BY <1>1, <1>6
    <3>2. b = i \/ (b < i /\ b \in Nat)
      BY <1>1, <1>3 DEF Ids
    <3> QED
      BY <3>1, <3>2
  <2> QED
    BY <2>1, <2>2, <2>3
<1>7. rows \cup {i} \subseteq Ids
  BY InvFacts
<1>8. WellKept(rows \cup {i}, j, now)
  BY <1>2, <1>5, <1>6, <1>7 DEF WellKept
<1>9. Top(rows \cup {i}, i)
  BY <1>1 DEF Top, Ids
<1> QED
  BY <1>8, <1>9 DEF j

(* Every pruning write keeps the invariant. *)
LEMMA PruneInv ==
  ASSUME HistoryInv, NEW set, NEW j, NEW u \in 0..MaxJobs, NEW os \in Seq(Outcomes(set)),
         WellKept(set, j, now), Top(set, u), PruneTo(j, set, os),
         used' = 1..u, UNCHANGED <<observed, now>>, ending' \in 0..MaxJobs
  PROVE  HistoryInv'
<1>1. /\ WellKept(rows', job', now) /\ Top(rows', u) /\ outcomes' \in Seq(Outcomes(rows'))
  BY PruneStep
<1>2. WellKept(rows, job, now)' /\ Top(rows, u)'
  BY <1>1 DEF WellKept, Top
<1>3. used' \subseteq Ids
  BY HistoryAssumption DEF Ids
<1>4. HistoryTypeOK'
  <2>1. rows' \subseteq Ids /\ job' \in [Ids -> JobRecords] /\ \A i \in rows' : job'[i].status # "none"
    BY <1>1 DEF WellKept
  <2>2. observed' \in [Subjects -> 0..MaxTime] /\ now' \in 1..MaxTime
    BY DEF HistoryInv, HistoryTypeOK
  <2> QED
    BY <1>1, <1>3, <2>1, <2>2 DEF HistoryTypeOK, JobRecords, Outcomes
<1>5. \A s \in Subjects : observed'[s] <= now'
  BY DEF HistoryInv
<1> QED
  BY <1>2, <1>4, <1>5 DEF HistoryInv

LEMMA HistoryInvInit ==
  Init => HistoryInv
<1> SUFFICES ASSUME Init PROVE HistoryInv
  OBVIOUS
<1>1. /\ outcomes = <<>> /\ observed = [s \in Subjects |-> 0]
      /\ now = 1 /\ used = rows /\ ending = 0
  BY DEF Init
<1>2. MaxTime \in Nat \ {0} /\ MaxJobs \in Nat \ {0}
  BY HistoryAssumption
<1>3. NoJob \in JobRecords
  BY <1>2 DEF NoJob, JobRecords
<1>4. \E u \in 0..MaxJobs : used = 1..u /\ Top(rows, u)
  <2>1. CASE rows = {}
    <3>1. 0 \in 0..MaxJobs /\ used = 1..0 /\ Top(rows, 0)
      BY <1>1, <1>2, <2>1 DEF Top
    <3> QED
      BY <3>1
  <2>2. CASE rows = {1}
    <3>1. 1 \in 0..MaxJobs /\ used = 1..1 /\ Top(rows, 1)
      BY <1>1, <1>2, <2>2 DEF Top
    <3> QED
      BY <3>1
  <2> QED
    BY <2>1, <2>2 DEF Init
<1>5. WellKept(rows, job, now)
  <2>1. CASE rows = {} /\ job = [i \in Ids |-> NoJob]
    BY <1>3, <2>1 DEF WellKept
  <2>2. CASE /\ rows = {1}
             /\ \E s \in Scopes, e \in Errors :
                  job = [i \in Ids |->
                           IF i = 1 THEN [scope |-> s, status |-> "failed", started |-> 1,
                                          finished |-> 1, error |-> e]
                                    ELSE NoJob]
    <3>1. PICK s \in Scopes, e \in Errors :
            job = [i \in Ids |->
                     IF i = 1 THEN [scope |-> s, status |-> "failed", started |-> 1,
                                    finished |-> 1, error |-> e]
                              ELSE NoJob]
      BY <2>2
    <3> DEFINE r == [scope |-> s, status |-> "failed", started |-> 1, finished |-> 1, error |-> e]
    <3>2. r \in JobRecords /\ r.status # "none" /\ r.scope \in Scopes /\ r.started <= now
      BY <1>1, <1>2 DEF JobRecords
    <3>3. job = [i \in Ids |-> IF i = 1 THEN r ELSE NoJob]
      BY <3>1
    <3> HIDE DEF r
    <3>4. 1 \in Ids
      BY <1>2 DEF Ids
    <3>5. job \in [Ids -> JobRecords] /\ job[1] = r
      BY <1>3, <3>2, <3>3, <3>4
    <3> QED
      BY <2>2, <3>2, <3>4, <3>5 DEF WellKept
  <2> QED
    BY <2>1, <2>2 DEF Init
<1>6. HistoryTypeOK
  <2>1. rows \subseteq Ids /\ job \in [Ids -> JobRecords] /\ \A i \in rows : job[i].status # "none"
    BY <1>5 DEF WellKept
  <2>2. observed \in [Subjects -> 0..MaxTime] /\ now \in 1..MaxTime /\ ending \in 0..MaxJobs
    BY <1>1, <1>2
  <2>3. outcomes \in Seq(Outcomes(rows))
    BY <1>1
  <2> QED
    BY <1>1, <2>1, <2>2, <2>3 DEF HistoryTypeOK, JobRecords, Outcomes
<1>7. \A s \in Subjects : observed[s] <= now
  BY <1>1
<1> QED
  BY <1>4, <1>5, <1>6, <1>7 DEF HistoryInv

LEMMA StartJobInv ==
  ASSUME HistoryInv, NEW s \in Scopes, StartJob(s)
  PROVE  HistoryInv'
<1>1. PICK u \in 0..MaxJobs : used = 1..u /\ Top(rows, u)
  BY DEF HistoryInv
<1> DEFINE r == [scope |-> s, status |-> "running", started |-> now, finished |-> 0, error |-> "none"]
           i == u + 1
<1>2. /\ NextJobId = i /\ i \in Ids /\ i \notin rows /\ i \in 0..MaxJobs
      /\ used \cup {i} = 1..i
  BY <1>1, NextId DEF StartJob
<1>3. /\ rows' = rows \cup {i} /\ used' = used \cup {i} /\ job' = [job EXCEPT ![i] = r]
      /\ UNCHANGED <<outcomes, observed, now, ending>>
  BY <1>2 DEF StartJob
<1>4. r \in JobRecords /\ r.status # "none" /\ r.scope \in Scopes /\ r.started = now
  BY InvFacts, HistoryAssumption DEF JobRecords
<1> HIDE DEF r
<1>5. WellKept(rows', job', now) /\ Top(rows', i)
  BY <1>1, <1>2, <1>3, <1>4, NewRow
<1>6. WellKept(rows, job, now)' /\ Top(rows, i)'
  BY <1>3, <1>5 DEF WellKept, Top
<1>7. outcomes' \in Seq(Outcomes(rows'))
  <2>1. Outcomes(rows) \subseteq Outcomes(rows')
    BY <1>3 DEF Outcomes
  <2> QED
    BY <1>3, <2>1, InvFacts, SeqWithin
<1>8. HistoryTypeOK'
  <2>1. rows' \subseteq Ids /\ job' \in [Ids -> JobRecords] /\ \A k \in rows' : job'[k].status # "none"
    BY <1>5 DEF WellKept
  <2>2. /\ observed' \in [Subjects -> 0..MaxTime] /\ now' \in 1..MaxTime /\ ending' \in 0..MaxJobs
        /\ used' \subseteq Ids
    BY <1>2, <1>3 DEF HistoryInv, HistoryTypeOK
  <2> QED
    BY <1>7, <2>1, <2>2 DEF HistoryTypeOK, JobRecords, Outcomes
<1>9. \A q \in Subjects : observed'[q] <= now'
  BY <1>3 DEF HistoryInv
<1> QED
  BY <1>2, <1>3, <1>6, <1>8, <1>9 DEF HistoryInv

(* complete_job_with_coverage of any subjects. *)
LEMMA CompletionInv ==
  ASSUME HistoryInv, NEW i \in rows, NEW subjects \in SUBSET Subjects,
         PruneTo([job EXCEPT ![i].status = "succeeded", ![i].finished = now],
                 rows, InsertOutcomes(outcomes, i, subjects, TRUE)),
         ending' = i, UNCHANGED <<observed, now, used>>
  PROVE  HistoryInv'
<1> DEFINE j == [job EXCEPT ![i].status = "succeeded", ![i].finished = now]
           os == InsertOutcomes(outcomes, i, subjects, TRUE)
<1>1. PICK u \in 0..MaxJobs : used = 1..u /\ Top(rows, u)
  BY DEF HistoryInv
<1>2. i \in Ids /\ ending' \in 0..MaxJobs
  BY InvFacts, HistoryAssumption DEF Ids
<1>3. j \in [Ids -> JobRecords]
  BY <1>2, InvFacts DEF JobRecords
<1>4. \A k \in rows : /\ j[k].scope = job[k].scope /\ j[k].started = job[k].started
                      /\ j[k].status # "none"
  <2>1. \A k \in rows : job[k].status # "none"
    BY DEF HistoryInv, WellKept
  <2> QED
    BY <1>2, <2>1, InvFacts DEF JobRecords
<1>5. os \in Seq(Outcomes(rows))
  BY InvFacts, InsertType
<1>6. PruneTo(j, rows, os)
  OBVIOUS
<1> HIDE DEF j, os
<1>7. WellKept(rows, j, now)
  BY <1>3, <1>4, SameStarts
<1> QED
  BY <1>1, <1>2, <1>5, <1>6, <1>7, PruneInv

LEMMA CompleteJobInv ==
  ASSUME HistoryInv, NEW i \in rows, CompleteJob(i)
  PROVE  HistoryInv'
<1>1. PICK ok \in SUBSET {"project"}, demanded \in BOOLEAN :
        PruneTo([job EXCEPT ![i].status = "succeeded", ![i].finished = now], rows,
                InsertOutcomes(outcomes, i, Coverage(job[i].scope, ok, demanded), TRUE))
  BY DEF CompleteJob
<1>2. Coverage(job[i].scope, ok, demanded) \in SUBSET Subjects
  BY InvFacts, CoverageType
<1> QED
  BY <1>1, <1>2, CompletionInv DEF CompleteJob

LEMMA CompleteUnchangedUpdateInv ==
  ASSUME HistoryInv, NEW i \in rows, CompleteUnchangedUpdate(i)
  PROVE  HistoryInv'
<1>1. {"assessment"} \in SUBSET Subjects
  BY DEF Subjects
<1> QED
  BY <1>1, CompletionInv DEF CompleteUnchangedUpdate

LEMMA JobFailsInv ==
  ASSUME HistoryInv, NEW i \in rows, NEW e \in Errors, JobFails(i, e)
  PROVE  HistoryInv'
<1>1. PICK s \in IF job[i].scope = "update" THEN {"assessment", "system", "gateway"}
                 ELSE {SubjectOf(job[i].scope)} : FailJob(i, s, e)
  BY DEF JobFails
<1>2. {s} \in SUBSET Subjects
  <2>1. {"assessment", "system", "gateway"} \subseteq Subjects
    BY DEF Subjects
  <2> QED
    BY <2>1, InvFacts
<1> DEFINE j == [job EXCEPT ![i].status = "failed", ![i].finished = now, ![i].error = e]
           os == InsertOutcomes(outcomes, i, {s}, FALSE)
<1>3. PICK u \in 0..MaxJobs : used = 1..u /\ Top(rows, u)
  BY DEF HistoryInv
<1>4. i \in Ids /\ ending' \in 0..MaxJobs
  <2>1. ending \in 0..MaxJobs
    BY DEF HistoryInv, HistoryTypeOK
  <2> QED
    BY <2>1, InvFacts, HistoryAssumption DEF JobFails
<1>5. j \in [Ids -> JobRecords]
  BY <1>4, InvFacts DEF JobRecords
<1>6. \A k \in rows : /\ j[k].scope = job[k].scope /\ j[k].started = job[k].started
                      /\ j[k].status # "none"
  <2>1. \A k \in rows : job[k].status # "none"
    BY DEF HistoryInv, WellKept
  <2> QED
    BY <1>4, <2>1, InvFacts DEF JobRecords
<1>7. os \in Seq(Outcomes(rows))
  BY <1>2, InvFacts, InsertType
<1>8. PruneTo(j, rows, os)
  BY <1>1 DEF FailJob
<1>9. used' = 1..u /\ UNCHANGED <<observed, now>>
  BY <1>3 DEF JobFails
<1> HIDE DEF j, os
<1>10. WellKept(rows, j, now)
  BY <1>5, <1>6, SameStarts
<1> QED
  BY <1>3, <1>4, <1>7, <1>8, <1>9, <1>10, PruneInv

LEMMA FailRunningJobsInv ==
  ASSUME HistoryInv, NEW e \in Errors, FailRunningJobs(e)
  PROVE  HistoryInv'
<1> DEFINE j == [i \in Ids |-> IF i \in rows /\ job[i].status = "running"
                                 THEN [job[i] EXCEPT !.status = "failed", !.finished = now, !.error = e]
                                 ELSE job[i]]
<1>1. PICK u \in 0..MaxJobs : used = 1..u /\ Top(rows, u)
  BY DEF HistoryInv
<1>2. ASSUME NEW i \in Ids
      PROVE  LET r == [job[i] EXCEPT !.status = "failed", !.finished = now, !.error = e] IN
             r \in JobRecords /\ r.scope = job[i].scope /\ r.started = job[i].started /\ r.status = "failed"
  BY InvFacts DEF JobRecords
<1>3. j \in [Ids -> JobRecords]
  BY <1>2, InvFacts
<1>4. \A k \in rows : /\ j[k].scope = job[k].scope /\ j[k].started = job[k].started
                      /\ j[k].status # "none"
  <2>1. \A k \in rows : job[k].status # "none" /\ k \in Ids
    BY DEF HistoryInv, WellKept
  <2> QED
    BY <1>2, <2>1
<1>5. Interrupted[MaxJobs] \in Seq(Outcomes(rows))
  BY InterruptedType
<1>6. /\ PruneTo(j, rows, Interrupted[MaxJobs]) /\ ending' = 0
      /\ UNCHANGED <<observed, now, used>>
  BY DEF FailRunningJobs
<1> HIDE DEF j
<1>7. ending' \in 0..MaxJobs
  <2>1. 0 \in 0..MaxJobs
    BY HistoryAssumption
  <2> QED
    BY <1>6, <2>1
<1>8. WellKept(rows, j, now)
  BY <1>3, <1>4, SameStarts
<1> QED
  BY <1>1, <1>5, <1>6, <1>7, <1>8, PruneInv

(* What record_background_reconciliation_error writes, when it writes. *)
LEMMA RecordWrites ==
  ASSUME HistoryInv, NEW s \in Scopes, NEW e \in Errors, RecordBackgroundError(s, e)
  PROVE  \E u \in 0..MaxJobs, r \in JobRecords :
           /\ used = 1..u /\ Top(rows, u) /\ u + 1 \in Ids /\ u + 1 \notin rows /\ u + 1 \in 0..MaxJobs
           /\ r = [scope |-> s, status |-> "failed", started |-> now, finished |-> now, error |-> e]
           /\ used' = 1..(u + 1)
           /\ WellKept(rows \cup {u + 1}, [job EXCEPT ![u + 1] = r], now)
           /\ Top(rows \cup {u + 1}, u + 1)
           /\ Append(outcomes, [job |-> u + 1, subject |-> SubjectOf(s), ok |-> FALSE])
                \in Seq(Outcomes(rows \cup {u + 1}))
           /\ PruneTo([job EXCEPT ![u + 1] = r], rows \cup {u + 1},
                      Append(outcomes, [job |-> u + 1, subject |-> SubjectOf(s), ok |-> FALSE]))
<1>1. PICK u \in 0..MaxJobs : used = 1..u /\ Top(rows, u)
  BY DEF HistoryInv
<1> DEFINE r == [scope |-> s, status |-> "failed", started |-> now, finished |-> now, error |-> e]
           i == u + 1
           o == [job |-> i, subject |-> SubjectOf(s), ok |-> FALSE]
<1>2. /\ NextJobId = i /\ i \in Ids /\ i \notin rows /\ i \in 0..MaxJobs
      /\ used \cup {i} = 1..i
  BY <1>1, NextId DEF RecordBackgroundError
<1>3. r \in JobRecords /\ r.status # "none" /\ r.scope \in Scopes /\ r.started = now
  BY InvFacts, HistoryAssumption DEF JobRecords
<1>4. SubjectOf(s) \in Subjects
  BY SubjectType, HistoryAssumption
<1>5. InsertOutcomes(outcomes, i, {SubjectOf(s)}, FALSE) = Append(outcomes, o)
  BY <1>2, <1>4, InvFacts, InsertFirst
<1>6. Append(outcomes, o) \in Seq(Outcomes(rows \cup {i}))
  <2>1. outcomes \in Seq(Outcomes(rows \cup {i}))
    <3>1. Outcomes(rows) \subseteq Outcomes(rows \cup {i})
      BY DEF Outcomes
    <3> QED
      BY <3>1, InvFacts, SeqWithin
  <2>2. o \in Outcomes(rows \cup {i})
    BY <1>4 DEF Outcomes
  <2> HIDE DEF o
  <2> QED
    BY <2>1, <2>2
<1>7. /\ PruneTo([job EXCEPT ![i] = r], rows \cup {i}, Append(outcomes, o))
      /\ used' = used \cup {i}
  <2> HIDE DEF o
  <2> QED
    BY <1>2, <1>5 DEF RecordBackgroundError
<1>8. WellKept(rows \cup {i}, [job EXCEPT ![i] = r], now) /\ Top(rows \cup {i}, i)
  <2> HIDE DEF r
  <2> QED
    BY <1>1, <1>2, <1>3, NewRow
<1> QED
  <2>1. r = [scope |-> s, status |-> "failed", started |-> now, finished |-> now, error |-> e]
    OBVIOUS
  <2> HIDE DEF r
  <2> QED
    BY <1>1, <1>2, <1>3, <1>6, <1>7, <1>8, <2>1

LEMMA RecordBackgroundErrorInv ==
  ASSUME HistoryInv, NEW s \in Scopes, NEW e \in Errors, RecordBackgroundError(s, e)
  PROVE  HistoryInv'
<1>1. PICK u \in 0..MaxJobs, r \in JobRecords :
           /\ u + 1 \in 0..MaxJobs /\ used' = 1..(u + 1)
           /\ WellKept(rows \cup {u + 1}, [job EXCEPT ![u + 1] = r], now)
           /\ Top(rows \cup {u + 1}, u + 1)
           /\ Append(outcomes, [job |-> u + 1, subject |-> SubjectOf(s), ok |-> FALSE])
                \in Seq(Outcomes(rows \cup {u + 1}))
           /\ PruneTo([job EXCEPT ![u + 1] = r], rows \cup {u + 1},
                      Append(outcomes, [job |-> u + 1, subject |-> SubjectOf(s), ok |-> FALSE]))
  BY RecordWrites
<1>2. UNCHANGED <<observed, now, ending>> /\ ending' \in 0..MaxJobs
  BY DEF RecordBackgroundError, HistoryInv, HistoryTypeOK
<1> QED
  BY <1>1, <1>2, PruneInv

(* Steps that leave the tables alone. *)
LEMMA QuietInv ==
  ASSUME HistoryInv, UNCHANGED <<rows, job, outcomes, used>>, now' \in 1..MaxTime, now <= now',
         observed' \in [Subjects -> 0..MaxTime], \A s \in Subjects : observed'[s] <= now',
         ending' \in 0..MaxJobs
  PROVE  HistoryInv'
<1>1. HistoryTypeOK'
  BY DEF HistoryInv, HistoryTypeOK
<1>2. \A i \in rows : job[i].started \in Nat /\ job[i].started <= now /\ now \in Nat /\ now' \in Nat
  BY InvFacts, HistoryAssumption DEF HistoryInv, WellKept, JobRecords
<1>3. \A i \in rows : job[i].started <= now'
  BY <1>2
<1>4. WellKept(rows, job, now)'
  BY <1>3 DEF HistoryInv, WellKept
<1>5. (\E u \in 0..MaxJobs : used = 1..u /\ Top(rows, u))'
  BY DEF HistoryInv, Top
<1> QED
  BY <1>1, <1>4, <1>5 DEF HistoryInv

LEMMA HistoryInvStep ==
  HistoryInv /\ [Next]_vars => HistoryInv'
<1> SUFFICES ASSUME HistoryInv, [Next]_vars PROVE HistoryInv'
  OBVIOUS
<1>1. /\ now \in 1..MaxTime /\ now \in Nat /\ observed \in [Subjects -> 0..MaxTime] /\ ending \in 0..MaxJobs
      /\ \A s \in Subjects : observed[s] <= now
  BY InvFacts DEF HistoryInv, HistoryTypeOK
<1>2. CASE \E s \in Scopes : StartJob(s)
  BY <1>2, StartJobInv
<1>3. CASE \E i \in rows : CompleteJob(i) \/ CompleteUnchangedUpdate(i)
  BY <1>3, CompleteJobInv, CompleteUnchangedUpdateInv
<1>4. CASE \E i \in rows, e \in Errors : JobFails(i, e)
  BY <1>4, JobFailsInv
<1>5. CASE ReportTerminal
  <2>1. ending' \in 0..MaxJobs
    BY <1>5, HistoryAssumption DEF ReportTerminal
  <2> QED
    BY <1>1, <1>5, <2>1, QuietInv DEF ReportTerminal
<1>6. CASE \E e \in Errors : FailRunningJobs(e)
  BY <1>6, FailRunningJobsInv
<1>7. CASE \E s \in Scopes, e \in Errors : RecordBackgroundError(s, e)
  BY <1>7, RecordBackgroundErrorInv
<1>8. CASE \E s \in Observed : Observe(s)
  <2>1. PICK s \in Observed, t \in {0, now} : observed' = [observed EXCEPT ![s] = t]
    BY <1>8 DEF Observe
  <2>2. t \in 0..MaxTime /\ t <= now
    BY <1>1, <2>1, HistoryAssumption
  <2>3. observed' \in [Subjects -> 0..MaxTime] /\ \A q \in Subjects : observed'[q] <= now
    BY <1>1, <2>1, <2>2
  <2>4. UNCHANGED <<rows, job, outcomes, now, used, ending>>
    BY <1>8 DEF Observe
  <2> QED
    BY <1>1, <2>3, <2>4, QuietInv
<1>9. CASE Tick
  <2>1. now' \in 1..MaxTime /\ now <= now' /\ now' \in Nat
    BY <1>1, <1>9, HistoryAssumption DEF Tick
  <2>2. \A s \in Subjects : observed[s] \in Nat /\ observed[s] <= now'
    BY <1>1, <2>1, HistoryAssumption
  <2> QED
    BY <1>1, <1>9, <2>1, <2>2, QuietInv DEF Tick
<1>10. CASE UNCHANGED vars
  BY <1>1, <1>10, QuietInv DEF vars
<1> QED
  BY <1>2, <1>3, <1>4, <1>5, <1>6, <1>7, <1>8, <1>9, <1>10 DEF Next

LEMMA HistoryInvHolds ==
  Spec => []HistoryInv
  BY HistoryInvInit, HistoryInvStep, PTL DEF Spec

(* unresolved_job_failures, whose loop reads the outcomes from the last to the *)
(* first, returns exactly the failures that are current and those of upgraded  *)
(* rows, one for a subject, and the background error recorder keeps quiet only *)
(* about an error that goes on.                                                *)
THEOREM ReportsCurrentFailures ==
  Spec => []UnresolvedIsCurrent
<1>1. HistoryInv => UnresolvedIsCurrent
  BY ReportIsCurrent DEF HistoryInv
<1> QED
  BY <1>1, HistoryInvHolds, PTL

-----------------------------------------------------------------------------
(* What pruning takes *)

LEMMA PruneTakes ==
  ASSUME NEW j, NEW set, NEW os, PruneTo(j, set, os)
  PROVE  rows' \subseteq set
  BY DEF PruneTo, PruneOldJobs, Newest

(* No id that was given out comes back. *)
LEMMA NoIdTwice ==
  ASSUME HistoryInv, [Next]_vars
  PROVE  \A i \in used : i \in rows' => i \in rows
<1>1. ASSUME NEW u \in 0..MaxJobs, used = 1..u, rows' \subseteq rows \cup {u + 1}
      PROVE  \A i \in used : i \in rows' => i \in rows
  <2>1. u \in Nat
    BY HistoryAssumption
  <2>2. u + 1 \notin used
    BY <1>1, <2>1
  <2> QED
    BY <1>1, <2>2
<1>2. CASE rows' \subseteq rows
  BY <1>2
<1>3. CASE \E s \in Scopes : StartJob(s)
  <2>1. PICK s \in Scopes : StartJob(s)
    BY <1>3
  <2>2. PICK u \in 0..MaxJobs : used = 1..u /\ Top(rows, u)
    BY DEF HistoryInv
  <2>3. NextJobId = u + 1
    BY <2>1, <2>2, NextId DEF StartJob
  <2>4. rows' = rows \cup {u + 1}
    BY <2>1, <2>3 DEF StartJob
  <2> QED
    BY <1>1, <2>2, <2>4
<1>4. CASE \E s \in Scopes, e \in Errors : RecordBackgroundError(s, e)
  <2>1. PICK s \in Scopes, e \in Errors : RecordBackgroundError(s, e)
    BY <1>4
  <2>2. PICK u \in 0..MaxJobs : used = 1..u /\ Top(rows, u)
    BY DEF HistoryInv
  <2>3. NextJobId = u + 1
    BY <2>1, <2>2, NextId DEF RecordBackgroundError
  <2>4. rows' \subseteq rows \cup {u + 1}
    BY <2>1, <2>3, PruneTakes DEF RecordBackgroundError
  <2> QED
    BY <1>1, <2>2, <2>4
<1>5. CASE \E i \in rows : CompleteJob(i) \/ CompleteUnchangedUpdate(i)
  BY <1>2, <1>5, PruneTakes DEF CompleteJob, CompleteUnchangedUpdate
<1>6. CASE \E i \in rows, e \in Errors : JobFails(i, e)
  BY <1>2, <1>6, PruneTakes DEF JobFails, FailJob
<1>7. CASE \E e \in Errors : FailRunningJobs(e)
  BY <1>2, <1>7, PruneTakes DEF FailRunningJobs
<1>8. CASE ReportTerminal \/ Tick \/ (\E s \in Observed : Observe(s)) \/ UNCHANGED vars
  BY <1>2, <1>8 DEF ReportTerminal, Tick, Observe, vars
<1> QED
  BY <1>3, <1>4, <1>5, <1>6, <1>7, <1>8 DEF Next

(* A background error that is recorded is reported at once, and takes no running row. *)
LEMMA RecordedIsVisible ==
  ASSUME HistoryInv, HistoryInv', UnresolvedIsCurrent',
         NEW s \in Scopes, NEW e \in Errors, RecordBackgroundError(s, e)
  PROVE  /\ AlreadyRecorded(s, e)'
         /\ \A i \in rows : job[i].status = "running" => i \in rows'
<1>1. PICK u \in 0..MaxJobs, r \in JobRecords :
           /\ Top(rows, u) /\ u + 1 \in Ids /\ u + 1 \notin rows
           /\ r = [scope |-> s, status |-> "failed", started |-> now, finished |-> now, error |-> e]
           /\ WellKept(rows \cup {u + 1}, [job EXCEPT ![u + 1] = r], now)
           /\ Top(rows \cup {u + 1}, u + 1)
           /\ Append(outcomes, [job |-> u + 1, subject |-> SubjectOf(s), ok |-> FALSE])
                \in Seq(Outcomes(rows \cup {u + 1}))
           /\ PruneTo([job EXCEPT ![u + 1] = r], rows \cup {u + 1},
                      Append(outcomes, [job |-> u + 1, subject |-> SubjectOf(s), ok |-> FALSE]))
  BY RecordWrites
<1> DEFINE i == u + 1
           j == [job EXCEPT ![i] = r]
           o == [job |-> i, subject |-> SubjectOf(s), ok |-> FALSE]
           os == Append(outcomes, o)
           q == SubjectOf(s)
<1>2. u \in Nat
  BY HistoryAssumption
<1>3. j[i] = r /\ \A k \in rows : j[k] = job[k]
  BY <1>1, InvFacts
<1>4. os \in Seq(Outcomes(rows \cup {i})) /\ Len(os) # 0 /\ os[Len(os)] = o
  BY <1>1, InvFacts
<1>5. WellKept(rows \cup {i}, j, now) /\ Top(rows \cup {i}, i) /\ PruneTo(j, rows \cup {i}, os)
  BY <1>1
<1>6. o.job = i /\ o.subject = q /\ o.ok = FALSE
  OBVIOUS
<1>7. r.scope = s /\ r.error = e /\ r.finished = now
  BY <1>1
<1>8. q \in Subjects
  BY SubjectType, HistoryAssumption
<1>9. i # 0
  BY <1>2
<1> HIDE DEF i, j, o, os, q
<1>10. /\ WellKept(rows', job', now) /\ Top(rows', i)
       /\ \A k \in rows \cup {i} : j[k].status = "running" => k \in rows'
       /\ \A k \in rows' : job'[k] = j[k]
  BY <1>4, <1>5, PruneStep
<1>11. i \in rows' /\ job'[i] = r
  BY <1>3, <1>9, <1>10 DEF Top
<1>12. i \in RecentJobs'
  <2>1. i \in Newest(job', rows')
    BY <1>10, <1>11, TopIsNewest
  <2> QED
    BY <2>1 DEF RecentJobs, Newest, Newer
<1>13. Len(outcomes') # 0 /\ outcomes'[Len(outcomes')] = o
  <2>1. outcomes' = DeleteCascade(os, rows')
    BY <1>5 DEF PruneTo
  <2> QED
    BY <1>4, <1>6, <1>11, <2>1, CascadeFacts
<1>14. Len(outcomes') \in Nat
  BY DEF HistoryInv, HistoryTypeOK
<1>15. <<i, q>> \in CurrentFailures'
  <2>0. PICK n \in Nat : n = Len(outcomes')
    BY <1>14
  <2>1. n \in 1..Len(outcomes') /\ (n + 1)..Len(outcomes') = {}
    BY <1>13, <2>0
  <2>2. ~outcomes'[n].ok /\ outcomes'[n].job \in RecentJobs'
    BY <1>6, <1>12, <1>13, <2>0
  <2>3. ~(observed'[q] > job'[i].finished)
    <3>1. observed' = observed /\ observed[q] <= now
      BY <1>8 DEF HistoryInv, RecordBackgroundError
    <3>2. observed[q] \in Nat /\ now \in Nat
      BY <1>8, InvFacts, HistoryAssumption DEF HistoryInv, HistoryTypeOK
    <3> QED
      BY <1>7, <1>11, <3>1, <3>2
  <2>4. outcomes'[n].job = i /\ outcomes'[n].subject = q
    BY <1>6, <1>13, <2>0
  <2> QED
    BY <2>1, <2>2, <2>3, <2>4 DEF CurrentFailures, FailureAt
<1>16. <<i, q>> \in UnresolvedJobFailures'
  BY <1>15 DEF UnresolvedIsCurrent, UnresolvedJobFailures
<1>17. AlreadyRecorded(s, e)'
  <2>1. job'[i].scope = s /\ job'[i].error = e
    BY <1>7, <1>11
  <2> QED
    BY <1>16, <2>1 DEF AlreadyRecorded
<1> QED
  BY <1>3, <1>10, <1>17

(* Pruning takes neither the row from which next_job_id counts, nor the row of *)
(* a running job when a background error is recorded, nor that error itself,   *)
(* which unresolved_job_failures reports from then on.                         *)
THEOREM PruningKeepsWhatIsNeeded ==
  Spec => PruningTakesNothingNeeded
<1> DEFINE Kept == /\ \A i \in used : i \in rows' => i \in rows
                   /\ \A s \in Scopes, e \in Errors : RecordBackgroundError(s, e) =>
                        /\ AlreadyRecorded(s, e)'
                        /\ \A i \in rows : job[i].status = "running" => i \in rows'
<1>1. HistoryInv /\ HistoryInv' /\ UnresolvedIsCurrent' /\ [Next]_vars => [Kept]_vars
  BY NoIdTwice, RecordedIsVisible
<1>2. PruningTakesNothingNeeded <=> [][Kept]_vars
  BY DEF PruningTakesNothingNeeded
<1> HIDE DEF Kept
<1> QED
  BY <1>1, <1>2, HistoryInvHolds, ReportsCurrentFailures, PTL DEF Spec
=============================================================================
