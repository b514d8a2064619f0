------------------------ MODULE HistoryFilterProofs ------------------------
(***************************************************************************)
(* Proofs about HistoryFilter for every budget, message size and length of *)
(* the history: a request fits, carries its prompt, keeps calls with their *)
(* results, alternates, and leaves out only what did not fit.              *)
(*                                                                         *)
(* The algorithm is three recursive functions over positions.  Their       *)
(* values are reached by induction over sets of numbers, the form in which *)
(* the first lemmas state it.                                              *)
(***************************************************************************)
EXTENDS HistoryFilter, SequenceTheorems, WellFoundedInduction, TLAPS

---------------------------------------------------------------------------
(* Induction, and the existence of what a recursion defines.               *)

(* A set of numbers has a smallest one.                                    *)
LEMMA Smallest ==
  ASSUME NEW T \in SUBSET Nat, T # {}
  PROVE  \E n \in T : \A m \in T : n <= m
<1> DEFINE R == OpToRel(<, Nat)
<1>1. IsWellFoundedOn(R, Nat)
  BY NatLessThanWellFounded
<1>2. PICK n \in T : \A m \in T : ~ (<<m, n>> \in R)
  <2> HIDE DEF R
  <2> QED BY <1>1, WFMin
<1>3. ASSUME NEW m \in T, m < n PROVE FALSE
  BY <1>2, <1>3 DEF OpToRel
<1> QED BY <1>3

(* Induction over the numbers up to m.                                     *)
LEMMA InductionTo ==
  ASSUME NEW m \in Nat, NEW T, 0 \in T,
         \A n \in 1 .. m : n - 1 \in T => n \in T
  PROVE  \A n \in 0 .. m : n \in T
<1>1. SUFFICES ASSUME (0 .. m) \ T # {} PROVE FALSE
  OBVIOUS
<1>2. PICK n \in (0 .. m) \ T : \A k \in (0 .. m) \ T : n <= k
  <2> DEFINE U == (0 .. m) \ T
  <2>1. U \in SUBSET Nat /\ U # {}
    BY <1>1
  <2> HIDE DEF U
  <2>2. \E n \in U : \A k \in U : n <= k
    BY <2>1, Smallest
  <2> QED BY <2>2 DEF U
<1>3. n \in 1 .. m /\ n - 1 \in 0 .. m /\ ~ (n <= n - 1)
  BY <1>2
<1>4. n - 1 \in T
  BY <1>2, <1>3
<1> QED BY <1>2, <1>3, <1>4

(* A recursion over 0 .. m whose steps stay in S has a solution in S.      *)
Steps(m, S) == [S \X (1 .. m) -> S]
Solves(f, m, S, c, step) ==
  /\ f \in [0 .. m -> S]
  /\ f[0] = c
  /\ \A n \in 1 .. m : f[n] = step[<<f[n - 1], n>>]

(* The solution is built one number at a time.                             *)
LEMMA Recursion ==
  ASSUME NEW m \in Nat, NEW S, NEW c \in S, NEW step \in Steps(m, S)
  PROVE  \E f : Solves(f, m, S, c, step)
<1> USE DEF Steps
<1> DEFINE Upto(k, f) ==
      f \in [0 .. m -> S] /\ f[0] = c /\ \A n \in 1 .. k : f[n] = step[<<f[n - 1], n>>]
    T == {k \in 0 .. m : \E f : Upto(k, f)}
<1>1. 0 \in T
  <2> DEFINE f == [n \in 0 .. m |-> c]
  <2>1. f \in [0 .. m -> S] /\ 0 \in 0 .. m /\ 1 .. 0 = {}
    OBVIOUS
  <2>2. Upto(0, f)
    BY <2>1
  <2> QED BY <2>1, <2>2
<1>2. ASSUME NEW k \in 1 .. m, k - 1 \in T PROVE k \in T
  <2>1. PICK f : Upto(k - 1, f)
    BY <1>2
  <2>2. k \in 0 .. m /\ k - 1 \in 0 .. m /\ 1 .. k \subseteq 1 .. m
    BY <1>2
  <2>5. f[k - 1] \in S /\ step[<<f[k - 1], k>>] \in S
    BY <2>1, <2>2
  <2> DEFINE g == [f EXCEPT ![k] = step[<<f[k - 1], k>>]]
  <2>3. g \in [0 .. m -> S] /\ g[0] = c
    BY <2>1, <2>2, <2>5
  <2>4. ASSUME NEW n \in 1 .. k PROVE g[n] = step[<<g[n - 1], n>>]
    <3>0. n \in 1 .. m /\ n - 1 \in 0 .. m /\ n - 1 # n /\ n - 1 # k
      BY <2>2
    <3>1. CASE n = k
      BY <2>1, <2>2, <3>0, <3>1
    <3>2. CASE n # k
      BY <2>1, <3>0, <3>2, n \in 1 .. k - 1
    <3> QED BY <3>1, <3>2
  <2> QED BY <2>2, <2>3, <2>4
<1>3. m \in T
  <2> HIDE DEF T
  <2> QED BY <1>1, <1>2, InductionTo
<1> QED BY <1>3 DEF Solves

---------------------------------------------------------------------------
(* Sizes.                                                                  *)
Role == {"system", "user", "assistant", "tool"}
Msg == [role : Role, calls : SUBSET (Nat \X Nat), call : Nat \X Nat,
        length : Nat, blank : BOOLEAN, reasoning : BOOLEAN, parts : Seq(Nat)]

(* The sums that SizeOf goes through.                                      *)
Sizes(s, I) ==
  CHOOSE total : total = [n \in 0 .. Len(s) |->
    IF n = 0 THEN 0
    ELSE total[n - 1] + (IF n \in I THEN Size(s[n]) ELSE 0)]

(* Every message has a size.                                               *)
LEMMA SizeType ==
  ASSUME NEW m \in Msg
  PROVE  Size(m) \in Nat
BY FilterAssumption DEF Size, Msg

(* The sums exist, are numbers and obey their recursion.                   *)
LEMMA SizesAre ==
  ASSUME NEW s \in Seq(Msg), NEW I
  PROVE  /\ Sizes(s, I) \in [0 .. Len(s) -> Nat]
         /\ Sizes(s, I)[0] = 0
         /\ \A n \in 1 .. Len(s) :
              Sizes(s, I)[n]
                = Sizes(s, I)[n - 1] + (IF n \in I THEN Size(s[n]) ELSE 0)
         /\ SizeOf(s, I) = Sizes(s, I)[Len(s)]
<1> DEFINE N == Len(s)
    Add(n) == IF n \in I THEN Size(s[n]) ELSE 0
    Sum(f) == [n \in 0 .. N |-> IF n = 0 THEN 0 ELSE f[n - 1] + Add(n)]
    step == [an \in Nat \X (1 .. N) |-> an[1] + Add(an[2])]
<1>1. N \in Nat /\ \A n \in 1 .. N : Add(n) \in Nat
  BY SizeType
<1>2. Sizes(s, I) = CHOOSE total : total = Sum(total)
  BY DEF Sizes
<1>3. SizeOf(s, I) = Sizes(s, I)[N]
  BY DEF SizeOf, Sizes
<1> HIDE DEF N, Add
<1>4. step \in [Nat \X (1 .. N) -> Nat]
  BY <1>1
<1>5. \A a \in Nat, n \in 1 .. N : step[<<a, n>>] = a + Add(n)
  OBVIOUS
<1>6. PICK f : Solves(f, N, Nat, 0, step)
  BY <1>1, <1>4, Recursion DEF Steps
<1> USE DEF Solves
<1>7. \A n \in 1 .. N : n - 1 \in 0 .. N /\ n # 0
  BY <1>1
<1>8. f = Sum(f)
  <2>1. \A n \in 1 .. N : f[n] = f[n - 1] + Add(n)
    <3> HIDE DEF step
    <3> QED BY <1>5, <1>6, <1>7
  <2>2. \A n \in 0 .. N : n = 0 \/ n \in 1 .. N
    BY <1>1
  <2> HIDE DEF step
  <2> QED BY <1>6, <2>1, <2>2
<1> DEFINE g == Sizes(s, I)
<1>9. g = Sum(g)
  <2> HIDE DEF Sum
  <2> QED BY <1>2, <1>8
<1>10. /\ DOMAIN g = 0 .. N
       /\ g[0] = 0
       /\ \A n \in 1 .. N : g[n] = g[n - 1] + Add(n)
  <2> HIDE DEF g
  <2> QED BY <1>1, <1>7, <1>9
<1>11. \A n \in 0 .. N : g[n] \in Nat
  <2> HIDE DEF g
  <2> DEFINE T == {n \in 0 .. N : g[n] \in Nat}
  <2>1. 0 \in T
    BY <1>1, <1>10
  <2>2. \A n \in 1 .. N : n - 1 \in T => n \in T
    BY <1>1, <1>7, <1>10
  <2> HIDE DEF T
  <2>3. \A n \in 0 .. N : n \in T
    BY <1>1, <2>1, <2>2, InductionTo
  <2> QED BY <2>3 DEF T
<1>12. g = [n \in 0 .. N |-> g[n]]
  <2> HIDE DEF g
  <2> QED BY <1>9, <1>10
<1>13. g \in [0 .. N -> Nat]
  BY <1>11, <1>12
<1> QED BY <1>3, <1>10, <1>13 DEF N, Add

(* Facts about sums, each by induction over the prefix summed.             *)
LEMMA SizeOfType ==
  ASSUME NEW s \in Seq(Msg), NEW I
  PROVE  SizeOf(s, I) \in Nat
BY SizesAre

(* The sizes of two disjoint sets of positions add up.                     *)
LEMMA SizeOfUnion ==
  ASSUME NEW s \in Seq(Msg), NEW I, NEW J, I \cap J = {}
  PROVE  SizeOf(s, I \cup J) = SizeOf(s, I) + SizeOf(s, J)
<1> DEFINE N == Len(s)
    f == Sizes(s, I)
    g == Sizes(s, J)
    h == Sizes(s, I \cup J)
    T == {n \in 0 .. N : h[n] = f[n] + g[n]}
<1>1. N \in Nat /\ \A n \in 1 .. N : n - 1 \in 0 .. N /\ Size(s[n]) \in Nat
  BY SizeType
<1>2. /\ f \in [0 .. N -> Nat] /\ g \in [0 .. N -> Nat] /\ h \in [0 .. N -> Nat]
      /\ f[0] = 0 /\ g[0] = 0 /\ h[0] = 0
  BY SizesAre
<1>3. ASSUME NEW n \in 1 .. N
      PROVE  /\ f[n] = f[n - 1] + (IF n \in I THEN Size(s[n]) ELSE 0)
             /\ g[n] = g[n - 1] + (IF n \in J THEN Size(s[n]) ELSE 0)
             /\ h[n] = h[n - 1] + (IF n \in I \cup J THEN Size(s[n]) ELSE 0)
  BY SizesAre
<1>4. SizeOf(s, I) = f[N] /\ SizeOf(s, J) = g[N] /\ SizeOf(s, I \cup J) = h[N]
  BY SizesAre
<1> HIDE DEF N, f, g, h
<1>5. 0 \in T
  BY <1>1, <1>2
<1>6. ASSUME NEW n \in 1 .. N, n - 1 \in T PROVE n \in T
  <2>1. f[n - 1] \in Nat /\ g[n - 1] \in Nat /\ h[n - 1] = f[n - 1] + g[n - 1]
    BY <1>1, <1>2, <1>6
  <2>2. ~ (n \in I /\ n \in J)
    OBVIOUS
  <2> QED BY <1>1, <1>3, <2>1, <2>2
<1>7. \A n \in 0 .. N : n \in T
  <2> HIDE DEF T
  <2> QED BY <1>1, <1>5, <1>6, InductionTo
<1> QED BY <1>1, <1>4, <1>7

(* More positions are no smaller.                                          *)
LEMMA SizeOfMonotone ==
  ASSUME NEW s \in Seq(Msg), NEW I, NEW J, I \cap DOMAIN s \subseteq J
  PROVE  SizeOf(s, I) <= SizeOf(s, J)
<1> DEFINE N == Len(s)
    f == Sizes(s, I)
    g == Sizes(s, J)
    T == {n \in 0 .. N : f[n] <= g[n]}
<1>1. N \in Nat /\ \A n \in 1 .. N : n - 1 \in 0 .. N /\ Size(s[n]) \in Nat
  BY SizeType
<1>2. /\ f \in [0 .. N -> Nat] /\ g \in [0 .. N -> Nat]
      /\ f[0] = 0 /\ g[0] = 0
  BY SizesAre
<1>3. ASSUME NEW n \in 1 .. N
      PROVE  /\ f[n] = f[n - 1] + (IF n \in I THEN Size(s[n]) ELSE 0)
             /\ g[n] = g[n - 1] + (IF n \in J THEN Size(s[n]) ELSE 0)
             /\ n \in I => n \in J
  BY SizesAre
<1>4. SizeOf(s, I) = f[N] /\ SizeOf(s, J) = g[N]
  BY SizesAre
<1> HIDE DEF N, f, g
<1>5. 0 \in T
  BY <1>1, <1>2
<1>6. ASSUME NEW n \in 1 .. N, n - 1 \in T PROVE n \in T
  <2>1. f[n - 1] \in Nat /\ g[n - 1] \in Nat /\ f[n - 1] <= g[n - 1]
    BY <1>1, <1>2, <1>6
  <2>2. Size(s[n]) \in Nat
    BY <1>1
  <2>3. CASE n \in I
    <3>1. f[n] = f[n - 1] + Size(s[n]) /\ g[n] = g[n - 1] + Size(s[n])
      BY <1>3, <2>3
    <3> QED BY <2>1, <2>2, <3>1
  <2>4. CASE n \notin I
    <3>1. f[n] = f[n - 1] + 0
      BY <1>3, <2>4
    <3>2. g[n] = g[n - 1] + Size(s[n]) \/ g[n] = g[n - 1] + 0
      BY <1>3
    <3> QED BY <2>1, <2>2, <3>1, <3>2
  <2> QED BY <2>3, <2>4
<1>7. \A n \in 0 .. N : n \in T
  <2> HIDE DEF T
  <2> QED BY <1>1, <1>5, <1>6, InductionTo
<1> QED BY <1>1, <1>4, <1>7

(* A message at the end adds its size.                                     *)
LEMMA TotalOfAppend ==
  ASSUME NEW t \in Seq(Msg), NEW m \in Msg
  PROVE  TotalSize(Append(t, m)) = TotalSize(t) + Size(m)
<1> DEFINE N == Len(t)
    u == Append(t, m)
    f == Sizes(t, DOMAIN t)
    g == Sizes(u, DOMAIN u)
    T == {n \in 0 .. N : g[n] = f[n]}
<1>1. /\ N \in Nat /\ N \in 0 .. N
      /\ u \in Seq(Msg) /\ Len(u) = N + 1 /\ DOMAIN u = 1 .. N + 1
      /\ DOMAIN t = 1 .. N
      /\ \A n \in 1 .. N : n - 1 \in 0 .. N /\ n \in 1 .. N + 1 /\ u[n] = t[n]
      /\ u[N + 1] = m
  OBVIOUS
<1>2. /\ f[0] = 0
      /\ \A n \in 1 .. N : f[n] = f[n - 1] + (IF n \in DOMAIN t THEN Size(t[n]) ELSE 0)
      /\ TotalSize(t) = f[N]
  BY SizesAre DEF TotalSize
<1>3. /\ g[0] = 0
      /\ \A n \in 1 .. N + 1 :
           g[n] = g[n - 1] + (IF n \in DOMAIN u THEN Size(u[n]) ELSE 0)
      /\ TotalSize(u) = g[N + 1]
  <2>1. /\ g[0] = 0
        /\ \A n \in 1 .. Len(u) :
             g[n] = g[n - 1] + (IF n \in DOMAIN u THEN Size(u[n]) ELSE 0)
        /\ SizeOf(u, DOMAIN u) = g[Len(u)]
    <3> HIDE DEF u
    <3> QED BY <1>1, SizesAre
  <2> QED BY <1>1, <2>1 DEF TotalSize
<1> HIDE DEF N, u, f, g
<1>4. 0 \in T
  BY <1>1, <1>2, <1>3
<1>5. ASSUME NEW n \in 1 .. N, n - 1 \in T PROVE n \in T
  <2>1. g[n - 1] = f[n - 1]
    BY <1>5
  <2>2. n \in 1 .. N + 1 /\ u[n] = t[n] /\ n \in DOMAIN u /\ n \in DOMAIN t
    BY <1>1
  <2>3. f[n] = f[n - 1] + Size(t[n]) /\ g[n] = g[n - 1] + Size(u[n])
    BY <1>2, <1>3, <2>2
  <2> QED BY <1>1, <2>1, <2>2, <2>3
<1>6. \A n \in 0 .. N : n \in T
  <2> HIDE DEF T
  <2> QED BY <1>1, <1>4, <1>5, InductionTo
<1>7. g[N] = f[N]
  BY <1>1, <1>6
<1>8. g[N + 1] = g[N] + Size(m)
  <2>1. N + 1 \in 1 .. N + 1 /\ (N + 1) - 1 = N /\ N + 1 \in DOMAIN u
    BY <1>1
  <2> QED BY <1>1, <1>3, <2>1
<1> QED BY <1>2, <1>3, <1>7, <1>8 DEF u

(* An empty list has no size.                                              *)
LEMMA TotalOfNothing == TotalSize(<<>>) = 0
<1>1. << >> \in Seq(Msg) /\ Len(<< >>) = 0
  OBVIOUS
<1> QED BY <1>1, SizesAre, ZenonT(60) DEF TotalSize

---------------------------------------------------------------------------
(* One step of the repair.                                                 *)
Merges(a, b) == Mergeable(a) /\ Mergeable(b) /\ a.role = b.role
Merged(a, b) == [b EXCEPT !.length = a.length + Separator + b.length,
                          !.blank = a.blank /\ b.blank,
                          !.parts = a.parts \o b.parts]

(* Joined texts are a text of the same role with the content of both, no   *)
(* larger than the two and not empty.                                      *)
LEMMA MergedFacts ==
  ASSUME NEW a \in Msg, NEW b \in Msg, Merges(a, b)
  PROVE  /\ Merged(a, b) \in Msg
         /\ Mergeable(Merged(a, b)) /\ Merged(a, b).role = b.role
         /\ Parts(Merged(a, b)) = Parts(a) \cup Parts(b)
         /\ Size(Merged(a, b)) <= Size(a) + Size(b)
         /\ ~ Blank(b) => ~ Blank(Merged(a, b))
<1> DEFINE c == Merged(a, b)
<1>1. /\ c.role = b.role /\ c.calls = b.calls /\ c.call = b.call
      /\ c.reasoning = b.reasoning
      /\ c.length = a.length + Separator + b.length
      /\ c.blank = (a.blank /\ b.blank) /\ c.blank \in BOOLEAN
      /\ c.parts = a.parts \o b.parts
  BY DEF Merged, Msg
<1>2. /\ a.length \in Nat /\ b.length \in Nat /\ Separator \in Nat
      /\ Base \in Nat /\ Separator <= Base
      /\ a.parts \in Seq(Nat) /\ b.parts \in Seq(Nat)
  BY FilterAssumption DEF Msg
<1>3. c.length \in Nat /\ c.parts \in Seq(Nat)
  BY <1>1, <1>2
<1>4. c \in Msg
  <2>1. \A n \in Nat, x \in BOOLEAN, ps \in Seq(Nat) :
          [b EXCEPT !.length = n, !.blank = x, !.parts = ps] \in Msg
    BY DEF Msg
  <2> QED BY <1>1, <1>3, <2>1 DEF Merged
<1> HIDE DEF c
<1>5. Mergeable(c)
  BY <1>1 DEF Mergeable, Merges
<1>6. Parts(c) = Parts(a) \cup Parts(b)
  <2> DEFINE u == a.parts
    v == b.parts
    w == c.parts
  <2>0. u \in Seq(Nat) /\ v \in Seq(Nat) /\ w = u \o v
    BY <1>1, <1>2
  <2> HIDE DEF u, v, w
  <2>1. /\ Len(u) \in Nat /\ Len(v) \in Nat /\ Len(w) = Len(u) + Len(v)
        /\ DOMAIN u = 1 .. Len(u) /\ DOMAIN v = 1 .. Len(v)
        /\ DOMAIN w = 1 .. Len(u) + Len(v)
        /\ \A i \in 1 .. Len(u) + Len(v) :
             w[i] = IF i <= Len(u) THEN u[i] ELSE v[i - Len(u)]
    BY <2>0, ConcatProperties
  <2>2. \A i \in DOMAIN u : i \in DOMAIN w /\ w[i] = u[i]
    BY <2>1
  <2>3. \A i \in DOMAIN v :
          Len(u) + i \in DOMAIN w /\ w[Len(u) + i] = v[i]
    <3> TAKE i \in DOMAIN v
    <3>1. Len(u) + i \in 1 .. Len(u) + Len(v) /\ ~ (Len(u) + i <= Len(u))
          /\ (Len(u) + i) - Len(u) = i
      BY <2>1
    <3> QED BY <2>1, <3>1
  <2>4. \A i \in DOMAIN w : \/ i \in DOMAIN u /\ w[i] = u[i]
                            \/ i - Len(u) \in DOMAIN v /\ w[i] = v[i - Len(u)]
    BY <2>1
  <2>5. {w[i] : i \in DOMAIN w} = {u[i] : i \in DOMAIN u} \cup {v[i] : i \in DOMAIN v}
    <3>1. ASSUME NEW x \in {w[i] : i \in DOMAIN w}
          PROVE  x \in {u[i] : i \in DOMAIN u} \cup {v[i] : i \in DOMAIN v}
      BY <2>4
    <3>2. ASSUME NEW x \in {u[i] : i \in DOMAIN u}
          PROVE  x \in {w[i] : i \in DOMAIN w}
      BY <2>2
    <3>3. ASSUME NEW x \in {v[i] : i \in DOMAIN v}
          PROVE  x \in {w[i] : i \in DOMAIN w}
      BY <2>3
    <3> QED BY <3>1, <3>2, <3>3
  <2> QED BY <2>5 DEF Parts, u, v, w
<1>7. Size(c) <= Size(a) + Size(b)
  BY <1>1, <1>2 DEF Size
<1>8. ~ Blank(b) => ~ Blank(c)
  BY <1>1, <1>2 DEF Blank
<1> QED BY <1>1, <1>4, <1>5, <1>6, <1>7, <1>8 DEF c

(* Nothing, one more message, or the last one joined.                      *)
LEMMA RepairStep ==
  ASSUME NEW done \in Seq(Msg), NEW m \in Msg
  PROVE  LET r == AppendOrMerge(done, m)
             L == Len(done) IN
         \/ Blank(m) /\ r = done
         \/ /\ ~ Blank(m) /\ (L > 0 => ~ Merges(done[L], m))
            /\ r = Append(done, m)
         \/ /\ ~ Blank(m) /\ L > 0 /\ Merges(done[L], m)
            /\ r = Append(Front(done), Merged(done[L], m))
<1>1. done # <<>> <=> Len(done) > 0
  BY EmptySeq
<1>2. Last(done) = done[Len(done)]
  BY DEF Last
<1> QED BY <1>1, <1>2 DEF AppendOrMerge, Merges, Merged

(* A list without its last message.                                        *)
LEMMA FrontFacts ==
  ASSUME NEW t \in Seq(Msg), Len(t) > 0
  PROVE  /\ t[Len(t)] \in Msg
         /\ Front(t) \in Seq(Msg) /\ Len(Front(t)) = Len(t) - 1
         /\ \A i \in 1 .. Len(t) - 1 : Front(t)[i] = t[i]
<1> DEFINE L == Len(t) - 1
<1>1. /\ L \in Nat /\ Len(t) \in 1 .. Len(t)
      /\ \A i \in 1 .. L : t[i] \in Msg
  OBVIOUS
<1>2. /\ SubSeq(t, 1, L) \in Seq(Msg)
      /\ Len(SubSeq(t, 1, L)) = IF 1 <= L THEN L - 1 + 1 ELSE 0
      /\ \A i \in 1 .. L - 1 + 1 : SubSeq(t, 1, L)[i] = t[1 + i - 1]
  <2> HIDE DEF L
  <2> QED BY <1>1, SubSeqProperties
<1>3. /\ L = IF 1 <= L THEN L - 1 + 1 ELSE 0
      /\ \A i \in 1 .. L : i \in 1 .. L - 1 + 1 /\ 1 + i - 1 = i
  <2> HIDE DEF L
  <2> QED BY <1>1
<1> QED BY <1>1, <1>2, <1>3 DEF Front

(* A step of the repair leaves a list of messages.                         *)
LEMMA RepairType ==
  ASSUME NEW done \in Seq(Msg), NEW m \in Msg
  PROVE  AppendOrMerge(done, m) \in Seq(Msg)
<1>1. CASE AppendOrMerge(done, m) = done
  BY <1>1
<1>2. CASE AppendOrMerge(done, m) = Append(done, m)
  BY <1>2
<1>3. CASE /\ Len(done) > 0 /\ Merges(done[Len(done)], m)
           /\ AppendOrMerge(done, m)
                = Append(Front(done), Merged(done[Len(done)], m))
  BY <1>3, FrontFacts, MergedFacts, AppendProperties
<1> QED BY <1>1, <1>2, <1>3, RepairStep

(* The same, position by position.                                         *)
LEMMA RepairShape ==
  ASSUME NEW done \in Seq(Msg), NEW m \in Msg
  PROVE  LET r == AppendOrMerge(done, m)
             L == Len(done) IN
         \/ Blank(m) /\ r = done
         \/ /\ ~ Blank(m) /\ (L > 0 => ~ Merges(done[L], m))
            /\ Len(r) = L + 1 /\ r[L + 1] = m
            /\ \A i \in 1 .. L : r[i] = done[i]
         \/ /\ ~ Blank(m) /\ L > 0 /\ Merges(done[L], m)
            /\ Len(r) = L /\ r[L] = Merged(done[L], m)
            /\ \A i \in 1 .. L - 1 : r[i] = done[i]
<1> DEFINE r == AppendOrMerge(done, m)
    L == Len(done)
<1>1. ASSUME L > 0, NEW c \in Msg, r = Append(Front(done), c)
      PROVE  Len(r) = L /\ r[L] = c /\ \A i \in 1 .. L - 1 : r[i] = done[i]
  <2>1. /\ Front(done) \in Seq(Msg) /\ Len(Front(done)) = L - 1
        /\ \A i \in 1 .. L - 1 : Front(done)[i] = done[i]
    BY <1>1, FrontFacts
  <2> QED BY <1>1, <2>1
<1>2. ASSUME r = Append(done, m)
      PROVE  Len(r) = L + 1 /\ r[L + 1] = m /\ \A i \in 1 .. L : r[i] = done[i]
  BY <1>2
<1>3. L > 0 => done[L] \in Msg
  OBVIOUS
<1> QED BY <1>1, <1>2, <1>3, RepairStep, MergedFacts

(* What a step does to the list: its size grows by the message at most.    *)
LEMMA RepairSize ==
  ASSUME NEW done \in Seq(Msg), NEW m \in Msg
  PROVE  TotalSize(AppendOrMerge(done, m)) <= TotalSize(done) + Size(m)
<1> DEFINE L == Len(done)
    r == AppendOrMerge(done, m)
<1>1. TotalSize(done) \in Nat /\ Size(m) \in Nat
  BY SizeOfType, SizeType DEF TotalSize
<1>2. ASSUME r = done PROVE TotalSize(r) <= TotalSize(done) + Size(m)
  BY <1>1, <1>2
<1>3. ASSUME r = Append(done, m) PROVE TotalSize(r) <= TotalSize(done) + Size(m)
  BY <1>1, <1>3, TotalOfAppend
<1>4. ASSUME L > 0, Merges(done[L], m),
             r = Append(Front(done), Merged(done[L], m))
      PROVE  TotalSize(r) <= TotalSize(done) + Size(m)
  <2>1. /\ done[L] \in Msg /\ Front(done) \in Seq(Msg)
        /\ Merged(done[L], m) \in Msg
        /\ Size(Merged(done[L], m)) <= Size(done[L]) + Size(m)
    BY <1>4, FrontFacts, MergedFacts
  <2>2. Append(Front(done), done[L]) = done
    <3>1. /\ Append(Front(done), done[L]) \in Seq(Msg)
          /\ Len(Append(Front(done), done[L])) = L
          /\ \A i \in 1 .. L : Append(Front(done), done[L])[i] = done[i]
      BY <1>4, <2>1, FrontFacts
    <3> QED BY <3>1, SeqEqual
  <2>3. TotalSize(done) = TotalSize(Front(done)) + Size(done[L])
    BY <2>1, <2>2, TotalOfAppend
  <2>4. TotalSize(r) = TotalSize(Front(done)) + Size(Merged(done[L], m))
    BY <1>4, <2>1, TotalOfAppend
  <2>5. /\ TotalSize(Front(done)) \in Nat /\ Size(done[L]) \in Nat
        /\ Size(Merged(done[L], m)) \in Nat
    BY <2>1, SizeOfType, SizeType DEF TotalSize
  <2> HIDE DEF r, L
  <2> QED BY <1>1, <2>1, <2>3, <2>4, <2>5
<1>5. \/ r = done
      \/ r = Append(done, m)
      \/ /\ L > 0 /\ Merges(done[L], m)
         /\ r = Append(Front(done), Merged(done[L], m))
  BY RepairStep
<1> HIDE DEF r, L
<1>6. TotalSize(r) <= TotalSize(done) + Size(m)
  BY <1>2, <1>3, <1>4, <1>5
<1> QED BY <1>6 DEF r

(* The content of the message is added, unless it is an empty answer.      *)
AllParts(t) == UNION {Parts(t[i]) : i \in DOMAIN t}

(* A step adds the content of its message, unless that is an empty answer. *)
LEMMA RepairParts ==
  ASSUME NEW done \in Seq(Msg), NEW m \in Msg
  PROVE  AllParts(AppendOrMerge(done, m))
           = AllParts(done) \cup (IF Blank(m) THEN {} ELSE Parts(m))
<1> DEFINE L == Len(done)
    r == AppendOrMerge(done, m)
<1>1. /\ L \in Nat /\ DOMAIN done = 1 .. L
      /\ r \in Seq(Msg) /\ DOMAIN r = 1 .. Len(r)
      /\ \A i \in DOMAIN done : done[i] \in Msg
  BY RepairType
<1>2. CASE Blank(m) /\ r = done
  BY <1>2
<1>3. CASE /\ ~ Blank(m) /\ Len(r) = L + 1 /\ r[L + 1] = m
           /\ \A i \in 1 .. L : r[i] = done[i]
  <2>1. DOMAIN r = 1 .. L + 1 /\ L + 1 \in 1 .. L + 1
    BY <1>1, <1>3
  <2> HIDE DEF r, L
  <2>2. \A i \in DOMAIN r : (i \in DOMAIN done /\ r[i] = done[i]) \/ r[i] = m
    BY <1>1, <1>3, <2>1
  <2>3. \A i \in DOMAIN done : i \in DOMAIN r /\ r[i] = done[i]
    BY <1>1, <1>3, <2>1
  <2>4. L + 1 \in DOMAIN r /\ r[L + 1] = m
    BY <1>3, <2>1
  <2>5. AllParts(r) = AllParts(done) \cup Parts(m)
    BY <2>2, <2>3, <2>4 DEF AllParts
  <2> QED BY <1>3, <2>5 DEF r
<1>4. CASE /\ ~ Blank(m) /\ L > 0 /\ Merges(done[L], m)
           /\ Len(r) = L /\ r[L] = Merged(done[L], m)
           /\ \A i \in 1 .. L - 1 : r[i] = done[i]
  <2>1. DOMAIN r = 1 .. L /\ L \in 1 .. L
    BY <1>1, <1>4
  <2>2. Parts(r[L]) = Parts(done[L]) \cup Parts(m)
    BY <1>1, <1>4, <2>1, MergedFacts
  <2> HIDE DEF r, L
  <2>3. \A i \in 1 .. L : i = L \/ r[i] = done[i]
    BY <1>1, <1>4
  <2>4. AllParts(r) = AllParts(done) \cup Parts(m)
    BY <1>1, <2>1, <2>2, <2>3 DEF AllParts
  <2> QED BY <1>4, <2>4 DEF r
<1> QED BY <1>2, <1>3, <1>4, RepairShape

(* The list stays without empty answers and without mergeable neighbours.  *)
Alternates(t) ==
  /\ \A i \in DOMAIN t : ~ Blank(t[i])
  /\ \A i \in 1 .. Len(t) - 1 : ~ Merges(t[i], t[i + 1])

(* A step keeps the list free of empty answers and of neighbours to join.  *)
LEMMA RepairAlternates ==
  ASSUME NEW done \in Seq(Msg), NEW m \in Msg, Alternates(done)
  PROVE  Alternates(AppendOrMerge(done, m))
<1> DEFINE L == Len(done)
    r == AppendOrMerge(done, m)
<1>1. /\ L \in Nat /\ DOMAIN done = 1 .. L
      /\ r \in Seq(Msg) /\ DOMAIN r = 1 .. Len(r)
      /\ \A i \in DOMAIN done : done[i] \in Msg
  BY RepairType
<1>2. CASE Blank(m) /\ r = done
  BY <1>2
<1>3. CASE /\ ~ Blank(m) /\ (L > 0 => ~ Merges(done[L], m))
           /\ Len(r) = L + 1 /\ r[L + 1] = m
           /\ \A i \in 1 .. L : r[i] = done[i]
  <2> HIDE DEF r
  <2>1. \A i \in DOMAIN r : ~ Blank(r[i])
    BY <1>1, <1>3 DEF Alternates
  <2>2. ASSUME NEW i \in 1 .. Len(r) - 1 PROVE ~ Merges(r[i], r[i + 1])
    <3>1. CASE i = L
      BY <1>1, <1>3, <2>2, <3>1
    <3>2. CASE i # L
      <4>1. i \in 1 .. L - 1 /\ i \in 1 .. L /\ i + 1 \in 1 .. L
        <5>0. L \in Nat /\ Len(r) = L + 1
          BY <1>1, <1>3
        <5>1. L \in Nat /\ i \in 1 .. L /\ i # L
          <6> HIDE DEF L
          <6> QED BY <2>2, <3>2, <5>0
        <5> HIDE DEF L
        <5> QED BY <5>1
      <4> QED BY <1>3, <4>1 DEF Alternates
    <3> QED BY <3>1, <3>2
  <2> QED BY <2>1, <2>2 DEF Alternates, r
<1>4. CASE /\ ~ Blank(m) /\ L > 0 /\ Merges(done[L], m)
           /\ Len(r) = L /\ r[L] = Merged(done[L], m)
           /\ \A i \in 1 .. L - 1 : r[i] = done[i]
  <2>1. L \in 1 .. L /\ ~ Blank(r[L]) /\ r[L].role = m.role
        /\ done[L].role = m.role /\ Mergeable(done[L])
    BY <1>1, <1>4, MergedFacts DEF Merges
  <2> HIDE DEF r
  <2>2. \A i \in DOMAIN r : ~ Blank(r[i])
    <3>1. \A i \in DOMAIN r : i = L \/ (i \in 1 .. L - 1 /\ i \in DOMAIN done)
      BY <1>1, <1>4
    <3> QED BY <1>4, <2>1, <3>1 DEF Alternates
  <2>3. ASSUME NEW i \in 1 .. Len(r) - 1 PROVE ~ Merges(r[i], r[i + 1])
    <3>1. CASE i + 1 = L
      <4>1. i \in 1 .. L - 1 /\ r[i] = done[i]
        BY <1>1, <1>4, <2>3
      <4>2. ~ Merges(done[i], done[L])
        BY <1>1, <3>1, <4>1 DEF Alternates
      <4> QED BY <2>1, <3>1, <4>1, <4>2 DEF Merges
    <3>2. CASE i + 1 # L
      <4>1. i \in 1 .. L - 1 /\ i + 1 \in 1 .. L - 1
        <5>1. L \in Nat /\ i \in 1 .. L - 1 /\ i + 1 # L
          BY <1>1, <1>4, <2>3, <3>2
        <5> HIDE DEF L
        <5> QED BY <5>1
      <4> QED BY <1>4, <4>1 DEF Alternates
    <3> QED BY <3>1, <3>2
  <2> QED BY <2>2, <2>3 DEF Alternates, r
<1> QED BY <1>2, <1>3, <1>4, RepairShape

(* The order of the content.                                               *)
Before(P, Q) == \A p \in P, q \in Q : p < q
InOrder(t) == \A i, j \in DOMAIN t : i < j => Before(Parts(t[i]), Parts(t[j]))

(* A step keeps the order when its message is behind all others.           *)
LEMMA RepairOrder ==
  ASSUME NEW done \in Seq(Msg), NEW m \in Msg,
         InOrder(done), Before(AllParts(done), Parts(m))
  PROVE  InOrder(AppendOrMerge(done, m))
<1> DEFINE L == Len(done)
    r == AppendOrMerge(done, m)
<1>1. /\ L \in Nat /\ DOMAIN done = 1 .. L
      /\ r \in Seq(Msg) /\ DOMAIN r = 1 .. Len(r)
      /\ \A i \in DOMAIN done : done[i] \in Msg
  BY RepairType
<1>5. \A i \in DOMAIN done : Before(Parts(done[i]), Parts(m))
  BY DEF Before, AllParts
<1>2. CASE Blank(m) /\ r = done
  BY <1>2
<1>3. CASE /\ Len(r) = L + 1 /\ r[L + 1] = m
           /\ \A i \in 1 .. L : r[i] = done[i]
  <2> HIDE DEF r
  <2>1. SUFFICES ASSUME NEW i \in DOMAIN r, NEW j \in DOMAIN r, i < j
                 PROVE  Before(Parts(r[i]), Parts(r[j]))
    BY DEF InOrder, r
  <2>2. i \in 1 .. L /\ (j = L + 1 \/ j \in 1 .. L)
    <3>1. L \in Nat /\ i \in 1 .. L + 1 /\ j \in 1 .. L + 1
      BY <1>1, <1>3
    <3> HIDE DEF L
    <3> QED BY <2>1, <3>1
  <2> QED BY <1>1, <1>3, <1>5, <2>1, <2>2 DEF InOrder
<1>4. CASE /\ L > 0 /\ Merges(done[L], m)
           /\ Len(r) = L /\ r[L] = Merged(done[L], m)
           /\ \A i \in 1 .. L - 1 : r[i] = done[i]
  <2>1. L \in 1 .. L /\ Parts(r[L]) = Parts(done[L]) \cup Parts(m)
    BY <1>1, <1>4, MergedFacts
  <2> HIDE DEF r
  <2>2. SUFFICES ASSUME NEW i \in DOMAIN r, NEW j \in DOMAIN r, i < j
                 PROVE  Before(Parts(r[i]), Parts(r[j]))
    BY DEF InOrder, r
  <2>3. /\ i \in 1 .. L - 1 /\ i \in DOMAIN done /\ j \in DOMAIN done
        /\ (j = L \/ j \in 1 .. L - 1)
    <3>1. L \in Nat /\ i \in 1 .. L /\ j \in 1 .. L /\ DOMAIN done = 1 .. L
      BY <1>1, <1>4
    <3> HIDE DEF L
    <3> QED BY <2>2, <3>1
  <2>4. r[i] = done[i] /\ Before(Parts(done[i]), Parts(done[j]))
    BY <1>4, <2>2, <2>3 DEF InOrder
  <2>5. CASE j = L
    <3>1. Before(Parts(done[i]), Parts(done[L]) \cup Parts(m))
      BY <1>5, <2>3, <2>4, <2>5 DEF Before
    <3> QED BY <2>1, <2>4, <2>5, <3>1
  <2>6. CASE j \in 1 .. L - 1
    BY <1>4, <2>4, <2>6
  <2> QED BY <2>3, <2>5, <2>6
<1> QED BY <1>2, <1>3, <1>4, RepairShape

(* What is not plain text stays where it is and as it is, and the message  *)
(* goes behind the list when it is none.                                   *)
LEMMA RepairFixed ==
  ASSUME NEW done \in Seq(Msg), NEW m \in Msg
  PROVE  LET r == AppendOrMerge(done, m)
             L == Len(done) IN
         /\ Len(r) \in Nat /\ L <= Len(r)
         /\ \A i \in 1 .. L : ~ Mergeable(done[i]) => r[i] = done[i]
         /\ \A i \in 1 .. Len(r) : ~ Mergeable(r[i]) =>
              (i \in 1 .. L /\ r[i] = done[i]) \/ r[i] = m
         /\ ~ Mergeable(m) => Len(r) = L + 1 /\ r[L + 1] = m
<1> DEFINE L == Len(done)
    r == AppendOrMerge(done, m)
<1>1. /\ L \in Nat /\ DOMAIN done = 1 .. L /\ Len(r) \in Nat
      /\ \A i \in DOMAIN done : done[i] \in Msg
  BY RepairType
<1>2. Blank(m) => Mergeable(m)
  BY DEF Blank, Mergeable
<1>3. CASE Blank(m) /\ r = done
  BY <1>1, <1>2, <1>3
<1>4. CASE /\ Len(r) = L + 1 /\ r[L + 1] = m
           /\ \A i \in 1 .. L : r[i] = done[i]
  <2> HIDE DEF r, L
  <2>1. L <= Len(r) /\ \A i \in 1 .. Len(r) : i \in 1 .. L \/ i = L + 1
    BY <1>1, <1>4
  <2> QED BY <1>1, <1>4, <2>1 DEF r, L
<1>5. CASE /\ L > 0 /\ Merges(done[L], m)
           /\ Len(r) = L /\ r[L] = Merged(done[L], m)
           /\ \A i \in 1 .. L - 1 : r[i] = done[i]
  <2>1. Mergeable(r[L]) /\ Mergeable(done[L]) /\ Mergeable(m)
    BY <1>1, <1>5, MergedFacts DEF Merges
  <2> HIDE DEF r, L
  <2>2. L <= Len(r) /\ \A i \in 1 .. L : i \in 1 .. L - 1 \/ i = L
    BY <1>1, <1>5
  <2> QED BY <1>1, <1>5, <2>1, <2>2 DEF r, L
<1> QED BY <1>3, <1>4, <1>5, RepairShape

---------------------------------------------------------------------------
(* The repair of the messages of s at the positions K.                     *)
Sanitized(s, K) ==
  CHOOSE sanitized : sanitized = [n \in 0 .. Len(s) |->
    IF n = 0 THEN <<>>
    ELSE IF n \in K THEN AppendOrMerge(sanitized[n - 1], s[n])
    ELSE sanitized[n - 1]]

(* The repair exists, and each of its steps is AppendOrMerge or nothing.   *)
LEMMA SanitizedIs ==
  ASSUME NEW s \in Seq(Msg), NEW K
  PROVE  /\ Sanitized(s, K) \in [0 .. Len(s) -> Seq(Msg)]
         /\ Sanitized(s, K)[0] = <<>>
         /\ \A n \in 1 .. Len(s) :
              Sanitized(s, K)[n] =
                IF n \in K THEN AppendOrMerge(Sanitized(s, K)[n - 1], s[n])
                ELSE Sanitized(s, K)[n - 1]
         /\ SanitizeConversation(s, K) = Sanitized(s, K)[Len(s)]
<1> DEFINE N == Len(s)
    Add(done, n) == IF n \in K THEN AppendOrMerge(done, s[n]) ELSE done
    empty == << >>
    Lists(f) == [n \in 0 .. N |-> IF n = 0 THEN empty ELSE Add(f[n - 1], n)]
    step == [an \in Seq(Msg) \X (1 .. N) |-> Add(an[1], an[2])]
    g == Sanitized(s, K)
<1>1. N \in Nat /\ \A done \in Seq(Msg), n \in 1 .. N : Add(done, n) \in Seq(Msg)
  <2>1. N \in Nat /\ \A n \in 1 .. N : s[n] \in Msg
    OBVIOUS
  <2> QED BY <2>1, RepairType
<1>2. g = CHOOSE sanitized : sanitized = Lists(sanitized)
  BY DEF Sanitized
<1>3. SanitizeConversation(s, K) = g[N]
  BY DEF SanitizeConversation, Sanitized
<1>4. empty \in Seq(Msg)
  OBVIOUS
<1> HIDE DEF N, Add, g, empty
<1>5. step \in [Seq(Msg) \X (1 .. N) -> Seq(Msg)]
  BY <1>1
<1>6. \A a \in Seq(Msg), n \in 1 .. N : step[<<a, n>>] = Add(a, n)
  OBVIOUS
<1>7. PICK f : Solves(f, N, Seq(Msg), empty, step)
  <2> HIDE DEF step
  <2> QED BY <1>1, <1>4, <1>5, Recursion DEF Steps
<1>8. \A n \in 1 .. N : n - 1 \in 0 .. N /\ n # 0
  BY <1>1
<1>9. f = Lists(f)
  <2> HIDE DEF step
  <2>1. \A n \in 1 .. N : f[n] = Add(f[n - 1], n)
    BY <1>6, <1>7, <1>8 DEF Solves
  <2>2. \A n \in 0 .. N : n = 0 \/ n \in 1 .. N
    BY <1>1
  <2> QED BY <1>7, <2>1, <2>2 DEF Solves
<1>10. g = Lists(g)
  <2> HIDE DEF Lists
  <2> QED BY <1>2, <1>9
<1>11. /\ DOMAIN g = 0 .. N
       /\ g[0] = empty
       /\ \A n \in 1 .. N : g[n] = Add(g[n - 1], n)
  <2> DEFINE h == Lists(g)
  <2>1. /\ DOMAIN h = 0 .. N
        /\ h[0] = empty
        /\ \A n \in 1 .. N : h[n] = Add(g[n - 1], n)
    BY <1>1, <1>8
  <2>2. g = h
    BY <1>10
  <2> HIDE DEF h
  <2> QED BY <2>1, <2>2
<1>12. \A n \in 0 .. N : g[n] \in Seq(Msg)
  <2> DEFINE T == {n \in 0 .. N : g[n] \in Seq(Msg)}
  <2>1. 0 \in T
    BY <1>1, <1>4, <1>11
  <2>2. \A n \in 1 .. N : n - 1 \in T => n \in T
    BY <1>1, <1>8, <1>11
  <2> HIDE DEF T
  <2>3. \A n \in 0 .. N : n \in T
    BY <1>1, <2>1, <2>2, InductionTo
  <2> QED BY <2>3 DEF T
<1>13. g = [n \in 0 .. N |-> g[n]]
  BY <1>10, <1>11
<1>14. g \in [0 .. N -> Seq(Msg)]
  BY <1>12, <1>13
<1> QED BY <1>3, <1>11, <1>14 DEF N, Add, g, empty

(* One position further.                                                   *)
LEMMA SanitizedStep ==
  ASSUME NEW s \in Seq(Msg), NEW K, NEW n \in 1 .. Len(s)
  PROVE  /\ n - 1 \in 0 .. Len(s) /\ n \in 0 .. Len(s) /\ s[n] \in Msg
         /\ Sanitized(s, K)[n - 1] \in Seq(Msg)
         /\ n \in K =>
              Sanitized(s, K)[n] = AppendOrMerge(Sanitized(s, K)[n - 1], s[n])
         /\ n \notin K => Sanitized(s, K)[n] = Sanitized(s, K)[n - 1]
<1>1. n - 1 \in 0 .. Len(s) /\ n \in 0 .. Len(s) /\ s[n] \in Msg
  OBVIOUS
<1> DEFINE r == Sanitized(s, K)
<1>2. /\ r \in [0 .. Len(s) -> Seq(Msg)]
      /\ r[n] = IF n \in K THEN AppendOrMerge(r[n - 1], s[n]) ELSE r[n - 1]
  BY SanitizedIs
<1> HIDE DEF r
<1>3. r[n - 1] \in Seq(Msg)
  BY <1>1, <1>2
<1> QED BY <1>1, <1>2, <1>3 DEF r

(* The repair adds no size.                                                *)
LEMMA SanitizeSize ==
  ASSUME NEW s \in Seq(Msg), NEW K
  PROVE  TotalSize(SanitizeConversation(s, K)) <= SizeOf(s, K)
<1> DEFINE N == Len(s)
    r == Sanitized(s, K)
    f == Sizes(s, K)
    T == {n \in 0 .. N : TotalSize(r[n]) <= f[n]}
<1>1. N \in Nat
  OBVIOUS
<1>2. 0 \in T
  <2>1. r[0] = << >> /\ f[0] = 0
    BY SanitizedIs, SizesAre
  <2> QED BY <1>1, <2>1, TotalOfNothing
<1>3. ASSUME NEW n \in 1 .. N, n - 1 \in T PROVE n \in T
  <2>1. /\ n - 1 \in 0 .. N /\ n \in 0 .. N /\ s[n] \in Msg
        /\ r[n - 1] \in Seq(Msg)
        /\ n \in K => r[n] = AppendOrMerge(r[n - 1], s[n])
        /\ n \notin K => r[n] = r[n - 1]
    BY SanitizedStep
  <2>2. /\ f[n - 1] \in Nat
        /\ n \in K => f[n] = f[n - 1] + Size(s[n])
        /\ n \notin K => f[n] = f[n - 1] + 0
    <3>1. /\ f \in [0 .. N -> Nat]
          /\ f[n] = f[n - 1] + (IF n \in K THEN Size(s[n]) ELSE 0)
      BY SizesAre
    <3> HIDE DEF f
    <3> QED BY <2>1, <3>1
  <2>3. TotalSize(r[n - 1]) \in Nat /\ Size(s[n]) \in Nat
    BY <2>1, SizeOfType, SizeType DEF TotalSize
  <2>4. TotalSize(r[n - 1]) <= f[n - 1]
    BY <1>3
  <2>5. CASE n \in K
    <3>1. /\ TotalSize(r[n]) <= TotalSize(r[n - 1]) + Size(s[n])
          /\ f[n] = f[n - 1] + Size(s[n])
      BY <2>1, <2>2, <2>5, RepairSize
    <3>2. TotalSize(r[n]) \in Nat
      BY <2>1, <2>5, RepairType, SizeOfType DEF TotalSize
    <3> HIDE DEF r, f
    <3>3. TotalSize(r[n]) <= f[n]
      BY <2>2, <2>3, <2>4, <3>1, <3>2
    <3> QED BY <2>1, <3>3
  <2>6. CASE n \notin K
    BY <2>1, <2>2, <2>4, <2>6
  <2> QED BY <2>5, <2>6
<1>4. \A n \in 0 .. N : n \in T
  <2> HIDE DEF T
  <2> QED BY <1>1, <1>2, <1>3, InductionTo
<1>5. TotalSize(r[N]) <= f[N]
  BY <1>1, <1>4
<1> QED BY <1>5, SanitizedIs, SizesAre

(* The repair carries the content of every message but empty answers.      *)
Carried(s, K, n) == UNION {Parts(s[k]) : k \in {i \in K \cap 1 .. n : ~ Blank(s[i])}}

(* What is repaired so far carries the content of what was kept so far.    *)
LEMMA SanitizedParts ==
  ASSUME NEW s \in Seq(Msg), NEW K
  PROVE  \A n \in 0 .. Len(s) : AllParts(Sanitized(s, K)[n]) = Carried(s, K, n)
<1> DEFINE N == Len(s)
    r == Sanitized(s, K)
    T == {n \in 0 .. N : AllParts(r[n]) = Carried(s, K, n)}
<1>1. N \in Nat
  OBVIOUS
<1>2. 0 \in T
  <2>1. r[0] = << >>
    BY SanitizedIs
  <2>2. DOMAIN << >> = {} /\ 1 .. 0 = {}
    OBVIOUS
  <2>3. AllParts(<< >>) = {} /\ Carried(s, K, 0) = {}
    BY <2>2 DEF AllParts, Carried
  <2>4. AllParts(r[0]) = Carried(s, K, 0)
    BY <2>1, <2>3, Zenon
  <2>5. 0 \in 0 .. N
    BY <1>1
  <2> HIDE DEF r
  <2> QED BY <2>4, <2>5
<1>3. ASSUME NEW n \in 1 .. N, n - 1 \in T PROVE n \in T
  <2>1. /\ n - 1 \in 0 .. N /\ n \in 0 .. N /\ s[n] \in Msg
        /\ r[n - 1] \in Seq(Msg)
        /\ n \in K => r[n] = AppendOrMerge(r[n - 1], s[n])
        /\ n \notin K => r[n] = r[n - 1]
    BY SanitizedStep
  <2>2. AllParts(r[n - 1]) = Carried(s, K, n - 1)
    BY <1>3
  <2>3. 1 .. n = (1 .. n - 1) \cup {n}
    OBVIOUS
  <2>4. Carried(s, K, n) = Carried(s, K, n - 1)
          \cup (IF n \in K /\ ~ Blank(s[n]) THEN Parts(s[n]) ELSE {})
    BY <2>3 DEF Carried
  <2>5. CASE n \in K
    <3>1. AllParts(r[n])
            = AllParts(r[n - 1]) \cup (IF Blank(s[n]) THEN {} ELSE Parts(s[n]))
      BY <2>1, <2>5, RepairParts
    <3>2. Carried(s, K, n)
            = Carried(s, K, n - 1) \cup (IF Blank(s[n]) THEN {} ELSE Parts(s[n]))
      BY <2>4, <2>5
    <3>3. AllParts(r[n]) = Carried(s, K, n)
      <4> HIDE DEF r
      <4> QED BY <2>2, <3>1, <3>2
    <3> QED BY <2>1, <3>3
  <2>6. CASE n \notin K
    <3>1. Carried(s, K, n) = Carried(s, K, n - 1)
      BY <2>4, <2>6
    <3> HIDE DEF r
    <3> QED BY <2>1, <2>2, <2>6, <3>1
  <2> QED BY <2>5, <2>6
<1>4. \A n \in 0 .. N : n \in T
  <2> HIDE DEF T
  <2> QED BY <1>1, <1>2, <1>3, InductionTo
<1> QED BY <1>4

(* The repaired list alternates, whatever was cut.                         *)
LEMMA SanitizeAlternates ==
  ASSUME NEW s \in Seq(Msg), NEW K
  PROVE  Alternates(SanitizeConversation(s, K))
<1> DEFINE N == Len(s)
    r == Sanitized(s, K)
    T == {n \in 0 .. N : Alternates(r[n])}
<1>1. N \in Nat
  OBVIOUS
<1>2. 0 \in T
  <2>1. r[0] = << >>
    BY SanitizedIs
  <2>2. DOMAIN << >> = {} /\ 1 .. Len(<< >>) - 1 = {}
    OBVIOUS
  <2>3. Alternates(<< >>)
    BY <2>2 DEF Alternates
  <2> QED BY <1>1, <2>1, <2>3
<1>3. ASSUME NEW n \in 1 .. N, n - 1 \in T PROVE n \in T
  <2>1. /\ n - 1 \in 0 .. N /\ n \in 0 .. N /\ s[n] \in Msg
        /\ r[n - 1] \in Seq(Msg)
        /\ n \in K => r[n] = AppendOrMerge(r[n - 1], s[n])
        /\ n \notin K => r[n] = r[n - 1]
    BY SanitizedStep
  <2>2. Alternates(r[n - 1])
    BY <1>3
  <2> HIDE DEF r
  <2> QED BY <2>1, <2>2, RepairAlternates
<1>4. \A n \in 0 .. N : n \in T
  <2> HIDE DEF T
  <2> QED BY <1>1, <1>2, <1>3, InductionTo
<1>5. Alternates(r[N])
  BY <1>1, <1>4
<1> QED BY <1>5, SanitizedIs

(* The repaired list keeps the order.                                      *)
LEMMA SanitizeOrder ==
  ASSUME NEW s \in Seq(Msg), NEW K, InOrder(s)
  PROVE  InOrder(SanitizeConversation(s, K))
<1> DEFINE N == Len(s)
    r == Sanitized(s, K)
    T == {n \in 0 .. N : InOrder(r[n])}
<1>1. N \in Nat
  OBVIOUS
<1>2. 0 \in T
  <2>1. r[0] = << >>
    BY SanitizedIs
  <2>2. DOMAIN << >> = {}
    OBVIOUS
  <2>3. InOrder(<< >>)
    BY <2>2 DEF InOrder
  <2> QED BY <1>1, <2>1, <2>3
<1>3. ASSUME NEW n \in 1 .. N, n - 1 \in T PROVE n \in T
  <2>1. /\ n - 1 \in 0 .. N /\ n \in 0 .. N /\ s[n] \in Msg
        /\ r[n - 1] \in Seq(Msg)
        /\ n \in K => r[n] = AppendOrMerge(r[n - 1], s[n])
        /\ n \notin K => r[n] = r[n - 1]
    BY SanitizedStep
  <2>2. InOrder(r[n - 1])
    BY <1>3
  <2>3. Before(AllParts(r[n - 1]), Parts(s[n]))
    <3>1. AllParts(r[n - 1]) = Carried(s, K, n - 1)
      BY <2>1, SanitizedParts
    <3>2. \A k \in 1 .. n - 1 : k \in DOMAIN s /\ n \in DOMAIN s /\ k < n
      OBVIOUS
    <3>3. \A k \in 1 .. n - 1 : Before(Parts(s[k]), Parts(s[n]))
      BY <3>2 DEF InOrder
    <3>4. Before(Carried(s, K, n - 1), Parts(s[n]))
      BY <3>3 DEF Before, Carried
    <3> HIDE DEF r
    <3> QED BY <3>1, <3>4
  <2> HIDE DEF r
  <2> QED BY <2>1, <2>2, <2>3, RepairOrder
<1>4. \A n \in 0 .. N : n \in T
  <2> HIDE DEF T
  <2> QED BY <1>1, <1>2, <1>3, InductionTo
<1>5. InOrder(r[N])
  BY <1>1, <1>4
<1> QED BY <1>5, SanitizedIs

(* A kept message that is not plain text has a place of its own, right     *)
(* behind what was kept before it, and stays there.                        *)
LEMMA SanitizedPlaces ==
  ASSUME NEW s \in Seq(Msg), NEW K, NEW k \in K \cap 1 .. Len(s), ~ Mergeable(s[k])
  PROVE  /\ Len(Sanitized(s, K)[k]) = Len(Sanitized(s, K)[k - 1]) + 1
         /\ \A n \in k .. Len(s) :
              /\ Len(Sanitized(s, K)[k]) \in 1 .. Len(Sanitized(s, K)[n])
              /\ Sanitized(s, K)[n][Len(Sanitized(s, K)[k])] = s[k]
<1> DEFINE N == Len(s)
    r == Sanitized(s, K)
    P == Len(r[k])
    T == {n \in 0 .. N : n >= k => P \in 1 .. Len(r[n]) /\ r[n][P] = s[k]}
<1>1. N \in Nat /\ k \in 1 .. N
  OBVIOUS
<1>2. /\ Len(r[k]) = Len(r[k - 1]) + 1
      /\ Len(r[k]) \in 1 .. Len(r[k])
      /\ r[k][Len(r[k])] = s[k]
  <2>1. /\ r[k - 1] \in Seq(Msg) /\ s[k] \in Msg
        /\ r[k] = AppendOrMerge(r[k - 1], s[k])
    BY <1>1, SanitizedStep
  <2>2. Len(r[k]) = Len(r[k - 1]) + 1 /\ r[k][Len(r[k - 1]) + 1] = s[k]
    BY <2>1, RepairFixed
  <2>3. Len(r[k - 1]) \in Nat
    BY <2>1
  <2> HIDE DEF r
  <2> QED BY <2>2, <2>3
<1> HIDE DEF P
<1>3. 0 \in T
  BY <1>1
<1>4. ASSUME NEW n \in 1 .. N, n - 1 \in T PROVE n \in T
  <2>1. /\ n - 1 \in 0 .. N /\ n \in 0 .. N /\ s[n] \in Msg
        /\ r[n - 1] \in Seq(Msg)
        /\ n \in K => r[n] = AppendOrMerge(r[n - 1], s[n])
        /\ n \notin K => r[n] = r[n - 1]
    BY SanitizedStep
  <2>2. CASE n < k
    BY <1>1, <2>1, <2>2
  <2>3. CASE n = k
    BY <1>1, <1>2, <2>1, <2>3 DEF P
  <2>4. CASE n > k
    <3>1. P \in 1 .. Len(r[n - 1]) /\ r[n - 1][P] = s[k]
      <4>1. n - 1 >= k
        BY <1>1, <2>4
      <4> QED BY <1>4, <4>1
    <3>2. CASE n \in K
      <4>1. /\ Len(r[n]) \in Nat /\ Len(r[n - 1]) <= Len(r[n])
            /\ ~ Mergeable(r[n - 1][P]) => r[n][P] = r[n - 1][P]
        <5> DEFINE d == r[n - 1]
          e == r[n]
        <5>1. d \in Seq(Msg) /\ s[n] \in Msg /\ e = AppendOrMerge(d, s[n])
              /\ P \in 1 .. Len(d)
          BY <2>1, <3>1, <3>2
        <5> HIDE DEF d, e
        <5>2. /\ Len(e) \in Nat /\ Len(d) <= Len(e)
              /\ ~ Mergeable(d[P]) => e[P] = d[P]
          BY <5>1, RepairFixed
        <5> QED BY <5>2 DEF d, e
      <4>2. Len(r[n - 1]) \in Nat
        BY <2>1
      <4>3. r[n][P] = s[k]
        BY <3>1, <4>1
      <4>4. P \in 1 .. Len(r[n])
        <5> HIDE DEF r
        <5> QED BY <3>1, <4>1, <4>2
      <4> QED BY <2>1, <4>3, <4>4
    <3>3. CASE n \notin K
      BY <2>1, <3>1, <3>3
    <3> QED BY <3>2, <3>3
  <2> QED BY <1>1, <2>2, <2>3, <2>4
<1>5. \A n \in 0 .. N : n \in T
  <2> HIDE DEF T
  <2> QED BY <1>1, <1>3, <1>4, InductionTo
<1>6. ASSUME NEW n \in k .. N PROVE P \in 1 .. Len(r[n]) /\ r[n][P] = s[k]
  <2>1. n \in 0 .. N /\ n >= k
    BY <1>1
  <2> QED BY <1>5, <2>1
<1> QED BY <1>2, <1>6 DEF P

(* Nothing else is sent that is not plain text.                            *)
LEMMA SanitizeFixed ==
  ASSUME NEW s \in Seq(Msg), NEW K
  PROVE  \A i \in DOMAIN SanitizeConversation(s, K) :
           ~ Mergeable(SanitizeConversation(s, K)[i]) =>
             \E k \in K \cap 1 .. Len(s) : SanitizeConversation(s, K)[i] = s[k]
<1> DEFINE N == Len(s)
    r == Sanitized(s, K)
    Origin(t, n) == \A i \in 1 .. Len(t) :
      ~ Mergeable(t[i]) => \E k \in K \cap 1 .. n : t[i] = s[k]
    T == {n \in 0 .. N : Origin(r[n], n)}
<1>1. N \in Nat
  OBVIOUS
<1>2. 0 \in T
  <2>1. r[0] = << >>
    BY SanitizedIs
  <2>2. 1 .. Len(<< >>) = {}
    OBVIOUS
  <2>3. Origin(<< >>, 0)
    BY <2>2
  <2> QED BY <1>1, <2>1, <2>3
<1>3. ASSUME NEW n \in 1 .. N, n - 1 \in T PROVE n \in T
  <2>1. /\ n - 1 \in 0 .. N /\ n \in 0 .. N /\ s[n] \in Msg
        /\ r[n - 1] \in Seq(Msg)
        /\ n \in K => r[n] = AppendOrMerge(r[n - 1], s[n])
        /\ n \notin K => r[n] = r[n - 1]
    BY SanitizedStep
  <2>2. Origin(r[n - 1], n - 1)
    BY <1>3
  <2>3. n \in 1 .. n /\ 1 .. n - 1 \subseteq 1 .. n
    OBVIOUS
  <2>4. CASE n \in K
    <3>1. \A i \in 1 .. Len(r[n]) : ~ Mergeable(r[n][i]) =>
            (i \in 1 .. Len(r[n - 1]) /\ r[n][i] = r[n - 1][i]) \/ r[n][i] = s[n]
      <4> DEFINE d == r[n - 1]
        e == r[n]
      <4>1. d \in Seq(Msg) /\ s[n] \in Msg /\ e = AppendOrMerge(d, s[n])
        BY <2>1, <2>4
      <4> HIDE DEF d, e
      <4>2. \A i \in 1 .. Len(e) : ~ Mergeable(e[i]) =>
              (i \in 1 .. Len(d) /\ e[i] = d[i]) \/ e[i] = s[n]
        BY <4>1, RepairFixed
      <4> QED BY <4>2 DEF d, e
    <3> HIDE DEF r
    <3> QED BY <2>1, <2>2, <2>3, <2>4, <3>1
  <2>5. CASE n \notin K
    <3> HIDE DEF r
    <3> QED BY <2>1, <2>2, <2>3, <2>5
  <2> QED BY <2>4, <2>5
<1>4. \A n \in 0 .. N : n \in T
  <2> HIDE DEF T
  <2> QED BY <1>1, <1>2, <1>3, InductionTo
<1>5. Origin(r[N], N)
  BY <1>1, <1>4
<1>6. r[N] \in Seq(Msg) /\ SanitizeConversation(s, K) = r[N]
  BY <1>1, SanitizedIs
<1> HIDE DEF r
<1> QED BY <1>5, <1>6

---------------------------------------------------------------------------
(* The lists that turns build: an instruction, then messages that name     *)
(* their position, in which a result stands behind the message with its    *)
(* call, with only results between.                                        *)
Conversation(s) ==
  /\ s \in Seq(Msg) /\ Len(s) > 0
  /\ \A i \in DOMAIN s : s[i].parts = <<i - 1>>
  /\ s[1].role = "system"
  /\ \A i \in DOMAIN s : s[i].calls # {} => s[i].role = "assistant"
  /\ \A i \in DOMAIN s : \A c \in s[i].calls : c[1] = i - 1
  /\ \A i \in DOMAIN s : s[i].role = "tool" =>
       \E h \in 2 .. i - 1 : /\ s[i].call \in s[h].calls
                             /\ \A k \in h + 1 .. i : s[k].role = "tool"
  /\ \A i \in DOMAIN s : s[i].role # "tool" => s[i].call = NoCall

Mandatory(s) == {1} \cup LatestPrompt(s)

(* A unit starts at its head and no two units meet.                        *)
LEMMA UnitsApart ==
  ASSUME NEW s \in Seq(Msg)
  PROVE  /\ \A h \in UnitHeads(s) :
              h \in 2 .. Len(s) /\ h \in Unit(s, h) /\ Unit(s, h) \subseteq h .. Len(s)
         /\ \A g, h \in UnitHeads(s) : g # h => Unit(s, g) \cap Unit(s, h) = {}
<1>1. Len(s) \in Nat
  OBVIOUS
<1>2. ASSUME NEW h \in UnitHeads(s)
      PROVE  h \in 2 .. Len(s) /\ h \in Unit(s, h) /\ Unit(s, h) \subseteq h .. Len(s)
  <2>1. h \in 2 .. Len(s)
    BY DEF UnitHeads
  <2>2. ASSUME NEW i \in Unit(s, h) PROVE i \in h .. Len(s)
    <3>1. i \in 2 .. Len(s) /\ (h = i \/ h < i)
      BY DEF Unit, InUnit
    <3> QED BY <1>1, <2>1, <3>1
  <2> QED BY <2>1, <2>2 DEF Unit, InUnit
<1>3. ASSUME NEW g \in UnitHeads(s), NEW h \in UnitHeads(s), g < h,
             NEW i \in Unit(s, g) \cap Unit(s, h)
      PROVE  FALSE
  <2>1. g \in 2 .. Len(s) /\ h \in 2 .. Len(s) /\ i \in h .. Len(s)
    BY <1>2
  <2>2. i # g
    BY <1>1, <1>3, <2>1
  <2>3. s[g].calls # {} /\ \A k \in g + 1 .. i : s[k].role = "tool"
    BY <2>2 DEF Unit, InUnit
  <2>4. g + 1 .. h \subseteq g + 1 .. i /\ g \in 2 .. h - 1
    BY <1>1, <1>3, <2>1
  <2>5. InUnit(s, g, h)
    BY <1>3, <2>3, <2>4 DEF InUnit
  <2> QED BY <2>4, <2>5 DEF UnitHeads
<1>4. \A g, h \in UnitHeads(s) : g # h => g < h \/ h < g
  BY <1>2
<1> QED BY <1>2, <1>3, <1>4

(* A message with calls heads a unit, its results are in it, and the       *)
(* latest prompt is a unit of its own.                                     *)
LEMMA UnitMembers ==
  ASSUME NEW s, Conversation(s)
  PROVE  /\ \A i \in DOMAIN s : s[i].calls # {} => i \in UnitHeads(s)
         /\ \A p \in LatestPrompt(s) : p \in UnitHeads(s) /\ Unit(s, p) = {p}
         /\ \A i \in DOMAIN s : s[i].role = "tool" =>
              \E h \in UnitHeads(s) : s[i].call \in s[h].calls /\ i \in Unit(s, h)
         /\ \A h \in UnitHeads(s) \ Mandatory(s) :
              Unit(s, h) \cap Mandatory(s) = {}
<1>1. s \in Seq(Msg) /\ Len(s) \in Nat /\ 1 \in DOMAIN s /\ DOMAIN s = 1 .. Len(s)
  BY DEF Conversation
<1>2. ASSUME NEW i \in 2 .. Len(s), s[i].role # "tool" PROVE i \in UnitHeads(s)
  <2>1. ASSUME NEW k \in 2 .. i - 1, InUnit(s, k, i) PROVE FALSE
    <3>1. i \in k + 1 .. i /\ k # i
      BY <1>1
    <3> QED BY <1>2, <2>1, <3>1 DEF InUnit
  <2> QED BY <2>1 DEF UnitHeads
<1>3. ASSUME NEW i \in DOMAIN s, s[i].calls # {} PROVE i \in UnitHeads(s)
  <2>1. s[i].role = "assistant" /\ s[1].role = "system"
    BY <1>3 DEF Conversation
  <2>2. i \in 2 .. Len(s)
    BY <1>1, <2>1
  <2> QED BY <1>2, <2>1, <2>2
<1>4. ASSUME NEW p \in LatestPrompt(s) PROVE p \in UnitHeads(s) /\ Unit(s, p) = {p}
  <2>1. p \in 2 .. Len(s) /\ s[p].role = "user"
    BY DEF LatestPrompt
  <2>2. s[p].calls = {}
    BY <1>1, <2>1 DEF Conversation
  <2>3. p \in UnitHeads(s)
    BY <1>2, <2>1
  <2>4. Unit(s, p) = {p}
    BY <2>1, <2>2 DEF Unit, InUnit
  <2> QED BY <2>3, <2>4
<1>5. ASSUME NEW i \in DOMAIN s, s[i].role = "tool"
      PROVE  \E h \in UnitHeads(s) : s[i].call \in s[h].calls /\ i \in Unit(s, h)
  <2>1. PICK h \in 2 .. i - 1 : /\ s[i].call \in s[h].calls
                                /\ \A k \in h + 1 .. i : s[k].role = "tool"
    BY <1>5 DEF Conversation
  <2>2. h \in DOMAIN s /\ h < i /\ i \in 2 .. Len(s)
    BY <1>1
  <2>3. h \in UnitHeads(s)
    BY <1>3, <2>1, <2>2
  <2> QED BY <2>1, <2>2, <2>3 DEF Unit, InUnit
<1>6. ASSUME NEW h \in UnitHeads(s) \ Mandatory(s), NEW i \in Unit(s, h) \cap Mandatory(s)
      PROVE  FALSE
  <2>1. i # 1
    BY DEF Unit
  <2>2. i \in LatestPrompt(s)
    BY <2>1 DEF Mandatory
  <2>3. i \in Unit(s, i) /\ i \in UnitHeads(s)
    BY <1>4, <2>2
  <2> QED BY <1>1, <2>2, <2>3, UnitsApart DEF Mandatory
<1> QED BY <1>3, <1>4, <1>5, <1>6

---------------------------------------------------------------------------
(* The cut: what the walk has kept and what it has left, from a position   *)
(* on.                                                                     *)
Acc == [left : Int, kept : SUBSET Nat]

Visit(s, j, acc) ==
  IF j \in UnitHeads(s) \ Mandatory(s) THEN KeepIfFits(s, j, acc) ELSE acc

Walk(s) ==
  LET mandatory == {1} \cup LatestPrompt(s) IN
  CHOOSE walk : walk = [j \in 1 .. Len(s) + 1 |->
    IF j = Len(s) + 1
    THEN [left |-> Budget - SizeOf(s, mandatory), kept |-> mandatory]
    ELSE IF j \in UnitHeads(s) \ mandatory
         THEN KeepIfFits(s, j, walk[j + 1])
         ELSE walk[j + 1]]

(* A step of the walk leaves room and a set of positions.                  *)
LEMMA VisitType ==
  ASSUME NEW s \in Seq(Msg), NEW j, NEW acc \in Acc
  PROVE  Visit(s, j, acc) \in Acc
<1>1. acc.left \in Int /\ acc.kept \in SUBSET Nat
  BY DEF Acc
<1>2. SizeOf(s, Unit(s, j)) \in Nat
  BY SizeOfType
<1>3. Unit(s, j) \in SUBSET Nat
  <2>1. Len(s) \in Nat
    OBVIOUS
  <2> QED BY <2>1 DEF Unit
<1> DEFINE u == Unit(s, j)
    z == SizeOf(s, Unit(s, j))
<1>4. [left |-> acc.left - z, kept |-> acc.kept \cup u] \in Acc
  <2> HIDE DEF u, z
  <2>1. acc.left - z \in Int /\ acc.kept \cup u \in SUBSET Nat
    BY <1>1, <1>2, <1>3 DEF u, z
  <2> QED BY <2>1 DEF Acc
<1> QED BY <1>4 DEF Visit, KeepIfFits

(* The walk exists, starts with the mandatory messages and visits each     *)
(* unit.                                                                   *)
LEMMA WalkIs ==
  ASSUME NEW s \in Seq(Msg), 1 \in DOMAIN s
  PROVE  /\ Walk(s) \in [1 .. Len(s) + 1 -> Acc]
         /\ Walk(s)[Len(s) + 1]
              = [left |-> Budget - SizeOf(s, Mandatory(s)), kept |-> Mandatory(s)]
         /\ \A j \in 1 .. Len(s) : Walk(s)[j] = Visit(s, j, Walk(s)[j + 1])
         /\ KeptPositions(s) = Walk(s)[1].kept
<1> DEFINE N == Len(s)
    M == N + 1
    first == [left |-> Budget - SizeOf(s, Mandatory(s)), kept |-> Mandatory(s)]
    Look(acc, j) == Visit(s, j, acc)
    Walks(f) == [j \in 1 .. M |-> IF j = M THEN first ELSE Look(f[j + 1], j)]
    step == [an \in Acc \X (1 .. N) |-> Look(an[1], M - an[2])]
    g == Walk(s)
<1>1. N \in Nat /\ M = N + 1
  OBVIOUS
<1>2. g = CHOOSE walk : walk = Walks(walk)
  BY DEF Walk, Visit, Mandatory
<1>3. KeptPositions(s) = g[1].kept
  BY DEF KeptPositions, Walk
<1>4. first \in Acc
  <2>1. Budget - SizeOf(s, Mandatory(s)) \in Int
    BY FilterAssumption, SizeOfType
  <2>2. Mandatory(s) \in SUBSET Nat
    BY <1>1 DEF Mandatory, LatestPrompt
  <2> QED BY <2>1, <2>2 DEF Acc
<1>5. \A acc \in Acc, j \in 1 .. N : Look(acc, j) \in Acc
  BY VisitType
<1> HIDE DEF N, M, Look, g, first
<1>6. \A n \in 1 .. N : M - n \in 1 .. N
  BY <1>1
<1>7. step \in [Acc \X (1 .. N) -> Acc]
  BY <1>5, <1>6
<1>8. \A a \in Acc, n \in 1 .. N : step[<<a, n>>] = Look(a, M - n)
  OBVIOUS
<1>9. PICK f : Solves(f, N, Acc, first, step)
  <2> HIDE DEF step
  <2> QED BY <1>1, <1>4, <1>7, Recursion DEF Steps
<1> DEFINE h == [j \in 1 .. M |-> f[M - j]]
<1>10. h = Walks(h)
  <2> HIDE DEF step
  <2>1. f \in [0 .. N -> Acc] /\ f[0] = first
        /\ \A n \in 1 .. N : f[n] = step[<<f[n - 1], n>>]
    BY <1>9 DEF Solves
  <2>2. h[M] = first
    <3>1. M \in 1 .. M /\ M - M = 0
      BY <1>1
    <3> QED BY <2>1, <3>1
  <2>3. ASSUME NEW j \in 1 .. M, j # M PROVE h[j] = Look(h[j + 1], j)
    <3>1. /\ M - j \in 1 .. N /\ (M - j) - 1 \in 0 .. N
          /\ j + 1 \in 1 .. M /\ M - (j + 1) = (M - j) - 1 /\ M - (M - j) = j
      BY <1>1, <2>3
    <3>2. f[M - j] = step[<<f[(M - j) - 1], M - j>>] /\ f[(M - j) - 1] \in Acc
      BY <2>1, <3>1
    <3>3. f[M - j] = Look(f[(M - j) - 1], j)
      BY <1>8, <3>1, <3>2
    <3>4. h[j] = f[M - j] /\ h[j + 1] = f[(M - j) - 1]
      BY <3>1
    <3> HIDE DEF h
    <3> QED BY <3>3, <3>4
  <2>4. DOMAIN h = 1 .. M /\ h = [j \in 1 .. M |-> h[j]]
    OBVIOUS
  <2> HIDE DEF h
  <2> QED BY <2>2, <2>3, <2>4
<1>11. g = Walks(g)
  <2> HIDE DEF Walks, h
  <2> QED BY <1>2, <1>10
<1>12. /\ DOMAIN g = 1 .. M
       /\ g[M] = first
       /\ \A j \in 1 .. N : g[j] = Look(g[j + 1], j)
  <2> DEFINE w == Walks(g)
  <2>1. \A j \in 1 .. N : j \in 1 .. M /\ j # M
    BY <1>1
  <2>2. M \in 1 .. M
    BY <1>1
  <2>3. /\ DOMAIN w = 1 .. M
        /\ w[M] = first
        /\ \A j \in 1 .. N : w[j] = Look(g[j + 1], j)
    BY <2>1, <2>2
  <2>4. g = w
    BY <1>11
  <2> HIDE DEF w
  <2> QED BY <2>3, <2>4
<1>13. \A j \in 1 .. M : g[j] \in Acc
  <2> DEFINE T == {n \in 0 .. N : g[M - n] \in Acc}
  <2>1. 0 \in T
    BY <1>1, <1>4, <1>12
  <2>2. ASSUME NEW n \in 1 .. N, n - 1 \in T PROVE n \in T
    <3>1. n \in 0 .. N /\ M - n \in 1 .. N /\ M - (n - 1) = (M - n) + 1
      BY <1>1
    <3>2. g[(M - n) + 1] \in Acc
      BY <2>2, <3>1
    <3>3. g[M - n] \in Acc
      BY <1>5, <1>12, <3>1, <3>2
    <3> QED BY <3>1, <3>3
  <2> HIDE DEF T
  <2>3. \A n \in 0 .. N : n \in T
    BY <1>1, <2>1, <2>2, InductionTo
  <2>4. \A j \in 1 .. M : M - j \in 0 .. N /\ M - (M - j) = j
    BY <1>1
  <2>5. \A n \in 0 .. N : g[M - n] \in Acc
    BY <2>3 DEF T
  <2> QED BY <2>4, <2>5
<1>14. g = [j \in 1 .. M |-> g[j]]
  BY <1>11, <1>12
<1>15. g \in [1 .. M -> Acc]
  BY <1>13, <1>14
<1> QED BY <1>3, <1>12, <1>15 DEF N, M, Look, g, first

(* A unit is refused when it did not fit beside newer kept messages and    *)
(* the mandatory ones.                                                     *)
Refused(s, kept, h) ==
  /\ Unit(s, h) \cap kept = {}
  /\ \E beside \in SUBSET kept :
       /\ \A i \in beside \ Mandatory(s) : h < i
       /\ SizeOf(s, beside \cup Unit(s, h)) > Budget

(* What holds when the walk has looked at the units from j on.             *)
WalkState(s, j, acc) ==
  /\ acc.left \in Nat
  /\ acc.kept \subseteq DOMAIN s /\ Mandatory(s) \subseteq acc.kept
  /\ SizeOf(s, acc.kept) + acc.left = Budget
  /\ \A i \in acc.kept \ Mandatory(s) :
       \E h \in UnitHeads(s) \ Mandatory(s) : j <= h /\ i \in Unit(s, h)
  /\ \A h \in UnitHeads(s) \ Mandatory(s) :
       j <= h => Unit(s, h) \subseteq acc.kept \/ Refused(s, acc.kept, h)

(* The walk's invariant holds at its start.                                *)
LEMMA WalkStarts ==
  ASSUME NEW s, Conversation(s), Fits(s)
  PROVE  WalkState(s, Len(s) + 1,
           [left |-> Budget - SizeOf(s, Mandatory(s)), kept |-> Mandatory(s)])
<1> DEFINE z == SizeOf(s, Mandatory(s))
<1>1. s \in Seq(Msg) /\ Len(s) \in Nat /\ 1 \in DOMAIN s /\ DOMAIN s = 1 .. Len(s)
  BY DEF Conversation
<1>2. z \in Nat /\ z <= Budget
  BY <1>1, SizeOfType DEF Fits, Mandatory
<1>3. Mandatory(s) \subseteq DOMAIN s
  BY <1>1 DEF Mandatory, LatestPrompt
<1>4. \A h \in UnitHeads(s) : ~ (Len(s) + 1 <= h)
  BY <1>1 DEF UnitHeads
<1>5. Budget - z \in Nat /\ z + (Budget - z) = Budget
  <2> HIDE DEF z
  <2> QED BY <1>2, FilterAssumption
<1> QED BY <1>3, <1>4, <1>5 DEF WalkState

(* Each visit keeps the walk's invariant.                                  *)
LEMMA WalkGoesOn ==
  ASSUME NEW s, Conversation(s), NEW j \in 1 .. Len(s), NEW acc \in Acc,
         WalkState(s, j + 1, acc)
  PROVE  WalkState(s, j, Visit(s, j, acc))
<1>1. /\ s \in Seq(Msg) /\ Len(s) \in Nat /\ DOMAIN s = 1 .. Len(s) /\ j \in Nat
      /\ \A h \in UnitHeads(s) : h \in Nat
  BY UnitsApart DEF Conversation
<1>2. \A h \in UnitHeads(s) : j <= h <=> h = j \/ j + 1 <= h
  BY <1>1
<1>3. CASE j \notin UnitHeads(s) \ Mandatory(s)
  <2>1. Visit(s, j, acc) = acc
    BY <1>3 DEF Visit
  <2>2. \A h \in UnitHeads(s) \ Mandatory(s) : j <= h <=> j + 1 <= h
    BY <1>2, <1>3
  <2> QED BY <2>1, <2>2 DEF WalkState
<1>4. CASE j \in UnitHeads(s) \ Mandatory(s)
  <2> DEFINE u == Unit(s, j)
  <2>1. /\ acc.left \in Nat
        /\ acc.kept \subseteq DOMAIN s /\ Mandatory(s) \subseteq acc.kept
        /\ SizeOf(s, acc.kept) + acc.left = Budget
        /\ \A i \in acc.kept \ Mandatory(s) :
             \E h \in UnitHeads(s) \ Mandatory(s) : j + 1 <= h /\ i \in Unit(s, h)
        /\ \A h \in UnitHeads(s) \ Mandatory(s) :
             j + 1 <= h => Unit(s, h) \subseteq acc.kept \/ Refused(s, acc.kept, h)
    BY DEF WalkState
  <2>2. u \subseteq DOMAIN s /\ u \cap Mandatory(s) = {}
    BY <1>1, <1>4, UnitMembers DEF Unit
  <2>3. u \cap acc.kept = {}
    <3>1. ASSUME NEW i \in u \cap acc.kept PROVE FALSE
      <4>1. PICK h \in UnitHeads(s) \ Mandatory(s) : j + 1 <= h /\ i \in Unit(s, h)
        BY <2>1, <2>2
      <4>2. h # j
        BY <1>1, <4>1
      <4> QED BY <1>1, <1>4, <4>1, <4>2, UnitsApart
    <3> QED BY <3>1
  <2>4. /\ SizeOf(s, u) \in Nat /\ SizeOf(s, acc.kept) \in Nat
        /\ SizeOf(s, acc.kept \cup u) = SizeOf(s, acc.kept) + SizeOf(s, u)
    BY <1>1, <2>3, SizeOfType, SizeOfUnion
  <2>5. \A i \in acc.kept \ Mandatory(s) : j < i
    <3> TAKE i \in acc.kept \ Mandatory(s)
    <3>1. PICK h \in UnitHeads(s) \ Mandatory(s) : j + 1 <= h /\ i \in Unit(s, h)
      BY <2>1
    <3>2. i \in h .. Len(s) /\ h \in Nat
      BY <1>1, <3>1, UnitsApart
    <3> QED BY <1>1, <3>1, <3>2
  <2>6. CASE SizeOf(s, u) <= acc.left
    <3> DEFINE new == [left |-> acc.left - SizeOf(s, u), kept |-> acc.kept \cup u]
    <3>1. Visit(s, j, acc) = new
      BY <1>4, <2>6 DEF Visit, KeepIfFits
    <3>2. new.left = acc.left - SizeOf(s, u) /\ new.kept = acc.kept \cup u
      OBVIOUS
    <3> HIDE DEF new
    <3>3. new.left \in Nat /\ SizeOf(s, new.kept) + new.left = Budget
      <4> HIDE DEF u
      <4> QED BY <2>1, <2>4, <2>6, <3>2
    <3>4. ASSUME NEW i \in new.kept \ Mandatory(s)
          PROVE  \E h \in UnitHeads(s) \ Mandatory(s) : j <= h /\ i \in Unit(s, h)
      <4>1. CASE i \in u
        BY <1>1, <1>4, <4>1
      <4>2. CASE i \in acc.kept
        BY <1>2, <2>1, <3>4, <4>2
      <4> QED BY <3>2, <3>4, <4>1, <4>2
    <3>5. ASSUME NEW h \in UnitHeads(s) \ Mandatory(s), j <= h
          PROVE  Unit(s, h) \subseteq new.kept \/ Refused(s, new.kept, h)
      <4>1. CASE h = j
        BY <3>2, <4>1
      <4>2. CASE j + 1 <= h
        <5>1. CASE Unit(s, h) \subseteq acc.kept
          BY <3>2, <5>1
        <5>2. CASE Refused(s, acc.kept, h)
          <6>1. h # j
            BY <1>1, <4>2
          <6>2. Unit(s, h) \cap u = {}
            BY <1>1, <1>4, <6>1, UnitsApart
          <6>3. Unit(s, h) \cap new.kept = {}
            BY <3>2, <5>2, <6>2 DEF Refused
          <6>4. SUBSET acc.kept \subseteq SUBSET new.kept
            BY <3>2
          <6> QED BY <5>2, <6>3, <6>4 DEF Refused
        <5> QED BY <2>1, <4>2, <5>1, <5>2
      <4> QED BY <1>2, <3>5, <4>1, <4>2
    <3>6. new.kept \subseteq DOMAIN s /\ Mandatory(s) \subseteq new.kept
      BY <2>1, <2>2, <3>2
    <3>7. WalkState(s, j, new)
      BY <3>3, <3>4, <3>5, <3>6 DEF WalkState
    <3> QED BY <3>1, <3>7
  <2>7. CASE ~ (SizeOf(s, u) <= acc.left)
    <3>1. Visit(s, j, acc) = acc
      BY <1>4, <2>7 DEF Visit, KeepIfFits
    <3>2. SizeOf(s, acc.kept \cup u) > Budget
      <4> HIDE DEF u
      <4> QED BY <2>1, <2>4, <2>7, FilterAssumption
    <3>3. Refused(s, acc.kept, j)
      BY <2>3, <2>5, <3>2 DEF Refused
    <3>4. \A h \in UnitHeads(s) \ Mandatory(s) : 
            j <= h => Unit(s, h) \subseteq acc.kept \/ Refused(s, acc.kept, h)
      BY <1>2, <2>1, <3>3
    <3>5. \A i \in acc.kept \ Mandatory(s) :
            \E h \in UnitHeads(s) \ Mandatory(s) : j <= h /\ i \in Unit(s, h)
      BY <1>2, <2>1
    <3>6. WalkState(s, j, acc)
      BY <2>1, <3>4, <3>5 DEF WalkState
    <3> QED BY <3>1, <3>6
  <2> QED BY <2>6, <2>7
<1> QED BY <1>3, <1>4

(* What the cut keeps is where the walk ends, with its invariant.          *)
LEMMA WalkEnds ==
  ASSUME NEW s, Conversation(s), Fits(s)
  PROVE  \E acc \in Acc : KeptPositions(s) = acc.kept /\ WalkState(s, 1, acc)
<1> DEFINE N == Len(s)
    M == N + 1
    w == Walk(s)
    T == {n \in 0 .. N : WalkState(s, M - n, w[M - n])}
<1>1. s \in Seq(Msg) /\ N \in Nat /\ 1 \in DOMAIN s
  BY DEF Conversation
<1>2. /\ w \in [1 .. M -> Acc]
      /\ w[M] = [left |-> Budget - SizeOf(s, Mandatory(s)), kept |-> Mandatory(s)]
      /\ \A j \in 1 .. N : w[j] = Visit(s, j, w[j + 1])
      /\ KeptPositions(s) = w[1].kept
  BY <1>1, WalkIs
<1>3. 0 \in T
  <2>1. M - 0 = M
    BY <1>1
  <2>2. WalkState(s, M, w[M])
    BY <1>2, WalkStarts
  <2> HIDE DEF w, M
  <2> QED BY <1>1, <2>1, <2>2
<1>4. ASSUME NEW n \in 1 .. N, n - 1 \in T PROVE n \in T
  <2>1. /\ n \in 0 .. N /\ M - n \in 1 .. N /\ M - (n - 1) = (M - n) + 1
        /\ (M - n) + 1 \in 1 .. M
    BY <1>1
  <2>2. WalkState(s, (M - n) + 1, w[(M - n) + 1])
    BY <1>4, <2>1
  <2>3. w[M - n] = Visit(s, M - n, w[(M - n) + 1]) /\ w[(M - n) + 1] \in Acc
    BY <1>2, <2>1
  <2> HIDE DEF w, M
  <2>4. WalkState(s, M - n, w[M - n])
    <3> DEFINE j == M - n
      acc == w[(M - n) + 1]
    <3>1. j \in 1 .. N /\ acc \in Acc /\ WalkState(s, j + 1, acc)
      BY <2>1, <2>2, <2>3
    <3> HIDE DEF j, acc
    <3>2. WalkState(s, j, Visit(s, j, acc))
      BY <3>1, WalkGoesOn
    <3> QED BY <2>3, <3>2 DEF j, acc
  <2> QED BY <2>1, <2>4
<1>5. \A n \in 0 .. N : n \in T
  <2> HIDE DEF T
  <2> QED BY <1>1, <1>3, <1>4, InductionTo
<1>6. N \in 0 .. N /\ M - N = 1 /\ 1 \in 1 .. M
  BY <1>1
<1>7. WalkState(s, 1, w[1])
  <2>1. WalkState(s, M - N, w[M - N])
    BY <1>5, <1>6
  <2> QED BY <1>6, <2>1
<1> HIDE DEF w, M, N
<1> QED BY <1>2, <1>6, <1>7

(* What the cut keeps: the mandatory messages, whole units, no more than   *)
(* the budget, and every unit that was not refused.                        *)
LEMMA FilterFacts ==
  ASSUME NEW s, Conversation(s), Fits(s)
  PROVE  /\ FilterBySize(s) \subseteq DOMAIN s
         /\ Mandatory(s) \subseteq FilterBySize(s)
         /\ SizeOf(s, FilterBySize(s)) <= Budget
         /\ \A h \in UnitHeads(s) :
              \/ Unit(s, h) \subseteq FilterBySize(s)
              \/ Refused(s, FilterBySize(s), h)
<1>1. s \in Seq(Msg) /\ DOMAIN s = 1 .. Len(s) /\ Len(s) \in Nat /\ 1 \in DOMAIN s
  BY DEF Conversation
<1>2. CASE TotalSize(s) <= Budget
  <2>1. FilterBySize(s) = DOMAIN s
    BY <1>2 DEF FilterBySize
  <2>2. Mandatory(s) \subseteq DOMAIN s /\ \A h : Unit(s, h) \subseteq DOMAIN s
    BY <1>1 DEF Mandatory, LatestPrompt, Unit
  <2> QED BY <1>2, <2>1, <2>2 DEF TotalSize
<1>3. CASE ~ (TotalSize(s) <= Budget)
  <2>1. PICK acc \in Acc : KeptPositions(s) = acc.kept /\ WalkState(s, 1, acc)
    BY WalkEnds
  <2> DEFINE K == acc.kept
  <2>2. /\ acc.left \in Nat
        /\ K \subseteq DOMAIN s /\ Mandatory(s) \subseteq K
        /\ SizeOf(s, K) + acc.left = Budget
        /\ \A h \in UnitHeads(s) \ Mandatory(s) :
             1 <= h => Unit(s, h) \subseteq K \/ Refused(s, K, h)
    BY <2>1 DEF WalkState
  <2>3. \A h \in UnitHeads(s) : Unit(s, h) \subseteq K \/ Refused(s, K, h)
    <3> TAKE h \in UnitHeads(s)
    <3>1. h \in 2 .. Len(s)
      BY <1>1, UnitsApart
    <3>2. CASE h \in Mandatory(s)
      <4>1. h \in LatestPrompt(s)
        BY <3>1, <3>2 DEF Mandatory
      <4>2. Unit(s, h) = {h}
        BY <4>1, UnitMembers
      <4> QED BY <2>2, <3>2, <4>2
    <3>3. CASE h \notin Mandatory(s)
      BY <1>1, <2>2, <3>1, <3>3
    <3> QED BY <3>2, <3>3
  <2>4. ValidateToolResults(s, K) = K
    <3>1. ASSUME NEW i \in K, s[i].role = "tool"
          PROVE  \E j \in K : s[i].call \in s[j].calls
      <4>1. PICK h \in UnitHeads(s) : s[i].call \in s[h].calls /\ i \in Unit(s, h)
        BY <2>2, <3>1, UnitMembers
      <4>2. Unit(s, h) \subseteq K
        BY <2>3, <3>1, <4>1 DEF Refused
      <4>3. h \in K
        BY <1>1, <4>2, UnitsApart
      <4> QED BY <4>1, <4>3
    <3> QED BY <3>1 DEF ValidateToolResults
  <2>5. FilterBySize(s) = K
    BY <1>3, <2>1, <2>4 DEF FilterBySize
  <2>6. SizeOf(s, K) <= Budget
    <3>1. SizeOf(s, K) \in Nat
      BY <1>1, SizeOfType
    <3> QED BY <2>2, <3>1, FilterAssumption
  <2> HIDE DEF K
  <2> QED BY <2>2, <2>3, <2>5, <2>6
<1> QED BY <1>2, <1>3

---------------------------------------------------------------------------
(* What is sent of a conversation.                                         *)
Sent(s) == SanitizeConversation(s, FilterBySize(s))

(* A request is a list of messages.                                        *)
LEMMA SentType ==
  ASSUME NEW s, Conversation(s)
  PROVE  Sent(s) \in Seq(Msg)
<1>1. s \in Seq(Msg) /\ Len(s) \in 0 .. Len(s)
  BY DEF Conversation
<1> QED BY <1>1, SanitizedIs DEF Sent

(* A message that was not joined has the content of one position.          *)
LEMMA PartsOfOne ==
  ASSUME NEW m, NEW p, m.parts = <<p>>
  PROVE  Parts(m) = {p}
<1>1. DOMAIN <<p>> = {1} /\ <<p>>[1] = p
  OBVIOUS
<1> QED BY <1>1 DEF Parts

(* In a conversation each message is the content of its own position.      *)
LEMMA PositionParts ==
  ASSUME NEW s, Conversation(s)
  PROVE  /\ \A i \in DOMAIN s : Parts(s[i]) = {i - 1}
         /\ InOrder(s)
<1>1. \A i \in DOMAIN s : Parts(s[i]) = {i - 1}
  BY PartsOfOne DEF Conversation
<1>2. DOMAIN s = 1 .. Len(s) /\ Len(s) \in Nat
  BY DEF Conversation
<1>3. \A i, j \in DOMAIN s : i < j => i - 1 < j - 1
  BY <1>2
<1> QED BY <1>1, <1>3 DEF InOrder, Before

(* A message is in the request when it is kept and no empty answer.        *)
LEMMA SentPositions ==
  ASSUME NEW s, Conversation(s), Fits(s), NEW i \in DOMAIN s
  PROVE  i - 1 \in AllParts(Sent(s)) <=> i \in FilterBySize(s) /\ ~ Blank(s[i])
<1> DEFINE K == FilterBySize(s)
    N == Len(s)
<1>1. /\ s \in Seq(Msg) /\ N \in Nat /\ N \in 0 .. N /\ DOMAIN s = 1 .. N
      /\ K \subseteq 1 .. N
  BY FilterFacts DEF Conversation
<1>2. AllParts(Sent(s)) = Carried(s, K, N)
  <2>1. Sent(s) = Sanitized(s, K)[N]
    BY <1>1, SanitizedIs DEF Sent
  <2> QED BY <1>1, <2>1, SanitizedParts
<1>3. \A k \in DOMAIN s : Parts(s[k]) = {k - 1} /\ (k - 1 = i - 1 => k = i)
  BY <1>1, PositionParts
<1> HIDE DEF K, N
<1>4. i - 1 \in Carried(s, K, N) <=> i \in K /\ ~ Blank(s[i])
  <2>1. ASSUME i - 1 \in Carried(s, K, N) PROVE i \in K /\ ~ Blank(s[i])
    <3>1. PICK k \in {n \in K \cap 1 .. N : ~ Blank(s[n])} : i - 1 \in Parts(s[k])
      BY <2>1 DEF Carried
    <3>2. k = i
      BY <1>1, <1>3, <3>1
    <3> QED BY <3>1, <3>2
  <2>2. ASSUME i \in K, ~ Blank(s[i]) PROVE i - 1 \in Carried(s, K, N)
    <3>1. i \in {n \in K \cap 1 .. N : ~ Blank(s[n])} /\ i - 1 \in Parts(s[i])
      BY <1>1, <1>3, <2>2
    <3> QED BY <3>1 DEF Carried
  <2> QED BY <2>1, <2>2
<1> QED BY <1>2, <1>4 DEF K

(* Of two places in the request no two hold the same message.              *)
LEMMA SentOnce ==
  ASSUME NEW s, Conversation(s), NEW i \in DOMAIN Sent(s), NEW j \in DOMAIN Sent(s),
         NEW k \in DOMAIN s, Sent(s)[i] = s[k], Sent(s)[j] = s[k]
  PROVE  i = j
<1>1. s \in Seq(Msg) /\ DOMAIN s = 1 .. Len(s) /\ Len(s) \in Nat
  BY DEF Conversation
<1>2. InOrder(Sent(s))
  BY <1>1, PositionParts, SanitizeOrder DEF Sent
<1>3. Parts(s[k]) = {k - 1} /\ k - 1 \in Int
  BY <1>1, PositionParts
<1>4. ~ Before(Parts(s[k]), Parts(s[k]))
  BY <1>3 DEF Before
<1>5. ~ (i < j) /\ ~ (j < i)
  BY <1>2, <1>4 DEF InOrder
<1>6. i \in Nat /\ j \in Nat
  BY SentType, <1>1
<1> QED BY <1>5, <1>6

(* The places of a kept unit follow one another.                           *)
LEMMA UnitPlaces ==
  ASSUME NEW s, Conversation(s), Fits(s), NEW h \in UnitHeads(s),
         s[h].calls # {}, Unit(s, h) \subseteq FilterBySize(s)
  PROVE  \E P \in DOMAIN Sent(s) :
           /\ Sent(s)[P] = s[h]
           /\ \A j \in Unit(s, h) : /\ P + (j - h) \in DOMAIN Sent(s)
                                    /\ Sent(s)[P + (j - h)] = s[j]
<1> DEFINE K == FilterBySize(s)
    N == Len(s)
    r == Sanitized(s, K)
    P == Len(r[h])
<1>1. /\ s \in Seq(Msg) /\ N \in Nat /\ DOMAIN s = 1 .. N
      /\ h \in 2 .. N /\ h \in Unit(s, h) /\ Unit(s, h) \subseteq h .. N
      /\ Unit(s, h) \subseteq K
  BY UnitsApart DEF Conversation
<1>2. /\ Sent(s) = r[N]
      /\ r[N] \in Seq(Msg) /\ DOMAIN r[N] = 1 .. Len(r[N])
      /\ \A n \in 0 .. N : r[n] \in Seq(Msg)
  <2>1. Sent(s) = r[N] /\ r \in [0 .. N -> Seq(Msg)]
    BY <1>1, SanitizedIs DEF Sent
  <2>2. N \in 0 .. N
    BY <1>1
  <2> HIDE DEF r, N
  <2>3. r[N] \in Seq(Msg)
    BY <2>1, <2>2
  <2> QED BY <2>1, <2>3
<1>3. \A j \in Unit(s, h) : j # h => s[j].role = "tool"
  <2> TAKE j \in Unit(s, h)
  <2> HAVE j # h
  <2>1. \A k \in h + 1 .. j : s[k].role = "tool"
    BY DEF Unit, InUnit
  <2>2. j \in h + 1 .. j
    BY <1>1
  <2> QED BY <2>1, <2>2
<1>4. \A j \in Unit(s, h) : ~ Mergeable(s[j])
  BY <1>3 DEF Mergeable
<1>5. ASSUME NEW j \in Unit(s, h)
      PROVE  /\ Len(r[j]) = Len(r[j - 1]) + 1
             /\ Len(r[j]) \in 1 .. Len(r[N])
             /\ r[N][Len(r[j])] = s[j]
  <2>1. j \in K \cap 1 .. N /\ N \in j .. N
    BY <1>1
  <2>2. ~ Mergeable(s[j])
    BY <1>4
  <2> QED BY <1>1, <2>1, <2>2, SanitizedPlaces
<1>6. ASSUME NEW j \in Unit(s, h) PROVE Len(r[j]) = P + (j - h)
  <2> DEFINE T == {n \in 0 .. j - h : Len(r[h + n]) = P + n}
  <2>1. j - h \in Nat /\ j \in h .. N /\ P \in Nat
    BY <1>1, <1>2
  <2>2. 0 \in T
    <3>1. h + 0 = h /\ P + 0 = P
      BY <1>1, <2>1
    <3> QED BY <2>1, <3>1
  <2>3. ASSUME NEW n \in 1 .. j - h, n - 1 \in T PROVE n \in T
    <3>1. /\ h + n \in h + 1 .. j /\ (h + n) - 1 = h + (n - 1)
          /\ h + n \in 2 .. N /\ h + 1 .. h + n \subseteq h + 1 .. j
          /\ h # j /\ h < h + n /\ n \in 0 .. j - h
      BY <1>1, <2>1
    <3>2. \A k \in h + 1 .. j : s[k].role = "tool"
      BY <3>1 DEF Unit, InUnit
    <3>3. h + n \in Unit(s, h)
      BY <3>1, <3>2 DEF Unit, InUnit
    <3>4. Len(r[h + n]) = Len(r[h + (n - 1)]) + 1
      BY <1>5, <3>1, <3>3
    <3>5. Len(r[h + (n - 1)]) = P + (n - 1)
      BY <2>3
    <3> HIDE DEF P, r
    <3>6. Len(r[h + n]) = P + n
      BY <2>1, <3>4, <3>5
    <3> QED BY <3>1, <3>6
  <2>4. \A n \in 0 .. j - h : n \in T
    <3> HIDE DEF T
    <3> QED BY <2>1, <2>2, <2>3, InductionTo
  <2>5. j - h \in 0 .. j - h /\ h + (j - h) = j
    BY <2>1, <1>1
  <2> QED BY <2>4, <2>5
<1>7. P \in DOMAIN Sent(s) /\ Sent(s)[P] = s[h]
  BY <1>1, <1>2, <1>5
<1>8. ASSUME NEW j \in Unit(s, h)
      PROVE  P + (j - h) \in DOMAIN Sent(s) /\ Sent(s)[P + (j - h)] = s[j]
  BY <1>2, <1>5, <1>6
<1> HIDE DEF P
<1> QED BY <1>7, <1>8

---------------------------------------------------------------------------
(* The histories that turns leave.                                         *)
Saved(t) ==
  /\ t \in Seq(Msg)
  /\ \A i \in DOMAIN t :
       /\ t[i].parts = <<i>>
       /\ t[i].calls # {} => t[i].role = "assistant"
       /\ \A c \in t[i].calls : c[1] = i
       /\ t[i].role = "tool" =>
            \E h \in 1 .. i - 1 : /\ t[i].call \in t[h].calls
                                  /\ \A k \in h + 1 .. i : t[k].role = "tool"
       /\ t[i].role # "tool" => t[i].call = NoCall

Asked(instruction, t) == <<Text("system", instruction, FALSE, 0)>> \o t

(* What is being streamed was built from the history as it is.             *)
FilterInv ==
  /\ Saved(history)
  /\ pc = "stream" =>
       /\ \E instruction \in Nat : request = Asked(instruction, history)
       /\ Fits(request)
       /\ sent = Sent(request)

(* A text is a message without calls.                                      *)
LEMMA TextType ==
  ASSUME NEW role \in Role, NEW n \in Nat, NEW reasoning \in BOOLEAN, NEW i \in Nat
  PROVE  LET m == Text(role, n, reasoning, i) IN
         /\ m \in Msg /\ m.role = role /\ m.calls = {} /\ m.call = NoCall
         /\ m.parts = <<i>>
BY DEF Text, Msg, NoCall

(* The result of a call is a message that names it.                        *)
LEMMA ResultType ==
  ASSUME NEW id \in Nat \X Nat, NEW n \in Nat, NEW i \in Nat
  PROVE  LET m == ToolResult(id, n, i) IN
         /\ m \in Msg /\ m.role = "tool" /\ m.calls = {} /\ m.call = id
         /\ m.parts = <<i>>
<1> DEFINE m == Text("tool", n, FALSE, i)
<1>1. /\ m \in Msg /\ m.role = "tool" /\ m.calls = {} /\ m.parts = <<i>>
      /\ ToolResult(id, n, i) = [m EXCEPT !.call = id]
  BY DEF Text, Msg, Role, NoCall, ToolResult
<1> HIDE DEF m
<1>2. /\ [m EXCEPT !.call = id] \in Msg
      /\ [m EXCEPT !.call = id].role = m.role
      /\ [m EXCEPT !.call = id].calls = m.calls
      /\ [m EXCEPT !.call = id].call = id
      /\ [m EXCEPT !.call = id].parts = m.parts
  BY <1>1 DEF Msg
<1> QED BY <1>1, <1>2

(* A message with calls is an assistant's.                                 *)
LEMMA CallingType ==
  ASSUME NEW ids \in SUBSET (Nat \X Nat), NEW n \in Nat, NEW i \in Nat
  PROVE  LET m == Calling(ids, n, i) IN
         /\ m \in Msg /\ m.role = "assistant" /\ m.calls = ids
         /\ m.call = NoCall /\ m.parts = <<i>>
<1> DEFINE m == Text("assistant", n, FALSE, i)
<1>1. /\ m \in Msg /\ m.role = "assistant" /\ m.call = NoCall /\ m.parts = <<i>>
      /\ Calling(ids, n, i) = [m EXCEPT !.calls = ids]
  BY DEF Text, Msg, Role, NoCall, Calling
<1> HIDE DEF m
<1>2. /\ [m EXCEPT !.calls = ids] \in Msg
      /\ [m EXCEPT !.calls = ids].role = m.role
      /\ [m EXCEPT !.calls = ids].calls = ids
      /\ [m EXCEPT !.calls = ids].call = m.call
      /\ [m EXCEPT !.calls = ids].parts = m.parts
  BY <1>1 DEF Msg
<1> QED BY <1>1, <1>2

(* A saved history behind its instruction is a conversation.               *)
LEMMA AskedIsConversation ==
  ASSUME NEW t, Saved(t), NEW instruction \in Nat
  PROVE  /\ Conversation(Asked(instruction, t))
         /\ Len(Asked(instruction, t)) = Len(t) + 1
         /\ \A i \in DOMAIN t : Asked(instruction, t)[i + 1] = t[i]
<1> DEFINE first == Text("system", instruction, FALSE, 0)
    s == Asked(instruction, t)
    N == Len(t)
<1>1. /\ first \in Msg /\ first.role = "system" /\ first.calls = {}
      /\ first.call = NoCall /\ first.parts = <<0>>
  BY DEF Text, Msg, Role, NoCall
<1>2. t \in Seq(Msg) /\ N \in Nat /\ DOMAIN t = 1 .. N
  BY DEF Saved
<1> HIDE DEF first
<1>3. <<first>> \in Seq(Msg) /\ Len(<<first>>) = 1 /\ <<first>>[1] = first
  BY <1>1
<1>4. s = <<first>> \o t
  BY DEF Asked, first
<1>5. /\ s \in Seq(Msg) /\ Len(s) = 1 + N
      /\ \A i \in 1 .. 1 + N : s[i] = IF i <= 1 THEN <<first>>[i] ELSE t[i - 1]
  BY <1>2, <1>3, <1>4, ConcatProperties
<1> HIDE DEF s
<1>6. /\ Len(s) = N + 1 /\ DOMAIN s = 1 .. N + 1
      /\ s[1] = first
      /\ \A i \in 1 .. N : s[i + 1] = t[i]
      /\ \A i \in 2 .. N + 1 : i - 1 \in 1 .. N /\ s[i] = t[i - 1]
  <2>1. DOMAIN s = 1 .. N + 1 /\ Len(s) = N + 1
    BY <1>2, <1>5
  <2>2. s[1] = first
    BY <1>2, <1>3, <1>5
  <2>3. ASSUME NEW i \in 1 .. N PROVE s[i + 1] = t[i]
    <3>1. i + 1 \in 1 .. 1 + N /\ ~ (i + 1 <= 1) /\ (i + 1) - 1 = i
      BY <1>2
    <3> QED BY <1>5, <3>1
  <2>4. ASSUME NEW i \in 2 .. N + 1 PROVE i - 1 \in 1 .. N /\ s[i] = t[i - 1]
    <3>1. i - 1 \in 1 .. N /\ (i - 1) + 1 = i
      BY <1>2
    <3> QED BY <2>3, <3>1
  <2> QED BY <2>1, <2>2, <2>3, <2>4
<1>7. \A i \in DOMAIN s : i = 1 \/ i \in 2 .. N + 1
  BY <1>2, <1>6
<1>8. ASSUME NEW i \in 2 .. N + 1
      PROVE  /\ s[i].parts = <<i - 1>>
             /\ s[i].calls # {} => s[i].role = "assistant"
             /\ \A c \in s[i].calls : c[1] = i - 1
             /\ s[i].role # "tool" => s[i].call = NoCall
  BY <1>2, <1>6 DEF Saved
<1>9. ASSUME NEW i \in 2 .. N + 1, s[i].role = "tool"
      PROVE  \E h \in 2 .. i - 1 : /\ s[i].call \in s[h].calls
                                   /\ \A k \in h + 1 .. i : s[k].role = "tool"
  <2>1. i - 1 \in 1 .. N /\ s[i] = t[i - 1]
    BY <1>6
  <2>2. PICK h \in 1 .. (i - 1) - 1 : /\ t[i - 1].call \in t[h].calls
                                      /\ \A k \in h + 1 .. i - 1 : t[k].role = "tool"
    BY <1>2, <1>9, <2>1 DEF Saved
  <2>3. h + 1 \in 2 .. i - 1 /\ h \in 1 .. N
    BY <1>2
  <2>4. s[h + 1] = t[h]
    BY <1>6, <2>3
  <2>5. ASSUME NEW k \in (h + 1) + 1 .. i PROVE s[k].role = "tool"
    <3>1. k \in 2 .. N + 1 /\ k - 1 \in h + 1 .. i - 1
      BY <1>2
    <3> QED BY <1>6, <2>2, <3>1
  <2> QED BY <2>1, <2>2, <2>3, <2>4, <2>5
<1>10. Conversation(s)
  <2>1. s \in Seq(Msg) /\ Len(s) > 0 /\ s[1].role = "system"
    BY <1>1, <1>2, <1>5, <1>6
  <2>2. \A i \in DOMAIN s : s[i].parts = <<i - 1>>
    <3>1. <<1 - 1>> = <<0>>
      OBVIOUS
    <3> QED BY <1>1, <1>6, <1>7, <1>8, <3>1
  <2>3. \A i \in DOMAIN s :
          /\ s[i].calls # {} => s[i].role = "assistant"
          /\ \A c \in s[i].calls : c[1] = i - 1
          /\ s[i].role # "tool" => s[i].call = NoCall
    BY <1>1, <1>6, <1>7, <1>8
  <2>4. \A i \in DOMAIN s : s[i].role = "tool" =>
          \E h \in 2 .. i - 1 : /\ s[i].call \in s[h].calls
                                /\ \A k \in h + 1 .. i : s[k].role = "tool"
    BY <1>1, <1>6, <1>7, <1>9
  <2> QED BY <2>1, <2>2, <2>3, <2>4 DEF Conversation
<1> QED BY <1>2, <1>6, <1>10 DEF s

(* A message that is no result can always be added.                        *)
LEMMA SavedAppend ==
  ASSUME NEW t, Saved(t), NEW m \in Msg, m.parts = <<Len(t) + 1>>,
         m.role # "tool", m.call = NoCall,
         m.calls # {} => m.role = "assistant",
         \A c \in m.calls : c[1] = Len(t) + 1
  PROVE  Saved(Append(t, m))
<1> DEFINE u == Append(t, m)
    N == Len(t)
<1>1. t \in Seq(Msg) /\ N \in Nat /\ DOMAIN t = 1 .. N
  BY DEF Saved
<1>2. /\ u \in Seq(Msg) /\ DOMAIN u = 1 .. N + 1 /\ u[N + 1] = m
      /\ \A i \in 1 .. N : u[i] = t[i]
  BY <1>1
<1> HIDE DEF u
<1>3. ASSUME NEW i \in 1 .. N, t[i].role = "tool"
      PROVE  \E h \in 1 .. i - 1 : /\ u[i].call \in u[h].calls
                                   /\ \A k \in h + 1 .. i : u[k].role = "tool"
  <2>1. PICK h \in 1 .. i - 1 : /\ t[i].call \in t[h].calls
                                /\ \A k \in h + 1 .. i : t[k].role = "tool"
    BY <1>1, <1>3 DEF Saved
  <2>2. h \in 1 .. N /\ h + 1 .. i \subseteq 1 .. N
    BY <1>1
  <2> QED BY <1>2, <2>1, <2>2
<1>4. \A i \in 1 .. N + 1 : i = N + 1 \/ i \in 1 .. N
  BY <1>1
<1>5. ASSUME NEW i \in 1 .. N
      PROVE  /\ u[i].parts = <<i>>
             /\ u[i].calls # {} => u[i].role = "assistant"
             /\ \A c \in u[i].calls : c[1] = i
             /\ u[i].role # "tool" => u[i].call = NoCall
             /\ u[i] = t[i]
  BY <1>1, <1>2 DEF Saved
<1> QED BY <1>2, <1>3, <1>4, <1>5, SMTT(30) DEF Saved, u

(* Results can be added behind the message with their calls.               *)
LEMMA SavedResults ==
  ASSUME NEW u, Saved(u), NEW p \in Nat, p = Len(u), p > 0,
         NEW c \in Nat, NEW lengths \in [1 .. c -> Nat],
         \A k \in 1 .. c : <<p, k>> \in u[p].calls
  PROVE  Saved(u \o [k \in 1 .. c |-> ToolResult(<<p, k>>, lengths[k], p + k)])
<1> DEFINE rs == [k \in 1 .. c |-> ToolResult(<<p, k>>, lengths[k], p + k)]
    v == u \o rs
<1>0. SUFFICES Saved(v)
  OBVIOUS
<1>1. u \in Seq(Msg) /\ DOMAIN u = 1 .. p /\ p \in DOMAIN u
  BY DEF Saved
<1>2. ASSUME NEW k \in 1 .. c
      PROVE  /\ rs[k] \in Msg /\ rs[k].role = "tool" /\ rs[k].calls = {}
             /\ rs[k].call = <<p, k>> /\ rs[k].parts = <<p + k>>
  <2> DEFINE id == <<p, k>>
    n == lengths[k]
    i == p + k
  <2>1. n \in Nat /\ i \in Nat /\ id \in Nat \X Nat
    OBVIOUS
  <2>2. rs[k] = ToolResult(id, n, i)
    OBVIOUS
  <2> HIDE DEF rs, id, n, i
  <2>3. /\ rs[k] \in Msg /\ rs[k].role = "tool" /\ rs[k].calls = {}
        /\ rs[k].call = id /\ rs[k].parts = <<i>>
    BY <2>1, <2>2, ResultType
  <2> QED BY <2>3 DEF id, i
<1>3. rs \in Seq(Msg) /\ Len(rs) = c
  <2>1. rs \in [1 .. c -> Msg]
    BY <1>2
  <2> HIDE DEF rs
  <2> QED BY <2>1, SeqDef
<1> HIDE DEF rs
<1>4. /\ v \in Seq(Msg) /\ Len(v) = p + c /\ DOMAIN v = 1 .. p + c
      /\ \A i \in 1 .. p + c : v[i] = IF i <= p THEN u[i] ELSE rs[i - p]
  <2>1. /\ v \in Seq(Msg) /\ Len(v) = Len(u) + Len(rs)
        /\ \A i \in 1 .. Len(u) + Len(rs) :
             v[i] = IF i <= Len(u) THEN u[i] ELSE rs[i - Len(u)]
    BY <1>1, <1>3, ConcatProperties
  <2>2. DOMAIN v = 1 .. Len(v)
    BY <2>1
  <2> HIDE DEF v
  <2> QED BY <1>3, <2>1, <2>2
<1> HIDE DEF v
<1>5. /\ \A i \in 1 .. p : i \in 1 .. p + c /\ v[i] = u[i]
      /\ \A i \in p + 1 .. p + c : i - p \in 1 .. c /\ v[i] = rs[i - p]
      /\ \A i \in 1 .. p + c : i \in 1 .. p \/ i \in p + 1 .. p + c
  BY <1>4
<1>6. ASSUME NEW i \in 1 .. p, v[i].role = "tool"
      PROVE  \E h \in 1 .. i - 1 : /\ v[i].call \in v[h].calls
                                   /\ \A k \in h + 1 .. i : v[k].role = "tool"
  <2>1. v[i] = u[i]
    BY <1>5
  <2>2. PICK h \in 1 .. i - 1 : /\ u[i].call \in u[h].calls
                                /\ \A k \in h + 1 .. i : u[k].role = "tool"
    BY <1>1, <1>6, <2>1 DEF Saved
  <2>3. h \in 1 .. p /\ h + 1 .. i \subseteq 1 .. p
    BY <1>1
  <2> QED BY <1>5, <2>1, <2>2, <2>3
<1>7. ASSUME NEW i \in p + 1 .. p + c
      PROVE  \E h \in 1 .. i - 1 : /\ v[i].call \in v[h].calls
                                   /\ \A k \in h + 1 .. i : v[k].role = "tool"
  <2>1. p \in 1 .. i - 1 /\ p \in 1 .. p /\ i - p \in 1 .. c
        /\ p + 1 .. i \subseteq p + 1 .. p + c
    BY <1>1
  <2>2. v[p] = u[p] /\ v[i] = rs[i - p] /\ v[i].call = <<p, i - p>>
    BY <1>2, <1>5, <2>1
  <2>3. v[i].call \in v[p].calls
    BY <2>1, <2>2
  <2>4. ASSUME NEW k \in p + 1 .. i PROVE v[k].role = "tool"
    <3>1. k \in p + 1 .. p + c
      BY <2>1
    <3>2. k - p \in 1 .. c /\ v[k] = rs[k - p]
      BY <1>5, <3>1
    <3> QED BY <1>2, <3>2
  <2> QED BY <2>1, <2>3, <2>4
<1>8. ASSUME NEW i \in 1 .. p
      PROVE  /\ v[i].parts = <<i>>
             /\ v[i].calls # {} => v[i].role = "assistant"
             /\ \A d \in v[i].calls : d[1] = i
             /\ v[i].role # "tool" => v[i].call = NoCall
  BY <1>1, <1>5 DEF Saved
<1>9. ASSUME NEW i \in p + 1 .. p + c
      PROVE  v[i].parts = <<i>> /\ v[i].calls = {} /\ v[i].role = "tool"
  <2>1. i - p \in 1 .. c /\ v[i] = rs[i - p] /\ p + (i - p) = i
    BY <1>5
  <2> QED BY <1>2, <2>1
<1>10. ASSUME NEW i \in DOMAIN v
       PROVE  /\ v[i].parts = <<i>>
              /\ v[i].calls # {} => v[i].role = "assistant"
              /\ \A d \in v[i].calls : d[1] = i
              /\ v[i].role = "tool" =>
                   \E h \in 1 .. i - 1 : /\ v[i].call \in v[h].calls
                                         /\ \A k \in h + 1 .. i : v[k].role = "tool"
              /\ v[i].role # "tool" => v[i].call = NoCall
  <2>1. CASE i \in 1 .. p
    BY <1>6, <1>8, <2>1
  <2>2. CASE i \in p + 1 .. p + c
    BY <1>7, <1>9, <2>2
  <2> QED BY <1>4, <1>5, <2>1, <2>2
<1> QED BY <1>4, <1>10 DEF Saved

---------------------------------------------------------------------------
(* The history stays one that turns leave, and what is streamed was made   *)
(* of it.                                                                  *)
LEMMA StepsKeepFilterInv ==
  ASSUME FilterInv, [Next]_vars
  PROVE  FilterInv'
<1>1. CASE UNCHANGED vars
  BY <1>1 DEF FilterInv, vars
<1>2. ASSUME NEW instruction \in Instruction, NEW n \in Length, Prompt(instruction, n)
      PROVE  FilterInv'
  <2> DEFINE m == Text("user", n, FALSE, Next1)
  <2>1. n \in Nat /\ Len(history) + 1 \in Nat /\ Saved(history)
    BY FilterAssumption DEF FilterInv, Saved
  <2>2. /\ m \in Msg /\ m.role = "user" /\ m.calls = {} /\ m.call = NoCall
        /\ m.parts = <<Len(history) + 1>>
    BY <2>1 DEF Text, Msg, Role, NoCall, Next1
  <2>3. history' = Append(history, m) /\ pc' = "request"
    BY <1>2 DEF Prompt
  <2> HIDE DEF m
  <2>4. Saved(history')
    BY <2>1, <2>2, <2>3, SavedAppend
  <2> QED BY <2>3, <2>4 DEF FilterInv, Saved
<1>3. ASSUME NEW instruction \in Instruction, Request(instruction)
      PROVE  FilterInv'
  <2>1. instruction \in Nat /\ history' = history /\ Saved(history)
    BY <1>3, FilterAssumption DEF Request, FilterInv
  <2>2. Saved(history')
    BY <2>1 DEF Saved
  <2>3. request' = Asked(instruction, history')
    BY <1>3, <2>1 DEF Request, Asked
  <2>4. pc' = "stream" => Fits(request)' /\ sent' = Sent(request)'
    BY <1>3 DEF Request, Sent
  <2> QED BY <2>1, <2>2, <2>3, <2>4 DEF FilterInv
<1>4. ASSUME NEW n \in Length, NEW blank \in BOOLEAN, NEW reasoning \in BOOLEAN,
             Answer(n, blank, reasoning)
      PROVE  FilterInv'
  <2> DEFINE answer == Text("assistant", n, reasoning, Next1)
    m == [answer EXCEPT !.blank = blank]
  <2>1. n \in Nat /\ Len(history) + 1 \in Nat /\ Saved(history)
    BY FilterAssumption DEF FilterInv, Saved
  <2>2. /\ m \in Msg /\ m.role = "assistant" /\ m.calls = {} /\ m.call = NoCall
        /\ m.parts = <<Len(history) + 1>>
    <3>1. /\ answer \in Msg /\ answer.role = "assistant" /\ answer.calls = {}
          /\ answer.call = NoCall /\ answer.parts = <<Len(history) + 1>>
      BY <2>1 DEF Text, Msg, Role, NoCall, Next1
    <3> HIDE DEF answer
    <3> QED BY <3>1 DEF Msg
  <2>3. history' = Append(history, m) /\ pc' = "idle"
    BY <1>4 DEF Answer
  <2> HIDE DEF m
  <2>4. Saved(history')
    BY <2>1, <2>2, <2>3, SavedAppend
  <2> QED BY <2>3, <2>4 DEF FilterInv, Saved
<1>5. ASSUME NEW c \in 1 .. MaxCalls, NEW lengths \in [1 .. c -> Length],
             NEW n \in Length, NEW run \in BOOLEAN, Calls(lengths, n, run)
      PROVE  FilterInv'
  <2> DEFINE p == Len(history) + 1
    ids == {<<p, k>> : k \in 1 .. c}
    m == Calling(ids, n, p)
    u == Append(history, m)
  <2>1. /\ n \in Nat /\ Len(history) \in Nat /\ p \in Nat /\ p > 0 /\ Saved(history)
        /\ c \in Nat /\ lengths \in [1 .. c -> Nat] /\ DOMAIN lengths = 1 .. c
        /\ history \in Seq(Msg)
    <3>1. \A x \in Length : x \in Nat
      BY FilterAssumption
    <3>2. c \in Nat /\ n \in Nat
      BY <3>1, FilterAssumption
    <3>3. Saved(history) /\ history \in Seq(Msg)
      BY DEF FilterInv, Saved
    <3>4. lengths \in [1 .. c -> Nat] /\ DOMAIN lengths = 1 .. c
      BY <3>1
    <3>5. Len(history) \in Nat
      BY <3>3
    <3> QED BY <3>2, <3>3, <3>4, <3>5
  <2>2. /\ m \in Msg /\ m.role = "assistant" /\ m.calls = ids /\ m.call = NoCall
        /\ m.parts = <<p>>
    <3>1. ids \in SUBSET (Nat \X Nat)
      BY <2>1
    <3> HIDE DEF ids, p, m
    <3> QED BY <2>1, <3>1, CallingType, SMTT(30) DEF m
  <2>3. \A d \in ids : d[1] = p
    OBVIOUS
  <2>4. Saved(u)
    <3> HIDE DEF m, ids
    <3> QED BY <2>1, <2>2, <2>3, SavedAppend
  <2>5. Len(u) = p /\ u[p].calls = ids
    <3> HIDE DEF m, ids
    <3> QED BY <2>1, <2>2
  <2>6. /\ pc' # "stream"
        /\ history' = u \o IF run
             THEN [k \in 1 .. c |-> ToolResult(<<p, k>>, lengths[k], p + k)]
             ELSE <<>>
    BY <1>5, <2>1 DEF Calls, Next1
  <2>7. \A k \in 1 .. c : <<p, k>> \in u[p].calls
    BY <2>5
  <2> HIDE DEF u, p, m, ids
  <2>8. Saved(history')
    <3>1. CASE run
      BY <2>1, <2>4, <2>5, <2>6, <2>7, <3>1, SavedResults, ZenonT(60)
    <3>2. CASE ~ run
      <4>1. u \o << >> = u
        BY <2>4, ConcatEmptySeq DEF Saved
      <4> QED BY <2>4, <2>6, <3>2, <4>1
    <3> QED BY <3>1, <3>2
  <2> QED BY <2>6, <2>8 DEF FilterInv, Saved
<1>6. CASE Stop
  BY <1>6 DEF Stop, FilterInv, Saved
<1> QED BY <1>1, <1>2, <1>3, <1>4, <1>5, <1>6 DEF Next

(* FilterInv is inductive: a turn leaves only histories of its kind, and a *)
(* request is made of the history it is sent for.                          *)
LEMMA FilterInvariant == Spec => []FilterInv
<1>1. Init => FilterInv
  <2>1. << >> \in Seq(Msg) /\ DOMAIN << >> = {}
    OBVIOUS
  <2> QED BY <2>1 DEF Init, FilterInv, Saved
<1> QED BY <1>1, StepsKeepFilterInv, PTL DEF Spec

(* While a completion streams, its request is a conversation that fits.    *)
LEMMA RequestIsConversation ==
  ASSUME FilterInv, Streaming
  PROVE  /\ Conversation(request) /\ Fits(request)
         /\ sent = Sent(request)
         /\ SentParts = AllParts(Sent(request))
         /\ history \in Seq(Msg) /\ DOMAIN history = 1 .. Len(history)
         /\ Len(request) = Len(history) + 1
         /\ \A i \in DOMAIN history : request[i + 1] = history[i]
<1>1. PICK instruction \in Nat : request = Asked(instruction, history)
  BY DEF FilterInv, Streaming
<1>2. Saved(history) /\ Fits(request) /\ sent = Sent(request)
  BY DEF FilterInv, Streaming
<1>3. history \in Seq(Msg)
  BY <1>2 DEF Saved
<1>4. SentParts = AllParts(sent)
  BY DEF SentParts, AllParts
<1> QED BY <1>1, <1>2, <1>3, <1>4, AskedIsConversation

(* A request never exceeds the byte budget, joined messages included       *)
(* (filter_messages_by_size then sanitize_conversation).                   *)
THEOREM RequestsFit == Spec => []FitsBudget
<1>1. ASSUME FilterInv PROVE FitsBudget
  <2>1. SUFFICES ASSUME Streaming PROVE TotalSize(sent) <= Budget
    BY DEF FitsBudget
  <2> DEFINE K == FilterBySize(request)
  <2>2. /\ Conversation(request) /\ Fits(request) /\ sent = Sent(request)
        /\ request \in Seq(Msg)
    BY <1>1, <2>1, RequestIsConversation DEF Conversation
  <2>3. TotalSize(sent) <= SizeOf(request, K)
    BY <2>2, SanitizeSize DEF Sent
  <2>4. SizeOf(request, K) <= Budget
    BY <2>2, FilterFacts
  <2>5. TotalSize(sent) \in Nat /\ SizeOf(request, K) \in Nat /\ Budget \in Nat
    BY <2>2, SentType, SizeOfType, FilterAssumption DEF TotalSize
  <2> HIDE DEF K
  <2> QED BY <2>3, <2>4, <2>5
<1> QED BY <1>1, FilterInvariant, PTL

(* Every request carries the instruction and the prompt it answers         *)
(* (filter_messages_truncate, sanitize_conversation).                      *)
THEOREM PromptGoesOut == Spec => []PromptIsSent
<1>1. ASSUME FilterInv, Streaming
      PROVE  /\ 0 \in SentParts
             /\ \A i \in DOMAIN history :
                  history[i].role = "user"
                  /\ (\A j \in i + 1 .. Len(history) : history[j].role # "user")
                    => i \in SentParts
  <2> DEFINE s == request
  <2>1. /\ Conversation(s) /\ Fits(s) /\ SentParts = AllParts(Sent(s))
        /\ DOMAIN history = 1 .. Len(history) /\ Len(history) \in Nat
        /\ Len(s) = Len(history) + 1
        /\ \A i \in DOMAIN history : s[i + 1] = history[i]
    BY <1>1, RequestIsConversation
  <2> HIDE DEF s
  <2>2. DOMAIN s = 1 .. Len(s) /\ 1 \in DOMAIN s /\ s[1].role = "system"
    BY <2>1 DEF Conversation
  <2>3. Mandatory(s) \subseteq FilterBySize(s)
    BY <2>1, FilterFacts
  <2>4. 1 - 1 \in AllParts(Sent(s))
    BY <2>1, <2>2, <2>3, SentPositions DEF Mandatory, Blank
  <2>5. ASSUME NEW i \in DOMAIN history, history[i].role = "user",
               \A j \in i + 1 .. Len(history) : history[j].role # "user"
        PROVE  i \in AllParts(Sent(s))
    <3>1. i + 1 \in DOMAIN s /\ i + 1 \in 2 .. Len(s) /\ s[i + 1].role = "user"
      BY <2>1, <2>2, <2>5
    <3>2. ASSUME NEW k \in (i + 1) + 1 .. Len(s) PROVE s[k].role # "user"
      <4>1. k - 1 \in i + 1 .. Len(history) /\ k - 1 \in DOMAIN history
            /\ (k - 1) + 1 = k
        BY <2>1
      <4> QED BY <2>1, <2>5, <4>1
    <3>3. i + 1 \in FilterBySize(s)
      BY <2>3, <3>1, <3>2 DEF Mandatory, LatestPrompt
    <3>4. (i + 1) - 1 \in AllParts(Sent(s))
      BY <2>1, <3>1, <3>3, SentPositions DEF Blank
    <3>5. (i + 1) - 1 = i
      BY <2>1
    <3> QED BY <3>4, <3>5
  <2> QED BY <2>1, <2>4, <2>5
<1>2. FilterInv => PromptIsSent
  BY <1>1 DEF PromptIsSent
<1> QED BY <1>2, FilterInvariant, PTL

(* No empty answer is sent, no two texts of one role are neighbours, and   *)
(* the order of the history is kept (sanitize_conversation).               *)
THEOREM RolesAlternate == Spec => []TextsAlternate
<1>1. ASSUME FilterInv, Streaming
      PROVE  /\ \A i \in DOMAIN sent : ~ Blank(sent[i])
             /\ \A i \in 1 .. Len(sent) - 1 :
                  Mergeable(sent[i]) /\ Mergeable(sent[i + 1])
                    => sent[i].role # sent[i + 1].role
             /\ \A i, j \in DOMAIN sent : i < j =>
                  \A p \in Parts(sent[i]), q \in Parts(sent[j]) : p < q
  <2>1. Conversation(request) /\ sent = Sent(request) /\ request \in Seq(Msg)
    BY <1>1, RequestIsConversation DEF Conversation
  <2>2. Alternates(sent)
    BY <2>1, SanitizeAlternates DEF Sent
  <2>3. InOrder(sent)
    BY <2>1, PositionParts, SanitizeOrder DEF Sent
  <2> QED BY <2>2, <2>3 DEF Alternates, Merges, InOrder, Before
<1>2. FilterInv => TextsAlternate
  BY <1>1 DEF TextsAlternate
<1> QED BY <1>2, FilterInvariant, PTL

(* A caller in the request stands at the place of a kept unit's head.      *)
LEMMA CallerPlace ==
  ASSUME NEW s, Conversation(s), Fits(s), NEW i \in DOMAIN Sent(s),
         Sent(s)[i].calls # {}
  PROVE  \E h \in UnitHeads(s) :
           /\ Sent(s)[i] = s[h] /\ s[h].parts = <<h - 1>>
           /\ \A j \in Unit(s, h) : /\ i + (j - h) \in DOMAIN Sent(s)
                                    /\ Sent(s)[i + (j - h)] = s[j]
<1>1. s \in Seq(Msg) /\ DOMAIN s = 1 .. Len(s)
  BY DEF Conversation
<1>2. ~ Mergeable(Sent(s)[i])
  BY DEF Mergeable
<1>3. PICK h \in FilterBySize(s) \cap 1 .. Len(s) : Sent(s)[i] = s[h]
  BY <1>1, <1>2, SanitizeFixed DEF Sent
<1>4. h \in UnitHeads(s) /\ h \in DOMAIN s /\ s[h].parts = <<h - 1>>
  BY <1>1, <1>3, UnitMembers DEF Conversation
<1>5. h \in Unit(s, h)
  BY <1>1, <1>4, UnitsApart
<1>6. Unit(s, h) \subseteq FilterBySize(s)
  BY <1>3, <1>4, <1>5, FilterFacts DEF Refused
<1>7. PICK P \in DOMAIN Sent(s) :
        /\ Sent(s)[P] = s[h]
        /\ \A j \in Unit(s, h) : /\ P + (j - h) \in DOMAIN Sent(s)
                                 /\ Sent(s)[P + (j - h)] = s[j]
  BY <1>3, <1>4, <1>6, UnitPlaces
<1>8. P = i
  BY <1>3, <1>4, <1>7, SentOnce
<1> QED BY <1>3, <1>4, <1>7, <1>8

(* A result in the request stands behind its call.                         *)
LEMMA ResultPlace ==
  ASSUME NEW s, Conversation(s), Fits(s), NEW i \in DOMAIN Sent(s),
         Sent(s)[i].role = "tool"
  PROVE  \E k \in 1 .. i - 1 : Sent(s)[i].call \in Sent(s)[k].calls
<1>1. s \in Seq(Msg) /\ DOMAIN s = 1 .. Len(s) /\ Len(s) \in Nat
  BY DEF Conversation
<1>2. ~ Mergeable(Sent(s)[i])
  BY DEF Mergeable
<1>3. PICK k \in FilterBySize(s) \cap 1 .. Len(s) : Sent(s)[i] = s[k]
  BY <1>1, <1>2, SanitizeFixed DEF Sent
<1>4. PICK h \in UnitHeads(s) : s[k].call \in s[h].calls /\ k \in Unit(s, h)
  BY <1>1, <1>3, UnitMembers
<1>5. Unit(s, h) \subseteq FilterBySize(s)
  BY <1>3, <1>4, FilterFacts DEF Refused
<1>6. h \in 2 .. Len(s) /\ k \in h .. Len(s)
  BY <1>1, <1>4, UnitsApart
<1>7. PICK P \in DOMAIN Sent(s) :
        /\ Sent(s)[P] = s[h]
        /\ \A j \in Unit(s, h) : /\ P + (j - h) \in DOMAIN Sent(s)
                                 /\ Sent(s)[P + (j - h)] = s[j]
  BY <1>4, <1>5, UnitPlaces
<1>8. P + (k - h) = i
  BY <1>1, <1>3, <1>4, <1>7, SentOnce
<1>9. k # h
  <2>1. s[h].role = "assistant"
    BY <1>1, <1>4, <1>6 DEF Conversation
  <2> QED BY <1>3, <2>1
<1>10. P \in 1 .. i - 1
  <2>1. DOMAIN Sent(s) = 1 .. Len(Sent(s)) /\ Len(Sent(s)) \in Nat
    BY SentType
  <2> QED BY <1>1, <1>6, <1>7, <1>8, <1>9, <2>1
<1> QED BY <1>3, <1>4, <1>7, <1>10

(* Calls and their results are sent together, whole, adjacent and in order *)
(* or not at all (group_tool_call_units, validate_tool_results,            *)
(* sanitize_conversation).                                                 *)
THEOREM CallsTravelWithResults == Spec => []UnitsStayWhole
<1>1. ASSUME FilterInv, Streaming, NEW i \in DOMAIN sent, sent[i].calls # {}
      PROVE  LET p == sent[i].parts[1]
                 results == {j \in DOMAIN history : history[j].call \in sent[i].calls}
             IN /\ Len(sent[i].parts) = 1
                /\ \A j \in results :
                     /\ i + (j - p) \in DOMAIN sent
                     /\ sent[i + (j - p)].parts = <<j>>
  <2> DEFINE s == request
  <2>1. /\ Conversation(s) /\ Fits(s) /\ sent = Sent(s)
        /\ DOMAIN history = 1 .. Len(history) /\ Len(history) \in Nat
        /\ Len(s) = Len(history) + 1
        /\ \A j \in DOMAIN history : s[j + 1] = history[j]
    BY <1>1, RequestIsConversation
  <2> HIDE DEF s
  <2>2. s \in Seq(Msg) /\ DOMAIN s = 1 .. Len(s)
    BY <2>1 DEF Conversation
  <2>3. PICK h \in UnitHeads(s) :
          /\ Sent(s)[i] = s[h] /\ s[h].parts = <<h - 1>>
          /\ \A j \in Unit(s, h) : /\ i + (j - h) \in DOMAIN Sent(s)
                                   /\ Sent(s)[i + (j - h)] = s[j]
    BY <1>1, <2>1, CallerPlace
  <2>4. h \in 2 .. Len(s) /\ h \in DOMAIN s
    BY <2>2, UnitsApart
  <2>5. sent[i].parts = <<h - 1>> /\ sent[i].calls = s[h].calls
    BY <2>1, <2>3
  <2>6. Len(<<h - 1>>) = 1 /\ <<h - 1>>[1] = h - 1
    OBVIOUS
  <2>7. ASSUME NEW j \in DOMAIN history, history[j].call \in sent[i].calls
        PROVE  /\ i + (j - (h - 1)) \in DOMAIN sent
               /\ sent[i + (j - (h - 1))].parts = <<j>>
    <3> DEFINE u == j + 1
    <3>1. u \in DOMAIN s /\ s[u] = history[j] /\ u - 1 = j
      BY <2>1, <2>2
    <3> HIDE DEF u
    <3>2. s[u].call \in s[h].calls
      BY <2>5, <2>7, <3>1
    <3>3. s[u].call[1] = h - 1 /\ h - 1 # 0
      BY <2>1, <2>4, <3>2 DEF Conversation
    <3>4. s[u].role = "tool"
      <4>1. CASE s[u].role # "tool"
        <5>1. s[u].call = NoCall
          BY <2>1, <3>1, <4>1 DEF Conversation
        <5> QED BY <3>3, <5>1 DEF NoCall
      <4> QED BY <4>1
    <3>5. PICK g \in UnitHeads(s) : s[u].call \in s[g].calls /\ u \in Unit(s, g)
      BY <2>1, <3>1, <3>4, UnitMembers
    <3>6. g \in DOMAIN s
      BY <2>2, UnitsApart
    <3>7. s[u].call[1] = g - 1
      BY <2>1, <3>5, <3>6 DEF Conversation
    <3>8. g = h
      BY <2>2, <2>4, <3>3, <3>6, <3>7
    <3>9. i + (u - h) \in DOMAIN Sent(s) /\ Sent(s)[i + (u - h)] = s[u]
      BY <2>3, <3>5, <3>8
    <3>10. s[u].parts = <<j>>
      <4>1. s[u].parts = <<u - 1>>
        BY <2>1, <3>1 DEF Conversation
      <4> QED BY <3>1, <4>1
    <3>11. u - h = j - (h - 1)
      BY <2>1, <2>2, <2>4, <3>1 DEF u
    <3> QED BY <2>1, <3>9, <3>10, <3>11
  <2>8. sent[i].parts[1] = h - 1 /\ Len(sent[i].parts) = 1
    BY <2>5, <2>6
  <2> QED BY <2>7, <2>8
<1>2. ASSUME FilterInv, Streaming, NEW i \in DOMAIN sent, sent[i].role = "tool"
      PROVE  \E k \in 1 .. i - 1 : sent[i].call \in sent[k].calls
  BY <1>2, RequestIsConversation, ResultPlace
<1>3. FilterInv => UnitsStayWhole
  BY <1>1, <1>2 DEF UnitsStayWhole
<1> QED BY <1>3, FilterInvariant, PTL

(* A unit is left out only if it did not fit beside the mandatory messages *)
(* and the newer units that were sent: an oversized unit blocks no older,  *)
(* smaller one (filter_messages_truncate).                                 *)
THEOREM OnlyTheOversizedIsCut == Spec => []NothingFitsUnsent
<1>1. ASSUME FilterInv, Streaming, NEW j \in UnitHeads(request)
      PROVE  LET there(i) == request[i].parts[1] \in SentParts \/ Blank(request[i])
                 newer == {i \in j + 1 .. Len(request) :
                             there(i) /\ i \notin Unit(request, j)}
                 beside == newer \cup {1} \cup LatestPrompt(request)
             IN ~ there(j) =>
                  SizeOf(request, beside \cup Unit(request, j)) > Budget
  <2> DEFINE s == request
    K == FilterBySize(s)
    there(i) == s[i].parts[1] \in SentParts \/ Blank(s[i])
    newer == {i \in j + 1 .. Len(s) : there(i) /\ i \notin Unit(s, j)}
    beside == newer \cup {1} \cup LatestPrompt(s)
  <2>1. Conversation(s) /\ Fits(s) /\ SentParts = AllParts(Sent(s))
    BY <1>1, RequestIsConversation
  <2>2. s \in Seq(Msg) /\ DOMAIN s = 1 .. Len(s) /\ Len(s) \in Nat
    BY <2>1 DEF Conversation
  <2>3. ASSUME NEW i \in DOMAIN s PROVE there(i) <=> i \in K \/ Blank(s[i])
    <3>1. s[i].parts = <<i - 1>> /\ <<i - 1>>[1] = i - 1
      BY <2>1 DEF Conversation
    <3>2. s[i].parts[1] = i - 1
      BY <3>1
    <3>3. i - 1 \in SentParts <=> i \in K /\ ~ Blank(s[i])
      BY <2>1, SentPositions
    <3> HIDE DEF s, K
    <3> QED BY <3>2, <3>3
  <2> HIDE DEF there
  <2>4. ASSUME ~ there(j)
        PROVE  SizeOf(s, beside \cup Unit(s, j)) > Budget
    <3>1. j \in 2 .. Len(s) /\ j \in Unit(s, j) /\ j \in DOMAIN s
      BY <1>1, <2>2, UnitsApart
    <3>2. j \notin K
      BY <2>3, <2>4, <3>1
    <3>3. K \subseteq DOMAIN s /\ Refused(s, K, j)
      BY <1>1, <2>1, <3>1, <3>2, FilterFacts
    <3>4. PICK L \in SUBSET K : /\ \A i \in L \ Mandatory(s) : j < i
                                /\ SizeOf(s, L \cup Unit(s, j)) > Budget
      BY <3>3 DEF Refused
    <3>5. L \subseteq beside
      <4>1. ASSUME NEW i \in L, i \notin Mandatory(s) PROVE i \in newer
        <5>1. i \in DOMAIN s /\ j < i
          BY <3>3, <3>4, <4>1
        <5>2. there(i) /\ i \notin Unit(s, j)
          BY <2>3, <3>3, <5>1 DEF Refused
        <5>3. i \in j + 1 .. Len(s)
          BY <2>2, <3>1, <5>1
        <5> QED BY <5>2, <5>3
      <4> QED BY <4>1 DEF Mandatory
    <3> HIDE DEF beside, K
    <3>6. SizeOf(s, L \cup Unit(s, j)) <= SizeOf(s, beside \cup Unit(s, j))
      BY <2>2, <3>5, SizeOfMonotone
    <3>7. /\ SizeOf(s, L \cup Unit(s, j)) \in Nat
          /\ SizeOf(s, beside \cup Unit(s, j)) \in Nat /\ Budget \in Nat
      BY <2>2, SizeOfType, FilterAssumption
    <3> QED BY <3>4, <3>6, <3>7
  <2> QED BY <2>4 DEF there
<1>2. FilterInv => NothingFitsUnsent
  BY <1>1 DEF NothingFitsUnsent
<1> QED BY <1>2, FilterInvariant, PTL
===========================================================================
