--------------------------- MODULE RequestsProofs ---------------------------
(***************************************************************************)
(* What the proofs about the components use of Requests: what each of its  *)
(* steps does to pc, loc and raced, and that overlapping requests are      *)
(* always in raced.  Facts about numbers and sums that several of them     *)
(* need come last.                                                         *)
(***************************************************************************)
EXTENDS Requests, Legs, NaturalsInduction, WellFoundedInduction, SequenceTheorems, TLAPS

(* pc and loc are indexed by requests; two requests at work on one row     *)
(* have been noticed.                                                      *)
RequestsOK ==
    /\ DOMAIN pc = Req /\ DOMAIN loc = Req
    /\ \A q, r \in Req : q # r /\ Busy(q) /\ Busy(r) /\ loc[q].on = loc[r].on
                            => loc[q].on \in raced

(* The other requests stay where they are. *)
Others(r) == \A q \in Req \ {r} : pc'[q] = pc[q] /\ loc'[q] = loc[q]

(* No request is in flight at first. *)
LEMMA InitRequestsOK == InitRequests => RequestsOK
    BY DEF InitRequests, RequestsOK, Busy

(* A request begins: it is idle before, and whoever is at work on its row  *)
(* makes the row raced.                                                    *)
LEMMA BeginOK ==
    ASSUME RequestsOK, NEW r \in Req, NEW label, NEW d, label # "idle",
           Begin(r, label, d)
    PROVE  /\ RequestsOK'
           /\ pc[r] = "idle" /\ pc'[r] = label /\ loc'[r] = d
           /\ Others(r) /\ raced \subseteq raced'
           /\ WorkingOn(d.on) # {} => d.on \in raced'
<1>1. /\ pc[r] = "idle" /\ pc'[r] = label /\ loc'[r] = d
      /\ Others(r) /\ raced \subseteq raced'
      /\ WorkingOn(d.on) # {} => d.on \in raced'
      /\ DOMAIN pc' = Req /\ DOMAIN loc' = Req
    BY DEF RequestsOK, Begin, Busy, Others
<1>2. \A q \in Req \ {r} : Busy(q) /\ loc[q].on = d.on => d.on \in raced'
    BY <1>1 DEF WorkingOn
<1>3. \A q \in Req \ {r} : Busy(q)' <=> Busy(q)
    BY <1>1 DEF Busy, Others
<1> QED BY <1>1, <1>2, <1>3 DEF RequestsOK, Others

(* A request served at once: only raced may grow. *)
LEMMA ServeOK ==
    ASSUME RequestsOK, NEW r \in Req, NEW row, Serve(r, row)
    PROVE  /\ RequestsOK'
           /\ UNCHANGED <<pc, loc>> /\ raced \subseteq raced'
           /\ WorkingOn(row) # {} => row \in raced'
    BY DEF RequestsOK, Serve, Busy

(* The next statement of a request, about the same row. *)
LEMMA GotoOK ==
    ASSUME RequestsOK, NEW r \in Req, NEW label, NEW d,
           Busy(r), d.on = loc[r].on, Goto(r, label, d)
    PROVE  /\ RequestsOK'
           /\ pc'[r] = label /\ loc'[r] = d /\ Others(r) /\ UNCHANGED raced
<1>1. /\ pc'[r] = label /\ loc'[r] = d /\ Others(r) /\ UNCHANGED raced
      /\ DOMAIN pc' = Req /\ DOMAIN loc' = Req
    BY DEF RequestsOK, Goto, Others
<1>2. \A q \in Req : /\ q # r => (Busy(q)' <=> Busy(q))
                     /\ loc'[q].on = loc[q].on
    BY <1>1 DEF Busy, Others
<1> QED BY <1>1, <1>2 DEF RequestsOK

(* The end of a request, or its cut off. *)
LEMMA EndOK ==
    ASSUME RequestsOK, NEW r \in Req, End(r)
    PROVE  /\ RequestsOK'
           /\ pc'[r] = "idle" /\ loc'[r] = Nothing /\ Others(r)
           /\ UNCHANGED raced
<1>1. /\ pc'[r] = "idle" /\ loc'[r] = Nothing /\ Others(r) /\ UNCHANGED raced
      /\ DOMAIN pc' = Req /\ DOMAIN loc' = Req
    BY DEF RequestsOK, End, Others
<1> QED BY <1>1 DEF RequestsOK, Busy, Others

-----------------------------------------------------------------------------
(* The same, folded, for the frame lemmas of a component: a step of r      *)
(* keeps the other requests, and r itself stays where it is or ends.       *)
Keeps(r) == /\ RequestsOK' /\ raced \subseteq raced'
            /\ \A q \in Req \ {r} : pc'[q] = pc[q] /\ loc'[q] = loc[q]

StaysOrEnds(r) == Keeps(r) /\ (pc'[r] = "idle" \/ (pc'[r] = pc[r] /\ loc'[r] = loc[r]))

(* End, Serve, Begin and Goto in these terms. *)
LEMMA EndKeeps ==
    ASSUME RequestsOK, NEW r \in Req, End(r)
    PROVE  StaysOrEnds(r) /\ pc'[r] = "idle" /\ raced' = raced
    BY EndOK DEF StaysOrEnds, Keeps, Others

LEMMA ServeKeeps ==
    ASSUME RequestsOK, NEW r \in Req, NEW row, Serve(r, row)
    PROVE  /\ StaysOrEnds(r) /\ UNCHANGED <<pc, loc>>
           /\ WorkingOn(row) # {} => row \in raced'
    BY ServeOK DEF StaysOrEnds, Keeps

LEMMA BeginKeeps ==
    ASSUME RequestsOK, NEW r \in Req, NEW label, NEW d, label # "idle",
           Begin(r, label, d)
    PROVE  /\ Keeps(r) /\ pc[r] = "idle" /\ pc'[r] = label /\ loc'[r] = d
           /\ WorkingOn(d.on) # {} => d.on \in raced'
    BY BeginOK DEF Keeps, Others

LEMMA GotoKeeps ==
    ASSUME RequestsOK, NEW r \in Req, NEW label, NEW d,
           pc[r] # "idle", d.on = loc[r].on, Goto(r, label, d)
    PROVE  Keeps(r) /\ pc'[r] = label /\ loc'[r] = d /\ raced' = raced
    BY GotoOK DEF Keeps, Others, Busy

-----------------------------------------------------------------------------
(* A set of natural numbers has a smallest member. *)
LEMMA SmallestNat ==
    ASSUME NEW S \in SUBSET Nat, NEW a \in S
    PROVE  \E m \in S : \A x \in S : m <= x
<1> DEFINE Less == {p \in Nat \X Nat : p[1] < p[2]}
<1>1. IsWellFoundedOn(Less, Nat)
    BY NatLessThanWellFounded DEF OpToRel
<1>2. PICK m \in S : \A x \in S : ~(<<x, m>> \in Less)
    <2> HIDE DEF Less
    <2> QED BY <1>1, WFMin
<1>3. \A x \in S : m <= x
    <2> SUFFICES ASSUME NEW x \in S PROVE m <= x
        OBVIOUS
    <2>1. m \in Nat /\ x \in Nat /\ <<x, m>> \notin Less
        BY <1>2
    <2>2. ~(x < m)
        BY <2>1
    <2> QED BY <2>1, <2>2
<1> QED BY <1>3

(* A bounded set of numbers has a largest member. *)
LEMMA LargestOfBounded ==
    ASSUME NEW S \in SUBSET Int, NEW a \in S, NEW b \in Int, \A x \in S : x <= b
    PROVE  \E m \in S : \A x \in S : x <= m
<1> DEFINE Gap == {n \in Nat : \E x \in S : n = b - x}
<1>1. Gap \subseteq Nat /\ b - a \in Gap
    OBVIOUS
<1>2. PICK g \in Gap : \A h \in Gap : g <= h
    <2> HIDE DEF Gap
    <2> QED BY <1>1, SmallestNat
<1>3. PICK m \in S : g = b - m
    BY <1>2
<1>4. \A x \in S : x <= m
    <2> SUFFICES ASSUME NEW x \in S PROVE x <= m
        OBVIOUS
    <2>1. b - x \in Gap /\ g \in Nat
        BY <1>1
    <2>2. g <= b - x
        BY <1>2, <2>1
    <2> QED BY <1>3, <2>1, <2>2
<1> QED BY <1>4
-----------------------------------------------------------------------------
(* Sums.  FoldLeft takes the last position off, one at a time: Running     *)
(* says that f holds the sum over each set of positions.                   *)
Running(f, s) ==
    f = [p \in SUBSET DOMAIN s |->
            IF p = {} THEN 0 ELSE f[p \ {Max(p)}] + s[Max(p)]]

LEMMA SummedIs ==
    ASSUME NEW s
    PROVE  Summed(s) = (CHOOSE f : Running(f, s))[DOMAIN s]
    BY DEF Summed, FoldLeft, MapThenFoldSet, Running

LEMMA MaxIs ==
    ASSUME NEW n \in Nat, NEW p \in SUBSET (1..(n + 1)), n + 1 \in p
    PROVE  Max(p) = n + 1
<1>1. \A y \in p : n + 1 >= y OBVIOUS
<1>2. \A x \in p : (\A y \in p : x >= y) => x = n + 1 OBVIOUS
<1> QED BY <1>1, <1>2 DEF Max

LEMMA MaxIn ==
    ASSUME NEW n \in Nat, NEW p \in SUBSET (1..n), p # {}
    PROVE  Max(p) \in p
<1>1. p \in SUBSET Int /\ n \in Int /\ (\A x \in p : x <= n) OBVIOUS
<1>2. PICK a : a \in p OBVIOUS
<1>3. \E m \in p : \A x \in p : x <= m BY <1>1, <1>2, LargestOfBounded
<1>4. \E m \in p : \A x \in p : m >= x BY <1>1, <1>3
<1> QED BY <1>4 DEF Max

LEMMA RunningNone ==
    ASSUME NEW s, DOMAIN s = {}
    PROVE  \E f : Running(f, s)
<1>1. PICK f : f = [p \in SUBSET DOMAIN s |-> 0] OBVIOUS
<1>2. \A p \in SUBSET DOMAIN s : p = {} /\ f[p] = 0 BY <1>1
<1>3. f = [p \in SUBSET DOMAIN s |-> IF p = {} THEN 0 ELSE f[p \ {Max(p)}] + s[Max(p)]]
    BY <1>1, <1>2
<1> QED BY <1>3 DEF Running

(* One more position. *)
LEMMA RunningStep ==
    ASSUME NEW n \in Nat, NEW s, DOMAIN s = 1..(n + 1),
           NEW w, DOMAIN w = 1..n, \A i \in 1..n : w[i] = s[i], NEW g, Running(g, w)
    PROVE  \E f : Running(f, s)
<1>1. PICK f : f = [p \in SUBSET (1..(n + 1)) |->
                      IF n + 1 \in p THEN g[p \ {n + 1}] + s[n + 1] ELSE g[p]]
    OBVIOUS
<1>2. ASSUME NEW p \in SUBSET (1..(n + 1))
      PROVE  f[p] = IF p = {} THEN 0 ELSE f[p \ {Max(p)}] + s[Max(p)]
  <2>1. CASE n + 1 \in p
    <3>1. Max(p) = n + 1 BY <2>1, MaxIs
    <3>2. p \ {n + 1} \in SUBSET (1..(n + 1)) /\ n + 1 \notin p \ {n + 1} OBVIOUS
    <3>3. f[p \ {n + 1}] = g[p \ {n + 1}] BY <1>1, <3>2
    <3>4. f[p] = g[p \ {n + 1}] + s[n + 1] BY <1>1, <2>1
    <3> QED BY <2>1, <3>1, <3>3, <3>4
  <2>2. CASE n + 1 \notin p
    <3>1. p \in SUBSET (1..n) BY <2>2
    <3>2. f[p] = g[p] BY <1>1, <2>2
    <3>3. g[p] = IF p = {} THEN 0 ELSE g[p \ {Max(p)}] + w[Max(p)]
        BY <3>1 DEF Running
    <3>4. CASE p = {} BY <3>2, <3>3, <3>4
    <3>5. CASE p # {}
      <4>1. Max(p) \in p /\ Max(p) \in 1..n BY <3>1, <3>5, MaxIn
      <4>2. p \ {Max(p)} \in SUBSET (1..(n + 1)) /\ n + 1 \notin p \ {Max(p)} BY <2>2
      <4>3. f[p \ {Max(p)}] = g[p \ {Max(p)}] BY <1>1, <4>2
      <4>4. w[Max(p)] = s[Max(p)] BY <4>1
      <4> QED BY <3>2, <3>3, <3>5, <4>3, <4>4
    <3> QED BY <3>4, <3>5
  <2> QED BY <2>1, <2>2
<1>3. Running(f, s)
  <2>1. f = [p \in SUBSET (1..(n + 1)) |-> f[p]] BY <1>1
  <2> QED BY <1>2, <2>1 DEF Running
<1> QED BY <1>3

(* Every sequence has its running sums: a shortest one without them would  *)
(* have them by the step before.                                           *)
LEMMA RunningExists ==
    ASSUME NEW n \in Nat, NEW s, DOMAIN s = 1..n
    PROVE  \E f : Running(f, s)
<1> DEFINE Has(k) == \A w : DOMAIN w = 1..k => \E f : Running(f, w)
           Bad == {k \in Nat : ~Has(k)}
<1>1. SUFFICES ASSUME n \in Bad PROVE FALSE
    OBVIOUS
<1>2. PICK m \in Bad : \A k \in Bad : m <= k
  <2>1. Bad \subseteq Nat OBVIOUS
  <2> HIDE DEF Bad
  <2> QED BY <1>1, <2>1, SmallestNat
<1>3. PICK w : DOMAIN w = 1..m /\ ~\E f : Running(f, w)
    OBVIOUS
<1>4. m # 0
  <2>1. m = 0 => DOMAIN w = {} BY <1>3
  <2> QED BY <1>3, <2>1, RunningNone
<1>5. PICK k \in Nat : m = k + 1
  <2>1. m \in Nat OBVIOUS
  <2>2. m - 1 \in Nat /\ m = (m - 1) + 1 BY <1>4, <2>1
  <2> QED BY <2>2
<1>6. Has(k)
  <2>1. k \notin Bad BY <1>2, <1>5
  <2> QED BY <2>1
<1>7. PICK v : v = [i \in 1..k |-> w[i]] OBVIOUS
<1>8. DOMAIN v = 1..k /\ \A i \in 1..k : v[i] = w[i] BY <1>7
<1>9. PICK g : Running(g, v) BY <1>6, <1>8
<1>10. DOMAIN w = 1..(k + 1) BY <1>3, <1>5
<1> HIDE DEF Has, Bad
<1> QED BY <1>3, <1>8, <1>9, <1>10, RunningStep

(* Running sums, read at the first positions. *)
LEMMA RunningZero ==
    ASSUME NEW s, NEW f, Running(f, s) PROVE f[1..0] = 0
<1>1. 1..0 = {} /\ {} \in SUBSET DOMAIN s OBVIOUS
<1>2. f[{}] = 0 BY <1>1 DEF Running
<1> QED BY <1>1, <1>2

LEMMA RunningNext ==
    ASSUME NEW n \in Nat, NEW s, DOMAIN s = 1..n, NEW f, Running(f, s),
           NEW k \in Nat, k < n
    PROVE  f[1..(k + 1)] = f[1..k] + s[k + 1]
<1>1. \A p \in SUBSET (1..n) : f[p] = IF p = {} THEN 0 ELSE f[p \ {Max(p)}] + s[Max(p)]
    BY DEF Running
<1>2. 1..(k + 1) \in SUBSET (1..n) /\ k + 1 \in 1..(k + 1) OBVIOUS
<1>3. Max(1..(k + 1)) = k + 1
  <2>1. 1..(k + 1) \in SUBSET (1..(k + 1)) OBVIOUS
  <2> QED BY <1>2, <2>1, MaxIs
<1>4. (1..(k + 1)) \ {k + 1} = 1..k OBVIOUS
<1>5. f[1..(k + 1)] = f[(1..(k + 1)) \ {Max(1..(k + 1))}] + s[Max(1..(k + 1))]
    BY <1>1, <1>2
<1> QED BY <1>3, <1>4, <1>5

(* The sum of a sequence runs over its positions. *)
LEMMA SummedRuns ==
    ASSUME NEW n \in Nat, NEW s, DOMAIN s = 1..n
    PROVE  \E f : Running(f, s) /\ Summed(s) = f[1..n]
<1>1. \E f : Running(f, s) BY RunningExists
<1>2. PICK f : f = CHOOSE g : Running(g, s) OBVIOUS
<1>3. Running(f, s) BY <1>1, <1>2
<1> QED BY <1>2, <1>3, SummedIs

LEMMA SummedNone ==
    ASSUME NEW s, DOMAIN s = {} PROVE Summed(s) = 0
<1>1. DOMAIN s = 1..0 /\ 0 \in Nat OBVIOUS
<1>2. PICK f : Running(f, s) /\ Summed(s) = f[1..0] BY <1>1, SummedRuns
<1> QED BY <1>2, RunningZero

(* Sums of sequences that agree on the first n positions agree there. *)
LEMMA RunningAgree ==
    ASSUME NEW m \in Nat, NEW s, DOMAIN s = 1..m, NEW f, Running(f, s),
           NEW n \in Nat, n <= m, NEW w, DOMAIN w = 1..n, NEW g, Running(g, w),
           \A i \in 1..n : w[i] = s[i]
    PROVE  f[1..n] = g[1..n]
<1> DEFINE Bad == {k \in Nat : k <= n /\ f[1..k] # g[1..k]}
<1>1. SUFFICES ASSUME n \in Bad PROVE FALSE
    OBVIOUS
<1>2. PICK b \in Bad : \A k \in Bad : b <= k
  <2>1. Bad \subseteq Nat OBVIOUS
  <2> HIDE DEF Bad
  <2> QED BY <1>1, <2>1, SmallestNat
<1>3. f[1..0] = 0 /\ g[1..0] = 0 BY RunningZero
<1>4. b # 0 BY <1>3
<1>5. PICK k \in Nat : b = k + 1 /\ k < n
  <2>1. b \in Nat /\ b <= n OBVIOUS
  <2>2. b - 1 \in Nat /\ b = (b - 1) + 1 /\ b - 1 < n BY <1>4, <2>1
  <2> QED BY <2>2
<1>6. f[1..k] = g[1..k]
  <2>1. k \notin Bad BY <1>2, <1>5
  <2> QED BY <1>5, <2>1
<1>7. w[k + 1] = s[k + 1] /\ k < m BY <1>5
<1>8. f[1..b] # g[1..b] OBVIOUS
<1> HIDE DEF Bad
<1>9. f[1..(k + 1)] = f[1..k] + s[k + 1] BY <1>7, RunningNext
<1>10. g[1..(k + 1)] = g[1..k] + w[k + 1] BY <1>5, RunningNext
<1> QED BY <1>5, <1>6, <1>7, <1>8, <1>9, <1>10

(* A sequence and what comes before its last element. *)
LEMMA SummedLast ==
    ASSUME NEW n \in Nat, NEW s, DOMAIN s = 1..(n + 1), NEW w, DOMAIN w = 1..n,
           \A i \in 1..n : w[i] = s[i]
    PROVE  Summed(s) = Summed(w) + s[n + 1]
<1>1. PICK f : Running(f, s) /\ Summed(s) = f[1..(n + 1)] BY SummedRuns
<1>2. PICK g : Running(g, w) /\ Summed(w) = g[1..n] BY SummedRuns
<1>3. f[1..n] = g[1..n] BY <1>1, <1>2, RunningAgree
<1>4. f[1..(n + 1)] = f[1..n] + s[n + 1]
  <2>1. n + 1 \in Nat /\ n < n + 1 OBVIOUS
  <2> QED BY <1>1, <2>1, RunningNext
<1> QED BY <1>1, <1>2, <1>3, <1>4
LEMMA SummedInt ==
    ASSUME NEW s \in Seq(Int) PROVE Summed(s) \in Int
<1>1. PICK n \in Nat : n = Len(s) /\ DOMAIN s = 1..n OBVIOUS
<1>2. PICK f : Running(f, s) /\ Summed(s) = f[1..n] BY <1>1, SummedRuns
<1> DEFINE Bad == {k \in Nat : k <= n /\ f[1..k] \notin Int}
<1>3. SUFFICES ASSUME n \in Bad PROVE FALSE
    BY <1>2
<1>4. PICK b \in Bad : \A k \in Bad : b <= k
  <2>1. Bad \subseteq Nat OBVIOUS
  <2> HIDE DEF Bad
  <2> QED BY <1>3, <2>1, SmallestNat
<1>5. f[1..0] = 0 BY <1>2, RunningZero
<1>6. b # 0 BY <1>5
<1>7. PICK k \in Nat : b = k + 1 /\ k < n
  <2>1. b \in Nat /\ b <= n OBVIOUS
  <2>2. b - 1 \in Nat /\ b = (b - 1) + 1 /\ b - 1 < n BY <1>6, <2>1
  <2> QED BY <2>2
<1>8. f[1..k] \in Int
  <2>1. k \notin Bad BY <1>4, <1>7
  <2> QED BY <1>7, <2>1
<1>9. s[k + 1] \in Int BY <1>1, <1>7
<1>10. f[1..b] \notin Int OBVIOUS
<1> HIDE DEF Bad
<1>11. f[1..b] = f[1..k] + s[k + 1] BY <1>1, <1>2, <1>7, RunningNext
<1> QED BY ONLY <1>8, <1>9, <1>10, <1>11

LEMMA SummedAppend ==
    ASSUME NEW s \in Seq(Int), NEW x \in Int
    PROVE  Summed(Append(s, x)) = Summed(s) + x
<1>1. PICK t : t = Append(s, x) OBVIOUS
<1>2. /\ t \in Seq(Int) /\ Len(s) \in Nat /\ DOMAIN t = 1..(Len(s) + 1) /\ DOMAIN s = 1..Len(s)
      /\ \A i \in 1..Len(s) : s[i] = t[i]
      /\ t[Len(s) + 1] = x
    BY <1>1
<1> QED BY <1>1, <1>2, SummedLast

(* One sequence after the other: a shortest tail for which the sums did    *)
(* not add up would follow one for which they do.                          *)
LEMMA SummedConcat ==
    ASSUME NEW s \in Seq(Int), NEW t \in Seq(Int)
    PROVE  Summed(s \o t) = Summed(s) + Summed(t)
<1> DEFINE Adds(w) == Summed(s \o w) = Summed(s) + Summed(w)
           Bad == {k \in Nat : \E w \in Seq(Int) : Len(w) = k /\ ~Adds(w)}
<1>1. SUFFICES ASSUME Len(t) \in Bad PROVE FALSE
  <2>1. Len(t) \in Nat OBVIOUS
  <2> QED BY <2>1
<1>2. PICK b \in Bad : \A k \in Bad : b <= k
  <2>1. Bad \subseteq Nat OBVIOUS
  <2> HIDE DEF Bad
  <2> QED BY <1>1, <2>1, SmallestNat
<1>3. PICK w \in Seq(Int) : Len(w) = b /\ ~Adds(w) OBVIOUS
<1>4. b # 0
  <2>1. ASSUME b = 0 PROVE FALSE
    <3>1. DOMAIN w = {} /\ w = <<>> BY <1>3, <2>1
    <3>2. s \o w = s BY <3>1
    <3>3. Summed(w) = 0 /\ Summed(s) \in Int BY <3>1, SummedNone, SummedInt
    <3> QED BY <1>3, <3>2, <3>3
  <2> QED BY <2>1
<1>5. PICK k \in Nat : b = k + 1
  <2>1. b \in Nat OBVIOUS
  <2>2. b - 1 \in Nat /\ b = (b - 1) + 1 BY <1>4, <2>1
  <2> QED BY <2>2
<1>6. PICK v : v = [i \in 1..k |-> w[i]] OBVIOUS
<1>7. /\ v \in Seq(Int) /\ Len(v) = k /\ w = Append(v, w[k + 1]) /\ w[k + 1] \in Int
  <2>1. Len(w) = k + 1 BY <1>3, <1>5
  <2>2. v \in Seq(Int) /\ Len(v) = k /\ \A i \in 1..k : v[i] = w[i] BY <1>6, <2>1
  <2>3. w[k + 1] \in Int BY <2>1
  <2>4. PICK u : u = Append(v, w[k + 1]) OBVIOUS
  <2>5. u \in Seq(Int) /\ Len(u) = k + 1 /\ \A i \in 1..(k + 1) : u[i] = w[i]
      BY <2>2, <2>3, <2>4
  <2>6. u = w BY <2>1, <2>5
  <2> QED BY <2>2, <2>3, <2>4, <2>6
<1>8. Adds(v)
  <2>1. k \notin Bad BY <1>2, <1>5
  <2> QED BY <1>7, <2>1
<1>9. s \o w = Append(s \o v, w[k + 1]) /\ s \o v \in Seq(Int)
  <2>1. PICK x \in Int : x = w[k + 1] BY <1>7
  <2>2. s \o Append(v, x) = Append(s \o v, x) BY <1>7
  <2>3. w = Append(v, x) BY <1>7, <2>1
  <2>4. s \o v \in Seq(Int) BY <1>7
  <2> QED BY ONLY <2>1, <2>2, <2>3, <2>4
<1>10. Summed(s \o w) = Summed(s \o v) + w[k + 1] BY <1>7, <1>9, SummedAppend
<1>11. Summed(w) = Summed(v) + w[k + 1] BY <1>7, SummedAppend
<1>12. Summed(s) \in Int /\ Summed(v) \in Int BY <1>7, SummedInt
<1>13. Summed(s \o v) = Summed(s) + Summed(v) BY <1>8
<1>14. Summed(s \o w) # Summed(s) + Summed(w) BY <1>3
<1> HIDE DEF Bad, Adds
<1> QED BY <1>7, <1>10, <1>11, <1>12, <1>13, <1>14

(* Sums of differences, and of nothing. *)
LEMMA SummedMinus ==
    ASSUME NEW n \in Nat, NEW s, NEW t, NEW u,
           DOMAIN u = 1..n, DOMAIN s = 1..n, DOMAIN t = 1..n,
           \A i \in 1..n : s[i] \in Int /\ t[i] \in Int /\ u[i] = s[i] - t[i]
    PROVE  Summed(u) = Summed(s) - Summed(t)
<1>1. DOMAIN u = 1..n /\ DOMAIN s = 1..n /\ DOMAIN t = 1..n
    OBVIOUS
<1>2. PICK f : Running(f, s) /\ Summed(s) = f[1..n] BY <1>1, SummedRuns
<1>3. PICK g : Running(g, t) /\ Summed(t) = g[1..n] BY <1>1, SummedRuns
<1>4. PICK h : Running(h, u) /\ Summed(u) = h[1..n] BY <1>1, SummedRuns
<1>5. f[1..0] = 0 /\ g[1..0] = 0 /\ h[1..0] = 0
    BY <1>2, <1>3, <1>4, RunningZero
<1> DEFINE Good(k) == /\ f[1..k] \in Int /\ g[1..k] \in Int
                      /\ h[1..k] = f[1..k] - g[1..k]
           Bad == {k \in Nat : k <= n /\ ~Good(k)}
<1>6. SUFFICES ASSUME n \in Bad PROVE FALSE
    BY <1>2, <1>3, <1>4
<1>7. PICK b \in Bad : \A k \in Bad : b <= k
  <2>1. Bad \subseteq Nat OBVIOUS
  <2> HIDE DEF Bad
  <2> QED BY <1>6, <2>1, SmallestNat
<1>8. b # 0 BY <1>5
<1>9. PICK k \in Nat : b = k + 1 /\ k < n
  <2>1. b \in Nat /\ b <= n OBVIOUS
  <2>2. b - 1 \in Nat /\ b = (b - 1) + 1 /\ b - 1 < n BY <1>8, <2>1
  <2> QED BY <2>2
<1>10. f[1..k] \in Int /\ g[1..k] \in Int /\ h[1..k] = f[1..k] - g[1..k]
  <2>1. k \notin Bad BY <1>7, <1>9
  <2> QED BY <1>9, <2>1
<1>11. s[k + 1] \in Int /\ t[k + 1] \in Int /\ u[k + 1] = s[k + 1] - t[k + 1]
    BY <1>1, <1>9
<1>12. ~Good(b) OBVIOUS
<1>13. /\ f[1..b] = f[1..k] + s[k + 1] /\ g[1..b] = g[1..k] + t[k + 1]
       /\ h[1..b] = h[1..k] + u[k + 1]
  <2> HIDE DEF Bad, Good
  <2>0. n \in Nat /\ k \in Nat /\ k < n /\ b = k + 1 BY <1>9
  <2>1. DOMAIN s = 1..n /\ Running(f, s) BY <1>1, <1>2
  <2>2. DOMAIN t = 1..n /\ Running(g, t) BY <1>1, <1>3
  <2>3. DOMAIN u = 1..n /\ Running(h, u) BY <1>1, <1>4
  <2>4. f[1..(k + 1)] = f[1..k] + s[k + 1] BY <2>0, <2>1, RunningNext
  <2>5. g[1..(k + 1)] = g[1..k] + t[k + 1] BY <2>0, <2>2, RunningNext
  <2>6. h[1..(k + 1)] = h[1..k] + u[k + 1] BY ONLY <2>0, <2>3, RunningNext
  <2> QED BY ONLY <2>0, <2>4, <2>5, <2>6
<1>14. f[1..b] \in Int /\ g[1..b] \in Int /\ h[1..b] = f[1..b] - g[1..b]
  <2>1. PICK x1 \in Int, x2 \in Int : x1 = f[1..k] /\ x2 = s[k + 1] BY <1>10, <1>11
  <2>2. PICK y1 \in Int, y2 \in Int : y1 = g[1..k] /\ y2 = t[k + 1] BY <1>10, <1>11
  <2>3. h[1..k] = x1 - y1 /\ u[k + 1] = x2 - y2 BY <1>10, <1>11, <2>1, <2>2
  <2>4. f[1..b] = x1 + x2 /\ g[1..b] = y1 + y2 BY <1>13, <2>1, <2>2
  <2>5. h[1..b] = (x1 - y1) + (x2 - y2) BY <1>13, <2>3
  <2>6. (x1 - y1) + (x2 - y2) = (x1 + x2) - (y1 + y2) OBVIOUS
  <2> QED BY <2>4, <2>5, <2>6
<1> QED BY <1>12, <1>14

LEMMA SummedZeros ==
    ASSUME NEW s \in Seq(Int), \A i \in DOMAIN s : s[i] = 0
    PROVE  Summed(s) = 0
<1>1. PICK n \in Nat : DOMAIN s = 1..n OBVIOUS
<1>2. Summed(s) = Summed(s) - Summed(s)
  <2>1. \A i \in 1..n : s[i] \in Int /\ s[i] \in Int /\ s[i] = s[i] - s[i] BY <1>1
  <2> QED BY <1>1, <2>1, SummedMinus
<1> QED BY <1>2, SummedInt

LEMMA SummedOne ==
    ASSUME NEW x \in Int PROVE Summed(<<x>>) = x
<1>1. PICK s, t : s = <<>> /\ t = <<x>> OBVIOUS
<1>2. DOMAIN s = 1..0 /\ DOMAIN t = 1..(0 + 1) /\ t[0 + 1] = x /\ 0 \in Nat BY <1>1
<1>3. Summed(t) = Summed(s) + t[0 + 1]
  <2>1. \A i \in 1..0 : s[i] = t[i] OBVIOUS
  <2> QED BY <1>2, <2>1, SummedLast
<1>4. Summed(s) = 0
  <2>1. DOMAIN s = {} BY <1>2
  <2> QED BY <2>1, SummedNone
<1> QED BY <1>1, <1>2, <1>3, <1>4

LEMMA SummedTwo ==
    ASSUME NEW x \in Int, NEW y \in Int PROVE Summed(<<x, y>>) = x + y
<1>1. <<x, y>> = Append(<<x>>, y) /\ <<x>> \in Seq(Int) OBVIOUS
<1> QED BY <1>1, SummedAppend, SummedOne

-----------------------------------------------------------------------------
(* Sums over the legs of entries. *)
LEMMA SignedInt ==
    ASSUME NEW l, l.amount \in Int, NEW a PROVE Signed(l, a) \in Int
    BY DEF Signed

LEMMA NetTyped ==
    ASSUME NEW S, \A l \in S : l.amount \in Int, NEW s \in Seq(S), NEW a
    PROVE  [i \in DOMAIN s |-> Signed(s[i], a)] \in Seq(Int)
<1>1. PICK n \in Nat : n = Len(s) /\ DOMAIN s = 1..n OBVIOUS
<1>2. \A i \in 1..n : Signed(s[i], a) \in Int
  <2> SUFFICES ASSUME NEW i \in 1..n PROVE Signed(s[i], a) \in Int
      OBVIOUS
  <2>1. s[i] \in S BY <1>1
  <2> QED BY <2>1, SignedInt
<1>3. [i \in 1..n |-> Signed(s[i], a)] \in Seq(Int) BY <1>2
<1> QED BY <1>1, <1>3

LEMMA NetConcat ==
    ASSUME NEW S, \A l \in S : l.amount \in Int, NEW s \in Seq(S), NEW t \in Seq(S), NEW a
    PROVE  Net(s \o t, a) = Net(s, a) + Net(t, a) /\ Net(s, a) \in Int /\ Net(t, a) \in Int
<1>1. PICK u : u = s \o t OBVIOUS
<1>2. /\ u \in Seq(S) /\ Len(u) = Len(s) + Len(t) /\ Len(s) \in Nat /\ Len(t) \in Nat
      /\ DOMAIN u = 1..(Len(s) + Len(t)) /\ DOMAIN s = 1..Len(s) /\ DOMAIN t = 1..Len(t)
      /\ \A i \in 1..(Len(s) + Len(t)) : u[i] = IF i <= Len(s) THEN s[i] ELSE t[i - Len(s)]
    BY <1>1
<1>3. PICK f, g, h : /\ f = [i \in DOMAIN s |-> Signed(s[i], a)]
                     /\ g = [i \in DOMAIN t |-> Signed(t[i], a)]
                     /\ h = [i \in DOMAIN u |-> Signed(u[i], a)]
    OBVIOUS
<1>4. f \in Seq(Int) /\ g \in Seq(Int) /\ h \in Seq(Int) BY <1>2, <1>3, NetTyped
<1>5. PICK m \in Nat, n \in Nat :
        /\ DOMAIN s = 1..m /\ DOMAIN t = 1..n /\ DOMAIN u = 1..(m + n)
        /\ \A i \in 1..(m + n) : u[i] = IF i <= m THEN s[i] ELSE t[i - m]
    BY <1>2
<1>6. /\ Len(f) = m /\ Len(g) = n /\ Len(h) = m + n BY <1>3, <1>4, <1>5
<1>7. ASSUME NEW i \in 1..(m + n) PROVE h[i] = (f \o g)[i]
  <2>1. h[i] = Signed(u[i], a) BY <1>3, <1>5
  <2>2. (f \o g)[i] = IF i <= m THEN f[i] ELSE g[i - m]
    <3>1. f \in Seq(Int) /\ g \in Seq(Int) BY <1>4
    <3>2. \A j \in 1..(Len(f) + Len(g)) :
            (f \o g)[j] = IF j <= Len(f) THEN f[j] ELSE g[j - Len(f)]
        BY ONLY <3>1, ConcatProperties
    <3> QED BY <1>6, <3>2
  <2>3. CASE i <= m
    <3>1. f[i] = Signed(s[i], a) /\ u[i] = s[i] BY <1>3, <1>5, <2>3
    <3> QED BY <2>1, <2>2, <2>3, <3>1
  <2>4. CASE ~(i <= m)
    <3>1. i - m \in 1..n BY <2>4
    <3>2. g[i - m] = Signed(t[i - m], a) /\ u[i] = t[i - m] BY <1>3, <1>5, <2>4, <3>1
    <3> QED BY <2>1, <2>2, <2>4, <3>2
  <2> QED BY <2>3, <2>4
<1>8. h = f \o g
  <2>1. f \o g \in Seq(Int) /\ Len(f \o g) = m + n BY <1>4, <1>6
  <2>2. \A i \in 1..(m + n) : h[i] = (f \o g)[i] BY <1>7
  <2>3. h \in Seq(Int) /\ Len(h) = m + n BY <1>4, <1>6
  <2> QED BY <2>1, <2>2, <2>3, SeqEqual
<1>9. Net(s, a) = Summed(f) /\ Net(t, a) = Summed(g) /\ Net(s \o t, a) = Summed(h)
    BY <1>1, <1>3 DEF Net
<1>10. Summed(f \o g) = Summed(f) + Summed(g) BY <1>4, SummedConcat
<1>11. Summed(f) \in Int /\ Summed(g) \in Int BY <1>4, SummedInt
<1> QED BY <1>8, <1>9, <1>10, <1>11

LEMMA NetTwo ==
    ASSUME NEW x, NEW y, x.amount \in Int, y.amount \in Int, NEW a
    PROVE  Net(<<x, y>>, a) = Signed(x, a) + Signed(y, a)
<1>1. Signed(x, a) \in Int /\ Signed(y, a) \in Int BY SignedInt
<1>2. PICK s : s = <<x, y>> OBVIOUS
<1>3. DOMAIN s = 1..2 /\ s[1] = x /\ s[2] = y BY <1>2
<1>4. [i \in DOMAIN s |-> Signed(s[i], a)] = <<Signed(x, a), Signed(y, a)>> BY <1>3
<1> QED BY <1>1, <1>2, <1>4, SummedTwo DEF Net

(* The totals of an entry without legs, of one and of two. *)
Part(l, dir) == IF l.dir = dir THEN l.amount ELSE 0

LEMMA TotalNone ==
    ASSUME NEW legs, DOMAIN legs = {}, NEW dir PROVE Total(legs, dir) = 0
<1>1. PICK s : s = [i \in DOMAIN legs |-> IF legs[i].dir = dir THEN legs[i].amount ELSE 0]
    OBVIOUS
<1>2. DOMAIN s = {} BY <1>1
<1> QED BY <1>1, <1>2, SummedNone DEF Total

LEMMA TotalOne ==
    ASSUME NEW x, x.amount \in Int, NEW dir PROVE Total(<<x>>, dir) = Part(x, dir)
<1>1. PICK s : s = <<x>> OBVIOUS
<1>2. DOMAIN s = 1..1 /\ s[1] = x BY <1>1
<1>3. [i \in DOMAIN s |-> IF s[i].dir = dir THEN s[i].amount ELSE 0] = <<Part(x, dir)>>
    BY <1>2 DEF Part
<1>4. Part(x, dir) \in Int BY DEF Part
<1> QED BY <1>1, <1>3, <1>4, SummedOne DEF Total

LEMMA TotalTwo ==
    ASSUME NEW x, NEW y, x.amount \in Int, y.amount \in Int, NEW dir
    PROVE  Total(<<x, y>>, dir) = Part(x, dir) + Part(y, dir)
<1>1. PICK s : s = <<x, y>> OBVIOUS
<1>2. DOMAIN s = 1..2 /\ s[1] = x /\ s[2] = y BY <1>1
<1>3. [i \in DOMAIN s |-> IF s[i].dir = dir THEN s[i].amount ELSE 0]
        = <<Part(x, dir), Part(y, dir)>>
    BY <1>2 DEF Part
<1>4. Part(x, dir) \in Int /\ Part(y, dir) \in Int BY DEF Part
<1> QED BY <1>1, <1>3, <1>4, SummedTwo DEF Total

(* A debit and a credit of the same amount balance. *)
LEMMA PairBalances ==
    ASSUME NEW a, NEW b, NEW n \in Int
    PROVE  Balanced(<<Debit(a, n), Credit(b, n)>>)
<1>1. PICK x, y : x = Debit(a, n) /\ y = Credit(b, n) OBVIOUS
<1>2. /\ x.amount \in Int /\ y.amount \in Int
      /\ Part(x, "DEBIT") = n /\ Part(x, "CREDIT") = 0
      /\ Part(y, "DEBIT") = 0 /\ Part(y, "CREDIT") = n
    BY <1>1 DEF Debit, Credit, Leg, Part
<1>3. /\ Total(<<x, y>>, "DEBIT") = Part(x, "DEBIT") + Part(y, "DEBIT")
      /\ Total(<<x, y>>, "CREDIT") = Part(x, "CREDIT") + Part(y, "CREDIT")
    BY <1>2, TotalTwo
<1>4. Total(<<x, y>>, "DEBIT") = Total(<<x, y>>, "CREDIT") BY <1>2, <1>3
<1> QED BY <1>1, <1>4 DEF Balanced
=============================================================================
