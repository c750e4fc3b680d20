-------------------------- MODULE TransfersProofs --------------------------
(* What is proved of the parts of MCTransfers, for every value of the constants: each part  *)
(* has an inductive invariant of its own, which the steps of the others leave alone.        *)
EXTENDS MCTransfers, Sequences, FiniteSets, FiniteSetTheorems, TLAPS
-----------------------------------------------------------------------------
(* What is on its way.  A queue of messages is looked at as the sets it takes from what *)
(* is still to come, or as the amounts it pays; no sum over a queue is needed then.     *)

\* The members of q are parts of x, none twice; y is what they leave of x.  In an ordered
\* queue each part comes before all that is left.
Leads(ordered, q, x, y) ==
  /\ y = {k \in x : \A i \in DOMAIN q : k \notin q[i]}
  /\ \A i \in DOMAIN q : q[i] \subseteq x
  /\ \A i, j \in DOMAIN q : i < j => q[i] \cap q[j] = {}
  /\ ordered => \A i \in DOMAIN q : \A n \in q[i], k \in x :
                  k < n => \E j \in DOMAIN q : j < i /\ k \in q[j]

\* Running totals of q begin at a or above and end at b or below.
Pays(q, a, b) ==
  \E f \in [0 .. Len(q) -> Nat] :
    /\ a <= f[0] /\ f[Len(q)] <= b
    /\ \A i, j \in 0 .. Len(q) : i <= j => f[i] <= f[j]
    /\ \A i \in 1 .. Len(q) : f[i - 1] + q[i] <= f[i]

\* r is q and one more element; q without its first; what is between two of its places.
Longer(q, r, d) == /\ Len(r) = Len(q) + 1 /\ r[Len(r)] = d
                   /\ \A i \in DOMAIN q : r[i] = q[i]
Shorter(q, r) == Len(q) = Len(r) + 1 /\ \A i \in DOMAIN r : r[i] = q[i + 1]
Joined(q, r, s) == /\ Len(s) = Len(q) + Len(r)
                   /\ \A i \in DOMAIN q : s[i] = q[i]
                   /\ \A i \in DOMAIN r : s[Len(q) + i] = r[i]

Parts2 == Seq(SUBSET Nat)

LEMMA LeadsNothing ==
  ASSUME NEW o, NEW q, NEW x, \A i \in DOMAIN q : q[i] = {} PROVE Leads(o, q, x, x)
  BY DEF Leads

LEMMA LeadsOn ==
  ASSUME NEW o, NEW q \in Parts2, NEW r \in Parts2, NEW x \in SUBSET Nat, NEW y,
         NEW d \in SUBSET Nat, Leads(o, q, x, y), Longer(q, r, d), d \subseteq y,
         o => \A n \in d, k \in y : n <= k
  PROVE  Leads(o, r, x, y \ d)
<1>1. DOMAIN q = 1 .. Len(q) /\ Len(q) \in Nat /\ DOMAIN r = 1 .. (Len(q) + 1)
  BY DEF Longer, Parts2
<1>2. \A i \in DOMAIN r : (i \in DOMAIN q /\ r[i] = q[i]) \/ (i = Len(q) + 1 /\ r[i] = d)
  BY <1>1 DEF Longer
<1>3. y = {k \in x : \A i \in DOMAIN q : k \notin q[i]} /\ y \subseteq x /\ y \subseteq Nat
  BY DEF Leads
<1>4. y \ d = {k \in x : \A i \in DOMAIN r : k \notin r[i]}
  <2>1. \A k \in x : (\A i \in DOMAIN r : k \notin r[i])
                       <=> (\A i \in DOMAIN q : k \notin q[i]) /\ k \notin d
    BY <1>1, <1>2 DEF Longer
  <2> QED BY <1>3, <2>1, ZenonT(60)
<1>5. \A i \in DOMAIN r : r[i] \subseteq x
  <2> SUFFICES ASSUME NEW i \in DOMAIN r PROVE r[i] \subseteq x
    OBVIOUS
  <2>1. CASE i \in DOMAIN q /\ r[i] = q[i]
    BY <2>1 DEF Leads
  <2>2. CASE i = Len(q) + 1 /\ r[i] = d
    BY <1>3, <2>2
  <2> QED BY <1>2, <2>1, <2>2
<1>6. \A i, j \in DOMAIN r : i < j => r[i] \cap r[j] = {}
  <2> SUFFICES ASSUME NEW i \in DOMAIN r, NEW j \in DOMAIN r, i < j PROVE r[i] \cap r[j] = {}
    OBVIOUS
  <2>1. i \in DOMAIN q /\ r[i] = q[i]
    BY <1>1, <1>2
  <2>2. CASE j \in DOMAIN q
    BY <1>1, <1>2, <2>1, <2>2 DEF Leads, Longer
  <2>3. CASE j = Len(q) + 1 /\ r[j] = d
    BY <1>3, <2>1, <2>3
  <2> QED BY <1>2, <2>2, <2>3
<1>7. o => \A i \in DOMAIN r : \A n \in r[i], k \in x :
             k < n => \E j \in DOMAIN r : j < i /\ k \in r[j]
  <2> SUFFICES ASSUME o, NEW i \in DOMAIN r, NEW n \in r[i], NEW k \in x, k < n
               PROVE \E j \in DOMAIN r : j < i /\ k \in r[j]
    OBVIOUS
  <2>1. CASE i \in DOMAIN q
    <3>1. PICK j \in DOMAIN q : j < i /\ k \in q[j]
      BY <1>1, <1>2, <2>1 DEF Leads, Longer
    <3> QED BY <1>1, <3>1 DEF Longer
  <2>2. CASE i = Len(q) + 1 /\ r[i] = d
    <3>1. n \in Nat /\ k \in Nat
      BY <2>2
    <3>2. k \notin y
      BY <2>2, <3>1
    <3>3. PICK j \in DOMAIN q : k \in q[j]
      BY <1>3, <3>2
    <3> QED BY <1>1, <2>2, <3>3 DEF Longer
  <2> QED BY <1>2, <2>1, <2>2
<1> QED BY <1>4, <1>5, <1>6, <1>7 DEF Leads

LEMMA LeadsOff ==
  ASSUME NEW o, NEW q \in Parts2, NEW r \in Parts2, NEW x \in SUBSET Nat, NEW y,
         Leads(o, q, x, y), Shorter(q, r)
  PROVE  /\ q[1] \subseteq x /\ Leads(o, r, x \ q[1], y)
         /\ o => \A n \in q[1], k \in x : n <= k
<1>1. DOMAIN q = 1 .. (Len(r) + 1) /\ Len(r) \in Nat /\ DOMAIN r = 1 .. Len(r) /\ 1 \in DOMAIN q
  BY DEF Shorter, Parts2
<1>2. /\ \A i \in DOMAIN r : i + 1 \in DOMAIN q /\ r[i] = q[i + 1]
      /\ \A i \in DOMAIN q : i # 1 => i - 1 \in DOMAIN r /\ r[i - 1] = q[i] /\ i - 1 < i
  <2>1. \A i \in DOMAIN r : i + 1 \in DOMAIN q /\ r[i] = q[i + 1]
    BY <1>1 DEF Shorter
  <2>2. \A i \in DOMAIN q : i # 1 => i - 1 \in DOMAIN r /\ (i - 1) + 1 = i /\ i - 1 < i
    BY <1>1
  <2> QED BY <2>1, <2>2
<1>3. q[1] \subseteq x /\ (o => \A n \in q[1], k \in x : n <= k)
  <2>1. q[1] \subseteq x
    BY <1>1 DEF Leads
  <2>2. ASSUME o, NEW n \in q[1], NEW k \in x, k < n PROVE FALSE
    BY <1>1, <2>2 DEF Leads
  <2>3. \A n \in q[1], k \in x : n \in Nat /\ k \in Nat
    BY <2>1
  <2> QED BY <2>1, <2>2, <2>3
<1>4. y = {k \in x \ q[1] : \A i \in DOMAIN r : k \notin r[i]}
  <2>1. \A k \in x : (\A i \in DOMAIN q : k \notin q[i])
                       <=> (\A i \in DOMAIN r : k \notin r[i]) /\ k \notin q[1]
    BY <1>1, <1>2
  <2> QED BY <2>1 DEF Leads
<1>5. \A i \in DOMAIN r : r[i] \subseteq x \ q[1]
  BY <1>1, <1>2 DEF Leads
<1>6. \A i, j \in DOMAIN r : i < j => r[i] \cap r[j] = {}
  BY <1>1, <1>2 DEF Leads
<1>7. o => \A i \in DOMAIN r : \A n \in r[i], k \in x \ q[1] :
             k < n => \E j \in DOMAIN r : j < i /\ k \in r[j]
  <2> SUFFICES ASSUME o, NEW i \in DOMAIN r, NEW n \in r[i], NEW k \in x \ q[1], k < n
               PROVE \E j \in DOMAIN r : j < i /\ k \in r[j]
    OBVIOUS
  <2>1. PICK j \in DOMAIN q : j < i + 1 /\ k \in q[j]
    BY <1>2 DEF Leads
  <2>2. j # 1 /\ j - 1 \in DOMAIN r /\ r[j - 1] = q[j]
    BY <1>2, <2>1
  <2>3. j - 1 < i
    BY <1>1, <2>1
  <2> QED BY <2>1, <2>2, <2>3
<1> QED BY <1>3, <1>4, <1>5, <1>6, <1>7 DEF Leads

LEMMA LeadsJoin ==
  ASSUME NEW o, NEW q \in Parts2, NEW r \in Parts2, NEW s \in Parts2, NEW x \in SUBSET Nat,
         NEW y, NEW z, Leads(o, q, x, y), Leads(o, r, y, z), Joined(q, r, s)
  PROVE  Leads(o, s, x, z)
<1>1. /\ DOMAIN q = 1 .. Len(q) /\ DOMAIN r = 1 .. Len(r) /\ DOMAIN s = 1 .. (Len(q) + Len(r))
      /\ Len(q) \in Nat /\ Len(r) \in Nat
  BY DEF Joined, Parts2
<1>2. /\ \A i \in DOMAIN q : i \in DOMAIN s /\ s[i] = q[i] /\ i <= Len(q)
      /\ \A i \in DOMAIN r : Len(q) + i \in DOMAIN s /\ s[Len(q) + i] = r[i] /\ Len(q) + i > Len(q)
      /\ \A i \in DOMAIN s : i \in DOMAIN q \/ \E j \in DOMAIN r : i = Len(q) + j
  <2>1. \A i \in DOMAIN q : i \in DOMAIN s /\ s[i] = q[i] /\ i <= Len(q)
    BY <1>1 DEF Joined
  <2>2. \A i \in DOMAIN r : Len(q) + i \in DOMAIN s /\ s[Len(q) + i] = r[i] /\ Len(q) + i > Len(q)
    BY <1>1 DEF Joined
  <2>3. ASSUME NEW i \in DOMAIN s, i \notin DOMAIN q
        PROVE i - Len(q) \in DOMAIN r /\ i = Len(q) + (i - Len(q))
    BY <1>1, <2>3
  <2> QED BY <2>1, <2>2, <2>3
<1>3. y \subseteq x /\ y = {k \in x : \A i \in DOMAIN q : k \notin q[i]}
      /\ z = {k \in y : \A i \in DOMAIN r : k \notin r[i]}
  BY DEF Leads
<1>4. z = {k \in x : \A i \in DOMAIN s : k \notin s[i]}
  <2>1. \A k : (\A i \in DOMAIN s : k \notin s[i])
                 <=> (\A i \in DOMAIN q : k \notin q[i]) /\ (\A i \in DOMAIN r : k \notin r[i])
    BY <1>2
  <2> QED BY <1>3, <2>1
<1>5. \A i \in DOMAIN s : s[i] \subseteq x
  <2>1. \A i \in DOMAIN q : q[i] \subseteq x
    BY DEF Leads
  <2>2. \A i \in DOMAIN r : r[i] \subseteq y
    BY DEF Leads
  <2> QED BY <1>2, <1>3, <2>1, <2>2
<1>6. \A i, j \in DOMAIN s : i < j => s[i] \cap s[j] = {}
  <2> SUFFICES ASSUME NEW i \in DOMAIN s, NEW j \in DOMAIN s, i < j, NEW k \in s[i], k \in s[j]
               PROVE FALSE
    OBVIOUS
  <2>1. CASE i \in DOMAIN q /\ j \in DOMAIN q
    BY <1>2, <2>1 DEF Leads
  <2>2. CASE i \in DOMAIN q /\ j \notin DOMAIN q
    <3>1. PICK v \in DOMAIN r : j = Len(q) + v
      BY <1>2, <2>2
    <3>2. r[v] \subseteq y /\ s[j] = r[v] /\ s[i] = q[i]
      BY <1>2, <2>2, <3>1 DEF Leads
    <3> QED BY <1>3, <2>2, <3>2
  <2>3. CASE i \notin DOMAIN q
    <3>1. PICK u \in DOMAIN r : i = Len(q) + u
      BY <1>2, <2>3
    <3>2. j \notin DOMAIN q
      BY <1>1, <1>2, <3>1
    <3>3. PICK v \in DOMAIN r : j = Len(q) + v
      BY <1>2, <3>2
    <3>4. u < v
      BY <1>1, <3>1, <3>3
    <3> QED BY <1>2, <3>1, <3>3, <3>4 DEF Leads
  <2> QED BY <2>1, <2>2, <2>3
<1>7. o => \A i \in DOMAIN s : \A n \in s[i], k \in x :
             k < n => \E j \in DOMAIN s : j < i /\ k \in s[j]
  <2> SUFFICES ASSUME o, NEW i \in DOMAIN s, NEW n \in s[i], NEW k \in x, k < n
               PROVE \E j \in DOMAIN s : j < i /\ k \in s[j]
    OBVIOUS
  <2>1. CASE i \in DOMAIN q
    <3>1. PICK j \in DOMAIN q : j < i /\ k \in q[j]
      BY <1>2, <2>1 DEF Leads
    <3> QED BY <1>2, <3>1
  <2>2. CASE i \notin DOMAIN q
    <3>1. PICK u \in DOMAIN r : i = Len(q) + u
      BY <1>2, <2>2
    <3>2. CASE k \in y
      <4>1. PICK v \in DOMAIN r : v < u /\ k \in r[v]
        BY <1>2, <3>1, <3>2 DEF Leads
      <4>2. Len(q) + v < i
        BY <1>1, <3>1, <4>1
      <4> QED BY <1>2, <4>1, <4>2
    <3>3. CASE k \notin y
      <4>1. PICK v \in DOMAIN q : k \in q[v]
        BY <1>3, <3>3
      <4>2. v < i
        BY <1>1, <3>1
      <4> QED BY <1>2, <4>1, <4>2
    <3> QED BY <3>2, <3>3
  <2> QED BY <2>1, <2>2
<1> QED BY <1>4, <1>5, <1>6, <1>7 DEF Leads

LEMMA LeadsApart ==
  ASSUME NEW o, NEW q \in Parts2, NEW r \in Parts2, NEW s \in Parts2, NEW x \in SUBSET Nat,
         NEW z, Leads(o, s, x, z), Joined(q, r, s)
  PROVE  \E y \in SUBSET x : Leads(o, q, x, y) /\ Leads(o, r, y, z)
<1> DEFINE y == {k \in x : \A i \in DOMAIN q : k \notin q[i]}
<1>1. /\ DOMAIN q = 1 .. Len(q) /\ DOMAIN r = 1 .. Len(r) /\ DOMAIN s = 1 .. (Len(q) + Len(r))
      /\ Len(q) \in Nat /\ Len(r) \in Nat
  BY DEF Joined, Parts2
<1>2. /\ \A i \in DOMAIN q : i \in DOMAIN s /\ s[i] = q[i] /\ i <= Len(q)
      /\ \A i \in DOMAIN r : Len(q) + i \in DOMAIN s /\ s[Len(q) + i] = r[i] /\ Len(q) + i > Len(q)
      /\ \A i \in DOMAIN s : i \in DOMAIN q \/ \E j \in DOMAIN r : i = Len(q) + j
  <2>1. \A i \in DOMAIN q : i \in DOMAIN s /\ s[i] = q[i] /\ i <= Len(q)
    BY <1>1 DEF Joined
  <2>2. \A i \in DOMAIN r : Len(q) + i \in DOMAIN s /\ s[Len(q) + i] = r[i] /\ Len(q) + i > Len(q)
    BY <1>1 DEF Joined
  <2>3. ASSUME NEW i \in DOMAIN s, i \notin DOMAIN q
        PROVE i - Len(q) \in DOMAIN r /\ i = Len(q) + (i - Len(q))
    BY <1>1, <2>3
  <2> QED BY <2>1, <2>2, <2>3
<1>3. Leads(o, q, x, y)
  <2>1. \A i \in DOMAIN q : q[i] \subseteq x
    BY <1>2 DEF Leads
  <2>2. \A i, j \in DOMAIN q : i < j => q[i] \cap q[j] = {}
    BY <1>2 DEF Leads
  <2>3. ASSUME o, NEW i \in DOMAIN q, NEW n \in q[i], NEW k \in x, k < n
        PROVE \E j \in DOMAIN q : j < i /\ k \in q[j]
    <3>1. PICK j \in DOMAIN s : j < i /\ k \in s[j]
      BY <1>2, <2>3 DEF Leads
    <3>2. j \in DOMAIN q
      BY <1>1, <3>1
    <3> QED BY <1>2, <3>1, <3>2
  <2> QED BY <2>1, <2>2, <2>3 DEF Leads
<1>4. Leads(o, r, y, z)
  <2>1. z = {k \in y : \A i \in DOMAIN r : k \notin r[i]}
    <3>1. \A k : (\A i \in DOMAIN s : k \notin s[i])
                   <=> (\A i \in DOMAIN q : k \notin q[i]) /\ (\A i \in DOMAIN r : k \notin r[i])
      BY <1>2
    <3> QED BY <3>1 DEF Leads
  <2>2. \A i \in DOMAIN r : r[i] \subseteq y
    <3> SUFFICES ASSUME NEW i \in DOMAIN r, NEW k \in r[i] PROVE k \in y
      OBVIOUS
    <3>1. k \in x
      BY <1>2 DEF Leads
    <3>2. ASSUME NEW j \in DOMAIN q PROVE k \notin q[j]
      <4>1. j < Len(q) + i
        BY <1>1
      <4> QED BY <1>2, <4>1 DEF Leads
    <3> QED BY <3>1, <3>2
  <2>3. \A i, j \in DOMAIN r : i < j => r[i] \cap r[j] = {}
    <3> SUFFICES ASSUME NEW i \in DOMAIN r, NEW j \in DOMAIN r, i < j PROVE r[i] \cap r[j] = {}
      OBVIOUS
    <3>1. Len(q) + i < Len(q) + j
      BY <1>1
    <3> QED BY <1>2, <3>1 DEF Leads
  <2>4. ASSUME o, NEW i \in DOMAIN r, NEW n \in r[i], NEW k \in y, k < n
        PROVE \E j \in DOMAIN r : j < i /\ k \in r[j]
    <3>1. PICK j \in DOMAIN s : j < Len(q) + i /\ k \in s[j]
      BY <1>2, <2>4 DEF Leads
    <3>2. j \notin DOMAIN q
      BY <1>2, <3>1
    <3>3. PICK u \in DOMAIN r : j = Len(q) + u
      BY <1>2, <3>2
    <3>4. u < i
      BY <1>1, <3>1, <3>3
    <3> QED BY <1>2, <3>1, <3>3, <3>4
  <2> QED BY <2>1, <2>2, <2>3, <2>4 DEF Leads
<1> QED BY <1>3, <1>4

LEMMA LeadsMore ==
  ASSUME NEW q, NEW x, NEW y, NEW n, n \notin x, Leads(FALSE, q, x, y)
  PROVE  Leads(FALSE, q, x \cup {n}, y \cup {n})
  BY DEF Leads

LEMMA LeadsShrinks ==
  ASSUME NEW o, NEW q, NEW x, NEW y, Leads(o, q, x, y)
  PROVE  y \subseteq x
  BY DEF Leads

Amounts == Seq(Nat)

LEMMA PaysNothing ==
  ASSUME NEW q \in Amounts, NEW a \in Nat, NEW b \in Nat, a <= b, \A i \in DOMAIN q : q[i] = 0
  PROVE  Pays(q, a, b)
<1> DEFINE f == [i \in 0 .. Len(q) |-> a]
<1>1. f \in [0 .. Len(q) -> Nat] /\ Len(q) \in Nat /\ DOMAIN q = 1 .. Len(q)
  BY DEF Amounts
<1>2. \A i \in 1 .. Len(q) : f[i - 1] + q[i] <= f[i]
  BY <1>1
<1>3. a <= f[0] /\ f[Len(q)] <= b /\ \A i, j \in 0 .. Len(q) : i <= j => f[i] <= f[j]
  BY <1>1
<1> HIDE DEF f
<1> QED BY <1>1, <1>2, <1>3 DEF Pays

LEMMA PaysOn ==
  ASSUME NEW q \in Amounts, NEW r \in Amounts, NEW a \in Nat, NEW b \in Nat, NEW v \in Nat,
         Pays(q, a, b), Longer(q, r, v)
  PROVE  Pays(r, a, b + v)
<1>1. PICK f \in [0 .. Len(q) -> Nat] :
        /\ a <= f[0] /\ f[Len(q)] <= b
        /\ \A i, j \in 0 .. Len(q) : i <= j => f[i] <= f[j]
        /\ \A i \in 1 .. Len(q) : f[i - 1] + q[i] <= f[i]
  BY DEF Pays
<1>2. PICK l \in Nat : l = Len(q) /\ Len(r) = l + 1 /\ DOMAIN q = 1 .. l /\ DOMAIN r = 1 .. (l + 1)
  BY DEF Longer, Amounts
<1> DEFINE g == [i \in 0 .. (l + 1) |-> IF i = l + 1 THEN f[l] + v ELSE f[i]]
<1>3. g \in [0 .. Len(r) -> Nat] /\ \A i \in 0 .. l : g[i] = f[i]
  BY <1>1, <1>2
<1>4. g[l + 1] = f[l] + v /\ f[l] \in Nat
  BY <1>1, <1>2
<1> HIDE DEF g
<1>5. a <= g[0] /\ g[Len(r)] <= b + v
  BY <1>1, <1>2, <1>3, <1>4
<1>6. ASSUME NEW i \in 0 .. Len(r), NEW j \in 0 .. Len(r), i <= j PROVE g[i] <= g[j]
  <2>1. CASE j \in 0 .. l
    BY <1>1, <1>2, <1>3, <1>6, <2>1
  <2>2. CASE j = l + 1 /\ i \in 0 .. l
    <3>1. g[i] = f[i] /\ f[i] <= f[l] /\ f[i] \in Nat
      BY <1>1, <1>2, <1>3, <2>2
    <3> QED BY <1>4, <2>2, <3>1
  <2>3. CASE j = l + 1 /\ i = l + 1
    BY <1>2, <1>3, <2>3
  <2> QED BY <1>2, <2>1, <2>2, <2>3
<1>7. ASSUME NEW i \in 1 .. Len(r) PROVE g[i - 1] + r[i] <= g[i]
  <2>1. CASE i \in 1 .. l
    <3>1. r[i] = q[i] /\ i - 1 \in 0 .. l /\ i \in 0 .. l
      BY <1>2, <2>1 DEF Longer
    <3> QED BY <1>1, <1>2, <1>3, <2>1, <3>1
  <2>2. CASE i = l + 1
    <3>1. r[i] = v /\ g[i - 1] = f[l]
      BY <1>2, <1>3, <2>2 DEF Longer
    <3> QED BY <1>4, <2>2, <3>1
  <2> QED BY <1>2, <2>1, <2>2
<1> QED BY <1>3, <1>5, <1>6, <1>7 DEF Pays

LEMMA PaysOff ==
  ASSUME NEW q \in Amounts, NEW r \in Amounts, NEW a \in Nat, NEW b \in Nat,
         Pays(q, a, b), Shorter(q, r)
  PROVE  Pays(r, a + q[1], b)
<1>1. PICK f \in [0 .. Len(q) -> Nat] :
        /\ a <= f[0] /\ f[Len(q)] <= b
        /\ \A i, j \in 0 .. Len(q) : i <= j => f[i] <= f[j]
        /\ \A i \in 1 .. Len(q) : f[i - 1] + q[i] <= f[i]
  BY DEF Pays
<1>2. PICK l \in Nat : l = Len(r) /\ Len(q) = l + 1 /\ DOMAIN r = 1 .. l /\ DOMAIN q = 1 .. (l + 1)
  BY DEF Shorter, Amounts
<1>3. q[1] \in Nat /\ f[0] \in Nat /\ f[1] \in Nat /\ f[0] + q[1] <= f[1]
  <2>1. q[1] \in Nat
    BY <1>2 DEF Amounts
  <2> QED BY <1>1, <1>2, <2>1
<1> DEFINE g == [i \in 0 .. l |-> f[i + 1]]
<1>4. g \in [0 .. l -> Nat] /\ \A i \in 0 .. l : g[i] = f[i + 1] /\ i + 1 \in 0 .. Len(q)
  BY <1>1, <1>2
<1> HIDE DEF g
<1>5. a + q[1] <= g[0] /\ g[l] <= b
  BY <1>1, <1>2, <1>3, <1>4
<1>6. ASSUME NEW i \in 0 .. l, NEW j \in 0 .. l, i <= j PROVE g[i] <= g[j]
  <2>1. i + 1 \in 0 .. Len(q) /\ j + 1 \in 0 .. Len(q) /\ i + 1 <= j + 1
    BY <1>2, <1>6
  <2> QED BY <1>1, <1>4, <2>1
<1>7. ASSUME NEW i \in 1 .. l PROVE g[i - 1] + r[i] <= g[i]
  <2>1. r[i] = q[i + 1] /\ i + 1 \in 1 .. Len(q) /\ g[i] = f[i + 1] /\ g[i - 1] = f[i]
    BY <1>2, <1>4 DEF Shorter
  <2>2. f[(i + 1) - 1] + q[i + 1] <= f[i + 1] /\ (i + 1) - 1 = i
    BY <1>1, <2>1
  <2> QED BY <2>1, <2>2
<1> QED BY <1>2, <1>4, <1>5, <1>6, <1>7 DEF Pays

LEMMA PaysMeans ==
  ASSUME NEW q \in Amounts, NEW a \in Nat, NEW b \in Nat, Pays(q, a, b)
  PROVE  a <= b
<1>1. PICK f \in [0 .. Len(q) -> Nat] :
        /\ a <= f[0] /\ f[Len(q)] <= b
        /\ \A i, j \in 0 .. Len(q) : i <= j => f[i] <= f[j]
  BY DEF Pays
<1>2. Len(q) \in Nat
  BY DEF Amounts
<1>3. f[0] <= f[Len(q)] /\ f[0] \in Nat /\ f[Len(q)] \in Nat
  BY <1>1, <1>2
<1> QED BY <1>1, <1>3

LEMMA PaysWeaker ==
  ASSUME NEW q \in Amounts, NEW a \in Nat, NEW b \in Nat, NEW c \in Nat, NEW d \in Nat,
         c <= a, b <= d, Pays(q, a, b)
  PROVE  Pays(q, c, d)
<1>1. PICK f \in [0 .. Len(q) -> Nat] :
        /\ a <= f[0] /\ f[Len(q)] <= b
        /\ \A i, j \in 0 .. Len(q) : i <= j => f[i] <= f[j]
        /\ \A i \in 1 .. Len(q) : f[i - 1] + q[i] <= f[i]
  BY DEF Pays
<1>2. Len(q) \in Nat /\ f[0] \in Nat /\ f[Len(q)] \in Nat
  BY <1>1 DEF Amounts
<1>3. c <= f[0] /\ f[Len(q)] <= d
  BY <1>1, <1>2
<1> QED BY <1>1, <1>3 DEF Pays

-----------------------------------------------------------------------------
(* The clock of the device. *)

\* What the fields hold while the callback is at a step: it has written those before.
Written(n, step) ==
  [time |-> IF step \in {"first", "end", "done"} THEN n + 1 ELSE n,
   first |-> IF step \in {"end", "done"} THEN n + 1 ELSE n,
   end |-> IF step = "done" THEN n + 1 ELSE n]
Publishing ==
  /\ writing \in {"idle", "time", "first", "end", "done"}
  /\ \E n \in Nat : /\ sequence = IF writing = "idle" THEN 2 * n ELSE 2 * n + 1
                    /\ fields = Written(n, writing)

\* As long as the count is the one a reader began with, all it has read is of that period.
Began(d, n) ==
  /\ d.before = 2 * n
  /\ d.step = "some" \/ sequence = d.before =>
       /\ d.step \in {"first", "end", "after", "some"} => d.read.time = n
       /\ d.step \in {"end", "after", "some"} => d.read.first = n
       /\ d.step \in {"after", "some"} => d.read.end = n
Reading(r) ==
  LET d == readers[r] IN
  /\ d.before \in Nat /\ d.before <= sequence
  /\ d.step \in {"time", "first", "end", "after", "some"} => \E n \in Nat : Began(d, n)
Reader == [step : K!Steps, before : Nat, read : [time : Nat, first : Nat, end : Nat], tries : Nat]
ClockInv == /\ Publishing
            /\ readers \in [Readers -> Reader]
            /\ \A r \in Readers : Reading(r)

LEMMA PublishKeeps == ASSUME ClockInv, K!Publish PROVE ClockInv'
<1>1. PICK n \in Nat : /\ sequence = IF writing = "idle" THEN 2 * n ELSE 2 * n + 1
                       /\ fields = Written(n, writing)
  BY DEF ClockInv, Publishing
<1>2. sequence \in Nat /\ sequence' \in Nat /\ sequence <= sequence' /\ UNCHANGED readers
  BY <1>1 DEF K!Publish, K!Begin, K!Write, K!Done
<1>3. Publishing'
  <2>1. CASE K!Begin /\ UNCHANGED fields
    BY <1>1, <2>1 DEF K!Begin, Publishing, Written
  <2>2. CASE K!Write /\ UNCHANGED sequence
    <3>1. K!Period = n + 1
      BY <1>1, <2>2 DEF K!Write, K!Period
    <3> QED
      BY <1>1, <2>2, <3>1 DEF K!Write, Publishing, Written
  <2>3. CASE K!Done /\ UNCHANGED fields
    <3>1. sequence' = 2 * (n + 1) /\ fields' = Written(n + 1, "idle") /\ n + 1 \in Nat
      BY <1>1, <2>3 DEF K!Done, Written
    <3> QED
      BY <2>3, <3>1 DEF K!Done, Publishing
  <2> QED BY <2>1, <2>2, <2>3 DEF K!Publish
<1>4. ASSUME NEW r \in Readers PROVE Reading(r)'
  <2>1. Reading(r)
    BY DEF ClockInv
  <2>2. sequence' = sequence \/ sequence' > readers[r].before
    BY <1>1, <1>2, <2>1 DEF K!Publish, K!Begin, K!Write, K!Done, Reading
  <2>3. CASE readers[r].step \notin {"time", "first", "end", "after", "some"}
    BY <1>2, <2>1, <2>2, <2>3 DEF Reading
  <2>4. CASE readers[r].step \in {"time", "first", "end", "after", "some"}
    <3>1. PICK k \in Nat : Began(readers[r], k)
      BY <2>1, <2>4 DEF Reading
    <3>2. Began(readers[r], k)'
      BY <1>2, <2>1, <2>2, <3>1 DEF Began, Reading
    <3> QED
      BY <1>2, <2>1, <2>2, <3>2 DEF Reading
  <2> QED BY <2>3, <2>4
<1> QED
  BY <1>2, <1>3, <1>4 DEF ClockInv

LEMMA ReadKeeps == ASSUME ClockInv, NEW q \in Readers, K!Read(q) PROVE ClockInv'
<1>1. PICK n \in Nat : /\ sequence = IF writing = "idle" THEN 2 * n ELSE 2 * n + 1
                       /\ fields = Written(n, writing)
  BY DEF ClockInv, Publishing
<1>2. UNCHANGED <<sequence, fields, writing>>
  BY DEF K!Read
<1>3. sequence \in Nat /\ fields \in [time : Nat, first : Nat, end : Nat]
  BY <1>1 DEF Written
<1>4. sequence % 2 = 0 => writing = "idle" /\ sequence = 2 * n
  BY <1>1
<1>5. readers[q] \in Reader /\ Reading(q)
  BY DEF ClockInv
<1>6. ASSUME NEW e \in Reader, readers' = [readers EXCEPT ![q] = e], e.before <= sequence,
             e.step \in {"time", "first", "end", "after", "some"} => \E k \in Nat : Began(e, k)
      PROVE ClockInv'
  <2>1. readers' \in [Readers -> Reader] /\ readers'[q] = e
        /\ \A r \in Readers \ {q} : readers'[r] = readers[r]
    BY <1>6 DEF ClockInv
  <2>2. Reading(q)'
    BY <1>2, <1>6, <2>1 DEF Reading, Began, Reader
  <2>3. ASSUME NEW r \in Readers \ {q} PROVE Reading(r)'
    BY <1>2, <2>1 DEF ClockInv, Reading, Began
  <2> QED
    BY <1>2, <2>1, <2>2, <2>3 DEF ClockInv, Publishing
<1> DEFINE old == readers[q]
<1>7. CASE K!Ask(q)
  <2> DEFINE e == [step |-> "before", before |-> 0, read |-> K!NoRead, tries |-> 0]
  <2>1. e \in Reader /\ e.before <= sequence /\ e.step = "before"
    BY <1>3 DEF Reader, K!Steps, K!NoRead
  <2>2. readers' = [readers EXCEPT ![q] = e]
    BY <1>7 DEF K!Ask
  <2> HIDE DEF e
  <2> QED BY <1>6, <2>1, <2>2
<1>14. PICK t \in Nat : t = old.tries + 1
  BY <1>5 DEF Reader
<1>8. CASE K!Before(q)
  <2>1. CASE sequence # 0 /\ sequence % 2 = 0
    <3> DEFINE e == [old EXCEPT !.tries = t, !.before = sequence, !.step = "time"]
    <3>1. e \in Reader /\ e.before = sequence /\ e.step = "time"
      BY <1>3, <1>5, <1>14 DEF Reader, K!Steps
    <3>2. Began(e, n)
      BY <1>4, <2>1, <3>1 DEF Began
    <3>3. readers' = [readers EXCEPT ![q] = e]
      BY <1>8, <1>14, <2>1 DEF K!Before
    <3> HIDE DEF e
    <3>4. e.before <= sequence
      BY <1>3, <3>1
    <3> QED BY <1>1, <1>6, <3>1, <3>2, <3>3, <3>4
  <2>2. CASE ~(sequence # 0 /\ sequence % 2 = 0)
    <3> DEFINE again == [old EXCEPT !.tries = t, !.before = sequence]
               e == IF again.tries = 3 THEN [again EXCEPT !.step = "none"] ELSE again
    <3>1. e \in Reader /\ e.before = sequence /\ e.step \in {"none", "before"}
      BY <1>3, <1>5, <1>8, <1>14 DEF K!Before, Reader, K!Steps
    <3>2. readers' = [readers EXCEPT ![q] = e]
      BY <1>8, <1>14, <2>2 DEF K!Before
    <3> HIDE DEF e
    <3>3. e.before <= sequence
      BY <1>3, <3>1
    <3> QED BY <1>6, <3>1, <3>2, <3>3
  <2> QED BY <2>1, <2>2
<1>9. ASSUME old.step \in {"time", "first", "end", "after"}
      PROVE \E k \in Nat : Began(old, k) /\ (sequence = old.before => k = n /\ writing = "idle")
  <2>1. PICK k \in Nat : Began(old, k)
    BY <1>5, <1>9 DEF Reading
  <2>2. sequence = old.before => k = n /\ writing = "idle"
    BY <1>1, <2>1 DEF Began
  <2> QED BY <2>1, <2>2
<1>10. CASE K!ReadTime(q)
  <2>1. PICK k \in Nat : Began(old, k) /\ (sequence = old.before => k = n /\ writing = "idle")
    BY <1>9, <1>10 DEF K!ReadTime
  <2> DEFINE e == [old EXCEPT !.step = "first", !.read.time = fields.time]
  <2>2. e \in Reader /\ e.before <= sequence /\ Began(e, k)
    BY <1>1, <1>3, <1>5, <1>10, <2>1 DEF K!ReadTime, Reader, K!Steps, Began, Written, Reading
  <2>3. readers' = [readers EXCEPT ![q] = e]
    BY <1>10 DEF K!ReadTime, ClockInv
  <2> QED BY <1>6, <2>2, <2>3
<1>11. CASE K!ReadFirst(q)
  <2>1. PICK k \in Nat : Began(old, k) /\ (sequence = old.before => k = n /\ writing = "idle")
    BY <1>9, <1>11 DEF K!ReadFirst
  <2> DEFINE e == [old EXCEPT !.step = "end", !.read.first = fields.first]
  <2>2. e \in Reader /\ e.before <= sequence /\ Began(e, k)
    BY <1>1, <1>3, <1>5, <1>11, <2>1 DEF K!ReadFirst, Reader, K!Steps, Began, Written, Reading
  <2>3. readers' = [readers EXCEPT ![q] = e]
    BY <1>11 DEF K!ReadFirst, ClockInv
  <2> QED BY <1>6, <2>2, <2>3
<1>12. CASE K!ReadEnd(q)
  <2>1. PICK k \in Nat : Began(old, k) /\ (sequence = old.before => k = n /\ writing = "idle")
    BY <1>9, <1>12 DEF K!ReadEnd
  <2> DEFINE e == [old EXCEPT !.step = "after", !.read.end = fields.end]
  <2>2. e \in Reader /\ e.before <= sequence /\ Began(e, k)
    BY <1>1, <1>3, <1>5, <1>12, <2>1 DEF K!ReadEnd, Reader, K!Steps, Began, Written, Reading
  <2>3. readers' = [readers EXCEPT ![q] = e]
    BY <1>12 DEF K!ReadEnd, ClockInv
  <2> QED BY <1>6, <2>2, <2>3
<1>13. CASE K!After(q)
  <2>1. PICK k \in Nat : Began(old, k) /\ (sequence = old.before => k = n /\ writing = "idle")
    BY <1>9, <1>13 DEF K!After
  <2>2. CASE old.before = sequence
    <3> DEFINE e == [old EXCEPT !.step = "some"]
    <3>1. e \in Reader /\ e.before <= sequence /\ Began(e, k)
      BY <1>3, <1>5, <1>13, <2>1, <2>2 DEF K!After, Reader, K!Steps, Began
    <3>2. readers' = [readers EXCEPT ![q] = e]
      BY <1>13, <2>2 DEF K!After, K!Go, ClockInv
    <3> QED BY <1>6, <3>1, <3>2
  <2>3. CASE old.before # sequence
    <3> DEFINE e == [old EXCEPT !.step = IF old.tries = 3 THEN "none" ELSE "before"]
    <3>1. e \in Reader /\ e.before <= sequence /\ e.step \in {"none", "before"}
      BY <1>3, <1>5 DEF Reader, K!Steps, Reading
    <3>2. readers' = [readers EXCEPT ![q] = e]
      BY <1>13, <2>3 DEF K!After, K!Retry, ClockInv
    <3> HIDE DEF e
    <3> QED BY <1>6, <3>1, <3>2
  <2> QED BY <2>2, <2>3
<1> QED
  BY <1>7, <1>8, <1>10, <1>11, <1>12, <1>13 DEF K!Read

LEMMA ClockStart == K!ClockInit => ClockInv
<1>1. K!ClockInit => Publishing
  <2>1. 0 \in Nat /\ 0 = 2 * 0 /\ K!NoRead = Written(0, "idle")
    BY DEF K!NoRead, Written
  <2> QED BY <2>1 DEF K!ClockInit, Publishing
<1> QED
  BY <1>1 DEF K!ClockInit, ClockInv, Reader, Reading, K!Steps, K!NoRead

LEMMA ClockStep == ClockInv /\ [K!ClockNext]_K!clockVars => ClockInv'
<1>1. ASSUME ClockInv, UNCHANGED K!clockVars PROVE ClockInv'
  BY <1>1 DEF K!clockVars, ClockInv, Publishing, Reading, Began
<1> QED BY <1>1, PublishKeeps, ReadKeeps DEF K!ClockNext

LEMMA ClockMeans == ClockInv => K!OnePeriod
<1>1. ASSUME ClockInv, NEW r \in Readers, readers[r].step = "some"
      PROVE \E n \in Nat : Began(readers[r], n)
  BY <1>1 DEF ClockInv, Reading
<1> QED BY <1>1 DEF Began, K!OnePeriod

-----------------------------------------------------------------------------
(* A movie of this machine. *)

Packets == {"video", "audio"}
Length == Frames + Samples

LEMMA PlaybackConstants == /\ Frames \in Nat \ {0} /\ Samples \in Nat /\ Length \in Nat
                           /\ RingCap \in Nat \ {0} /\ Lookahead \in Nat \ {0} /\ VideoLead \in Nat
                           /\ StallAfter \in Nat
BY TransfersAssumption DEF Y!PlaybackAssumption, Length

\* The modules of the parts count with an operator of their own.
LEMMA CountedAlike == \A s : Y!Cardinality(s) = Cardinality(s) /\ R!Cardinality(s) = Cardinality(s)
BY DEF Y!Cardinality, R!Cardinality, Cardinality

LEMMA CountIs == ASSUME NEW s, NEW x
                 PROVE  Y!Count(s, x) = Cardinality({k \in DOMAIN s : s[k] = x})
BY CountedAlike DEF Y!Count

\* A packet more is one more of its kind.
LEMMA CountNext ==
  ASSUME NEW s \in [1 .. Length -> Packets], NEW k \in Nat, k < Length, NEW x
  PROVE  /\ Y!Count(SubSeq(s, 1, k), x) \in Nat
         /\ Y!Count(SubSeq(s, 1, k + 1), x)
              = Y!Count(SubSeq(s, 1, k), x) + (IF s[k + 1] = x THEN 1 ELSE 0)
<1> USE PlaybackConstants
<1> DEFINE A(j) == {i \in 1 .. j : s[i] = x}
<1>1. ASSUME NEW j \in 0 .. Length PROVE Y!Count(SubSeq(s, 1, j), x) = Cardinality(A(j))
  <2>1. s \in Seq(Packets) /\ Len(s) = Length
    OBVIOUS
  <2>2. DOMAIN SubSeq(s, 1, j) = 1 .. j /\ \A i \in 1 .. j : SubSeq(s, 1, j)[i] = s[i]
    BY <2>1
  <2>3. {i \in DOMAIN SubSeq(s, 1, j) : SubSeq(s, 1, j)[i] = x} = A(j)
    BY <2>2
  <2>4. Y!Count(SubSeq(s, 1, j), x)
          = Cardinality({i \in DOMAIN SubSeq(s, 1, j) : SubSeq(s, 1, j)[i] = x})
    BY CountIs
  <2> QED BY <2>3, <2>4
<1>2. IsFiniteSet(A(k))
  BY FS_Interval, FS_Subset
<1>3. A(k + 1) = IF s[k + 1] = x THEN A(k) \cup {k + 1} ELSE A(k)
  OBVIOUS
<1>4. k + 1 \notin A(k)
  OBVIOUS
<1>5. Cardinality(A(k)) \in Nat
      /\ Cardinality(A(k + 1)) = Cardinality(A(k)) + (IF s[k + 1] = x THEN 1 ELSE 0)
  <2> HIDE DEF A
  <2> QED BY <1>2, <1>3, <1>4, FS_AddElement, FS_CardinalityType
<1> QED BY <1>1, <1>5

LEMMA CountNothing == ASSUME NEW s \in [1 .. Length -> Packets], NEW x
                      PROVE  Y!Count(SubSeq(s, 1, 0), x) = 0
<1>1. s \in Seq(Packets)
  BY PlaybackConstants
<1>2. {k \in DOMAIN SubSeq(s, 1, 0) : SubSeq(s, 1, 0)[k] = x} = {}
  BY <1>1
<1>3. Y!Count(SubSeq(s, 1, 0), x)
        = Cardinality({k \in DOMAIN SubSeq(s, 1, 0) : SubSeq(s, 1, 0)[k] = x})
  BY CountIs
<1> QED BY <1>2, <1>3, FS_EmptySet

LEMMA TailIs == ASSUME NEW A, NEW q \in Seq(A), q # <<>>
                PROVE  /\ Tail(q) \in Seq(A) /\ Len(q) \in Nat \ {0} /\ Len(Tail(q)) = Len(q) - 1
                       /\ Head(q) = q[1] /\ Head(q) \in A
                       /\ \A k \in 1 .. Len(q) - 1 : Tail(q)[k] = q[k + 1]
OBVIOUS

PlayTypes ==
  /\ frames \in [sent : Nat, taken : Nat, closed : BOOLEAN]
  /\ sound \in [ring : Nat, samples : Nat, primed : BOOLEAN, active : BOOLEAN, eof : BOOLEAN,
                videoReady : BOOLEAN, failed : BOOLEAN, underrun : BOOLEAN]
  /\ shows \in [frame : Nat, initial : BOOLEAN, last : Nat, age : Nat, elapsed : Nat,
                newest : Nat, finished : BOOLEAN]
  /\ slot \in [next : Nat, screen : Nat]
  /\ player \in [paused : BOOLEAN, cancelled : BOOLEAN, troubles : Nat]

\* What the demuxer of a stream has read is a beginning of the stream: its frames are sent, its
\* samples are in the ring or played.  A file's second demuxer has nothing but sound.
ReadUpTo(s, i) ==
  /\ demux[1] \in Seq(Packets) /\ Len(demux[1]) = Length - i
  /\ \A k \in 1 .. Len(demux[1]) : demux[1][k] = s[i + k]
  /\ frames.sent = Y!Count(SubSeq(s, 1, i), "video")
  /\ sound.ring + sound.samples = Y!Count(SubSeq(s, 1, i), "audio")
OfStream == \E s \in Y!Streams, i \in 0 .. Length : ReadUpTo(s, i)
OfFile == demux[2] \in Seq({"audio"})
Demuxed == \/ DOMAIN demux = {1} /\ OfStream
           \/ DOMAIN demux = {1, 2} /\ OfFile
WaitsWith == shows.frame # Y!NoFrame => shows.frame + 1 = frames.taken
PlayInv == PlayTypes /\ demux \in Seq(Seq(Packets)) /\ Demuxed /\ WaitsWith
           /\ Y!NoGap /\ Y!NewestShown

LEMMA PlayStart == Y!PlayInit => PlayInv
<1> SUFFICES ASSUME Y!PlayInit PROVE PlayInv
  OBVIOUS
<1> USE PlaybackConstants
<1>1. PlayTypes /\ WaitsWith /\ Y!NoGap /\ Y!NewestShown
  BY DEF Y!PlayInit, PlayTypes, WaitsWith, Y!NoGap, Y!NewestShown, Y!NoFrame
<1>2. CASE demux = <<[k \in 1 .. Frames |-> "video"], [k \in 1 .. Samples |-> "audio"]>>
  <2>1. demux[2] \in Seq({"audio"}) /\ DOMAIN demux = {1, 2} /\ demux \in Seq(Seq(Packets))
    BY <1>2 DEF Packets
  <2> QED BY <1>1, <2>1 DEF PlayInv, Demuxed, OfFile
<1>3. ASSUME NEW s \in Y!Streams, demux = <<s>> PROVE PlayInv
  <2>1. s \in [1 .. Length -> Packets]
    BY DEF Y!Streams, Length, Packets
  <2>2. DOMAIN demux = {1} /\ demux \in Seq(Seq(Packets)) /\ demux[1] \in Seq(Packets)
        /\ Len(demux[1]) = Length - 0 /\ \A k \in 1 .. Len(demux[1]) : demux[1][k] = s[0 + k]
    BY <1>3, <2>1
  <2>3. ReadUpTo(s, 0)
    BY <2>1, <2>2, CountNothing DEF ReadUpTo, Y!PlayInit
  <2> QED BY <1>1, <2>2, <2>3 DEF PlayInv, Demuxed, OfStream
<1> QED BY <1>2, <1>3 DEF Y!PlayInit, Y!Sources

\* The next packet of a stream.
LEMMA StreamNext ==
  ASSUME NEW s \in Y!Streams, NEW i \in 0 .. Length, ReadUpTo(s, i), demux[1] # <<>>
  PROVE  /\ i \in Nat /\ i < Length /\ i + 1 \in 0 .. Length /\ Head(demux[1]) = s[i + 1]
         /\ Tail(demux[1]) \in Seq(Packets) /\ Len(Tail(demux[1])) = Length - (i + 1)
         /\ \A k \in 1 .. Len(Tail(demux[1])) : Tail(demux[1])[k] = s[i + 1 + k]
         /\ \A x : /\ Y!Count(SubSeq(s, 1, i), x) \in Nat
                   /\ Y!Count(SubSeq(s, 1, i + 1), x)
                        = Y!Count(SubSeq(s, 1, i), x) + (IF s[i + 1] = x THEN 1 ELSE 0)
<1>1. demux[1] \in Seq(Packets) /\ Len(demux[1]) = Length - i
      /\ \A k \in 1 .. Len(demux[1]) : demux[1][k] = s[i + k]
  BY DEF ReadUpTo
<1>2. Length \in Nat
  BY PlaybackConstants
<1>3. /\ i \in Nat /\ i < Length /\ i + 1 \in 0 .. Length /\ Head(demux[1]) = s[i + 1]
      /\ Tail(demux[1]) \in Seq(Packets) /\ Len(Tail(demux[1])) = Length - (i + 1)
      /\ \A k \in 1 .. Len(Tail(demux[1])) : Tail(demux[1])[k] = s[i + 1 + k]
  <2> DEFINE q == demux[1]
  <2>1. q \in Seq(Packets) /\ q # <<>> /\ Len(q) = Length - i
        /\ \A k \in 1 .. Len(q) : q[k] = s[i + k]
    BY <1>1
  <2> HIDE DEF q
  <2>2. /\ Tail(q) \in Seq(Packets) /\ Len(q) \in Nat \ {0} /\ Len(Tail(q)) = Len(q) - 1
        /\ Head(q) = q[1]
        /\ \A k \in 1 .. Len(q) - 1 : Tail(q)[k] = q[k + 1]
    BY <2>1, TailIs
  <2>3. PICK n \in Nat \ {0} : n = Len(q)
    BY <2>2
  <2>4. n = Length - i /\ \A k \in 1 .. n : q[k] = s[i + k]
    BY <2>1, <2>3
  <2>5. i \in Nat /\ i < Length /\ i + 1 \in 0 .. Length /\ n - 1 = Length - (i + 1)
    BY <1>2, <2>4
  <2>6. q[1] = s[i + 1]
    BY <2>4
  <2>7. \A k \in 1 .. n - 1 : k + 1 \in 1 .. n /\ i + (k + 1) = i + 1 + k
    BY <2>5
  <2>8. \A k \in 1 .. n - 1 : q[k + 1] = s[i + 1 + k]
    BY <2>4, <2>7
  <2> QED BY <2>2, <2>3, <2>5, <2>6, <2>8 DEF q
<1>4. s \in [1 .. Length -> Packets]
  BY DEF Y!Streams, Length, Packets
<1> QED BY <1>3, <1>4, CountNext

\* The demuxer takes a packet of either kind, and counts it.
LEMMA TakesPacket ==
  ASSUME PlayInv, NEW d \in DOMAIN demux, demux[d] # <<>>,
         demux' = [demux EXCEPT ![d] = Tail(@)],
         \/ /\ Head(demux[d]) = "video" /\ frames'.sent = frames.sent + 1
            /\ sound'.ring = sound.ring /\ sound'.samples = sound.samples
         \/ /\ Head(demux[d]) = "audio" /\ frames'.sent = frames.sent
            /\ sound'.ring = sound.ring + 1 /\ sound'.samples = sound.samples
  PROVE  demux' \in Seq(Seq(Packets)) /\ Demuxed'
<1> USE PlaybackConstants
<1>1. demux[d] \in Seq(Packets) /\ Tail(demux[d]) \in Seq(Packets)
  BY DEF PlayInv
<1>2. demux' \in Seq(Seq(Packets)) /\ DOMAIN demux' = DOMAIN demux
      /\ demux'[d] = Tail(demux[d]) /\ \A e \in DOMAIN demux \ {d} : demux'[e] = demux[e]
  BY <1>1 DEF PlayInv
<1>3. CASE DOMAIN demux = {1, 2} /\ OfFile
  <2>1. OfFile'
    <3>1. CASE d = 2
      BY <1>2, <1>3, <3>1 DEF OfFile
    <3>2. CASE d # 2
      BY <1>2, <1>3, <3>2 DEF OfFile
    <3> QED BY <3>1, <3>2
  <2> QED BY <1>2, <1>3, <2>1 DEF Demuxed
<1>4. CASE DOMAIN demux = {1} /\ OfStream
  <2>1. PICK s \in Y!Streams, i \in 0 .. Length : ReadUpTo(s, i)
    BY <1>4 DEF OfStream
  <2>2. d = 1 /\ s \in [1 .. Length -> Packets]
    BY <1>4, <2>1 DEF Y!Streams, Length, Packets
  <2>3. /\ i \in Nat /\ i < Length /\ i + 1 \in 0 .. Length /\ Head(demux[d]) = s[i + 1]
        /\ Tail(demux[d]) \in Seq(Packets) /\ Len(Tail(demux[d])) = Length - (i + 1)
        /\ \A k \in 1 .. Len(Tail(demux[d])) : Tail(demux[d])[k] = s[i + 1 + k]
        /\ \A x : /\ Y!Count(SubSeq(s, 1, i), x) \in Nat
                  /\ Y!Count(SubSeq(s, 1, i + 1), x)
                       = Y!Count(SubSeq(s, 1, i), x) + (IF s[i + 1] = x THEN 1 ELSE 0)
    BY <2>1, <2>2, StreamNext
  <2>6. frames'.sent = Y!Count(SubSeq(s, 1, i + 1), "video")
        /\ sound'.ring + sound'.samples = Y!Count(SubSeq(s, 1, i + 1), "audio")
    <3> DEFINE v == Y!Count(SubSeq(s, 1, i), "video")
               a == Y!Count(SubSeq(s, 1, i), "audio")
    <3>1. frames.sent = v /\ sound.ring + sound.samples = a
      BY <2>1 DEF ReadUpTo
    <3>2. sound.ring \in Nat /\ sound.samples \in Nat
      BY DEF PlayInv, PlayTypes
    <3>3. Head(demux[d]) = s[i + 1]
      BY <2>3
    <3> HIDE DEF v, a
    <3>4. CASE Head(demux[d]) = "video"
      <4>1. Y!Count(SubSeq(s, 1, i + 1), "video") = v + 1
            /\ Y!Count(SubSeq(s, 1, i + 1), "audio") = a /\ v \in Nat /\ a \in Nat
        BY <2>3, <3>3, <3>4, SMTT(60) DEF v, a
      <4>2. frames'.sent = frames.sent + 1 /\ sound'.ring = sound.ring
            /\ sound'.samples = sound.samples
        BY <3>4
      <4> QED BY <3>1, <4>1, <4>2
    <3>5. CASE Head(demux[d]) = "audio"
      <4>1. Y!Count(SubSeq(s, 1, i + 1), "video") = v
            /\ Y!Count(SubSeq(s, 1, i + 1), "audio") = a + 1 /\ v \in Nat /\ a \in Nat
        BY <2>3, <3>3, <3>5, SMTT(60) DEF v, a
      <4>2. frames'.sent = frames.sent /\ sound'.ring = sound.ring + 1
            /\ sound'.samples = sound.samples
        BY <3>5
      <4>3. PICK x \in Nat : x = sound.ring
        BY <3>2
      <4>4. PICK y \in Nat : y = sound.samples
        BY <3>2
      <4>5. x + y = a /\ (x + 1) + y = (x + y) + 1
        BY <3>1, <4>3, <4>4
      <4>6. sound'.ring + sound'.samples = (x + 1) + y
        BY <4>2, <4>3, <4>4
      <4> QED BY <3>1, <4>1, <4>2, <4>5, <4>6
    <3> QED BY <3>4, <3>5
  <2>7. ReadUpTo(s, i + 1)'
    BY <1>2, <2>2, <2>3, <2>6 DEF ReadUpTo
  <2> QED BY <1>2, <1>4, <2>1, <2>3, <2>7 DEF Demuxed, OfStream
<1> QED BY <1>3, <1>4 DEF PlayInv, Demuxed

\* Nothing else changes what has been read.
LEMMA ReadsNothing ==
  ASSUME PlayInv, demux' = demux, frames'.sent = frames.sent,
         sound'.ring + sound'.samples = sound.ring + sound.samples
  PROVE  demux' \in Seq(Seq(Packets)) /\ Demuxed'
<1>1. ASSUME OfStream PROVE OfStream'
  BY <1>1 DEF OfStream, ReadUpTo
<1> QED BY <1>1 DEF PlayInv, Demuxed, OfFile

LEMMA DecoderKeeps == ASSUME PlayInv, Y!Decoder PROVE PlayInv'
<1>1. PICK d \in DOMAIN demux : Y!Decode(d)
  BY DEF Y!Decoder
<1>2. UNCHANGED <<fast, shows, slot, player>>
  BY DEF Y!Decoder
<1>3. frames'.taken = frames.taken /\ sound'.underrun = sound.underrun /\ PlayTypes'
      /\ demux' \in Seq(Seq(Packets)) /\ Demuxed'
  <2>1. CASE Y!DecodeVideo(d)
    <3>1. CASE ~sound.videoReady
      <4>1. PlayTypes' /\ demux' = demux /\ frames' = frames /\ sound'.ring = sound.ring
            /\ sound'.samples = sound.samples /\ sound'.underrun = sound.underrun
        BY <1>2, <2>1, <3>1 DEF Y!DecodeVideo, PlayInv, PlayTypes
      <4> QED BY <4>1, ReadsNothing
    <3>2. CASE sound.videoReady
      <4>2. PICK n \in Nat : n = frames.sent + 1
        BY DEF PlayInv, PlayTypes
      <4>3. frames' = [frames EXCEPT !.sent = n]
        BY <2>1, <3>2, <4>2 DEF Y!DecodeVideo
      <4>1. PlayTypes' /\ demux' = [demux EXCEPT ![d] = Tail(@)] /\ demux[d] # <<>>
            /\ Head(demux[d]) = "video" /\ frames'.sent = n
            /\ frames'.taken = frames.taken /\ sound' = sound
        BY <1>2, <2>1, <3>2, <4>2, <4>3 DEF Y!DecodeVideo, PlayInv, PlayTypes
      <4> QED BY <4>1, <4>2, TakesPacket
    <3> QED BY <3>1, <3>2
  <2>2. CASE Y!DecodeAudio(d)
    <3>1. CASE ~sound.active
      <4>1. PlayTypes' /\ demux' = demux /\ frames' = frames /\ sound'.ring = sound.ring
            /\ sound'.samples = sound.samples /\ sound'.underrun = sound.underrun
        BY <1>2, <2>2, <3>1 DEF Y!DecodeAudio, PlayInv, PlayTypes
      <4> QED BY <4>1, ReadsNothing
    <3>2. CASE sound.active
      <4>2. PICK n \in Nat : n = sound.ring + 1
        BY DEF PlayInv, PlayTypes
      <4>3. sound' = [sound EXCEPT !.ring = n]
        BY <2>2, <3>2, <4>2 DEF Y!DecodeAudio
      <4>1. PlayTypes' /\ demux' = [demux EXCEPT ![d] = Tail(@)] /\ demux[d] # <<>>
            /\ Head(demux[d]) = "audio" /\ frames' = frames
            /\ sound'.ring = n /\ sound'.samples = sound.samples
            /\ sound'.underrun = sound.underrun
        BY <1>2, <2>2, <3>2, <4>2, <4>3 DEF Y!DecodeAudio, PlayInv, PlayTypes
      <4> QED BY <4>1, <4>2, TakesPacket
    <3> QED BY <3>1, <3>2
  <2>3. CASE Y!End(d)
    <3>1. PlayTypes' /\ demux' = demux /\ frames'.sent = frames.sent
          /\ frames'.taken = frames.taken /\ sound'.ring = sound.ring
          /\ sound'.samples = sound.samples /\ sound'.underrun = sound.underrun
      BY <1>2, <2>3 DEF Y!End, PlayInv, PlayTypes
    <3> QED BY <3>1, ReadsNothing
  <2> QED BY <1>1, <2>1, <2>2, <2>3 DEF Y!Decode
<1> QED BY <1>2, <1>3 DEF PlayInv, WaitsWith, Y!NoGap, Y!NewestShown

\* When the device runs dry behind decoders that keep up, the sound has ended: only a frame
\* without room keeps a demuxer from the sound, and then more frames than the stream has ahead
\* of its sound would have been sent.
LEMMA NeverDry ==
  ASSUME VideoLead <= Lookahead + 2, PlayInv, ~Y!Due,
         \A d \in DOMAIN demux : ~Y!Behind(d),
         Y!Waiting \/ (frames.taken = frames.sent /\ ~frames.closed),
         Y!Running, sound.ring = 0
  PROVE  sound.eof
<1> USE PlaybackConstants
<1>1. sound.active /\ sound.videoReady /\ ~player.paused
  BY DEF Y!Running
<1>2. CASE DOMAIN demux = {1, 2} /\ OfFile
  <2>1. ~Y!Behind(2) /\ Len(demux) = 2
    BY <1>2 DEF PlayInv
  <2>2. demux[2] = <<>> \/ Head(demux[2]) = "audio"
    BY <1>2 DEF OfFile
  <2> QED BY <1>1, <2>1, <2>2 DEF Y!Behind
<1>3. CASE DOMAIN demux = {1} /\ OfStream
  <2>1. PICK s \in Y!Streams, i \in 0 .. Length : ReadUpTo(s, i)
    BY <1>3 DEF OfStream
  <2>2. ~Y!Behind(1) /\ Len(demux) = 1
    BY <1>3 DEF PlayInv
  <2>3. CASE demux[1] = <<>>
    BY <2>2, <2>3 DEF Y!Behind
  <2>4. CASE demux[1] # <<>> /\ Head(demux[1]) # "video"
    BY <1>1, <2>2, <2>4 DEF Y!Behind
  <2>5. CASE demux[1] # <<>> /\ Head(demux[1]) = "video"
    <3>1. frames.sent - frames.taken >= Lookahead
      BY <1>1, <2>2, <2>5 DEF Y!Behind, Y!Room, Y!Shared, PlayInv, PlayTypes
    <3>2. s \in [1 .. Length -> Packets]
      BY <2>1 DEF Y!Streams, Length, Packets
    <3>3. i < Length /\ i \in Nat /\ i + 1 \in 1 .. Length /\ s[i + 1] = "video"
      BY <2>1, <2>5, StreamNext
    <3>4. /\ Y!Count(SubSeq(s, 1, i), "video") \in Nat
          /\ Y!Count(SubSeq(s, 1, i), "audio") \in Nat
          /\ Y!Count(SubSeq(s, 1, i + 1), "video") = Y!Count(SubSeq(s, 1, i), "video") + 1
          /\ Y!Count(SubSeq(s, 1, i + 1), "audio") = Y!Count(SubSeq(s, 1, i), "audio")
      BY <2>1, <2>5, <3>3, StreamNext
    <3>5. Y!Count(SubSeq(s, 1, i + 1), "video")
            <= Y!Count(SubSeq(s, 1, i + 1), "audio") + VideoLead
      BY <2>1, <3>2, <3>3 DEF Y!Streams
    <3>6. frames.sent + 1 <= sound.samples + VideoLead
      BY <2>1, <3>4, <3>5 DEF ReadUpTo, PlayInv, PlayTypes
    <3>7. Y!Waiting /\ shows.frame + 1 = frames.taken
      BY <3>1 DEF PlayInv, PlayTypes, WaitsWith, Y!Waiting
    <3>8. sound.samples < shows.frame
      BY <1>1, <3>7 DEF Y!Due, Y!Held, Y!Clock, Y!Effective, PlayInv, PlayTypes
    <3>9. frames.sent \in Nat /\ frames.taken \in Nat /\ shows.frame \in Nat
          /\ sound.samples \in Nat
      BY DEF PlayInv, PlayTypes
    <3> HIDE DEF PlayInv, PlayTypes
    <3> QED BY <3>1, <3>6, <3>7, <3>8, <3>9
  <2> QED BY <2>3, <2>4, <2>5
<1> QED BY <1>2, <1>3 DEF PlayInv, Demuxed

LEMMA TickKeeps == ASSUME VideoLead <= Lookahead + 2, PlayInv, Y!Tick PROVE PlayInv'
<1> USE PlaybackConstants
<1>1. UNCHANGED <<demux, fast, frames, slot, player>> /\ sound' = Y!Callback
  BY DEF Y!Tick
<1>2. /\ sound' \in [ring : Nat, samples : Nat, primed : BOOLEAN, active : BOOLEAN,
                     eof : BOOLEAN, videoReady : BOOLEAN, failed : BOOLEAN, underrun : BOOLEAN]
      /\ sound'.ring + sound'.samples = sound.ring + sound.samples
  <2>1. Y!Primed \in BOOLEAN
    BY DEF Y!Primed, PlayInv, PlayTypes
  <2>2. CASE sound.failed
    BY <1>1, <2>2 DEF Y!Callback, PlayInv, PlayTypes
  <2>3. CASE ~sound.failed /\ Y!Running /\ Y!Primed /\ sound.ring > 0
    <3>1. PICK r \in Nat : r = sound.ring - 1
      BY <2>3 DEF PlayInv, PlayTypes
    <3>2. PICK n \in Nat : n = sound.samples + 1
      BY DEF PlayInv, PlayTypes
    <3>3. sound' = [sound EXCEPT !.ring = r, !.samples = n, !.primed = TRUE]
      BY <1>1, <2>3, <3>1, <3>2 DEF Y!Callback
    <3>4. r + n = sound.ring + sound.samples
      <4>1. sound.ring \in Nat /\ sound.samples \in Nat
        BY DEF PlayInv, PlayTypes
      <4> QED BY <3>1, <3>2, <4>1
    <3> QED BY <3>1, <3>2, <3>3, <3>4 DEF PlayInv, PlayTypes
  <2>4. CASE ~sound.failed /\ Y!Running /\ Y!Primed /\ ~(sound.ring > 0)
    BY <1>1, <2>4 DEF Y!Callback, PlayInv, PlayTypes
  <2>5. CASE ~sound.failed /\ ~(Y!Running /\ Y!Primed)
    BY <1>1, <2>1, <2>5 DEF Y!Callback, PlayInv, PlayTypes
  <2> QED BY <2>2, <2>3, <2>4, <2>5
<1>3. /\ shows' \in [frame : Nat, initial : BOOLEAN, last : Nat, age : Nat, elapsed : Nat,
                     newest : Nat, finished : BOOLEAN]
      /\ shows'.frame = shows.frame /\ shows'.newest = shows.newest
  <2>1. PICK a \in Nat : a = Y!Least(shows.age + 1, Frames + StallAfter)
    BY DEF Y!Least, PlayInv, PlayTypes
  <2>2. PICK e \in Nat : e = IF Y!Waiting THEN Y!Least(shows.elapsed + 1, Frames) ELSE shows.elapsed
    BY DEF Y!Least, PlayInv, PlayTypes
  <2>3. sound'.samples \in Nat
    BY <1>2
  <2>4. shows' = IF Y!Waiting /\ Y!Held THEN [shows EXCEPT !.age = 0]
                 ELSE Y!Polled([shows EXCEPT !.age = a, !.elapsed = e], sound'.samples)
    BY <2>1, <2>2 DEF Y!Tick
  <2> QED BY <2>1, <2>2, <2>3, <2>4 DEF Y!Polled, PlayInv, PlayTypes
<1>4. demux' \in Seq(Seq(Packets)) /\ Demuxed'
  BY <1>1, <1>2, ReadsNothing
<1>5. Y!NoGap'
  <2>1. SUFFICES ASSUME fast, ~sound.underrun PROVE ~sound'.underrun
    BY <1>1 DEF PlayInv, Y!NoGap
  <2>2. CASE ~sound.failed /\ Y!Running /\ Y!Primed /\ ~(sound.ring > 0)
    <3>1. ~Y!Due /\ (\A d \in DOMAIN demux : ~Y!Behind(d))
          /\ (Y!Waiting \/ (frames.taken = frames.sent /\ ~frames.closed))
      BY <2>1 DEF Y!Tick
    <3>2. sound.ring \in Nat
      BY DEF PlayInv, PlayTypes
    <3>3. sound.ring = 0
      BY <2>2, <3>2
    <3>4. sound.eof
      BY <2>2, <3>1, <3>3, NeverDry
    <3> QED BY <1>1, <2>1, <2>2, <3>4 DEF Y!Callback, PlayInv, PlayTypes
  <2>3. CASE ~(~sound.failed /\ Y!Running /\ Y!Primed /\ ~(sound.ring > 0))
    BY <1>1, <2>1, <2>3 DEF Y!Callback, PlayInv, PlayTypes
  <2> QED BY <2>2, <2>3
<1> QED BY <1>1, <1>2, <1>3, <1>4, <1>5 DEF PlayInv, PlayTypes, WaitsWith, Y!NewestShown

LEMMA OthersKeepPlay ==
  ASSUME PlayInv,
         Y!Take \/ Y!Show \/ Y!Finish \/ Y!Pause \/ Y!Stop \/ Y!DeviceFails \/ Y!Present
         \/ UNCHANGED Y!playVars
  PROVE  PlayInv'
<1> USE PlaybackConstants
<1>1. CASE Y!Take
  <2>1. frames'.sent = frames.sent /\ sound' = sound /\ demux' = demux
        /\ UNCHANGED <<fast, slot, player>> /\ frames'.taken = frames.taken + 1
        /\ frames' \in [sent : Nat, taken : Nat, closed : BOOLEAN]
    <3>1. PICK n \in Nat : n = frames.taken + 1
      BY DEF PlayInv, PlayTypes
    <3>2. frames' = [frames EXCEPT !.taken = n]
      BY <1>1, <3>1 DEF Y!Take
    <3> QED BY <1>1, <3>1, <3>2 DEF Y!Take, PlayInv, PlayTypes
  <2>2. /\ shows'.frame = frames.taken /\ shows'.newest = shows.newest
        /\ shows' \in [frame : Nat, initial : BOOLEAN, last : Nat, age : Nat, elapsed : Nat,
                       newest : Nat, finished : BOOLEAN]
    BY <1>1 DEF Y!Take, Y!Polled, PlayInv, PlayTypes
  <2>3. WaitsWith'
    BY <2>1, <2>2 DEF WaitsWith, PlayInv, PlayTypes
  <2>4. PlayTypes'
    BY <2>1, <2>2 DEF PlayInv, PlayTypes
  <2> QED BY <2>1, <2>2, <2>3, <2>4, ReadsNothing DEF PlayInv, Y!NoGap, Y!NewestShown
<1>2. CASE Y!Show
  <2>1. PlayTypes' /\ WaitsWith' /\ Y!NoGap' /\ Y!NewestShown'
    BY <1>2 DEF Y!Show, Y!Put, Y!NoFrame, PlayInv, PlayTypes, WaitsWith, Y!NoGap, Y!NewestShown
  <2> QED BY <1>2, <2>1, ReadsNothing DEF PlayInv, Y!Show
<1>3. CASE Y!Finish
  <2>1. PlayTypes' /\ WaitsWith' /\ Y!NoGap' /\ Y!NewestShown'
    BY <1>3 DEF Y!Finish, Y!NoFrame, PlayInv, PlayTypes, WaitsWith, Y!NoGap, Y!NewestShown
  <2> QED BY <1>3, <2>1, ReadsNothing DEF PlayInv, Y!Finish
<1>4. CASE Y!Pause
  <2>1. PlayTypes' /\ WaitsWith' /\ Y!NoGap' /\ Y!NewestShown'
    <3>1. PICK n \in Nat : n = IF player.paused THEN player.troubles ELSE player.troubles + 1
      BY DEF PlayInv, PlayTypes
    <3>2. player' = [player EXCEPT !.paused = ~@, !.troubles = n]
      BY <1>4, <3>1 DEF Y!Pause
    <3>3. player' \in [paused : BOOLEAN, cancelled : BOOLEAN, troubles : Nat]
      BY <3>1, <3>2 DEF PlayInv, PlayTypes
    <3> QED BY <1>4, <3>3 DEF Y!Pause, PlayInv, PlayTypes, WaitsWith, Y!NoGap, Y!NewestShown
  <2> QED BY <1>4, <2>1, ReadsNothing DEF PlayInv, Y!Pause
<1>5. CASE Y!Stop
  <2>1. /\ player' \in [paused : BOOLEAN, cancelled : BOOLEAN, troubles : Nat]
        /\ UNCHANGED <<demux, fast, frames, sound, shows, slot>>
    BY <1>5 DEF Y!Stop, PlayInv, PlayTypes
  <2>2. PlayTypes' /\ WaitsWith' /\ Y!NoGap' /\ Y!NewestShown'
    BY <2>1 DEF PlayInv, PlayTypes, WaitsWith, Y!NoGap, Y!NewestShown
  <2> QED BY <2>1, <2>2, ReadsNothing DEF PlayInv
<1>6. CASE Y!DeviceFails
  <2>1. PlayTypes' /\ WaitsWith' /\ Y!NoGap' /\ Y!NewestShown'
        /\ sound'.ring = sound.ring /\ sound'.samples = sound.samples
    <3>1. PICK n \in Nat : n = player.troubles + 1
      BY DEF PlayInv, PlayTypes
    <3>2. player' = [player EXCEPT !.troubles = n]
      BY <1>6, <3>1 DEF Y!DeviceFails
    <3>3. player' \in [paused : BOOLEAN, cancelled : BOOLEAN, troubles : Nat]
      BY <3>1, <3>2 DEF PlayInv, PlayTypes
    <3> QED BY <1>6, <3>3 DEF Y!DeviceFails, PlayInv, PlayTypes, WaitsWith, Y!NoGap,
                              Y!NewestShown
  <2> QED BY <1>6, <2>1, ReadsNothing DEF PlayInv, Y!DeviceFails
<1>7. CASE Y!Present
  <2>1. PlayTypes' /\ WaitsWith' /\ Y!NoGap' /\ Y!NewestShown'
    BY <1>7 DEF Y!Present, Y!NoFrame, PlayInv, PlayTypes, WaitsWith, Y!NoGap, Y!NewestShown
  <2> QED BY <1>7, <2>1, ReadsNothing DEF PlayInv, Y!Present
<1>8. CASE UNCHANGED Y!playVars
  <2>1. PlayTypes' /\ WaitsWith' /\ Y!NoGap' /\ Y!NewestShown'
    BY <1>8 DEF Y!playVars, PlayInv, PlayTypes, WaitsWith, Y!NoGap, Y!NewestShown
  <2> QED BY <1>8, <2>1, ReadsNothing DEF PlayInv, Y!playVars
<1> QED BY <1>1, <1>2, <1>3, <1>4, <1>5, <1>6, <1>7, <1>8

LEMMA PlayStep == ASSUME VideoLead <= Lookahead + 2
                  PROVE  PlayInv /\ [Y!PlayNext]_Y!playVars => PlayInv'
BY DecoderKeeps, TickKeeps, OthersKeepPlay DEF Y!PlayNext

-----------------------------------------------------------------------------
(* Packets of a live canvas. *)

\* How many messages of a kind and a generation are on their way.
One(m, kind, g) == IF m.kind = kind /\ m.gen = g THEN 1 ELSE 0
Tally(q, kind, g) == [i \in DOMAIN q |-> One(q[i], kind, g)]

LEMMA TallyType == ASSUME NEW A, NEW q \in Seq(A), NEW kind, NEW g
                   PROVE  Tally(q, kind, g) \in Amounts
BY DEF Tally, One, Amounts

LEMMA TallyNone ==
  ASSUME NEW A, NEW q \in Seq(A), NEW kind, NEW g, NEW a \in Nat, NEW b \in Nat, a <= b,
         \A i \in DOMAIN q : ~(q[i].kind = kind /\ q[i].gen = g)
  PROVE  Pays(Tally(q, kind, g), a, b)
<1>1. \A i \in DOMAIN Tally(q, kind, g) : Tally(q, kind, g)[i] = 0
  BY DEF Tally, One
<1> QED BY <1>1, TallyType, PaysNothing

LEMMA TallyOn ==
  ASSUME NEW A, NEW q \in Seq(A), NEW m \in A, NEW kind, NEW g, NEW a \in Nat, NEW b \in Nat,
         Pays(Tally(q, kind, g), a, b)
  PROVE  Pays(Tally(Append(q, m), kind, g), a, b + One(m, kind, g))
<1> DEFINE r == Append(q, m)
<1>1. r \in Seq(A) /\ Len(r) = Len(q) + 1 /\ r[Len(q) + 1] = m /\ DOMAIN q = 1 .. Len(q)
      /\ DOMAIN r = 1 .. (Len(q) + 1) /\ Len(q) \in Nat
      /\ \A i \in DOMAIN q : r[i] = q[i]
  OBVIOUS
<1> HIDE DEF r
<1>2. Tally(q, kind, g) \in Amounts /\ Tally(r, kind, g) \in Amounts
  BY <1>1, TallyType
<1>3. Longer(Tally(q, kind, g), Tally(r, kind, g), One(m, kind, g))
  <2>1. Len(Tally(q, kind, g)) = Len(q) /\ Len(Tally(r, kind, g)) = Len(r)
    BY <1>1 DEF Tally
  <2>2. \A i \in DOMAIN q : Tally(r, kind, g)[i] = Tally(q, kind, g)[i]
    BY <1>1 DEF Tally
  <2>3. Tally(r, kind, g)[Len(q) + 1] = One(m, kind, g)
    BY <1>1 DEF Tally
  <2>4. DOMAIN Tally(q, kind, g) = DOMAIN q
    BY DEF Tally
  <2> QED BY <1>1, <2>1, <2>2, <2>3, <2>4 DEF Longer
<1>4. One(m, kind, g) \in Nat
  BY DEF One
<1>5. Pays(Tally(r, kind, g), a, b + One(m, kind, g))
  BY <1>2, <1>3, <1>4, PaysOn
<1> QED BY <1>5 DEF r

LEMMA TallyOff ==
  ASSUME NEW A, NEW q \in Seq(A), q # <<>>, NEW kind, NEW g, NEW a \in Nat, NEW b \in Nat,
         Pays(Tally(q, kind, g), a, b)
  PROVE  Pays(Tally(Tail(q), kind, g), a + One(Head(q), kind, g), b)
<1> DEFINE r == Tail(q)
<1>1. r \in Seq(A) /\ Len(q) = Len(r) + 1 /\ q[1] = Head(q) /\ DOMAIN q = 1 .. Len(q)
      /\ DOMAIN r = 1 .. Len(r) /\ Len(r) \in Nat /\ 1 \in DOMAIN q
      /\ \A i \in DOMAIN r : r[i] = q[i + 1] /\ i + 1 \in DOMAIN q
  OBVIOUS
<1> HIDE DEF r
<1>2. Tally(q, kind, g) \in Amounts /\ Tally(r, kind, g) \in Amounts
  BY <1>1, TallyType
<1>3. Shorter(Tally(q, kind, g), Tally(r, kind, g))
  <2>1. Len(Tally(q, kind, g)) = Len(q) /\ Len(Tally(r, kind, g)) = Len(r)
    BY <1>1 DEF Tally
  <2>2. \A i \in DOMAIN r : Tally(r, kind, g)[i] = Tally(q, kind, g)[i + 1]
    BY <1>1 DEF Tally
  <2>3. DOMAIN Tally(r, kind, g) = DOMAIN r
    BY DEF Tally
  <2> QED BY <1>1, <2>1, <2>2, <2>3 DEF Shorter
<1>4. Tally(q, kind, g)[1] = One(Head(q), kind, g)
  BY <1>1 DEF Tally
<1>5. Pays(Tally(r, kind, g), a + One(Head(q), kind, g), b)
  BY <1>2, <1>3, <1>4, PaysOff
<1> QED BY <1>5 DEF r

\* n messages more.
LEMMA TallyMany ==
  ASSUME NEW A, NEW q \in Seq(A), NEW m \in A, NEW n \in Nat, NEW kind, NEW g,
         NEW a \in Nat, NEW b \in Nat, Pays(Tally(q, kind, g), a, b)
  PROVE  Pays(Tally(q \o [i \in 1 .. n |-> m], kind, g), a, b + n)
<1> DEFINE r == q \o [i \in 1 .. n |-> m]
           t == Tally(q, kind, g)
           u == Tally(r, kind, g)
<1>1. PICK l \in Nat : l = Len(q)
  OBVIOUS
<1>2. DOMAIN q = 1 .. l /\ r \in Seq(A) /\ Len(r) = l + n /\ DOMAIN r = 1 .. (l + n)
      /\ (\A i \in 1 .. l : r[i] = q[i]) /\ \A i \in (l + 1) .. (l + n) : r[i] = m
  <2>1. [i \in 1 .. n |-> m] \in Seq(A) /\ Len([i \in 1 .. n |-> m]) = n
    OBVIOUS
  <2> QED BY <1>1, <2>1
<1> HIDE DEF r
<1>3. Len(t) = l /\ Len(u) = l + n /\ (\A i \in 1 .. l : u[i] = t[i])
      /\ \A i \in (l + 1) .. (l + n) : u[i] <= 1 /\ u[i] \in Nat
  BY <1>1, <1>2 DEF Tally, One
<1>4. PICK f \in [0 .. l -> Nat] :
        /\ a <= f[0] /\ f[l] <= b
        /\ \A i, j \in 0 .. l : i <= j => f[i] <= f[j]
        /\ \A i \in 1 .. l : f[i - 1] + t[i] <= f[i]
  BY <1>3 DEF Pays
<1> HIDE DEF t, u
<1> DEFINE h == [i \in 0 .. (l + n) |-> IF i <= l THEN f[i] ELSE f[l] + (i - l)]
<1>6. f[0] \in Nat /\ f[l] \in Nat
  BY <1>4
<1>5. h \in [0 .. (l + n) -> Nat] /\ (\A i \in 0 .. l : h[i] = f[i])
      /\ \A i \in l .. (l + n) : h[i] = f[l] + (i - l)
  <2>1. \A i \in 0 .. l : h[i] = f[i] /\ h[i] \in Nat
    BY <1>4
  <2>2. ASSUME NEW i \in l .. (l + n) PROVE h[i] = f[l] + (i - l) /\ h[i] \in Nat
    <3>1. CASE i = l
      BY <1>6, <3>1
    <3>2. CASE i # l
      BY <1>6, <3>2
    <3> QED BY <3>1, <3>2
  <2>3. \A i \in 0 .. (l + n) : i \in 0 .. l \/ i \in l .. (l + n)
    OBVIOUS
  <2>4. h \in [0 .. (l + n) -> Nat]
    BY <2>1, <2>2, <2>3
  <2> QED BY <2>1, <2>2, <2>4
<1> HIDE DEF h
<1>7. a <= h[0] /\ h[l + n] <= b + n
  BY <1>4, <1>5, <1>6
<1>8. ASSUME NEW i \in 0 .. (l + n), NEW j \in 0 .. (l + n), i <= j PROVE h[i] <= h[j]
  <2>1. CASE j <= l
    <3>1. i \in 0 .. l /\ j \in 0 .. l
      BY <1>8, <2>1
    <3>2. f[i] <= f[j] /\ h[i] = f[i] /\ h[j] = f[j]
      BY <1>4, <1>5, <1>8, <3>1
    <3> QED BY <3>2
  <2>2. CASE i > l
    BY <1>5, <1>6, <1>8, <2>2
  <2>3. CASE i <= l /\ j > l
    <3>1. h[i] = f[i] /\ f[i] <= f[l] /\ f[i] \in Nat /\ h[j] = f[l] + (j - l)
      BY <1>4, <1>5, <2>3
    <3> QED BY <1>6, <2>3, <3>1
  <2> QED BY <2>1, <2>2, <2>3
<1>9. ASSUME NEW i \in 1 .. (l + n) PROVE h[i - 1] + u[i] <= h[i]
  <2>1. CASE i <= l
    BY <1>3, <1>4, <1>5, <2>1
  <2>2. CASE i > l
    <3>1. h[i - 1] = f[l] + ((i - 1) - l) /\ h[i] = f[l] + (i - l)
      BY <1>5, <2>2
    <3>2. u[i] <= 1 /\ u[i] \in Nat
      BY <1>3, <2>2
    <3> QED BY <1>6, <2>2, <3>1, <3>2
  <2> QED BY <2>1, <2>2
<1>10. Pays(u, a, b + n)
  BY <1>3, <1>5, <1>7, <1>8, <1>9 DEF Pays
<1> QED BY <1>10 DEF u, r

\* The places of a queue that grows, and of one that shrinks.
LEMMA AppendPlaces ==
  ASSUME NEW A, NEW q \in Seq(A), NEW m \in A
  PROVE  /\ Append(q, m) \in Seq(A) /\ Len(Append(q, m)) = Len(q) + 1
         /\ DOMAIN Append(q, m) = DOMAIN q \cup {Len(q) + 1} /\ Len(q) + 1 \notin DOMAIN q
         /\ \A i \in DOMAIN q : Append(q, m)[i] = q[i] /\ i < Len(q) + 1 /\ i \in Nat
         /\ Append(q, m)[Len(q) + 1] = m
OBVIOUS

LEMMA TailPlaces ==
  ASSUME NEW A, NEW q \in Seq(A), q # <<>>
  PROVE  /\ Tail(q) \in Seq(A) /\ Len(Tail(q)) = Len(q) - 1 /\ Head(q) \in A /\ Head(q) = q[1]
         /\ 1 \in DOMAIN q
         /\ \A i \in DOMAIN Tail(q) : i + 1 \in DOMAIN q /\ Tail(q)[i] = q[i + 1] /\ i \in Nat
                                      /\ 1 < i + 1
         /\ \A i, j \in DOMAIN Tail(q) : i < j => i + 1 < j + 1
OBVIOUS

LEMMA ConcatPlaces ==
  ASSUME NEW A, NEW q \in Seq(A), NEW r \in Seq(A)
  PROVE  /\ q \o r \in Seq(A) /\ Len(q \o r) = Len(q) + Len(r)
         /\ \A i \in DOMAIN (q \o r) :
              \/ i \in DOMAIN q /\ (q \o r)[i] = q[i]
              \/ i - Len(q) \in DOMAIN r /\ (q \o r)[i] = r[i - Len(q)]
OBVIOUS

ToVideo == [kind : {"open", "packet", "close"}, gen : Nat \ {0}]
             \cup [kind : {"window"}, gen : Nat \ {0}, frames : 1 .. FrameWindow]
FromVideo == [kind : {"credit", "error"}, gen : Nat \ {0}]
KioskType == kiosk \in [gen : Nat, credit : Nat]
WireType == videoWire \in Seq(ToVideo)
BackType == videoBack \in Seq(FromVideo) /\ Len(videoBack) <= VideoWireRoom
VideoSet == [gen : Nat, outstanding : Nat, permitted : Nat, window : 1 .. FrameWindow,
             pipelined : BOOLEAN, shrunk : BOOLEAN, failed : BOOLEAN, dropping : BOOLEAN,
             next : Nat]
VideoType == video \in VideoSet
DecoderType == decoder \in [step : {"starts", "waits", "has", "ended"}, input : Nat,
                            output : {<<>>, <<"frame">>, <<"error">>}, open : BOOLEAN,
                            broken : Nat]
LEMMA WireMessages ==
  ASSUME WireType PROVE \A i \in DOMAIN videoWire : videoWire[i] \in ToVideo
                                                  /\ videoWire[i].gen \in Nat \ {0}
<1>1. ASSUME NEW i \in DOMAIN videoWire PROVE videoWire[i] \in ToVideo
  BY DEF WireType
<1> QED BY <1>1 DEF ToVideo
LEMMA BackMessages ==
  ASSUME BackType PROVE \A i \in DOMAIN videoBack : videoBack[i] \in FromVideo
                                                  /\ videoBack[i].gen \in Nat \ {0}
<1>1. ASSUME NEW i \in DOMAIN videoBack PROVE videoBack[i] \in FromVideo
  BY DEF BackType
<1> QED BY <1>1 DEF FromVideo

VideoTypes == KioskType /\ WireType /\ BackType /\ VideoType /\ DecoderType

\* Videos are opened in the order of their generations, each once.
Opens ==
  /\ kiosk.credit > 0 => kiosk.gen > 0
  /\ video.gen <= kiosk.gen /\ video.next <= kiosk.gen
  /\ \A i \in DOMAIN videoBack : videoBack[i].gen <= kiosk.gen
  /\ \A i \in DOMAIN videoWire :
       /\ videoWire[i].gen <= kiosk.gen
       /\ videoWire[i].kind = "open" => videoWire[i].gen > video.gen /\ videoWire[i].gen > video.next
  /\ \A i, j \in DOMAIN videoWire :
       i < j /\ videoWire[i].kind = "open" /\ videoWire[j].kind = "open"
         => videoWire[i].gen < videoWire[j].gen

\* Before a video is open there is nothing of it.
Quiet(g) == /\ \A i \in DOMAIN videoWire : ~(videoWire[i].kind = "packet" /\ videoWire[i].gen = g)
            /\ \A i \in DOMAIN videoBack : ~(videoBack[i].kind = "credit" /\ videoBack[i].gen = g)
            /\ kiosk.gen = g => kiosk.credit = 0
Expected(g) == \/ \E i \in DOMAIN videoWire : videoWire[i].kind = "open" /\ videoWire[i].gen = g
               \/ video.dropping /\ video.next = g
Unopened == \A g \in Nat \ {0} : Expected(g) => Quiet(g)

\* What is permitted covers the packets on the way, the credits the application holds and those
\* on the way to it.
Mine(g) == IF kiosk.gen = g THEN kiosk.credit ELSE 0
Covers(d, m, x) == /\ d + video.permitted = x
                   /\ Pays(Tally(videoWire, "packet", video.gen), d, m)
                   /\ Pays(Tally(videoBack, "credit", video.gen), m + Mine(video.gen), x)
On == video.gen > 0 /\ ~video.dropping
Covered == On => \E d, m, x \in Nat : Covers(d, m, x)

\* What is outstanding is in the decoder's input, in its hands or in its output; with what is
\* permitted it fits the window, unless the window was made smaller meanwhile.
Working == On => /\ decoder.open
                 /\ decoder.input + (IF decoder.step = "has" THEN 1 ELSE 0)
                      + (IF decoder.output = <<"frame">> THEN 1 ELSE 0) <= video.outstanding
                 /\ video.outstanding + video.permitted <= FrameWindow
                 /\ ~video.shrunk => video.outstanding + video.permitted <= video.window
Sound == decoder.broken = 0 => /\ video.failed => video.shrunk
                               /\ On => decoder.step # "ended" /\ decoder.output # <<"error">>
VideoInv == VideoTypes /\ Opens /\ Unopened /\ Covered /\ Working /\ Sound

LEMMA VideoConstants == FrameWindow \in Nat \ {0} /\ VideoWireRoom \in Nat \ {0}
BY TransfersAssumption DEF V!CanvasVideoAssumption

LEMMA VideoStart == V!VideoInit => VideoInv
<1> SUFFICES ASSUME V!VideoInit PROVE VideoInv
  OBVIOUS
<1>1. VideoTypes
  BY VideoConstants DEF V!VideoInit, V!NoVideo, V!NoDecoder, VideoTypes, KioskType, WireType,
                        BackType, VideoType, VideoSet, DecoderType
<1>2. DOMAIN videoWire = {} /\ DOMAIN videoBack = {}
  BY DEF V!VideoInit
<1> QED BY <1>1, <1>2 DEF V!VideoInit, V!NoVideo, V!NoDecoder, VideoInv, Opens, Unopened, Covered,
                          On, Working, Sound, Expected

\* The application sends what is not a packet.
LEMMA KioskSends ==
  ASSUME VideoInv, NEW m \in ToVideo, videoWire' = Append(videoWire, m), m.kind # "packet",
         UNCHANGED <<video, decoder, videoBack>>,
         kiosk' \in [gen : Nat, credit : Nat], m.gen = kiosk'.gen,
         \/ kiosk'.gen = kiosk.gen /\ kiosk'.credit <= kiosk.credit /\ m.kind # "open"
         \/ kiosk'.gen = kiosk.gen + 1 /\ kiosk'.credit = 0
  PROVE  VideoInv'
<1>1. KioskType /\ WireType /\ BackType /\ VideoType /\ DecoderType
  BY DEF VideoInv, VideoTypes
<1> DEFINE l == Len(videoWire) + 1
<1>2. /\ videoWire' \in Seq(ToVideo) /\ DOMAIN videoWire' = DOMAIN videoWire \cup {l}
      /\ l \notin DOMAIN videoWire /\ videoWire'[l] = m
      /\ \A i \in DOMAIN videoWire : videoWire'[i] = videoWire[i] /\ i < l /\ i \in Nat
  BY <1>1, AppendPlaces DEF WireType
<1>3. l \in Nat
  BY <1>1 DEF WireType
<1> HIDE DEF l
<1>4. kiosk.gen \in Nat /\ kiosk.credit \in Nat /\ kiosk'.gen \in Nat /\ kiosk'.credit \in Nat
      /\ video.gen \in Nat /\ video.next \in Nat
  BY <1>1 DEF KioskType, VideoType, VideoSet
<1>5. \A i \in DOMAIN videoWire : videoWire[i].gen \in Nat
  BY <1>1, WireMessages
<1>6. \A i \in DOMAIN videoBack : videoBack[i].gen \in Nat
  BY <1>1, BackMessages
<1>7. VideoTypes'
  BY <1>1, <1>2 DEF VideoTypes, KioskType, WireType, BackType, VideoType, DecoderType
<1>8. Opens'
  <2>1. Opens
    BY DEF VideoInv
  <2>2. kiosk'.credit > 0 => kiosk'.gen > 0
    BY <1>4, <2>1 DEF Opens
  <2>3. video'.gen <= kiosk'.gen /\ video'.next <= kiosk'.gen
    BY <1>4, <2>1 DEF Opens
  <2>4. \A i \in DOMAIN videoBack' : videoBack'[i].gen <= kiosk'.gen
    BY <1>4, <1>6, <2>1 DEF Opens
  <2>5. ASSUME NEW i \in DOMAIN videoWire'
        PROVE  /\ videoWire'[i].gen <= kiosk'.gen
               /\ videoWire'[i].kind = "open" => /\ videoWire'[i].gen > video'.gen
                                                 /\ videoWire'[i].gen > video'.next
    <3>1. CASE i \in DOMAIN videoWire
      BY <1>2, <1>4, <1>5, <2>1, <3>1 DEF Opens
    <3>2. CASE i = l
      BY <1>2, <1>4, <2>1, <3>2 DEF Opens
    <3> QED BY <1>2, <3>1, <3>2
  <2>6. ASSUME NEW i \in DOMAIN videoWire', NEW j \in DOMAIN videoWire', i < j,
               videoWire'[i].kind = "open", videoWire'[j].kind = "open"
        PROVE  videoWire'[i].gen < videoWire'[j].gen
    <3>1. CASE i \in DOMAIN videoWire /\ j \in DOMAIN videoWire
      BY <1>2, <2>1, <2>6, <3>1 DEF Opens
    <3>2. CASE i \in DOMAIN videoWire /\ j = l
      BY <1>2, <1>4, <1>5, <2>1, <2>6, <3>2 DEF Opens
    <3>3. CASE i = l
      BY <1>2, <1>3, <2>6, <3>3
    <3> QED BY <1>2, <3>1, <3>2, <3>3
  <2> QED BY <2>2, <2>3, <2>4, <2>5, <2>6 DEF Opens
<1>9. ASSUME NEW g \in Nat, g <= kiosk.gen, Quiet(g) PROVE Quiet(g)'
  BY <1>2, <1>4, <1>9 DEF Quiet
<1>10. Unopened'
  <2>1. SUFFICES ASSUME NEW g \in Nat \ {0}, Expected(g)' PROVE Quiet(g)'
    BY DEF Unopened
  <2>2. CASE Expected(g)
    <3>1. Quiet(g) /\ g <= kiosk.gen
      BY <2>2 DEF VideoInv, Unopened, Opens, Expected
    <3> QED BY <1>9, <3>1
  <2>3. CASE ~Expected(g)
    <3>1. g = m.gen /\ m.kind = "open"
      BY <1>2, <2>1, <2>3 DEF Expected
    <3>2. g = kiosk.gen + 1 /\ kiosk'.credit = 0
      BY <1>4, <3>1
    <3>3. \A k \in DOMAIN videoWire' : videoWire'[k].kind = "packet"
            => videoWire'[k].gen <= kiosk.gen /\ videoWire'[k].gen \in Nat
      BY <1>2, <1>5 DEF VideoInv, Opens
    <3>4. \A k \in DOMAIN videoBack' : videoBack'[k].gen <= kiosk.gen /\ videoBack'[k].gen \in Nat
      BY <1>6 DEF VideoInv, Opens
    <3> QED BY <1>4, <3>2, <3>3, <3>4 DEF Quiet
  <2> QED BY <2>2, <2>3
<1>11. Covered'
  <2>1. SUFFICES ASSUME On PROVE \E d, m1, x \in Nat : Covers(d, m1, x)'
    BY DEF Covered, On
  <2>2. PICK d \in Nat, m1 \in Nat, x \in Nat : Covers(d, m1, x)
    BY <2>1 DEF VideoInv, Covered
  <2>3. One(m, "packet", video.gen) = 0
    BY DEF One
  <2>4. Pays(Tally(videoWire', "packet", video.gen), d, m1 + 0)
    BY <1>1, <2>2, <2>3, TallyOn DEF Covers, WireType
  <2>5. Mine(video.gen) \in Nat /\ Mine(video.gen)' \in Nat /\ Mine(video.gen)' <= Mine(video.gen)
    <3>1. video.gen <= kiosk.gen
      BY DEF VideoInv, Opens
    <3> QED BY <1>4, <3>1 DEF Mine
  <2>6. Tally(videoBack, "credit", video.gen) \in Amounts
    BY <1>1, TallyType DEF BackType
  <2>7. Pays(Tally(videoBack, "credit", video.gen), m1 + Mine(video.gen)', x)
    <3>1. m1 + Mine(video.gen) \in Nat /\ m1 + Mine(video.gen)' \in Nat
          /\ m1 + Mine(video.gen)' <= m1 + Mine(video.gen)
      BY <2>5
    <3> QED BY <2>2, <2>6, <3>1, PaysWeaker DEF Covers
  <2>8. Covers(d, m1, x)'
    BY <2>2, <2>4, <2>7 DEF Covers
  <2> QED BY <2>8
<1> QED BY <1>7, <1>8, <1>10, <1>11 DEF VideoInv, Working, Sound, On

LEMMA SendKeeps == ASSUME VideoInv, V!SendPacket, UNCHANGED <<video, decoder, videoBack>>
                   PROVE  VideoInv'
<1> DEFINE m == V!Video("packet", kiosk.gen)
           l == Len(videoWire) + 1
<1>1. KioskType /\ WireType /\ BackType /\ VideoType /\ DecoderType
  BY DEF VideoInv, VideoTypes
<1>2. kiosk.gen \in Nat \ {0} /\ kiosk.credit \in Nat \ {0} /\ video.gen \in Nat
  BY <1>1 DEF V!SendPacket, VideoInv, Opens, KioskType, VideoType, VideoSet
<1>3. PICK c \in Nat : c = kiosk.credit - 1
  BY <1>2
<1>4. kiosk' = [kiosk EXCEPT !.credit = c] /\ videoWire' = Append(videoWire, m)
  BY <1>3 DEF V!SendPacket, V!Kiosk
<1>5. m \in ToVideo /\ m.kind = "packet" /\ m.gen = kiosk.gen
  BY <1>2 DEF V!Video, ToVideo
<1> HIDE DEF m
<1>6. /\ videoWire' \in Seq(ToVideo) /\ DOMAIN videoWire' = DOMAIN videoWire \cup {l}
      /\ l \notin DOMAIN videoWire /\ videoWire'[l] = m
      /\ \A i \in DOMAIN videoWire : videoWire'[i] = videoWire[i]
  BY <1>1, <1>4, <1>5, AppendPlaces DEF WireType
<1> HIDE DEF l
<1>7. kiosk'.gen = kiosk.gen /\ kiosk'.credit = c /\ KioskType'
  BY <1>1, <1>4 DEF KioskType
<1>8. VideoTypes'
  BY <1>1, <1>6, <1>7 DEF VideoTypes, WireType, BackType, VideoType, DecoderType
<1>9. Opens'
  <2>1. Opens
    BY DEF VideoInv
  <2>2. \A i \in DOMAIN videoWire' :
          \/ i \in DOMAIN videoWire /\ videoWire'[i] = videoWire[i]
          \/ videoWire'[i].kind = "packet" /\ videoWire'[i].gen = kiosk.gen
    BY <1>5, <1>6
  <2>3. \A i \in DOMAIN videoWire' : videoWire'[i].kind = "open" => i \in DOMAIN videoWire
    BY <2>2
  <2> QED BY <1>2, <1>6, <1>7, <2>1, <2>2, <2>3 DEF Opens
<1>10. ASSUME NEW g \in Nat, Quiet(g) PROVE Quiet(g)'
  <2>1. g # kiosk.gen
    BY <1>2, <1>10 DEF Quiet
  <2> QED BY <1>5, <1>6, <1>7, <1>10, <2>1 DEF Quiet
<1>11. Unopened'
  <2>1. ASSUME NEW g \in Nat \ {0}, Expected(g)' PROVE Expected(g)
    BY <1>5, <1>6, <2>1 DEF Expected
  <2> QED BY <1>10, <2>1 DEF VideoInv, Unopened
<1>12. Covered'
  <2>1. SUFFICES ASSUME On PROVE \E d, n, x \in Nat : Covers(d, n, x)'
    BY DEF Covered, On
  <2>2. PICK d \in Nat, n \in Nat, x \in Nat : Covers(d, n, x)
    BY <2>1 DEF VideoInv, Covered
  <2>6. PICK k \in Nat : k = n + One(m, "packet", video.gen)
    BY DEF One
  <2>3. Pays(Tally(videoWire', "packet", video.gen), d, k)
    BY <2>6, <1>1, <1>4, <1>5, <2>2, TallyOn DEF Covers, WireType
  <2>4. k + Mine(video.gen)' = n + Mine(video.gen)
    BY <2>6, <1>2, <1>3, <1>5, <1>7 DEF One, Mine
  <2>5. Covers(d, k, x)'
    BY <2>2, <2>3, <2>4 DEF Covers
  <2> QED BY <2>5
<1> QED BY <1>8, <1>9, <1>11, <1>12 DEF VideoInv, Working, Sound, On

LEMMA TakeCreditKeeps == ASSUME VideoInv, V!TakeCredit, UNCHANGED <<video, decoder>>
                         PROVE  VideoInv'
<1> DEFINE m == Head(videoBack)
<1>1. KioskType /\ WireType /\ BackType /\ VideoType /\ DecoderType
  BY DEF VideoInv, VideoTypes
<1>2. kiosk.gen \in Nat /\ kiosk.credit \in Nat /\ video.gen \in Nat
  BY <1>1 DEF KioskType, VideoType, VideoSet
<1>3. videoBack' = Tail(videoBack) /\ videoBack # <<>> /\ videoWire' = videoWire
  BY DEF V!TakeCredit
<1>4. /\ videoBack' \in Seq(FromVideo) /\ Len(videoBack') = Len(videoBack) - 1 /\ m \in FromVideo
      /\ m = videoBack[1] /\ 1 \in DOMAIN videoBack
      /\ \A i \in DOMAIN videoBack' : i + 1 \in DOMAIN videoBack /\ videoBack'[i] = videoBack[i + 1]
  BY <1>1, <1>3, TailPlaces DEF BackType
<1>5. m.gen \in Nat \ {0} /\ m.kind \in {"credit", "error"}
  BY <1>4 DEF FromVideo
<1>6. PICK c \in Nat : c = IF m.kind = "credit" /\ m.gen = kiosk.gen
                           THEN kiosk.credit + 1 ELSE kiosk.credit
  BY <1>2
<1>7. m = V!Video("credit", kiosk.gen) <=> m.kind = "credit" /\ m.gen = kiosk.gen
  BY <1>4 DEF V!Video, FromVideo
<1>8. kiosk'.gen = kiosk.gen /\ kiosk'.credit = c /\ KioskType'
  <2>1. CASE m.kind = "credit" /\ m.gen = kiosk.gen
    <3>1. kiosk' = [kiosk EXCEPT !.credit = c]
      BY <1>6, <1>7, <2>1 DEF V!TakeCredit
    <3> QED BY <1>1, <3>1 DEF KioskType
  <2>2. CASE ~(m.kind = "credit" /\ m.gen = kiosk.gen)
    <3>1. kiosk' = kiosk
      BY <1>7, <2>2 DEF V!TakeCredit
    <3> QED BY <1>1, <1>6, <2>2, <3>1 DEF KioskType
  <2> QED BY <2>1, <2>2
<1> HIDE DEF m
<1>9. VideoTypes'
  <2>1. Len(videoBack) \in Nat /\ Len(videoBack) <= VideoWireRoom /\ VideoWireRoom \in Nat
    BY <1>1, VideoConstants DEF BackType
  <2> QED BY <1>1, <1>3, <1>4, <1>8, <2>1 DEF VideoTypes, WireType, BackType, VideoType, DecoderType
<1>10. Opens'
  BY <1>2, <1>3, <1>4, <1>5, <1>6, <1>8 DEF VideoInv, Opens
<1>11. ASSUME NEW g \in Nat, Quiet(g) PROVE Quiet(g)'
  <2>1. ~(m.kind = "credit" /\ m.gen = g)
    BY <1>4, <1>11 DEF Quiet
  <2> QED BY <1>3, <1>4, <1>6, <1>8, <1>11, <2>1 DEF Quiet
<1>12. Unopened'
  BY <1>3, <1>11 DEF VideoInv, Unopened, Expected
<1>13. Covered'
  <2>1. SUFFICES ASSUME On PROVE \E d, n, x \in Nat : Covers(d, n, x)'
    BY DEF Covered, On
  <2>2. PICK d \in Nat, n \in Nat, x \in Nat : Covers(d, n, x)
    BY <2>1 DEF VideoInv, Covered
  <2>3. Mine(video.gen) \in Nat /\ Mine(video.gen)' \in Nat
    BY <1>2, <1>8 DEF Mine
  <2>4. n + Mine(video.gen) \in Nat /\ n + Mine(video.gen)' \in Nat
        /\ n + Mine(video.gen) + One(m, "credit", video.gen) \in Nat
        /\ n + Mine(video.gen)' <= n + Mine(video.gen) + One(m, "credit", video.gen)
    BY <1>2, <1>6, <1>8, <2>3 DEF Mine, One
  <2>5. Pays(Tally(videoBack', "credit", video.gen),
             n + Mine(video.gen) + One(m, "credit", video.gen), x)
    BY <1>1, <1>3, <2>2, <2>4, TallyOff DEF Covers, BackType, m
  <2>6. Tally(videoBack', "credit", video.gen) \in Amounts
    BY <1>4, TallyType
  <2>7. Pays(Tally(videoBack', "credit", video.gen), n + Mine(video.gen)', x)
    BY <2>4, <2>5, <2>6, PaysWeaker
  <2>8. Covers(d, n, x)'
    BY <1>3, <2>2, <2>7 DEF Covers
  <2> QED BY <2>8
<1> QED BY <1>9, <1>10, <1>12, <1>13 DEF VideoInv, Working, Sound, On

LEMMA ApplicationKeeps == ASSUME VideoInv, V!Application PROVE VideoInv'
<1>1. kiosk \in [gen : Nat, credit : Nat]
  BY DEF VideoInv, VideoTypes, KioskType
<1>2. UNCHANGED <<video, decoder>>
  BY DEF V!Application
<1>3. CASE V!OpenVideo /\ UNCHANGED videoBack
  <2> DEFINE m == V!Video("open", kiosk.gen + 1)
  <2>1. PICK n \in Nat \ {0} : n = kiosk.gen + 1
    BY <1>1
  <2>2. kiosk' = [gen |-> n, credit |-> 0] /\ videoWire' = Append(videoWire, m)
    BY <1>3, <2>1 DEF V!OpenVideo, V!Kiosk
  <2>3. m \in ToVideo /\ m.kind = "open" /\ m.gen = n
    BY <2>1 DEF V!Video, ToVideo
  <2>4. kiosk' \in [gen : Nat, credit : Nat] /\ kiosk'.gen = n
        /\ kiosk'.credit = 0
    BY <2>2
  <2> HIDE DEF m
  <2> QED BY <1>2, <1>3, <2>1, <2>2, <2>3, <2>4, KioskSends
<1>4. CASE V!SetWindow /\ UNCHANGED videoBack
  <2>1. PICK n \in 1 .. FrameWindow : V!Kiosk(V!NewWindow(n), kiosk)
    BY <1>4 DEF V!SetWindow
  <2> DEFINE m == V!NewWindow(n)
  <2>2. kiosk' = kiosk /\ videoWire' = Append(videoWire, m) /\ kiosk.gen > 0
    BY <1>4, <2>1 DEF V!SetWindow, V!Kiosk
  <2>3. m \in ToVideo /\ m.kind = "window" /\ m.gen = kiosk.gen
    BY <1>1, <2>2 DEF V!NewWindow, ToVideo
  <2>4. kiosk.credit \in Nat /\ kiosk'.credit <= kiosk.credit
    BY <1>1, <2>2
  <2> HIDE DEF m
  <2> QED BY <1>1, <1>2, <1>4, <2>2, <2>3, <2>4, KioskSends
<1>5. CASE V!CloseVideo /\ UNCHANGED videoBack
  <2> DEFINE m == V!Video("close", kiosk.gen)
  <2>1. kiosk' = [kiosk EXCEPT !.credit = 0] /\ videoWire' = Append(videoWire, m)
        /\ kiosk.gen > 0
    BY <1>5 DEF V!CloseVideo, V!Kiosk
  <2>2. m \in ToVideo /\ m.kind = "close" /\ m.gen = kiosk.gen
    BY <1>1, <2>1 DEF V!Video, ToVideo
  <2>3. kiosk' \in [gen : Nat, credit : Nat] /\ kiosk'.gen = kiosk.gen
        /\ kiosk'.credit = 0 /\ kiosk.credit \in Nat
    BY <1>1, <2>1
  <2>4. kiosk'.credit <= kiosk.credit
    BY <2>3
  <2> HIDE DEF m
  <2> QED BY <1>2, <1>5, <2>1, <2>2, <2>3, <2>4, KioskSends
<1> QED BY <1>2, <1>3, <1>4, <1>5, SendKeeps, TakeCreditKeeps DEF V!Application

LEMMA JoinKeeps == ASSUME VideoInv, V!Join PROVE VideoInv'
<1> USE VideoConstants
<1>1. KioskType /\ WireType /\ BackType /\ VideoType /\ DecoderType
  BY DEF VideoInv, VideoTypes
<1>2. UNCHANGED <<kiosk, videoWire, videoBack>> /\ video.dropping
  BY DEF V!Join
<1>3. /\ VideoType' /\ video'.gen = video.next /\ video'.next = 0 /\ ~video'.dropping
      /\ ~video'.failed /\ video'.outstanding = 0 /\ video'.permitted = 0
      /\ video'.window = FrameWindow
  <2>1. video.next \in Nat /\ FrameWindow \in 1 .. FrameWindow
    BY <1>1 DEF VideoType, VideoSet
  <2>2. video' = [gen |-> video.next, outstanding |-> 0, permitted |-> 0, window |-> FrameWindow,
                  pipelined |-> FALSE, shrunk |-> FALSE, failed |-> FALSE, dropping |-> FALSE,
                  next |-> 0]
    BY DEF V!Join, V!NoVideo
  <2>3. 0 \in Nat /\ FALSE \in BOOLEAN
    OBVIOUS
  <2>4. VideoType'
    BY <2>1, <2>2, <2>3 DEF VideoType, VideoSet
  <2> QED BY <2>2, <2>4
<1>4. /\ DecoderType' /\ decoder'.input = 0 /\ decoder'.output = <<>> /\ decoder'.open
      /\ decoder'.step = (IF video.next = 0 THEN "ended" ELSE "starts")
  BY <1>1 DEF V!Join, V!NoDecoder, DecoderType
<1>5. video.next \in Nat /\ video.gen \in Nat /\ kiosk.gen \in Nat
  BY <1>1 DEF VideoType, VideoSet, KioskType
<1>6. Opens'
  <2>1. \A i \in DOMAIN videoWire : videoWire[i].gen \in Nat \ {0}
    BY <1>1, WireMessages
  <2> QED BY <1>2, <1>3, <1>5, <2>1 DEF VideoInv, Opens
<1>7. Unopened'
  <2>1. ASSUME NEW g \in Nat \ {0}, Expected(g)' PROVE Expected(g)
    BY <1>2, <1>3, <2>1 DEF Expected
  <2>2. ASSUME NEW g \in Nat \ {0}, Quiet(g) PROVE Quiet(g)'
    BY <1>2, <2>2 DEF Quiet
  <2> QED BY <2>1, <2>2 DEF VideoInv, Unopened
<1>8. Covered'
  <2>1. SUFFICES ASSUME On' PROVE Covers(0, 0, 0)'
    BY DEF Covered
  <2>2. Quiet(video.next) /\ video.next > 0
    BY <1>2, <1>3, <1>5, <2>1 DEF On, VideoInv, Unopened, Expected
  <2>3. Pays(Tally(videoWire, "packet", video.next), 0, 0)
    BY <1>1, <2>2, TallyNone DEF Quiet, WireType
  <2>4. Pays(Tally(videoBack, "credit", video.next), 0, 0)
    BY <1>1, <2>2, TallyNone DEF Quiet, BackType
  <2>5. Mine(video.gen)' = 0
    BY <1>2, <1>3, <2>2 DEF Mine, Quiet
  <2> QED BY <1>2, <1>3, <2>3, <2>4, <2>5 DEF Covers
<1>9. Working'
  BY <1>3, <1>4 DEF Working
<1>10. Sound'
  BY <1>3, <1>4, <1>5 DEF Sound, On
<1> QED BY <1>1, <1>2, <1>3, <1>4, <1>6, <1>7, <1>8, <1>9, <1>10
        DEF VideoInv, VideoTypes, KioskType, WireType, BackType

\* What the frontend's turn does to the messages when it takes one.
LEMMA WireTaken ==
  ASSUME VideoInv, videoWire # <<>>, videoWire' = Tail(videoWire), UNCHANGED <<kiosk, videoBack>>
  PROVE  /\ Head(videoWire) \in ToVideo /\ Head(videoWire).gen \in Nat \ {0} /\ WireType'
         /\ 1 \in DOMAIN videoWire /\ Head(videoWire) = videoWire[1]
         /\ \A i \in DOMAIN videoWire' : /\ i + 1 \in DOMAIN videoWire /\ i \in Nat /\ 1 < i + 1
                                         /\ videoWire'[i] = videoWire[i + 1]
         /\ \A i, j \in DOMAIN videoWire' : i < j => i + 1 < j + 1
         /\ \A g : Quiet(g) => Quiet(g)'
         /\ \A g, d \in Nat, n \in Nat : Pays(Tally(videoWire, "packet", g), d, n)
              => Pays(Tally(videoWire', "packet", g), d + One(Head(videoWire), "packet", g), n)
<1>1. videoWire \in Seq(ToVideo)
  BY DEF VideoInv, VideoTypes, WireType
<1>2. /\ Head(videoWire) \in ToVideo /\ WireType' /\ 1 \in DOMAIN videoWire
      /\ Head(videoWire) = videoWire[1]
  BY <1>1, TailPlaces DEF WireType
<1>3. \A i \in DOMAIN videoWire' : i + 1 \in DOMAIN videoWire /\ videoWire'[i] = videoWire[i + 1]
                                   /\ i \in Nat /\ 1 < i + 1
  BY <1>1, TailPlaces
<1>4. \A i, j \in DOMAIN videoWire' : i < j => i + 1 < j + 1
  BY <1>3
<1>5. ASSUME NEW g, Quiet(g) PROVE Quiet(g)'
  BY <1>3, <1>5 DEF Quiet
<1>6. ASSUME NEW g, NEW d \in Nat, NEW n \in Nat, Pays(Tally(videoWire, "packet", g), d, n)
      PROVE  Pays(Tally(videoWire', "packet", g), d + One(Head(videoWire), "packet", g), n)
  BY <1>1, <1>6, TallyOff
<1> QED BY <1>2, <1>3, <1>4, <1>5, <1>6 DEF ToVideo

LEMMA ReceiveKeeps == ASSUME VideoInv, V!Receive PROVE VideoInv'
<1> USE VideoConstants
<1> DEFINE m == Head(videoWire)
<1>1. KioskType /\ WireType /\ BackType /\ VideoType /\ DecoderType
  BY DEF VideoInv, VideoTypes
<1>2. /\ videoWire # <<>> /\ videoWire' = Tail(videoWire) /\ UNCHANGED <<kiosk, videoBack>>
      /\ ~video.dropping /\ ~video.failed
  BY DEF V!Receive, V!Free
<1>3. /\ m \in ToVideo /\ m.gen \in Nat \ {0} /\ WireType'
      /\ 1 \in DOMAIN videoWire /\ m = videoWire[1]
      /\ \A i \in DOMAIN videoWire' : /\ i + 1 \in DOMAIN videoWire /\ i \in Nat /\ 1 < i + 1
                                      /\ videoWire'[i] = videoWire[i + 1]
      /\ \A i, j \in DOMAIN videoWire' : i < j => i + 1 < j + 1
      /\ \A g : Quiet(g) => Quiet(g)'
      /\ \A g, d \in Nat, n \in Nat : Pays(Tally(videoWire, "packet", g), d, n)
           => Pays(Tally(videoWire', "packet", g), d + One(m, "packet", g), n)
  BY <1>2, WireTaken
<1>4. /\ kiosk.gen \in Nat /\ video.gen \in Nat /\ video.next \in Nat /\ video.permitted \in Nat
      /\ video.outstanding \in Nat /\ video.window \in 1 .. FrameWindow
      /\ video.shrunk \in BOOLEAN
  BY <1>1 DEF KioskType, VideoType, VideoSet
<1> HIDE DEF m
\* The generation stays, or a video is dropped for the next.
<1>5. ASSUME video'.gen = video.gen, video'.next = video.next, ~video'.dropping PROVE Opens' /\ Unopened'
  <2>1. Opens'
    BY <1>2, <1>3, <1>5 DEF VideoInv, Opens
  <2>2. ASSUME NEW g \in Nat \ {0}, Expected(g)' PROVE Expected(g)
    BY <1>2, <1>3, <1>5, <2>2 DEF Expected
  <2> QED BY <1>3, <2>1, <2>2 DEF VideoInv, Unopened
<1>6. ASSUME NEW g \in Nat, V!Dropped(g), g = 0 \/ (g = m.gen /\ m.kind = "open") PROVE VideoInv'
  <2>1. /\ VideoType' /\ video'.gen = video.gen /\ video'.next = g /\ video'.dropping
        /\ video'.failed = video.failed /\ video'.shrunk = video.shrunk
    BY <1>1, <1>6 DEF V!Dropped, VideoType, VideoSet
  <2>2. DecoderType' /\ decoder'.broken = decoder.broken
    BY <1>1, <1>6 DEF V!Dropped, DecoderType
  <2>3. Opens'
    <3>1. \A i \in DOMAIN videoWire' : videoWire'[i].gen \in Nat \ {0}
      BY <1>3, WireMessages, <1>1
    <3>2. g <= kiosk.gen
      BY <1>3, <1>4, <1>6 DEF VideoInv, Opens
    <3>3. \A i \in DOMAIN videoWire' : videoWire'[i].kind = "open" => videoWire'[i].gen > g
      BY <1>3, <1>6, <3>1 DEF VideoInv, Opens
    <3> QED BY <1>2, <1>3, <2>1, <3>2, <3>3 DEF VideoInv, Opens
  <2>4. Unopened'
    <3>1. ASSUME NEW h \in Nat \ {0}, Expected(h)' PROVE Expected(h)
      BY <1>2, <1>3, <1>6, <2>1, <3>1 DEF Expected
    <3> QED BY <1>3, <3>1 DEF VideoInv, Unopened
  <2> QED BY <1>1, <1>2, <1>3, <2>1, <2>2, <2>3, <2>4
          DEF VideoInv, VideoTypes, KioskType, BackType, Covered, Working, Sound, On
<1>7. ASSUME VideoType', UNCHANGED decoder, video'.gen = video.gen, video'.next = video.next,
             ~video'.dropping, video'.permitted = video.permitted, Working', Sound',
             ~(m.kind = "packet" /\ m.gen = video.gen)
      PROVE  VideoInv'
  <2>1. Covered'
    <3>1. SUFFICES ASSUME On PROVE \E d, n, x \in Nat : Covers(d, n, x)'
      BY <1>2, <1>7 DEF Covered, On
    <3>2. PICK d \in Nat, n \in Nat, x \in Nat : Covers(d, n, x)
      BY <3>1 DEF VideoInv, Covered
    <3>3. One(m, "packet", video.gen) = 0 /\ d + 0 = d
      BY <1>7 DEF One
    <3>4. Pays(Tally(videoWire', "packet", video.gen), d, n)
      BY <1>3, <1>4, <3>2, <3>3 DEF Covers
    <3>5. Covers(d, n, x)'
      BY <1>2, <1>7, <3>2, <3>4 DEF Covers, Mine
    <3> QED BY <3>5
  <2>2. VideoTypes'
    BY <1>1, <1>2, <1>3, <1>7 DEF VideoTypes, KioskType, BackType, DecoderType
  <2> QED BY <1>5, <1>7, <2>1, <2>2 DEF VideoInv
<1>8. CASE m.kind = "window" /\ video' = V!Adopted(m.frames) /\ UNCHANGED decoder
  <2>1. m.frames \in 1 .. FrameWindow
    BY <1>3, <1>8 DEF ToVideo
  <2>2. PICK b \in BOOLEAN :
          b = (video.shrunk \/ m.frames < video.outstanding + video.permitted)
    OBVIOUS
  <2>3. video' = [video EXCEPT !.window = m.frames, !.pipelined = TRUE, !.shrunk = b]
    BY <1>4, <1>8, <2>2 DEF V!Adopted
  <2>4. /\ VideoType' /\ video'.gen = video.gen /\ video'.next = video.next
        /\ video'.dropping = video.dropping /\ video'.failed = video.failed
        /\ video'.permitted = video.permitted /\ video'.outstanding = video.outstanding
        /\ video'.window = m.frames /\ video'.shrunk = b
    BY <1>1, <2>1, <2>3 DEF VideoType, VideoSet
  <2>5. Working'
    <3>1. SUFFICES ASSUME On' PROVE Working'
      BY DEF Working
    <3>2. On
      BY <2>4, <3>1 DEF On
    <3>3. video.outstanding \in Nat /\ video.permitted \in Nat /\ m.frames \in Nat
      BY <1>1, <2>1 DEF VideoType, VideoSet
    <3>4. ~b => video.outstanding + video.permitted <= m.frames
      <4>1. ~b => ~(m.frames < video.outstanding + video.permitted)
        BY Zenon, <2>2
      <4>2. ~(m.frames < video.outstanding + video.permitted)
              => video.outstanding + video.permitted <= m.frames
        BY <3>3
      <4> QED BY <4>1, <4>2
    <3>5. /\ decoder.open
          /\ decoder.input + (IF decoder.step = "has" THEN 1 ELSE 0)
               + (IF decoder.output = <<"frame">> THEN 1 ELSE 0) <= video.outstanding
          /\ video.outstanding + video.permitted <= FrameWindow
      BY <3>2 DEF VideoInv, Working
    <3> HIDE DEF VideoInv
    <3> QED BY <1>8, <2>4, <3>4, <3>5 DEF Working
  <2>6. Sound'
    BY <1>2, <1>8, <2>4 DEF VideoInv, Sound, On
  <2> QED BY <1>2, <1>7, <1>8, <2>4, <2>5, <2>6
<1>9. CASE m.kind # "open" /\ m.gen # video.gen /\ UNCHANGED <<video, decoder>>
  <2>1. Working' /\ Sound' /\ VideoType'
    BY <1>1, <1>9 DEF VideoInv, Working, Sound, On, VideoType
  <2> QED BY <1>2, <1>7, <1>9, <2>1
<1>10. CASE m.kind = "packet" /\ m.gen = video.gen /\ V!TakePacket
  <2>1. On
    BY <1>2, <1>3, <1>4, <1>10 DEF On
  <2>2. PICK d \in Nat, n \in Nat, x \in Nat : Covers(d, n, x)
    BY <2>1 DEF VideoInv, Covered
  <2>3. One(m, "packet", video.gen) = 1
    BY <1>10 DEF One
  <2>4. Pays(Tally(videoWire', "packet", video.gen), d + 1, n)
    BY <1>3, <1>4, <2>2, <2>3 DEF Covers
  <2>5. Mine(video.gen) \in Nat
    BY <1>1, <1>4 DEF Mine, KioskType
  <2>6. d + 1 <= n /\ n + Mine(video.gen) <= x /\ n + Mine(video.gen) \in Nat
    <3>1. Tally(videoWire', "packet", video.gen) \in Amounts
          /\ Tally(videoBack, "credit", video.gen) \in Amounts
      BY <1>1, <1>3, TallyType DEF WireType, BackType
    <3>2. n + Mine(video.gen) \in Nat /\ d + 1 \in Nat
      BY <2>5
    <3> QED BY <2>2, <2>4, <3>1, <3>2, PaysMeans DEF Covers
  <2>7. video.permitted > 0
    BY <1>4, <2>2, <2>5, <2>6 DEF Covers
  <2>8. /\ decoder.input \in Nat /\ decoder.input <= video.outstanding
        /\ video.outstanding + video.permitted <= FrameWindow
        /\ ~video.shrunk => video.outstanding + video.permitted <= video.window
    BY <1>1, <1>4, <2>1 DEF VideoInv, Working, DecoderType
  <2>9. DecoderType' /\ decoder'.broken = decoder.broken /\ decoder'.step = decoder.step
        /\ decoder'.output = decoder.output /\ decoder'.open = decoder.open
    <3>1. PICK k \in Nat : k = decoder.input + 1
      BY <2>8
    <3>2. decoder' = decoder \/ decoder' = [decoder EXCEPT !.input = k]
      BY <1>10, <3>1 DEF V!TakePacket
    <3> QED BY <1>1, <3>1, <3>2 DEF DecoderType
  <2>10. CASE ~V!Allowed \/ decoder.step = "ended" \/ decoder.input = FrameWindow
    <3>1. decoder.broken # 0 \/ video.shrunk
      BY <1>4, <2>1, <2>7, <2>8, <2>10 DEF V!Allowed, VideoInv, Sound
    <3>2. /\ VideoType' /\ video'.gen = video.gen /\ video'.next = video.next /\ ~video'.dropping
          /\ video'.permitted = video.permitted /\ video'.outstanding = video.outstanding
          /\ video'.window = video.window /\ video'.shrunk = video.shrunk
          /\ decoder' = decoder
      BY <1>1, <1>2, <1>10, <2>10 DEF V!TakePacket, VideoType, VideoSet
    <3>3. Covered'
      <4>1. d + 1 \in Nat /\ d <= d + 1 /\ Tally(videoWire', "packet", video.gen) \in Amounts
        BY <1>3, TallyType DEF WireType
      <4>2. Pays(Tally(videoWire', "packet", video.gen), d, n)
        BY <2>4, <4>1, PaysWeaker
      <4>3. Covers(d, n, x)'
        BY <1>2, <2>2, <3>2, <4>2 DEF Covers, Mine
      <4> QED BY <4>3 DEF Covered
    <3>4. Working' /\ Sound'
      BY <2>1, <3>1, <3>2 DEF VideoInv, Working, Sound, On
    <3> QED BY <1>1, <1>2, <1>3, <1>5, <2>9, <3>2, <3>3, <3>4
            DEF VideoInv, VideoTypes, KioskType, BackType
  <2>11. CASE ~(~V!Allowed \/ decoder.step = "ended" \/ decoder.input = FrameWindow)
    <3>1. PICK o \in Nat : o = video.outstanding + 1
      BY <1>4
    <3>2. PICK p \in Nat : p = video.permitted - 1
      BY <1>4, <2>7
    <3>3. video' = [video EXCEPT !.outstanding = o, !.permitted = p]
          /\ decoder' = [decoder EXCEPT !.input = @ + 1]
      BY <1>10, <2>11, <3>1, <3>2 DEF V!TakePacket
    <3>4. /\ VideoType' /\ video'.gen = video.gen /\ video'.next = video.next /\ ~video'.dropping
          /\ video'.permitted = p /\ video'.outstanding = o /\ video'.failed = video.failed
          /\ video'.window = video.window /\ video'.shrunk = video.shrunk
      BY <1>1, <1>2, <3>3 DEF VideoType, VideoSet
    <3>5. decoder'.input = decoder.input + 1
      BY <1>1, <3>3 DEF DecoderType
    <3>6. Covered'
      <4>1. PICK k \in Nat : k = d + 1
        OBVIOUS
      <4>2. k + p = x
        BY <1>4, <2>2, <3>2, <4>1 DEF Covers
      <4>3. Covers(k, n, x)'
        BY <1>2, <2>2, <2>4, <3>4, <4>1, <4>2 DEF Covers, Mine
      <4> QED BY <4>3 DEF Covered
    <3>7. Working'
      BY <1>4, <2>1, <2>8, <2>9, <3>1, <3>2, <3>4, <3>5 DEF VideoInv, Working, On
    <3>8. Sound'
      BY <2>1, <2>9, <3>4 DEF VideoInv, Sound
    <3>9. VideoTypes'
      BY <1>1, <1>2, <1>3, <2>9, <3>4 DEF VideoTypes, KioskType, BackType
    <3>10. Opens' /\ Unopened'
      BY <1>5, <3>4
    <3> QED BY <3>6, <3>7, <3>8, <3>9, <3>10 DEF VideoInv
  <2> QED BY <2>10, <2>11
<1>11. \/ m.kind = "open" /\ V!Dropped(m.gen)
       \/ V!Dropped(0)
       \/ m.kind = "window" /\ video' = V!Adopted(m.frames) /\ UNCHANGED decoder
       \/ m.kind = "packet" /\ m.gen = video.gen /\ V!TakePacket
       \/ m.kind # "open" /\ m.gen # video.gen /\ UNCHANGED <<video, decoder>>
  BY DEF V!Receive, m
<1>12. CASE m.kind = "open" /\ V!Dropped(m.gen)
  <2>1. m.gen \in Nat
    BY <1>3
  <2> QED BY <1>6, <1>12, <2>1
<1>13. CASE V!Dropped(0)
  BY <1>6, <1>13
<1> QED BY <1>8, <1>9, <1>10, <1>11, <1>12, <1>13

LEMMA VideoTickKeeps == ASSUME VideoInv, V!Tick PROVE VideoInv'
<1> USE VideoConstants
<1> DEFINE taken == decoder.output # <<>>
           error == taken /\ Head(decoder.output) = "error"
           room == VideoWireRoom - Len(videoBack)
           shown == [video EXCEPT !.outstanding = IF taken /\ ~error THEN @ - 1 ELSE @]
           n == IF V!Owed(shown) < room THEN V!Owed(shown) ELSE room
<1>1. KioskType /\ WireType /\ BackType /\ VideoType /\ DecoderType
  BY DEF VideoInv, VideoTypes
<1>2. /\ UNCHANGED <<kiosk, videoWire>> /\ On /\ ~video.dropping /\ ~video.failed
  BY DEF V!Tick, V!Free, On
<1>3. /\ kiosk.gen \in Nat /\ video.gen \in Nat /\ video.next \in Nat /\ video.permitted \in Nat
      /\ video.outstanding \in Nat /\ video.window \in 1 .. FrameWindow /\ kiosk.credit \in Nat
      /\ video.gen > 0 /\ video.gen <= kiosk.gen
  BY <1>1, <1>2 DEF KioskType, VideoType, VideoSet, On, VideoInv, Opens
<1>4. room \in Nat
  BY <1>1 DEF BackType
<1>5. CASE error
  <2> DEFINE m == V!Video("error", video.gen)
  <2>1. room > 0 /\ V!Dropped(0) /\ videoBack' = Append(videoBack, m)
    BY <1>5 DEF V!Tick
  <2>2. m \in FromVideo /\ m.gen = video.gen /\ m.kind = "error"
    BY <1>3 DEF V!Video, FromVideo
  <2> HIDE DEF m
  <2>3. /\ videoBack' \in Seq(FromVideo) /\ Len(videoBack') = Len(videoBack) + 1
        /\ \A i \in DOMAIN videoBack' : \/ i \in DOMAIN videoBack /\ videoBack'[i] = videoBack[i]
                                        \/ videoBack'[i] = m
    BY <1>1, <2>1, <2>2, AppendPlaces DEF BackType
  <2>4. BackType'
    BY <1>1, <1>4, <2>1, <2>3 DEF BackType
  <2>5. /\ VideoType' /\ video'.gen = video.gen /\ video'.next = 0 /\ video'.dropping
        /\ video'.failed = video.failed /\ video'.shrunk = video.shrunk
    BY <1>1, <2>1 DEF V!Dropped, VideoType, VideoSet
  <2>6. DecoderType' /\ decoder'.broken = decoder.broken
    BY <1>1, <2>1 DEF V!Dropped, DecoderType
  <2>7. Opens'
    <3>1. \A i \in DOMAIN videoWire : videoWire[i].gen \in Nat \ {0}
      BY <1>1, WireMessages
    <3> QED BY <1>2, <1>3, <2>2, <2>3, <2>5, <3>1 DEF VideoInv, Opens
  <2>8. Unopened'
    <3>1. ASSUME NEW g \in Nat \ {0}, Expected(g)' PROVE Expected(g) /\ (Quiet(g) => Quiet(g)')
      BY <1>2, <2>2, <2>3, <2>5, <3>1 DEF Expected, Quiet
    <3> QED BY <3>1 DEF VideoInv, Unopened
  <2> QED BY <1>1, <1>2, <2>4, <2>5, <2>6, <2>7, <2>8
          DEF VideoInv, VideoTypes, KioskType, WireType, Covered, Working, Sound, On
<1>6. CASE ~error
  <2>1. /\ video' = [shown EXCEPT !.permitted = @ + n] /\ decoder' = [decoder EXCEPT !.output = <<>>]
        /\ videoBack' = videoBack \o [i \in 1 .. n |-> V!Video("credit", video.gen)]
    BY <1>6 DEF V!Tick
  <2>2. taken => decoder.output = <<"frame">>
    BY <1>1, <1>6 DEF DecoderType
  <2>3. PICK o \in Nat : /\ o = IF taken THEN video.outstanding - 1 ELSE video.outstanding
                         /\ decoder.input + (IF decoder.step = "has" THEN 1 ELSE 0) <= o
                         /\ o + video.permitted <= FrameWindow
                         /\ ~video.shrunk => o + video.permitted <= video.window
    <3>1. decoder.input \in Nat
      BY <1>1 DEF DecoderType
    <3>2. PICK h \in Nat : h = (IF decoder.step = "has" THEN 1 ELSE 0)
      OBVIOUS
    <3>3. PICK f \in Nat : f = (IF decoder.output = <<"frame">> THEN 1 ELSE 0)
      OBVIOUS
    <3>4. /\ decoder.input + h + f <= video.outstanding
          /\ video.outstanding + video.permitted <= FrameWindow
          /\ ~video.shrunk => video.outstanding + video.permitted <= video.window
      BY <1>2, <3>2, <3>3 DEF VideoInv, Working
    <3>5. CASE taken
      <4>1. decoder.input + h + 1 <= video.outstanding
        BY <2>2, <3>3, <3>4, <3>5
      <4>2. PICK o \in Nat : o = video.outstanding - 1
        BY <1>3, <3>1, <4>1
      <4>3. decoder.input + h <= o
        BY <1>3, <3>1, <4>1, <4>2
      <4>4. o + video.permitted <= FrameWindow
        BY <1>3, <3>4, <4>2
      <4>5. ~video.shrunk => o + video.permitted <= video.window
        <5>1. video.outstanding + video.permitted <= video.window
                => o + video.permitted <= video.window
          BY <1>3, <4>2
        <5> QED BY <3>4, <5>1
      <4> HIDE DEF taken
      <4> QED BY <3>2, <3>5, <4>2, <4>3, <4>4, <4>5
    <3>6. CASE ~taken
      <4>1. decoder.input + h <= video.outstanding
        BY <1>3, <3>1, <3>3, <3>4
      <4> HIDE DEF taken
      <4> QED BY <1>3, <3>2, <3>4, <3>6, <4>1
    <3> HIDE DEF taken
    <3> QED BY <3>5, <3>6
  <2>4. /\ shown = [video EXCEPT !.outstanding = o]
    BY <1>6, <2>3
  <2>5. /\ shown.outstanding = o /\ shown.permitted = video.permitted
        /\ shown.window = video.window /\ shown.shrunk = video.shrunk
        /\ shown.gen = video.gen /\ shown.next = video.next /\ shown.failed = video.failed
        /\ shown.dropping = video.dropping /\ shown.pipelined \in BOOLEAN /\ shown \in VideoSet
    BY <1>1, <2>4 DEF VideoType, VideoSet
  <2> HIDE DEF shown
  <2>6. PICK w \in Nat : /\ w = V!Owed(shown) /\ o + video.permitted + w <= FrameWindow
                         /\ ~video.shrunk => o + video.permitted + w <= video.window
    <3>1. V!Owed(shown) = IF o + video.permitted >= video.window THEN 0
                          ELSE IF shown.pipelined THEN video.window - o - video.permitted
                          ELSE IF video.permitted = 0 THEN 1 ELSE 0
      BY <2>5 DEF V!Owed
    <3>2. /\ o \in Nat /\ video.permitted \in Nat /\ o + video.permitted <= FrameWindow
          /\ ~video.shrunk => o + video.permitted <= video.window
      BY <1>3, <2>3
    <3>3. CASE o + video.permitted >= video.window
      BY <3>1, <3>2, <3>3
    <3>4. CASE ~(o + video.permitted >= video.window)
      BY <1>3, <3>1, <3>2, <3>4
    <3> QED BY <3>3, <3>4
  <2>7. n \in Nat /\ n <= w /\ n <= room
    BY <1>4, <2>6
  <2> HIDE DEF n, room
  <2>8. PICK p \in Nat : p = video.permitted + n
    BY <1>3, <2>7
  <2>9. /\ VideoType' /\ video'.gen = video.gen /\ video'.next = video.next
        /\ video'.failed = video.failed /\ video'.dropping = video.dropping
        /\ video'.outstanding = o /\ video'.permitted = p
        /\ video'.window = video.window /\ video'.shrunk = video.shrunk
    <3>1. video' = [shown EXCEPT !.permitted = p]
      BY <2>1, <2>5, <2>8 DEF VideoSet
    <3> QED BY <2>5, <3>1 DEF VideoType, VideoSet
  <2>10. /\ DecoderType' /\ decoder'.input = decoder.input /\ decoder'.step = decoder.step
         /\ decoder'.open = decoder.open /\ decoder'.broken = decoder.broken
         /\ decoder'.output = <<>>
    BY <1>1, <2>1 DEF DecoderType
  <2> DEFINE m == V!Video("credit", video.gen)
             more == [i \in 1 .. n |-> m]
  <2>11. m \in FromVideo /\ m.gen = video.gen
    BY <1>3 DEF V!Video, FromVideo
  <2>12. videoBack' = videoBack \o more
    BY <2>1
  <2> HIDE DEF m
  <2>13. /\ videoBack' \in Seq(FromVideo) /\ Len(videoBack') = Len(videoBack) + n
         /\ \A i \in DOMAIN videoBack' : \/ i \in DOMAIN videoBack /\ videoBack'[i] = videoBack[i]
                                         \/ videoBack'[i] = m
    <3>1. more \in Seq(FromVideo) /\ Len(more) = n /\ \A i \in DOMAIN more : more[i] = m
      BY <2>7, <2>11
    <3> HIDE DEF more
    <3>2. videoBack \in Seq(FromVideo) /\ Len(videoBack) \in Nat
      BY <1>1 DEF BackType
    <3>3. /\ videoBack \o more \in Seq(FromVideo)
          /\ Len(videoBack \o more) = Len(videoBack) + Len(more)
          /\ \A i \in DOMAIN (videoBack \o more) :
               \/ i \in DOMAIN videoBack /\ (videoBack \o more)[i] = videoBack[i]
               \/ /\ i - Len(videoBack) \in DOMAIN more
                  /\ (videoBack \o more)[i] = more[i - Len(videoBack)]
      BY <3>1, <3>2, ConcatPlaces
    <3> QED BY <2>12, <3>1, <3>3
  <2>14. BackType'
    BY <1>1, <2>7, <2>13 DEF BackType, room
  <2>15. Opens'
    <3>1. \A i \in DOMAIN videoBack' : videoBack'[i].gen <= kiosk.gen
      BY <1>3, <2>11, <2>13 DEF VideoInv, Opens
    <3> QED BY <1>2, <2>9, <3>1 DEF VideoInv, Opens
  <2>16. Unopened'
    <3>1. ASSUME NEW g \in Nat \ {0}, Expected(g)' PROVE Expected(g) /\ g # video.gen
      <4>1. Expected(g)
        BY <1>2, <2>9, <3>1 DEF Expected
      <4> QED BY <1>2, <1>3, <4>1 DEF Expected, VideoInv, Opens
    <3>2. ASSUME NEW g \in Nat \ {0}, g # video.gen, Quiet(g) PROVE Quiet(g)'
      BY <1>2, <2>11, <2>13, <3>2 DEF Quiet
    <3> QED BY <3>1, <3>2 DEF VideoInv, Unopened
  <2>17. Covered'
    <3>1. PICK d \in Nat, k \in Nat, x \in Nat : Covers(d, k, x)
      BY <1>2 DEF VideoInv, Covered
    <3>2. PICK y \in Nat : y = x + n
      BY <2>7
    <3>3. Mine(video.gen) \in Nat /\ k + Mine(video.gen) \in Nat
      BY <1>3 DEF Mine
    <3>4. Pays(Tally(videoBack', "credit", video.gen), k + Mine(video.gen), y)
      <4>1. Pays(Tally(videoBack, "credit", video.gen), k + Mine(video.gen), x)
            /\ videoBack \in Seq(FromVideo)
        BY <1>1, <3>1 DEF Covers, BackType
      <4>2. Pays(Tally(videoBack \o [i \in 1 .. n |-> m], "credit", video.gen),
                 k + Mine(video.gen), x + n)
        BY <2>7, <2>11, <3>3, <4>1, TallyMany
      <4> QED BY <2>12, <3>2, <4>2
    <3>5. d + p = y
      BY <1>3, <2>7, <2>8, <3>1, <3>2 DEF Covers
    <3>6. Covers(d, k, y)'
      BY <1>2, <2>9, <3>1, <3>4, <3>5 DEF Covers, Mine
    <3> QED BY <3>6 DEF Covered
  <2>18. Working'
    <3>1. decoder.input \in Nat /\ decoder.open
      BY <1>1, <1>2 DEF DecoderType, VideoInv, Working
    <3>2. o + p <= FrameWindow /\ (~video.shrunk => o + p <= video.window)
      BY <1>3, <2>6, <2>7, <2>8
    <3> QED BY <2>3, <2>9, <2>10, <3>1, <3>2 DEF Working
  <2>19. Sound'
    BY <1>2, <2>9, <2>10 DEF VideoInv, Sound, On
  <2> QED BY <1>1, <1>2, <2>9, <2>10, <2>14, <2>15, <2>16, <2>17, <2>18, <2>19
          DEF VideoInv, VideoTypes, KioskType, WireType
<1> QED BY <1>5, <1>6

LEMMA DecoderRuns == ASSUME VideoInv, V!Decode \/ V!Break \/ UNCHANGED V!videoVars PROVE VideoInv'
<1>1. KioskType /\ WireType /\ BackType /\ VideoType /\ DecoderType
  BY DEF VideoInv, VideoTypes
<1>2. UNCHANGED <<kiosk, videoWire, video, videoBack>>
  BY DEF V!Decode, V!Break, V!videoVars
<1>3. decoder.input \in Nat /\ decoder.broken \in Nat /\ video.outstanding \in Nat
  BY <1>1 DEF DecoderType, VideoType, VideoSet
<1>4. DecoderType' /\ Working' /\ Sound'
  <2>1. CASE V!Take
    <3>1. PICK k \in Nat : k = decoder.input - 1
      BY <1>3, <2>1 DEF V!Take
    <3>2. decoder' = [decoder EXCEPT !.step = "has", !.input = k] /\ decoder.step = "waits"
      BY <2>1, <3>1 DEF V!Take
    <3>3. /\ DecoderType' /\ decoder'.step = "has" /\ decoder'.input = k
          /\ decoder'.output = decoder.output /\ decoder'.open = decoder.open
          /\ decoder'.broken = decoder.broken
      BY <1>1, <3>2 DEF DecoderType
    <3> QED BY <1>2, <1>3, <3>1, <3>2, <3>3 DEF VideoInv, Working, Sound, On
  <2>2. CASE V!Publish
    <3>1. CASE decoder.open
      <4>1. /\ DecoderType' /\ decoder'.step = "waits" /\ decoder'.input = decoder.input
            /\ decoder'.output = <<"frame">> /\ decoder'.open = decoder.open
            /\ decoder'.broken = decoder.broken /\ decoder.output = <<>> /\ decoder.step = "has"
        BY <1>1, <2>2, <3>1 DEF V!Publish, DecoderType
      <4> QED BY <1>2, <1>3, <4>1 DEF VideoInv, Working, Sound, On
    <3>2. CASE ~decoder.open
      <4>1. /\ DecoderType' /\ decoder'.broken = decoder.broken /\ ~On
        BY <1>1, <2>2, <3>2 DEF V!Publish, DecoderType, VideoInv, Working
      <4> QED BY <1>2, <4>1 DEF VideoInv, Working, Sound, On
    <3> QED BY <3>1, <3>2
  <2>3. CASE V!Ends
    <3>1. /\ DecoderType' /\ decoder'.broken = decoder.broken /\ ~On
      BY <1>1, <2>3 DEF V!Ends, DecoderType, VideoInv, Working
    <3> QED BY <1>2, <3>1 DEF VideoInv, Working, Sound, On
  <2>4. CASE V!Breaks
    <3>1. PICK k \in Nat : k = decoder.broken + 1
      BY <1>3
    <3>2. decoder' = [decoder EXCEPT !.step = "ended", !.broken = k, !.input = 0,
                        !.output = IF decoder.open /\ @ = <<>> THEN <<"error">> ELSE @]
      BY <2>4, <3>1 DEF V!Breaks
    <3>3. /\ DecoderType' /\ decoder'.broken = k /\ decoder'.input = 0
          /\ decoder'.open = decoder.open /\ decoder'.step = "ended"
          /\ decoder'.output = <<"error">> \/ decoder'.output = decoder.output
      BY <1>1, <3>2 DEF DecoderType
    <3>4. k # 0
      BY <1>3, <3>1
    <3>5. Working'
      BY <1>2, <1>3, <3>3 DEF VideoInv, Working, On
    <3> QED BY <3>3, <3>4, <3>5 DEF Sound
  <2>5. CASE UNCHANGED decoder
    BY <1>1, <1>2, <2>5 DEF DecoderType, VideoInv, Working, Sound, On
  <2>6. CASE V!Starts
    <3>1. /\ DecoderType' /\ decoder'.step = "waits" /\ decoder'.input = decoder.input
          /\ decoder'.output = decoder.output /\ decoder'.open = decoder.open
          /\ decoder'.broken = decoder.broken /\ decoder.step = "starts"
      BY <1>1, <2>6 DEF V!Starts, DecoderType
    <3> QED BY <1>2, <1>3, <3>1 DEF VideoInv, Working, Sound, On
  <2> QED BY <2>1, <2>2, <2>3, <2>4, <2>5, <2>6 DEF V!Decode, V!Break, V!videoVars
<1>5. Opens' /\ Unopened'
  BY <1>2 DEF VideoInv, Opens, Unopened, Expected, Quiet
<1>6. Covered'
  <2>1. ASSUME NEW d \in Nat, NEW n \in Nat, NEW x \in Nat, Covers(d, n, x)
        PROVE  Covers(d, n, x)'
    BY <1>2, <2>1 DEF Covers, Mine
  <2> QED BY <1>2, <2>1 DEF VideoInv, Covered, On
<1> QED BY <1>1, <1>2, <1>4, <1>5, <1>6
        DEF VideoInv, VideoTypes, KioskType, WireType, BackType, VideoType

LEMMA VideoStep == VideoInv /\ [V!VideoNext]_V!videoVars => VideoInv'
BY ApplicationKeeps, JoinKeeps, ReceiveKeeps, VideoTickKeeps, DecoderRuns DEF V!VideoNext

LEMMA VideoMeans == VideoInv => V!CreditFits
<1>1. VideoInv => decoder.broken \in Nat
  BY DEF VideoInv, VideoTypes, DecoderType
<1> QED BY <1>1 DEF VideoInv, Sound, V!CreditFits
-----------------------------------------------------------------------------
(* A song of another machine. *)

SongMsg == [kind : {"open", "cache", "chunk", "end", "close", "pause"}, epoch : Nat, n : Nat]
SingerMsg == [kind : {"credit", "ready", "finished", "error"}, epoch : Nat, n : Nat]
SingerSet == [epoch : Nat, credit : Nat, sent : Nat, ended : BOOLEAN,
              heard : {"nothing", "ready", "finished", "error"}, failures : Nat]
SongSet == [epoch : Nat, cacheMode : BOOLEAN, paused : BOOLEAN, stop : BOOLEAN, blocks : Seq(Nat),
            spool : {"ended", "runs", "failing"}, stored : Seq(Nat), finished : BOOLEAN,
            play : {"ended", "opens", "plays"}, ring : Seq(Nat), played : Seq(Nat), credits : Nat,
            events : Seq({"ready", "finished", "error"}), pending : Nat,
            event : {"none", "ready", "finished", "error"}, dead : BOOLEAN]
SongTypes == /\ singer \in SingerSet /\ song \in SongSet
             /\ pcmWire \in Seq(SongMsg) /\ pcmBack \in Seq(SingerMsg)

\* Songs are opened in the order of their epochs, each once; a song that is not open yet has
\* nothing of it on its way but what the host says of it by itself.
Unsung(e) ==
  /\ song.epoch < e /\ e <= singer.epoch
  /\ \A i \in DOMAIN pcmWire : pcmWire[i].epoch = e => pcmWire[i].kind \notin {"chunk", "end"}
  /\ \A i \in DOMAIN pcmBack : pcmBack[i].epoch # e
  /\ singer.epoch = e => singer.credit = 0 /\ singer.sent = 0 /\ ~singer.ended
Begun ==
  /\ song.epoch <= singer.epoch
  /\ \A i \in DOMAIN pcmBack : 0 < pcmBack[i].epoch /\ pcmBack[i].epoch <= singer.epoch
  /\ \A i \in DOMAIN pcmWire : /\ 0 < pcmWire[i].epoch /\ pcmWire[i].epoch <= singer.epoch
                               /\ pcmWire[i].kind = "chunk" => pcmWire[i].n <= SongBlocks
                               /\ pcmWire[i].kind = "open" => Unsung(pcmWire[i].epoch)
  /\ \A i, j \in DOMAIN pcmWire : i < j /\ pcmWire[i].kind = "open" /\ pcmWire[j].kind = "open"
                                    => pcmWire[i].epoch < pcmWire[j].epoch
\* Blocks that the device has played, that its ring holds and that are in the cache, in a row.
Rung == Len(song.played) + Len(song.ring)
Spooled == Rung + Len(song.stored)
Taken == Spooled + Len(song.blocks)
Got == IF song.finished THEN SongBlocks + 1 ELSE Taken
Alive == song.epoch > 0 /\ ~song.dead /\ ~song.stop /\ song.spool # "failing"
InRow ==
  /\ \A i \in DOMAIN song.played : song.played[i] = i
  /\ \A i \in DOMAIN song.ring : song.ring[i] = Len(song.played) + i
  /\ \A i \in DOMAIN song.stored : song.stored[i] = Rung + i
  /\ song.finished => Spooled = SongBlocks /\ song.spool = "ended" /\ song.blocks = <<>>
  /\ song.play = "opens" => Spooled = 0
  /\ song.epoch = 0 => song.spool = "ended" /\ song.play = "ended" /\ song.ring = <<>> /\ song.stored = <<>>
  /\ Alive => /\ song.spool = "ended" => song.finished
              /\ song.spool = "runs" => \A i \in DOMAIN song.blocks :
                   song.blocks[i] = IF Spooled + i = SongBlocks + 1 THEN S!End ELSE Spooled + i

\* What the receiver may still be sent, and what of it is not on the wire.
Portion(e, m) == IF m.epoch # e THEN {} ELSE IF m.kind = "chunk" THEN {m.n}
                 ELSE IF m.kind = "end" THEN {SongBlocks + 1} ELSE {}
Portions(e, s) == [i \in 1 .. Len(s) |-> Portion(e, s[i])]
Behind(n) == {k \in 1 .. (SongBlocks + 1) : k > n}
Sent == singer.sent + (IF singer.ended THEN 1 ELSE 0)
Claimed == song.play # "opens" /\ \A i \in DOMAIN song.events : song.events[i] # "ready"
Allowed == (IF Claimed THEN PcmWindow ELSE 0) + (IF song.cacheMode THEN Spooled ELSE Rung)
Leftover == {k \in Behind(Got) : \A i \in DOMAIN pcmWire : k \notin Portion(song.epoch, pcmWire[i])}
Flowing(y) ==
  /\ Leads(TRUE, Portions(song.epoch, pcmWire), Behind(Got), y)
  /\ \A k \in 1 .. (SongBlocks + 1) : k > Allowed => k \in y
  /\ singer.epoch = song.epoch => y = Behind(Sent)
SongFlow == Alive => \E y \in SUBSET (1 .. SongBlocks + 1) : Flowing(y)
Fee(e, m) == IF m.epoch = e /\ m.kind = "credit" THEN m.n ELSE 0
Fees(e, s) == [i \in 1 .. Len(s) |-> Fee(e, s[i])]
SongPaid == Alive /\ singer.epoch = song.epoch =>
  /\ song.pending + song.credits <= Allowed
  /\ Pays(Fees(song.epoch, pcmBack), Sent + singer.credit, Allowed - (song.pending + song.credits))
SingerRight == /\ singer.sent <= SongBlocks /\ (singer.ended => singer.sent = SongBlocks)
               /\ singer.epoch = 0 => singer.credit = 0

\* What a song says: that it is ready, then that it is finished or failed.
Says(i) == pcmBack[i].epoch = song.epoch /\ pcmBack[i].kind # "credit"
LastSaid == IF song.events # <<>> THEN song.events[Len(song.events)] = "error"
            ELSE IF song.event # "none" THEN song.event = "error"
            ELSE IF \E i \in DOMAIN pcmBack : Says(i)
            THEN \E i \in DOMAIN pcmBack : /\ pcmBack[i] = S!Msg("error", song.epoch, 0)
                                           /\ \A j \in DOMAIN pcmBack : Says(j) /\ i < j => pcmBack[j].kind = "error"
            ELSE singer.heard = "error" \/ singer.epoch > song.epoch
Ended ==
  /\ song.stop => LastSaid /\ song.play # "opens" /\ singer.failures > 0
  /\ song.spool = "failing" => singer.failures > 0 /\ ~song.finished /\ song.play # "opens"
  /\ ~song.stop /\ song.play = "ended" /\ song.epoch > 0 => song.finished
Reports ==
  /\ \A i \in DOMAIN pcmBack : pcmBack[i].kind # "credit" => pcmBack[i].n = 0
  /\ song.play = "opens" => song.events = <<>> /\ song.event = "none"
  /\ \A i \in DOMAIN song.events : song.events[i] = "ready" => i = 1
  /\ ~song.stop /\ song.play = "plays" =>
       Len(song.events) <= 1 /\ \A i \in DOMAIN song.events : song.events[i] = "ready"
  /\ (song.event = "finished" \/ \E i \in DOMAIN song.events : song.events[i] = "finished")
       => song.play = "ended" /\ song.finished /\ song.ring = <<>> /\ song.stored = <<>>
Spoken == Ended /\ Reports
SongKept == song.dead => singer.failures > 0
LEMMA SongConstants ==
  SongBlocks \in Nat \ {0} /\ PcmWindow \in Nat \ {0} /\ RingBlocks \in Nat \ {0} /\ PcmRoom \in Nat \ {0}
BY TransfersAssumption DEF S!PcmAssumption

LEMMA SongHas ==
  ASSUME SongTypes
  PROVE  /\ singer.epoch \in Nat /\ singer.credit \in Nat /\ singer.sent \in Nat /\ singer.ended \in BOOLEAN
         /\ singer.heard \in {"nothing", "ready", "finished", "error"} /\ singer.failures \in Nat
         /\ song.epoch \in Nat /\ song.cacheMode \in BOOLEAN /\ song.paused \in BOOLEAN
         /\ song.stop \in BOOLEAN /\ song.blocks \in Seq(Nat) /\ song.spool \in {"ended", "runs", "failing"}
         /\ song.stored \in Seq(Nat) /\ song.finished \in BOOLEAN
         /\ song.play \in {"ended", "opens", "plays"} /\ song.ring \in Seq(Nat)
         /\ song.played \in Seq(Nat) /\ song.credits \in Nat
         /\ song.events \in Seq({"ready", "finished", "error"}) /\ song.pending \in Nat
         /\ song.event \in {"none", "ready", "finished", "error"} /\ song.dead \in BOOLEAN
         /\ pcmWire \in Seq(SongMsg) /\ pcmBack \in Seq(SingerMsg)
BY DEF SongTypes, SingerSet, SongSet

LEMMA SongLengths ==
  ASSUME SongTypes
  PROVE  /\ Len(song.played) \in Nat /\ Len(song.ring) \in Nat /\ Len(song.stored) \in Nat
         /\ Len(song.blocks) \in Nat /\ Rung \in Nat /\ Spooled \in Nat /\ Taken \in Nat /\ Got \in Nat
         /\ Rung <= Spooled /\ Spooled <= Taken /\ Allowed \in Nat /\ Sent \in Nat
         /\ Allowed <= PcmWindow + Spooled
<1>0. /\ song.played \in Seq(Nat) /\ song.ring \in Seq(Nat) /\ song.stored \in Seq(Nat)
      /\ song.blocks \in Seq(Nat)
  BY SongHas
<1>1. /\ Len(song.played) \in Nat /\ Len(song.ring) \in Nat /\ Len(song.stored) \in Nat
      /\ Len(song.blocks) \in Nat
  BY <1>0
<1>2. /\ Rung \in Nat /\ Spooled \in Nat /\ Taken \in Nat /\ Rung <= Spooled /\ Spooled <= Taken
  <2>1. \A a, b, c, d \in Nat : /\ a + b \in Nat /\ a + b + c \in Nat /\ a + b + c + d \in Nat
                               /\ a + b <= a + b + c /\ a + b + c <= a + b + c + d
    OBVIOUS
  <2> QED BY <1>1, <2>1 DEF Rung, Spooled, Taken
<1>3. Got \in Nat
  BY <1>2, SongConstants DEF Got
<1>4. Allowed \in Nat /\ Allowed <= PcmWindow + Spooled
  BY <1>2, SongConstants DEF Allowed
<1>5. Sent \in Nat
  BY SongHas DEF Sent
<1> QED BY <1>1, <1>2, <1>3, <1>4, <1>5

\* The same of the next state.
LEMMA SongLengthsNext ==
  ASSUME SongTypes'
  PROVE  /\ Len(song'.played) \in Nat /\ Len(song'.ring) \in Nat /\ Len(song'.stored) \in Nat
         /\ Len(song'.blocks) \in Nat /\ Rung' \in Nat /\ Spooled' \in Nat /\ Allowed' \in Nat
<1>1. /\ song'.played \in Seq(Nat) /\ song'.ring \in Seq(Nat) /\ song'.stored \in Seq(Nat)
      /\ song'.blocks \in Seq(Nat)
  BY DEF SongTypes, SongSet
<1>2. /\ Len(song'.played) \in Nat /\ Len(song'.ring) \in Nat /\ Len(song'.stored) \in Nat
      /\ Len(song'.blocks) \in Nat
  BY <1>1
<1>3. Rung' \in Nat /\ Spooled' \in Nat
  <2>1. \A a, b, c \in Nat : a + b \in Nat /\ a + b + c \in Nat
    OBVIOUS
  <2> QED BY <1>2, <2>1 DEF Rung, Spooled
<1>4. Allowed' \in Nat
  <2>1. \A a, b, c \in Nat : a + b \in Nat /\ 0 + b \in Nat /\ a + c \in Nat /\ 0 + c \in Nat
    OBVIOUS
  <2>2. PICK w \in Nat : w = (IF Claimed' THEN PcmWindow ELSE 0)
    BY SongConstants
  <2>3. PICK v \in Nat : v = (IF song'.cacheMode THEN Spooled' ELSE Rung')
    BY <1>3
  <2>4. Allowed' = w + v
    BY <2>2, <2>3 DEF Allowed
  <2> QED BY <2>4
<1> QED BY <1>2, <1>3, <1>4

LEMMA SongMsgHas == ASSUME NEW m \in SongMsg
                    PROVE  /\ m.kind \in {"open", "cache", "chunk", "end", "close", "pause"}
                           /\ m.epoch \in Nat /\ m.n \in Nat
BY DEF SongMsg
LEMMA SingerMsgHas == ASSUME NEW m \in SingerMsg
                      PROVE  /\ m.kind \in {"credit", "ready", "finished", "error"}
                             /\ m.epoch \in Nat /\ m.n \in Nat
BY DEF SingerMsg

LEMMA PortionsAre ==
  ASSUME NEW e, NEW s \in Seq(SongMsg)
  PROVE  /\ Portions(e, s) \in Parts2 /\ Len(Portions(e, s)) = Len(s)
         /\ DOMAIN Portions(e, s) = DOMAIN s
         /\ \A i \in DOMAIN s : Portions(e, s)[i] = Portion(e, s[i])
<1>1. \A i \in 1 .. Len(s) : s[i] \in SongMsg
  OBVIOUS
<1>2. \A i \in 1 .. Len(s) : Portion(e, s[i]) \in SUBSET Nat
  BY <1>1, SongConstants, SongMsgHas DEF Portion
<1>3. Len(s) \in Nat /\ DOMAIN s = 1 .. Len(s)
  OBVIOUS
<1>4. Portions(e, s) \in Parts2
  BY <1>2, <1>3 DEF Portions, Parts2
<1> QED BY <1>3, <1>4 DEF Portions, Parts2

LEMMA FeesAre ==
  ASSUME NEW e, NEW s \in Seq(SingerMsg)
  PROVE  /\ Fees(e, s) \in Amounts /\ Len(Fees(e, s)) = Len(s) /\ DOMAIN Fees(e, s) = DOMAIN s
         /\ \A i \in DOMAIN s : Fees(e, s)[i] = Fee(e, s[i])
<1>1. \A i \in 1 .. Len(s) : s[i] \in SingerMsg
  OBVIOUS
<1>2. \A i \in 1 .. Len(s) : Fee(e, s[i]) \in Nat
  BY <1>1, SingerMsgHas DEF Fee
<1>3. Len(s) \in Nat /\ DOMAIN s = 1 .. Len(s)
  OBVIOUS
<1>4. Fees(e, s) \in Amounts
  BY <1>2, <1>3 DEF Fees, Amounts
<1> QED BY <1>3, <1>4 DEF Fees, Amounts

\* The parts that are behind a message that is sent, and behind one that is taken.
LEMMA PortionsOn ==
  ASSUME NEW e, NEW s \in Seq(SongMsg), NEW m \in SongMsg, NEW t, t = Append(s, m)
  PROVE  t \in Seq(SongMsg) /\ Longer(Portions(e, s), Portions(e, t), Portion(e, m))
<1>1. t \in Seq(SongMsg) /\ Len(t) = Len(s) + 1 /\ DOMAIN t = DOMAIN s \cup {Len(s) + 1}
      /\ (\A i \in DOMAIN s : t[i] = s[i]) /\ t[Len(s) + 1] = m
  BY AppendPlaces
<1>2. /\ Len(Portions(e, s)) = Len(s) /\ DOMAIN Portions(e, s) = DOMAIN s
      /\ \A i \in DOMAIN s : Portions(e, s)[i] = Portion(e, s[i])
  BY PortionsAre
<1>3. /\ Len(Portions(e, t)) = Len(t)
      /\ \A i \in DOMAIN t : Portions(e, t)[i] = Portion(e, t[i])
  BY <1>1, PortionsAre
<1>4. Len(s) + 1 \in DOMAIN t /\ DOMAIN s \subseteq DOMAIN t
  BY <1>1
<1>5. Len(Portions(e, t)) = Len(Portions(e, s)) + 1
      /\ Portions(e, t)[Len(Portions(e, t))] = Portion(e, m)
  BY <1>1, <1>2, <1>3, <1>4
<1>6. \A i \in DOMAIN Portions(e, s) : Portions(e, t)[i] = Portions(e, s)[i]
  BY <1>1, <1>2, <1>3, <1>4
<1> QED BY <1>1, <1>5, <1>6 DEF Longer

LEMMA PortionsOff ==
  ASSUME NEW e, NEW s \in Seq(SongMsg), s # <<>>, NEW t, t = Tail(s)
  PROVE  /\ t \in Seq(SongMsg) /\ 1 \in DOMAIN s /\ Shorter(Portions(e, s), Portions(e, t))
         /\ Portions(e, s)[1] = Portion(e, s[1])
<1>1. /\ t \in Seq(SongMsg) /\ Len(t) = Len(s) - 1 /\ Len(s) \in Nat /\ 1 \in DOMAIN s
      /\ \A i \in DOMAIN t : i + 1 \in DOMAIN s /\ t[i] = s[i + 1]
  BY TailPlaces
<1>2. /\ Len(Portions(e, s)) = Len(s) /\ DOMAIN Portions(e, s) = DOMAIN s
      /\ \A i \in DOMAIN s : Portions(e, s)[i] = Portion(e, s[i])
  BY PortionsAre
<1>3. /\ Len(Portions(e, t)) = Len(t) /\ DOMAIN Portions(e, t) = DOMAIN t
      /\ \A i \in DOMAIN t : Portions(e, t)[i] = Portion(e, t[i])
  BY <1>1, PortionsAre
<1>4. Len(Portions(e, s)) = Len(Portions(e, t)) + 1
  <2>1. \A a \in Nat : a = (a - 1) + 1
    OBVIOUS
  <2>2. PICK a \in Nat : a = Len(s)
    BY <1>1
  <2>3. Len(Portions(e, t)) = a - 1 /\ Len(Portions(e, s)) = a
    BY <1>1, <1>2, <1>3, <2>2, Zenon
  <2> QED BY <2>1, <2>3, Zenon
<1>5. \A i \in DOMAIN Portions(e, t) : Portions(e, t)[i] = Portions(e, s)[i + 1]
  BY <1>1, <1>2, <1>3
<1> QED BY <1>1, <1>2, <1>4, <1>5 DEF Shorter

LEMMA FeesOn ==
  ASSUME NEW e, NEW s \in Seq(SingerMsg), NEW m \in SingerMsg, NEW t, t = Append(s, m),
         NEW a \in Nat, NEW b \in Nat, Pays(Fees(e, s), a, b), NEW v \in Nat, v = Fee(e, m)
  PROVE  t \in Seq(SingerMsg) /\ Pays(Fees(e, t), a, b + v)
<1>1. t \in Seq(SingerMsg) /\ Len(t) = Len(s) + 1 /\ DOMAIN t = DOMAIN s \cup {Len(s) + 1}
      /\ (\A i \in DOMAIN s : t[i] = s[i]) /\ t[Len(s) + 1] = m
  BY AppendPlaces
<1>2. Longer(Fees(e, s), Fees(e, t), v)
  <2>1. /\ Len(Fees(e, s)) = Len(s) /\ DOMAIN Fees(e, s) = DOMAIN s
        /\ \A i \in DOMAIN s : Fees(e, s)[i] = Fee(e, s[i])
    BY FeesAre
  <2>2. /\ Len(Fees(e, t)) = Len(t) /\ \A i \in DOMAIN t : Fees(e, t)[i] = Fee(e, t[i])
    BY <1>1, FeesAre
  <2>3. Len(s) + 1 \in DOMAIN t /\ DOMAIN s \subseteq DOMAIN t
    BY <1>1
  <2>4. Len(Fees(e, t)) = Len(Fees(e, s)) + 1 /\ Fees(e, t)[Len(Fees(e, t))] = v
    BY <1>1, <2>1, <2>2, <2>3
  <2>5. \A i \in DOMAIN Fees(e, s) : Fees(e, t)[i] = Fees(e, s)[i]
    BY <1>1, <2>1, <2>2, <2>3
  <2> QED BY <2>4, <2>5 DEF Longer
<1>3. PICK q \in Amounts : q = Fees(e, s)
  BY FeesAre
<1>4. PICK r \in Amounts : r = Fees(e, t)
  BY <1>1, FeesAre
<1>5. Pays(r, a, b + v)
  BY <1>2, <1>3, <1>4, PaysOn
<1> QED BY <1>1, <1>4, <1>5

LEMMA FeesOff ==
  ASSUME NEW e, NEW s \in Seq(SingerMsg), s # <<>>, NEW t, t = Tail(s), NEW m, m = s[1],
         NEW a \in Nat, NEW b \in Nat, Pays(Fees(e, s), a, b)
  PROVE  t \in Seq(SingerMsg) /\ Fee(e, m) \in Nat /\ Pays(Fees(e, t), a + Fee(e, m), b)
<1>1. /\ t \in Seq(SingerMsg) /\ Len(t) = Len(s) - 1 /\ Len(s) \in Nat /\ 1 \in DOMAIN s
      /\ \A i \in DOMAIN t : i + 1 \in DOMAIN s /\ t[i] = s[i + 1]
  BY TailPlaces
<1>2. Shorter(Fees(e, s), Fees(e, t)) /\ Fees(e, s)[1] = Fee(e, m)
  <2>1. /\ Len(Fees(e, s)) = Len(s) /\ \A i \in DOMAIN s : Fees(e, s)[i] = Fee(e, s[i])
    BY FeesAre
  <2>2. /\ Len(Fees(e, t)) = Len(t) /\ DOMAIN Fees(e, t) = DOMAIN t
        /\ \A i \in DOMAIN t : Fees(e, t)[i] = Fee(e, t[i])
    BY <1>1, FeesAre
  <2>3. Len(Fees(e, s)) = Len(Fees(e, t)) + 1
    <3>1. \A n \in Nat : n = (n - 1) + 1
      OBVIOUS
    <3>2. PICK n \in Nat : n = Len(s)
      BY <1>1
    <3>3. Len(Fees(e, t)) = n - 1 /\ Len(Fees(e, s)) = n
      BY <1>1, <2>1, <2>2, <3>2, Zenon
    <3> QED BY <3>1, <3>3, Zenon
  <2>4. \A i \in DOMAIN Fees(e, t) : Fees(e, t)[i] = Fees(e, s)[i + 1]
    BY <1>1, <2>1, <2>2
  <2> QED BY <1>1, <2>1, <2>3, <2>4 DEF Shorter
<1>3. PICK q \in Amounts : q = Fees(e, s)
  BY FeesAre
<1>4. PICK r \in Amounts : r = Fees(e, t)
  BY <1>1, FeesAre
<1>5. Pays(r, a + q[1], b)
  BY <1>2, <1>3, <1>4, PaysOff
<1>6. Fee(e, m) \in Nat
  BY <1>1, SingerMsgHas DEF Fee
<1> QED BY <1>1, <1>2, <1>3, <1>4, <1>5, <1>6

SongInv == /\ SongTypes /\ Begun /\ InRow /\ SingerRight /\ SongFlow /\ SongPaid
           /\ Spoken /\ SongKept

\* What workers do by themselves leaves the order of what is to come alone, and pays with what it frees.
LEMMA WorkKeeps ==
  ASSUME SongInv, SongTypes', UNCHANGED <<pcmWire, pcmBack>>,
         singer'.epoch = singer.epoch, singer'.credit = singer.credit, singer'.sent = singer.sent,
         singer'.ended = singer.ended, song'.epoch = song.epoch,
         Alive' => /\ Alive /\ Behind(Got)' = Behind(Got) /\ Allowed <= Allowed'
                   /\ (song'.pending + song'.credits) + Allowed <= (song.pending + song.credits) + Allowed'
  PROVE  Begun' /\ SingerRight' /\ SongFlow' /\ SongPaid'
<1>1. /\ SongTypes /\ Begun /\ SingerRight /\ SongFlow /\ SongPaid
  BY DEF SongInv
<1>2. Begun'
  BY <1>1 DEF Begun, Unsung
<1>4. SingerRight' /\ Sent' = Sent
  BY <1>1 DEF SingerRight, Sent
<1>5. Allowed \in Nat /\ Allowed' \in Nat /\ Sent \in Nat
  BY <1>1, SongLengths, SongLengthsNext
<1>6. SongFlow'
  <2> SUFFICES ASSUME Alive' PROVE \E y \in SUBSET (1 .. SongBlocks + 1) : Flowing(y)'
    BY DEF SongFlow
  <2>1. Alive /\ Behind(Got)' = Behind(Got) /\ Allowed <= Allowed'
    OBVIOUS
  <2>2. PICK y \in SUBSET (1 .. SongBlocks + 1) : Flowing(y)
    BY <1>1, <2>1 DEF SongFlow
  <2>3. \A k \in 1 .. (SongBlocks + 1) : k > Allowed' => k > Allowed
    BY <1>5, <2>1, SongConstants
  <2>4. Flowing(y)'
    <3>1. Leads(TRUE, Portions(song.epoch, pcmWire), Behind(Got), y)
      BY <2>2 DEF Flowing
    <3>2. Leads(TRUE, Portions(song'.epoch, pcmWire'), Behind(Got)', y)
      BY <2>1, <3>1
    <3>3. \A k \in 1 .. (SongBlocks + 1) : k > Allowed' => k \in y
      BY <2>2, <2>3 DEF Flowing
    <3>4. singer'.epoch = song'.epoch => y = Behind(Sent)'
      BY <1>4, <2>2 DEF Flowing, Behind
    <3> QED BY <3>2, <3>3, <3>4 DEF Flowing
  <2> QED BY <2>4
<1>7. SongPaid'
  <2> SUFFICES ASSUME Alive', singer.epoch = song.epoch
               PROVE  /\ song'.pending + song'.credits <= Allowed'
                      /\ Pays(Fees(song.epoch, pcmBack), Sent + singer.credit,
                              Allowed' - (song'.pending + song'.credits))
    BY <1>4 DEF SongPaid
  <2>1. PICK x \in Nat : x = song.pending + song.credits
    BY <1>1, SongHas
  <2>2. PICK z \in Nat : z = song'.pending + song'.credits
    BY DEF SongTypes, SongSet
  <2>3. x <= Allowed /\ Pays(Fees(song.epoch, pcmBack), Sent + singer.credit, Allowed - x)
    BY <1>1, <2>1 DEF SongPaid
  <2>4. z + Allowed <= x + Allowed'
    BY <2>1, <2>2
  <2>5. z <= Allowed' /\ Allowed - x <= Allowed' - z /\ Allowed - x \in Nat /\ Allowed' - z \in Nat
    <3>1. \A a, b \in Nat : x <= a /\ z + a <= x + b =>
            z <= b /\ a - x <= b - z /\ a - x \in Nat /\ b - z \in Nat
      OBVIOUS
    <3> QED BY <1>5, <2>3, <2>4, <3>1
  <2>6. PICK q \in Amounts : q = Fees(song.epoch, pcmBack)
    BY <1>1, FeesAre DEF SongTypes
  <2>7. PICK a \in Nat : a = Sent + singer.credit
    BY <1>1, <1>5, SongHas
  <2>8. Pays(q, a, Allowed' - z)
    BY <2>3, <2>5, <2>6, <2>7, PaysWeaker
  <2> QED BY <2>2, <2>5, <2>6, <2>7, <2>8
<1> QED BY <1>2, <1>4, <1>6, <1>7

\* What the first block that is not spooled is.
LEMMA HeadBlock ==
  ASSUME SongInv, Alive, song.spool = "runs", song.blocks # <<>>
  PROVE  /\ ~song.finished /\ song.play # "opens"
         /\ Head(song.blocks) = S!End => Spooled = SongBlocks /\ Behind(Got) = {}
         /\ Head(song.blocks) # S!End => Head(song.blocks) = Spooled + 1
<1>1. /\ SongTypes /\ InRow /\ SongFlow /\ song.blocks \in Seq(Nat) /\ ~song.finished
  BY SongHas DEF SongInv, InRow
<1>2. /\ Len(song.blocks) \in Nat /\ Len(song.blocks) > 0 /\ 1 \in DOMAIN song.blocks
      /\ Head(song.blocks) = song.blocks[1]
  BY <1>1
<1>3. song.blocks[1] = IF Spooled + 1 = SongBlocks + 1 THEN S!End ELSE Spooled + 1
  BY <1>1, <1>2 DEF InRow
<1>4. PICK s \in Nat, n \in Nat : s = Spooled /\ n = Len(song.blocks) /\ n > 0
  BY <1>1, <1>2, SongLengths
<1>5. Got = s + n
  BY <1>1, <1>4 DEF Got, Taken
<1>6. song.play # "opens"
  <2> SUFFICES ASSUME song.play = "opens" PROVE FALSE
    OBVIOUS
  <2>1. Spooled = 0 /\ Rung = 0 /\ ~Claimed
    BY <1>1, SongLengths DEF InRow, Claimed
  <2>2. Allowed = 0
    BY <2>1 DEF Allowed
  <2>3. PICK y \in SUBSET (1 .. SongBlocks + 1) : Flowing(y)
    BY <1>1 DEF SongFlow
  <2>4. y \subseteq Behind(Got)
    BY <2>3, LeadsShrinks DEF Flowing
  <2>5. 1 \in y
    BY <2>2, <2>3, SongConstants DEF Flowing
  <2> QED BY <1>4, <1>5, <2>4, <2>5 DEF Behind
<1>7. Head(song.blocks) = S!End => Spooled = SongBlocks
  BY <1>2, <1>3, <1>4, SongConstants DEF S!End
<1>8. Head(song.blocks) = S!End => Behind(Got) = {}
  BY <1>4, <1>5, <1>7, SongConstants DEF Behind
<1>9. Head(song.blocks) # S!End => Head(song.blocks) = Spooled + 1
  BY <1>2, <1>3
<1> QED BY <1>1, <1>6, <1>7, <1>8, <1>9

\* u is b without its first number; v is t and one more.
Off(b, u) == /\ Len(u) = Len(b) - 1 /\ Len(b) > 0 /\ Len(b) \in Nat
             /\ \A i \in DOMAIN u : i \in Nat /\ i + 1 \in DOMAIN b /\ u[i] = b[i + 1]
Extended(t, v, h) == /\ Len(t) \in Nat /\ Len(v) = Len(t) + 1 /\ v[Len(t) + 1] = h
               /\ \A i \in DOMAIN v : i = Len(t) + 1 \/ (i \in DOMAIN t /\ v[i] = t[i])
LEMMA NatTail == ASSUME NEW b \in Seq(Nat), b # <<>> PROVE Tail(b) \in Seq(Nat) /\ Off(b, Tail(b))
<1>1. /\ Tail(b) \in Seq(Nat) /\ Len(Tail(b)) = Len(b) - 1
      /\ \A i \in DOMAIN Tail(b) : i + 1 \in DOMAIN b /\ Tail(b)[i] = b[i + 1] /\ i \in Nat
  BY TailPlaces
<1>2. Len(b) > 0 /\ Len(b) \in Nat
  OBVIOUS
<1> QED BY <1>1, <1>2 DEF Off
LEMMA NatAppend ==
  ASSUME NEW t \in Seq(Nat), NEW h \in Nat PROVE Append(t, h) \in Seq(Nat) /\ Extended(t, Append(t, h), h)
<1>1. /\ Append(t, h) \in Seq(Nat) /\ Len(Append(t, h)) = Len(t) + 1
      /\ DOMAIN Append(t, h) = DOMAIN t \cup {Len(t) + 1}
      /\ (\A i \in DOMAIN t : Append(t, h)[i] = t[i]) /\ Append(t, h)[Len(t) + 1] = h
  BY AppendPlaces
<1>2. Len(t) \in Nat
  OBVIOUS
<1> QED BY <1>1, <1>2 DEF Extended

\* What is said last is the same as long as nothing of this is touched.
LEMMA LastSaidStays ==
  ASSUME UNCHANGED pcmBack, song'.epoch = song.epoch, song'.event = song.event,
         song'.events = song.events, singer'.epoch = singer.epoch, singer'.heard = singer.heard
  PROVE  LastSaid' = LastSaid
BY DEF LastSaid, Says

\* The thread that spools.
LEMMA SpoolStops ==
  ASSUME SongInv, ~song.dead, song.spool = "runs", song.stop,
         song' = [song EXCEPT !.spool = "ended", !.blocks = <<>>],
         UNCHANGED <<singer, pcmWire, pcmBack>>
  PROVE  SongInv'
<1>1. SongTypes /\ InRow /\ Spoken
  BY DEF SongInv
<1>2. SongTypes'
  <2>1. song \in SongSet /\ <<>> \in Seq(Nat)
    BY <1>1 DEF SongTypes
  <2>2. song' \in SongSet
    BY <2>1 DEF SongSet
  <2> QED BY <1>1, <2>2 DEF SongTypes
<1>3. /\ song'.stop = song.stop /\ song'.epoch = song.epoch /\ song'.events = song.events
      /\ song'.event = song.event /\ song'.played = song.played /\ song'.ring = song.ring
      /\ song'.stored = song.stored /\ song'.finished = song.finished /\ song'.play = song.play
      /\ song'.dead = song.dead /\ song'.blocks = <<>> /\ song'.spool = "ended"
  BY <1>1 DEF SongTypes, SongSet
<1>4. Rung' = Rung /\ Spooled' = Spooled /\ LastSaid' = LastSaid
  BY <1>3, LastSaidStays DEF Rung, Spooled
<1>5. ~Alive'
  BY <1>3 DEF Alive
<1>6. Begun' /\ SingerRight' /\ SongFlow' /\ SongPaid'
  BY <1>2, <1>3, <1>5, WorkKeeps
<1>7. InRow'
  BY <1>1, <1>3, <1>4, <1>5 DEF InRow
<1>8. Spoken' /\ SongKept'
  BY <1>1, <1>3, <1>4 DEF Spoken, Ended, Reports, SongKept
<1> QED BY <1>2, <1>6, <1>7, <1>8 DEF SongInv

LEMMA SpoolEnds ==
  ASSUME SongInv, ~song.dead, song.spool = "runs", ~song.stop, song.blocks # <<>>,
         Head(song.blocks) = S!End,
         song' = [song EXCEPT !.spool = "ended", !.finished = TRUE, !.blocks = <<>>],
         UNCHANGED <<singer, pcmWire, pcmBack>>
  PROVE  SongInv'
<1>1. SongTypes /\ InRow /\ Spoken /\ SongKept
  BY DEF SongInv
<1>2. SongTypes'
  <2>1. song \in SongSet /\ <<>> \in Seq(Nat)
    BY <1>1 DEF SongTypes
  <2>2. song' \in SongSet
    BY <2>1 DEF SongSet
  <2> QED BY <1>1, <2>2 DEF SongTypes
<1>3. /\ song'.stop = song.stop /\ song'.epoch = song.epoch /\ song'.events = song.events
      /\ song'.event = song.event /\ song'.played = song.played /\ song'.ring = song.ring
      /\ song'.stored = song.stored /\ song'.finished = TRUE /\ song'.play = song.play
      /\ song'.dead = song.dead /\ song'.blocks = <<>> /\ song'.spool = "ended"
      /\ song'.cacheMode = song.cacheMode /\ song'.pending = song.pending
      /\ song'.credits = song.credits
  BY <1>1 DEF SongTypes, SongSet
<1>4. /\ Rung' = Rung /\ Spooled' = Spooled /\ LastSaid' = LastSaid /\ Claimed' = Claimed
      /\ Allowed' = Allowed
  BY <1>3, LastSaidStays DEF Rung, Spooled, Claimed, Allowed
<1>5. Alive /\ ~song.finished
  BY <1>1, SongHas DEF Alive, InRow
<1>6. Spooled = SongBlocks /\ Behind(Got) = {}
  BY <1>5, HeadBlock
<1>7. Behind(Got)' = {}
  BY <1>3, SongConstants DEF Behind, Got
<1>8. PICK a \in Nat, p \in Nat, d \in Nat : a = Allowed /\ p = song.pending /\ d = song.credits
  BY <1>1, SongLengths, SongHas
<1>9. Begun' /\ SingerRight' /\ SongFlow' /\ SongPaid'
  <2>1. a <= a /\ (p + d) + a <= (p + d) + a
    OBVIOUS
  <2>2. Allowed <= Allowed' /\ (song'.pending + song'.credits) + Allowed <= (song.pending + song.credits) + Allowed'
    BY <1>3, <1>4, <1>8, <2>1
  <2> QED BY <1>2, <1>3, <1>5, <1>6, <1>7, <2>2, WorkKeeps
<1>10. InRow'
  BY <1>1, <1>3, <1>4, <1>6 DEF InRow
<1>11. Spoken' /\ SongKept'
  BY <1>1, <1>3, <1>4, <1>5 DEF Spoken, Ended, Reports, SongKept
<1> QED BY <1>2, <1>9, <1>10, <1>11 DEF SongInv

LEMMA SpoolStores ==
  ASSUME SongInv, ~song.dead, song.spool = "runs", ~song.stop, song.blocks # <<>>,
         Head(song.blocks) # S!End,
         song' = S!Credited([song EXCEPT !.blocks = Tail(@),
                                         !.stored = Append(@, Head(song.blocks))], TRUE),
         UNCHANGED <<singer, pcmWire, pcmBack>>
  PROVE  SongInv'
<1>1. SongTypes /\ InRow /\ Spoken /\ SongKept
  BY DEF SongInv
<1>2. Alive /\ ~song.finished
  BY <1>1, SongHas DEF Alive, InRow
<1>3. PICK h \in Nat : h = Head(song.blocks) /\ h = Spooled + 1 /\ song.play # "opens"
  BY <1>1, <1>2, HeadBlock, SongLengths
<1>4. PICK b \in Seq(Nat), t \in Seq(Nat) : b = song.blocks /\ t = song.stored
  BY <1>1, SongHas
<1>5. PICK u \in Seq(Nat) : u = Tail(b) /\ Off(b, u)
  BY <1>4, NatTail
<1>6. PICK v \in Seq(Nat) : v = Append(t, h) /\ Extended(t, v, h)
  BY <1>4, NatAppend
<1>7. PICK e \in {0, 1} : e = IF song.cacheMode THEN 1 ELSE 0
  OBVIOUS
<1>7a. PICK c \in Nat : /\ c = IF song.cacheMode THEN S!Smaller(song.credits + 1, PcmWindow) ELSE song.credits
                        /\ c <= song.credits + e
  <2>1. PICK d \in Nat : d = song.credits
    BY <1>1, SongHas
  <2>2. S!Smaller(d + 1, PcmWindow) \in Nat /\ S!Smaller(d + 1, PcmWindow) <= d + 1
    BY SongConstants DEF S!Smaller
  <2> QED BY <1>7, <2>1, <2>2
<1>8. song' = [song EXCEPT !.blocks = u, !.stored = v, !.credits = c]
  <2>1. PICK r \in SongSet : r = [song EXCEPT !.blocks = u, !.stored = v]
    BY <1>1 DEF SongTypes, SongSet
  <2>2. r.credits = song.credits /\ r.cacheMode = song.cacheMode /\ r.cacheMode \in BOOLEAN
    BY <1>1, <2>1 DEF SongTypes, SongSet
  <2>3. song' = S!Credited(r, TRUE)
    BY <1>3, <1>4, <1>5, <1>6, <2>1
  <2>4. song' = [r EXCEPT !.credits = c]
    BY <1>7a, <2>2, <2>3 DEF S!Credited
  <2>5. [r EXCEPT !.credits = c] = [song EXCEPT !.blocks = u, !.stored = v, !.credits = c]
    BY <1>1, <2>1 DEF SongTypes, SongSet
  <2> QED BY <2>4, <2>5
<1>9. SongTypes'
  <2>1. song \in SongSet
    BY <1>1 DEF SongTypes
  <2>2. song' \in SongSet
    BY <1>8, <2>1 DEF SongSet
  <2> QED BY <1>1, <2>2 DEF SongTypes
<1>10. /\ song'.stop = song.stop /\ song'.epoch = song.epoch /\ song'.events = song.events
       /\ song'.event = song.event /\ song'.played = song.played /\ song'.ring = song.ring
       /\ song'.stored = v /\ song'.finished = song.finished /\ song'.play = song.play
       /\ song'.dead = song.dead /\ song'.blocks = u /\ song'.spool = song.spool
       /\ song'.cacheMode = song.cacheMode /\ song'.pending = song.pending /\ song'.credits = c
  BY <1>1, <1>8 DEF SongTypes, SongSet
<1>11. PICK s \in Nat, n \in Nat, w \in Nat : s = Spooled /\ n = Len(b) /\ w = Rung
  BY <1>1, <1>4, SongLengths
<1>12. /\ Rung' = Rung /\ Spooled' = s + 1 /\ LastSaid' = LastSaid /\ Claimed' = Claimed
  <2>1. Rung' = Rung /\ LastSaid' = LastSaid /\ Claimed' = Claimed
    BY <1>10, LastSaidStays DEF Rung, Claimed
  <2>0. PICK l \in Nat : l = Len(t)
    BY <1>6 DEF Extended
  <2>2. s = w + l
    BY <1>4, <1>11, <2>0 DEF Spooled
  <2>3. Spooled' = w + (l + 1)
    BY <1>6, <1>10, <1>11, <2>0, <2>1 DEF Spooled, Extended
  <2>4. w + (l + 1) = s + 1
    BY <2>2
  <2> QED BY <2>1, <2>3, <2>4
<1>13. Got' = Got
  <2>1. Len(u) = n - 1 /\ n > 0 /\ song'.finished = FALSE /\ song.finished = FALSE
    BY <1>1, <1>2, <1>5, <1>10, <1>11, SongHas DEF Off
  <2>2. Got' = (s + 1) + (n - 1) /\ Got = s + n
    BY <1>4, <1>10, <1>11, <1>12, <2>1 DEF Got, Taken
  <2> QED BY <2>1, <2>2
<1>14. PICK a \in Nat : a = Allowed
  BY <1>1, SongLengths
<1>15. Allowed' = a + e
  <2>1. PICK k \in Nat : k = IF Claimed THEN PcmWindow ELSE 0
    BY SongConstants
  <2>2. a = k + (IF song.cacheMode THEN s ELSE w)
    BY <1>11, <1>14, <2>1 DEF Allowed
  <2>3. Allowed' = k + (IF song.cacheMode THEN s + 1 ELSE w)
    BY <1>10, <1>11, <1>12, <2>1 DEF Allowed
  <2> QED BY <1>7, <2>2, <2>3
<1>16. Begun' /\ SingerRight' /\ SongFlow' /\ SongPaid'
  <2>1. PICK p \in Nat, d \in Nat : p = song.pending /\ d = song.credits
    BY <1>1, SongHas
  <2>2. a <= Allowed' /\ (p + c) + a <= (p + d) + Allowed'
    <3>1. c <= d + e
      BY <1>7a, <2>1
    <3>2. a <= a + e /\ (p + c) + a <= (p + d) + (a + e)
      BY <1>7, <3>1
    <3> QED BY <1>15, <3>2
  <2>3. Behind(Got)' = Behind(Got)
    BY <1>13 DEF Behind
  <2> QED BY <1>2, <1>9, <1>10, <1>14, <2>1, <2>2, <2>3, WorkKeeps
<1>17. InRow'
  <2>1. \A i \in DOMAIN song'.stored : song'.stored[i] = Rung' + i
    <3>1. \A i \in DOMAIN t : t[i] = w + i
      BY <1>1, <1>4, <1>11 DEF InRow
    <3>2. h = w + (Len(t) + 1)
      <4>1. PICK l \in Nat : l = Len(t)
        BY <1>6 DEF Extended
      <4>2. s = w + l /\ h = s + 1
        BY <1>3, <1>4, <1>11, <4>1 DEF Spooled
      <4>3. h = w + (l + 1)
        BY <4>2
      <4> QED BY <4>1, <4>3
    <3> QED BY <1>6, <1>10, <1>11, <1>12, <3>1, <3>2 DEF Extended
  <2>2. \A i \in DOMAIN song'.blocks :
          song'.blocks[i] = IF Spooled' + i = SongBlocks + 1 THEN S!End ELSE Spooled' + i
    <3>1. \A i \in DOMAIN b : b[i] = IF s + i = SongBlocks + 1 THEN S!End ELSE s + i
      BY <1>1, <1>2, <1>4, <1>11 DEF InRow
    <3>2. \A i \in DOMAIN u : u[i] = IF (s + 1) + i = SongBlocks + 1 THEN S!End ELSE (s + 1) + i
      <4> SUFFICES ASSUME NEW i \in DOMAIN u
                   PROVE  u[i] = IF (s + 1) + i = SongBlocks + 1 THEN S!End ELSE (s + 1) + i
        OBVIOUS
      <4>1. i \in Nat
        BY <1>5 DEF Off
      <4>2. s + (i + 1) = (s + 1) + i
        BY <4>1
      <4> QED BY <1>5, <3>1, <4>2 DEF Off
    <3> QED BY <1>10, <1>12, <3>2
  <2>3. song'.spool = "runs" /\ song'.play # "opens" /\ ~song'.finished /\ song'.epoch > 0
    BY <1>2, <1>3, <1>10 DEF Alive
  <2> QED BY <1>1, <1>10, <2>1, <2>2, <2>3 DEF InRow
<1>18. Spoken' /\ SongKept'
  BY <1>1, <1>2, <1>10, <1>12 DEF Spoken, Ended, Reports, SongKept
<1> QED BY <1>9, <1>16, <1>17, <1>18 DEF SongInv

\* What an announcement does to the events.
Eventful(v, e) ==
  /\ v \in Seq({"ready", "finished", "error"})
  /\ Len(song.events) < 2 => /\ v # <<>> /\ v[Len(v)] = e /\ Len(v) = Len(song.events) + 1
                             /\ \A i \in DOMAIN v : \/ i = Len(v) /\ v[i] = e
                                                    \/ i \in DOMAIN song.events /\ v[i] = song.events[i]
                             /\ \A i \in DOMAIN song.events : i \in DOMAIN v /\ v[i] = song.events[i]
  /\ ~(Len(song.events) < 2) => v = song.events

LEMMA EventfulIs ==
  ASSUME song \in SongSet, NEW e \in {"ready", "finished", "error"}, NEW r \in SongSet,
         r.events = song.events, NEW t, t = S!Announce(r, e)
  PROVE  \E v \in Seq({"ready", "finished", "error"}) : /\ t = [r EXCEPT !.events = v]
                                                        /\ Eventful(v, e)
<1>1. PICK q \in Seq({"ready", "finished", "error"}) : q = song.events
  BY DEF SongSet
<1>2. PICK w \in Seq({"ready", "finished", "error"}) : w = Append(q, e) /\ w # <<>>
           /\ Len(w) = Len(q) + 1 /\ DOMAIN w = DOMAIN q \cup {Len(q) + 1} /\ w[Len(q) + 1] = e
           /\ \A i \in DOMAIN q : w[i] = q[i]
  <2>1. Append(q, e) # <<>>
    OBVIOUS
  <2>2. /\ Append(q, e) \in Seq({"ready", "finished", "error"})
        /\ Len(Append(q, e)) = Len(q) + 1 /\ DOMAIN Append(q, e) = DOMAIN q \cup {Len(q) + 1}
        /\ Append(q, e)[Len(q) + 1] = e /\ \A i \in DOMAIN q : Append(q, e)[i] = q[i]
    BY AppendPlaces
  <2> QED BY <2>1, <2>2, Zenon
<1>3. CASE Len(q) < 2
  <2>1. t = [r EXCEPT !.events = w]
    BY <1>1, <1>2, <1>3 DEF S!Announce, S!EventRoom
  <2>2. Eventful(w, e)
    BY <1>1, <1>2, <1>3 DEF Eventful
  <2> QED BY <2>1, <2>2
<1>4. CASE ~(Len(q) < 2)
  <2>1. t = [r EXCEPT !.events = q]
    BY <1>1, <1>4 DEF S!Announce, S!EventRoom
  <2>2. Eventful(q, e)
    BY <1>1, <1>4 DEF Eventful
  <2> QED BY <2>1, <2>2
<1> QED BY <1>3, <1>4

\* Where the credits and what is allowed stay, or what is to come is over.
LEMMA MoneyStays ==
  ASSUME SongInv, SongTypes', UNCHANGED <<pcmWire, pcmBack>>,
         singer'.epoch = singer.epoch, singer'.credit = singer.credit, singer'.sent = singer.sent,
         singer'.ended = singer.ended, song'.epoch = song.epoch,
         Alive' => /\ Alive /\ Got' = Got /\ Allowed' = Allowed
                   /\ song'.pending = song.pending /\ song'.credits = song.credits
  PROVE  Begun' /\ SingerRight' /\ SongFlow' /\ SongPaid'
<1>1. PICK a \in Nat, p \in Nat, d \in Nat : a = Allowed /\ p = song.pending /\ d = song.credits
  BY SongLengths, SongHas DEF SongInv
<1>2. a <= a /\ (p + d) + a <= (p + d) + a
  OBVIOUS
<1>3. Alive' => /\ Alive /\ Allowed <= Allowed'
                /\ (song'.pending + song'.credits) + Allowed <= (song.pending + song.credits) + Allowed'
  BY <1>1, <1>2
<1>4. Alive' => Behind(Got)' = Behind(Got)
  BY DEF Behind
<1> QED BY <1>3, <1>4, WorkKeeps

\* The thread that plays.
LEMMA ReadyKeeps ==
  ASSUME SongInv, ~song.dead, song.play = "opens", Len(song.events) < S!EventRoom,
         song' = S!Announce([song EXCEPT !.play = "plays"], "ready"),
         UNCHANGED <<singer, pcmWire, pcmBack>>
  PROVE  SongInv'
<1>1. SongTypes /\ InRow /\ Spoken /\ SongKept /\ song \in SongSet
  BY DEF SongInv, SongTypes
<1>2. PICK r \in SongSet : r = [song EXCEPT !.play = "plays"]
  <2>1. song \in SongSet
    BY <1>1
  <2>2. [song EXCEPT !.play = "plays"] \in SongSet
    BY <2>1 DEF SongSet
  <2> QED BY <2>2
<1>2a. r.events = song.events
  BY <1>1, <1>2 DEF SongSet
<1>3. PICK v \in Seq({"ready", "finished", "error"}) : song' = [r EXCEPT !.events = v] /\ Eventful(v, "ready")
  BY <1>1, <1>2a, <1>2, EventfulIs
<1>4. song' \in SongSet /\ SongTypes'
  <2>1. song' \in SongSet
    BY <1>2, <1>3 DEF SongSet
  <2> QED BY <1>1, <2>1 DEF SongTypes
<1>5. /\ song'.stop = song.stop /\ song'.epoch = song.epoch /\ song'.events = v
      /\ song'.event = song.event /\ song'.played = song.played /\ song'.ring = song.ring
      /\ song'.stored = song.stored /\ song'.finished = song.finished /\ song'.play = "plays"
      /\ song'.dead = song.dead /\ song'.blocks = song.blocks /\ song'.spool = song.spool
      /\ song'.cacheMode = song.cacheMode /\ song'.pending = song.pending /\ song'.credits = song.credits
  BY <1>1, <1>2, <1>3 DEF SongSet
<1>6. /\ ~song.stop /\ song.events = <<>> /\ song.event = "none" /\ song.spool # "failing"
  BY <1>1, SongHas DEF Spoken, Ended, Reports
<1>7. Len(v) = 1 /\ v[1] = "ready" /\ \A i \in DOMAIN v : i = 1 /\ v[i] = "ready"
  <2>1. Len(song.events) = 0 /\ DOMAIN song.events = {} /\ v \in Seq({"ready", "finished", "error"})
    BY <1>6
  <2> QED BY <1>3, <2>1 DEF Eventful
<1>8. /\ Rung' = Rung /\ Spooled' = Spooled /\ Got' = Got
  BY <1>5 DEF Rung, Spooled, Got, Taken
<1>9. ~Claimed' /\ ~Claimed
  <2>1. 1 \in DOMAIN v
    BY <1>7
  <2> QED BY <1>5, <1>7, <2>1 DEF Claimed
<1>10. Allowed' = Allowed /\ (Alive' => Alive)
  BY <1>5, <1>8, <1>9 DEF Allowed, Alive
<1>11. Begun' /\ SingerRight' /\ SongFlow' /\ SongPaid'
  BY <1>4, <1>5, <1>8, <1>10, MoneyStays
<1>12. InRow'
  BY <1>1, <1>5, <1>8, <1>10 DEF InRow
<1>13. Ended' /\ SongKept'
  BY <1>1, <1>5, <1>6 DEF Spoken, Ended, SongKept
<1>13a. Reports'
  <2>1. \A i \in DOMAIN pcmBack' : pcmBack'[i].kind # "credit" => pcmBack'[i].n = 0
    BY <1>1 DEF Spoken, Reports
  <2>2. \A i \in DOMAIN song'.events : song'.events[i] = "ready" /\ i = 1
    BY <1>5, <1>7
  <2>3. Len(song'.events) <= 1
    <3>1. Len(song'.events) = 1
      BY <1>5, <1>7
    <3>2. 1 <= 1
      OBVIOUS
    <3> QED BY <3>1, <3>2, Zenon
  <2>4. song'.event # "finished" /\ song'.play = "plays"
    BY <1>5, <1>6
  <2> QED BY <2>1, <2>2, <2>3, <2>4 DEF Reports
<1> QED BY <1>4, <1>11, <1>12, <1>13, <1>13a DEF SongInv, Spoken

LEMMA CreditSum ==
  ASSUME NEW m \in {0, 1}, NEW x \in Nat, NEW y \in Nat, NEW z \in Nat, NEW q \in Nat, x <= y + m
  PROVE  q <= q + m /\ (z + x) + q <= (z + y) + (q + m)
OBVIOUS

LEMMA PlayBlockKeeps ==
  ASSUME SongInv, ~song.dead, song.play = "plays", ~song.stop, song.stored # <<>>,
         song' = S!Credited([song EXCEPT !.stored = Tail(@),
                                         !.ring = Append(@, Head(song.stored))], FALSE),
         UNCHANGED <<singer, pcmWire, pcmBack>>
  PROVE  SongInv'
<1>1. SongTypes /\ InRow /\ Spoken /\ SongKept
  BY DEF SongInv
<1>2. PICK b \in Seq(Nat), t \in Seq(Nat) : b = song.stored /\ t = song.ring
  BY <1>1, SongHas
<1>3. PICK h \in Nat : h = Head(b) /\ h = b[1] /\ 1 \in DOMAIN b
  <2>1. Head(b) \in Nat /\ Head(b) = b[1] /\ 1 \in DOMAIN b
    BY <1>2, TailPlaces
  <2> QED BY <2>1, Zenon
<1>5. PICK u \in Seq(Nat) : u = Tail(b) /\ Off(b, u)
  BY <1>2, NatTail
<1>6. PICK v \in Seq(Nat) : v = Append(t, h) /\ Extended(t, v, h)
  BY <1>2, NatAppend
<1>7. PICK e \in {0, 1} : e = IF song.cacheMode THEN 0 ELSE 1
  OBVIOUS
<1>8. PICK c \in Nat : /\ c = IF song.cacheMode THEN song.credits ELSE S!Smaller(song.credits + 1, PcmWindow)
                       /\ c <= song.credits + e
  <2>1. PICK d \in Nat : d = song.credits
    BY <1>1, SongHas
  <2>2. S!Smaller(d + 1, PcmWindow) \in Nat /\ S!Smaller(d + 1, PcmWindow) <= d + 1
    BY SongConstants DEF S!Smaller
  <2> QED BY <1>7, <2>1, <2>2
<1>9. song' = [song EXCEPT !.stored = u, !.ring = v, !.credits = c]
  <2>1. PICK r \in SongSet : r = [song EXCEPT !.stored = u, !.ring = v]
    BY <1>1 DEF SongTypes, SongSet
  <2>2. r.credits = song.credits /\ r.cacheMode = song.cacheMode /\ r.cacheMode \in BOOLEAN
    BY <1>1, <2>1 DEF SongTypes, SongSet
  <2>3. song' = S!Credited(r, FALSE)
    BY <1>2, <1>3, <1>5, <1>6, <2>1
  <2>4. song' = [r EXCEPT !.credits = c]
    BY <1>8, <2>2, <2>3 DEF S!Credited
  <2>5. [r EXCEPT !.credits = c] = [song EXCEPT !.stored = u, !.ring = v, !.credits = c]
    BY <1>1, <2>1 DEF SongTypes, SongSet
  <2> QED BY <2>4, <2>5
<1>10. SongTypes'
  <2>1. song \in SongSet
    BY <1>1 DEF SongTypes
  <2>2. song' \in SongSet
    BY <1>9, <2>1 DEF SongSet
  <2> QED BY <1>1, <2>2 DEF SongTypes
<1>11. /\ song'.stop = song.stop /\ song'.epoch = song.epoch /\ song'.events = song.events
       /\ song'.event = song.event /\ song'.played = song.played /\ song'.ring = v
       /\ song'.stored = u /\ song'.finished = song.finished /\ song'.play = song.play
       /\ song'.dead = song.dead /\ song'.blocks = song.blocks /\ song'.spool = song.spool
       /\ song'.cacheMode = song.cacheMode /\ song'.pending = song.pending /\ song'.credits = c
  BY <1>1, <1>9 DEF SongTypes, SongSet
<1>12. PICK s \in Nat, w \in Nat, n \in Nat, p \in Nat, k \in Nat :
          s = Spooled /\ w = Rung /\ n = Len(b) /\ p = Len(song.played) /\ k = Len(t)
  BY <1>1, <1>2, SongLengths
<1>13. w = p + k /\ s = w + n /\ Len(v) = k + 1 /\ Len(u) = n - 1 /\ n > 0 /\ h = w + 1
  <2>1. w = p + k /\ s = w + n
    BY <1>2, <1>12 DEF Rung, Spooled
  <2>2. Len(v) = k + 1 /\ Len(u) = n - 1 /\ n > 0
    BY <1>5, <1>6, <1>12 DEF Extended, Off
  <2>3. h = w + 1
    BY <1>1, <1>2, <1>3, <1>12 DEF InRow
  <2> QED BY <2>1, <2>2, <2>3
<1>14. /\ Rung' = w + 1 /\ Spooled' = s /\ LastSaid' = LastSaid /\ Claimed' = Claimed
  <2>1. LastSaid' = LastSaid /\ Claimed' = Claimed
    BY <1>11, LastSaidStays DEF Claimed
  <2>2. Rung' = p + (k + 1)
    BY <1>11, <1>12, <1>13 DEF Rung
  <2>3. Rung' = w + 1
    BY <1>13, <2>2
  <2>4. Spooled' = (w + 1) + (n - 1)
    BY <1>11, <1>13, <2>3 DEF Spooled
  <2>5. Spooled' = s
    BY <1>13, <2>4
  <2> QED BY <2>1, <2>3, <2>5
<1>15. Got' = Got
  BY <1>11, <1>12, <1>14 DEF Got, Taken
<1>16. PICK a \in Nat : a = Allowed
  BY <1>1, SongLengths
<1>17. Allowed' = a + e
  <2>1. PICK z \in Nat : z = IF Claimed THEN PcmWindow ELSE 0
    BY SongConstants
  <2>2. a = z + (IF song.cacheMode THEN s ELSE w)
    BY <1>12, <1>16, <2>1 DEF Allowed
  <2>3. Allowed' = z + (IF song.cacheMode THEN s ELSE w + 1)
    BY <1>11, <1>14, <2>1 DEF Allowed
  <2> QED BY <1>7, <2>2, <2>3
<1>18. Begun' /\ SingerRight' /\ SongFlow' /\ SongPaid'
  <2>1. PICK f \in Nat, d \in Nat : f = song.pending /\ d = song.credits
    BY <1>1, SongHas
  <2>2. a <= Allowed' /\ (f + c) + a <= (f + d) + Allowed'
    <3>1. c <= d + e
      BY <1>8, <2>1
    <3>2. a <= a + e /\ (f + c) + a <= (f + d) + (a + e)
      BY <1>7, <3>1, CreditSum
    <3> QED BY <1>17, <3>2
  <2>3. Behind(Got)' = Behind(Got)
    BY <1>15 DEF Behind
  <2>4. Alive' => Alive
    BY <1>11 DEF Alive
  <2> QED BY <1>10, <1>11, <1>16, <2>1, <2>2, <2>3, <2>4, WorkKeeps
<1>19. InRow'
  <2>1. \A i \in DOMAIN song'.stored : song'.stored[i] = Rung' + i
    <3>1. \A i \in DOMAIN b : b[i] = w + i
      BY <1>1, <1>2, <1>12 DEF InRow
    <3>2. \A i \in DOMAIN u : u[i] = (w + 1) + i
      <4> SUFFICES ASSUME NEW i \in DOMAIN u PROVE u[i] = (w + 1) + i
        OBVIOUS
      <4>1. i \in Nat /\ u[i] = w + (i + 1)
        BY <1>5, <3>1 DEF Off
      <4> QED BY <4>1
    <3> QED BY <1>11, <1>14, <3>2
  <2>2. \A i \in DOMAIN song'.ring : song'.ring[i] = Len(song'.played) + i
    <3>1. \A i \in DOMAIN t : t[i] = p + i
      BY <1>1, <1>2, <1>12 DEF InRow
    <3>2. h = p + (k + 1)
      BY <1>13
    <3>3. \A i \in DOMAIN v : v[i] = p + i
      BY <1>6, <1>12, <3>1, <3>2 DEF Extended
    <3> QED BY <1>11, <1>12, <3>3
  <2>3. song'.play = "plays" /\ song'.epoch # 0 /\ Spooled' = Spooled
    BY <1>1, <1>11, <1>12, <1>14 DEF InRow
  <2>4. Alive' = Alive
    BY <1>11 DEF Alive
  <2>5. \A i \in DOMAIN song'.played : song'.played[i] = i
    BY <1>1, <1>11 DEF InRow
  <2>6. song'.finished => Spooled' = SongBlocks /\ song'.spool = "ended" /\ song'.blocks = <<>>
    BY <1>1, <1>11, <2>3 DEF InRow
  <2>7. Alive' => /\ song'.spool = "ended" => song'.finished
                  /\ song'.spool = "runs" => \A i \in DOMAIN song'.blocks :
                       song'.blocks[i] = IF Spooled' + i = SongBlocks + 1 THEN S!End ELSE Spooled' + i
    BY <1>1, <1>11, <2>3, <2>4 DEF InRow
  <2> QED BY <2>1, <2>2, <2>3, <2>5, <2>6, <2>7 DEF InRow
<1>20. Spoken' /\ SongKept'
  BY <1>1, <1>11, <1>14 DEF Spoken, Ended, Reports, SongKept
<1> QED BY <1>10, <1>18, <1>19, <1>20 DEF SongInv

\* The row is as it was where only the other fields change.
LEMMA RowStays ==
  ASSUME InRow, song'.played = song.played, song'.ring = song.ring, song'.stored = song.stored,
         song'.blocks = song.blocks, song'.spool = song.spool, song'.finished = song.finished,
         song'.play # "opens", song'.epoch # 0, Rung' = Rung, Spooled' = Spooled, Alive' => Alive
  PROVE  InRow'
<1>1. /\ \A i \in DOMAIN song'.played : song'.played[i] = i
      /\ \A i \in DOMAIN song'.ring : song'.ring[i] = Len(song'.played) + i
      /\ \A i \in DOMAIN song'.stored : song'.stored[i] = Rung' + i
  BY DEF InRow
<1>2. song'.finished => Spooled' = SongBlocks /\ song'.spool = "ended" /\ song'.blocks = <<>>
  BY DEF InRow
<1>3. Alive' => /\ song'.spool = "ended" => song'.finished
                /\ song'.spool = "runs" => \A i \in DOMAIN song'.blocks :
                     song'.blocks[i] = IF Spooled' + i = SongBlocks + 1 THEN S!End ELSE Spooled' + i
  BY DEF InRow
<1> QED BY <1>1, <1>2, <1>3 DEF InRow

LEMMA PlayEndsKeeps ==
  ASSUME SongInv, ~song.dead, song.play = "plays", ~song.stop, song.stored = <<>>, song.finished,
         song.ring = <<>>, Len(song.events) < S!EventRoom,
         song' = S!Announce([song EXCEPT !.play = "ended"], "finished"),
         UNCHANGED <<singer, pcmWire, pcmBack>>
  PROVE  SongInv'
<1>1. SongTypes /\ InRow /\ Spoken /\ SongKept /\ song \in SongSet
  BY DEF SongInv, SongTypes
<1>2. PICK r \in SongSet : r = [song EXCEPT !.play = "ended"]
  <2>1. song \in SongSet
    BY <1>1
  <2>2. [song EXCEPT !.play = "ended"] \in SongSet
    BY <2>1 DEF SongSet
  <2> QED BY <2>2
<1>3. r.events = song.events
  BY <1>1, <1>2 DEF SongSet
<1>4. PICK v \in Seq({"ready", "finished", "error"}) : song' = [r EXCEPT !.events = v] /\ Eventful(v, "finished")
  BY <1>1, <1>2, <1>3, EventfulIs
<1>5. song' \in SongSet /\ SongTypes'
  <2>1. song' \in SongSet
    BY <1>2, <1>4 DEF SongSet
  <2> QED BY <1>1, <2>1 DEF SongTypes
<1>6. /\ song'.stop = song.stop /\ song'.epoch = song.epoch /\ song'.events = v
      /\ song'.event = song.event /\ song'.played = song.played /\ song'.ring = song.ring
      /\ song'.stored = song.stored /\ song'.finished = song.finished /\ song'.play = "ended"
      /\ song'.dead = song.dead /\ song'.blocks = song.blocks /\ song'.spool = song.spool
      /\ song'.cacheMode = song.cacheMode /\ song'.pending = song.pending /\ song'.credits = song.credits
  BY <1>1, <1>2, <1>4 DEF SongSet
<1>7. /\ \A i \in DOMAIN v : (i \in DOMAIN song.events /\ v[i] = song.events[i]) \/ v[i] = "finished"
      /\ \A i \in DOMAIN song.events : i \in DOMAIN v /\ v[i] = song.events[i]
  BY <1>4 DEF Eventful, S!EventRoom
<1>8. /\ Rung' = Rung /\ Spooled' = Spooled /\ Got' = Got
  BY <1>6 DEF Rung, Spooled, Got, Taken
<1>9. Claimed' = Claimed
  <2>1. (\A i \in DOMAIN v : v[i] # "ready") <=> (\A i \in DOMAIN song.events : song.events[i] # "ready")
    BY <1>7
  <2> QED BY <1>6, <2>1 DEF Claimed
<1>10. Allowed' = Allowed /\ Alive' = Alive
  BY <1>6, <1>8, <1>9 DEF Allowed, Alive
<1>11. Begun' /\ SingerRight' /\ SongFlow' /\ SongPaid'
  BY <1>5, <1>6, <1>8, <1>10, MoneyStays
<1>12. InRow'
  <2>1. song'.play = "ended" /\ song'.epoch # 0
    BY <1>1, <1>6 DEF InRow
  <2> QED BY <1>1, <1>6, <1>8, <1>10, <2>1, RowStays
<1>13. Ended' /\ SongKept'
  BY <1>1, <1>6 DEF Spoken, Ended, SongKept
<1>14. Reports'
  <2>1. \A i \in DOMAIN pcmBack' : pcmBack'[i].kind # "credit" => pcmBack'[i].n = 0
    BY <1>1 DEF Spoken, Reports
  <2>2. \A i \in DOMAIN song'.events : song'.events[i] = "ready" => i = 1
    BY <1>1, <1>6, <1>7 DEF Spoken, Reports
  <2> QED BY <1>6, <2>1, <2>2 DEF Reports
<1> QED BY <1>5, <1>11, <1>12, <1>13, <1>14 DEF SongInv, Spoken

LEMMA PlayStopsKeeps ==
  ASSUME SongInv, ~song.dead, song.play \in {"opens", "plays"}, song.stop,
         song' = [song EXCEPT !.play = "ended"],
         UNCHANGED <<singer, pcmWire, pcmBack>>
  PROVE  SongInv'
<1>1. SongTypes /\ InRow /\ Spoken /\ SongKept
  BY DEF SongInv
<1>2. SongTypes'
  <2>1. song \in SongSet
    BY <1>1 DEF SongTypes
  <2>2. song' \in SongSet
    BY <2>1 DEF SongSet
  <2> QED BY <1>1, <2>2 DEF SongTypes
<1>3. /\ song'.stop = song.stop /\ song'.epoch = song.epoch /\ song'.events = song.events
      /\ song'.event = song.event /\ song'.played = song.played /\ song'.ring = song.ring
      /\ song'.stored = song.stored /\ song'.finished = song.finished /\ song'.play = "ended"
      /\ song'.dead = song.dead /\ song'.blocks = song.blocks /\ song'.spool = song.spool
  BY <1>1 DEF SongTypes, SongSet
<1>4. Rung' = Rung /\ Spooled' = Spooled /\ LastSaid' = LastSaid
  BY <1>3, LastSaidStays DEF Rung, Spooled
<1>5. ~Alive'
  BY <1>3 DEF Alive
<1>6. Begun' /\ SingerRight' /\ SongFlow' /\ SongPaid'
  BY <1>2, <1>3, <1>5, MoneyStays
<1>7. InRow'
  BY <1>1, <1>3, <1>4, <1>5 DEF InRow
<1>8. Ended' /\ SongKept'
  BY <1>1, <1>3, <1>4 DEF Spoken, Ended, SongKept
<1>9. Reports'
  BY <1>1, <1>3 DEF Spoken, Reports
<1> QED BY <1>2, <1>6, <1>7, <1>8, <1>9 DEF SongInv, Spoken

\* The device's callback.
LEMMA CallbackKeeps ==
  ASSUME SongInv, ~song.dead, song.ring # <<>>, song.play # "ended",
         song' = [song EXCEPT !.ring = Tail(@), !.played = Append(@, Head(song.ring))],
         UNCHANGED <<singer, pcmWire, pcmBack>>
  PROVE  SongInv'
<1>1. SongTypes /\ InRow /\ Spoken /\ SongKept
  BY DEF SongInv
<1>2. PICK b \in Seq(Nat), t \in Seq(Nat) : b = song.ring /\ t = song.played
  BY <1>1, SongHas
<1>3. PICK h \in Nat : h = Head(b) /\ h = b[1] /\ 1 \in DOMAIN b
  <2>1. Head(b) \in Nat /\ Head(b) = b[1] /\ 1 \in DOMAIN b
    BY <1>2, TailPlaces
  <2> QED BY <2>1, Zenon
<1>4. PICK u \in Seq(Nat) : u = Tail(b) /\ Off(b, u)
  BY <1>2, NatTail
<1>5. PICK v \in Seq(Nat) : v = Append(t, h) /\ Extended(t, v, h)
  BY <1>2, NatAppend
<1>6. song' = [song EXCEPT !.ring = u, !.played = v]
  BY <1>2, <1>3, <1>4, <1>5
<1>7. SongTypes'
  <2>1. song \in SongSet
    BY <1>1 DEF SongTypes
  <2>2. song' \in SongSet
    BY <1>6, <2>1 DEF SongSet
  <2> QED BY <1>1, <2>2 DEF SongTypes
<1>8. /\ song'.stop = song.stop /\ song'.epoch = song.epoch /\ song'.events = song.events
      /\ song'.event = song.event /\ song'.played = v /\ song'.ring = u
      /\ song'.stored = song.stored /\ song'.finished = song.finished /\ song'.play = song.play
      /\ song'.dead = song.dead /\ song'.blocks = song.blocks /\ song'.spool = song.spool
      /\ song'.cacheMode = song.cacheMode /\ song'.pending = song.pending /\ song'.credits = song.credits
  BY <1>1, <1>6 DEF SongTypes, SongSet
<1>9. PICK p \in Nat, k \in Nat : p = Len(t) /\ k = Len(b) /\ Len(v) = p + 1 /\ Len(u) = k - 1
  BY <1>4, <1>5 DEF Extended, Off
<1>10. Rung' = Rung
  <2>1. Rung = p + k /\ Rung' = (p + 1) + (k - 1)
    BY <1>2, <1>8, <1>9 DEF Rung
  <2> QED BY <2>1
<1>11. Spooled' = Spooled /\ Got' = Got /\ Claimed' = Claimed /\ Alive' = Alive /\ LastSaid' = LastSaid
  BY <1>8, <1>10, LastSaidStays DEF Spooled, Got, Taken, Claimed, Alive
<1>12. Allowed' = Allowed
  BY <1>8, <1>10, <1>11 DEF Allowed
<1>13. Begun' /\ SingerRight' /\ SongFlow' /\ SongPaid'
  BY <1>7, <1>8, <1>11, <1>12, MoneyStays
<1>14. InRow'
  <2>1. \A i \in DOMAIN song'.played : song'.played[i] = i
    <3>1. \A i \in DOMAIN t : t[i] = i
      BY <1>1, <1>2 DEF InRow
    <3>2. h = p + 1
      BY <1>1, <1>2, <1>3, <1>9 DEF InRow
    <3> QED BY <1>5, <1>8, <1>9, <3>1, <3>2 DEF Extended
  <2>2. \A i \in DOMAIN song'.ring : song'.ring[i] = Len(song'.played) + i
    <3>1. \A i \in DOMAIN b : b[i] = p + i
      BY <1>1, <1>2, <1>9 DEF InRow
    <3>2. \A i \in DOMAIN u : u[i] = (p + 1) + i
      <4> SUFFICES ASSUME NEW i \in DOMAIN u PROVE u[i] = (p + 1) + i
        OBVIOUS
      <4>1. i \in Nat /\ u[i] = p + (i + 1)
        BY <1>4, <3>1 DEF Off
      <4> QED BY <4>1
    <3> QED BY <1>8, <1>9, <3>2
  <2>3. song'.epoch # 0
    BY <1>1, <1>8 DEF InRow
  <2>4. \A i \in DOMAIN song'.stored : song'.stored[i] = Rung' + i
    BY <1>1, <1>8, <1>10 DEF InRow
  <2>5. song'.finished => Spooled' = SongBlocks /\ song'.spool = "ended" /\ song'.blocks = <<>>
    BY <1>1, <1>8, <1>11 DEF InRow
  <2>6. song'.play = "opens" => Spooled' = 0
    BY <1>1, <1>8, <1>11 DEF InRow
  <2>7. Alive' => /\ song'.spool = "ended" => song'.finished
                  /\ song'.spool = "runs" => \A i \in DOMAIN song'.blocks :
                       song'.blocks[i] = IF Spooled' + i = SongBlocks + 1 THEN S!End ELSE Spooled' + i
    BY <1>1, <1>8, <1>11 DEF InRow
  <2> QED BY <2>1, <2>2, <2>3, <2>4, <2>5, <2>6, <2>7 DEF InRow
<1>15. Ended' /\ SongKept'
  BY <1>1, <1>8, <1>11 DEF Spoken, Ended, SongKept
<1>16. Reports'
  BY <1>1, <1>8 DEF Spoken, Reports
<1> QED BY <1>7, <1>13, <1>14, <1>15, <1>16 DEF SongInv, Spoken

\* An error that is announced is the last of what is said: there is room for it, or one has been.
LEMMA ErrorLastSaid ==
  ASSUME SongInv, song.epoch # 0, song.spool = "failing" \/ (~song.stop /\ song.play # "ended"),
         NEW v, Eventful(v, "error"), song'.events = v, UNCHANGED pcmBack,
         song'.epoch = song.epoch, song'.event = song.event, singer'.epoch = singer.epoch,
         singer'.heard = singer.heard
  PROVE  LastSaid' /\ \A i \in DOMAIN v : (i \in DOMAIN song.events /\ v[i] = song.events[i]) \/ v[i] = "error"
<1>1. Spoken /\ SongTypes /\ song.events \in Seq({"ready", "finished", "error"}) /\ song.epoch \in Nat
      /\ song.play \in {"ended", "opens", "plays"} /\ song.stop \in BOOLEAN
  BY SongHas DEF SongInv
<1>2. CASE Len(song.events) < 2
  BY <1>2 DEF Eventful, LastSaid
<1>3. CASE ~(Len(song.events) < 2)
  <2>1. v = song.events
    BY <1>3 DEF Eventful
  <2>2. song.stop
    <3> SUFFICES ASSUME ~song.stop PROVE FALSE
      OBVIOUS
    <3>1. song.epoch > 0
      BY <1>1
    <3>2. song.play # "ended"
      BY <1>1, <3>1 DEF Spoken, Ended
    <3>3. song.events = <<>> \/ Len(song.events) <= 1
      BY <1>1, <3>2 DEF Spoken, Reports
    <3>4. Len(song.events) \in Nat /\ (song.events = <<>> => Len(song.events) = 0)
      BY <1>1
    <3> QED BY <1>3, <3>3, <3>4
  <2>3. LastSaid
    BY <1>1, <2>2 DEF Spoken, Ended
  <2>4. LastSaid' = LastSaid
    BY <2>1, LastSaidStays
  <2> QED BY <2>1, <2>3, <2>4
<1> QED BY <1>2, <1>3

LEMMA SpoolReportsKeeps ==
  ASSUME SongInv, ~song.dead, song.spool = "failing",
         song' = S!Announce([song EXCEPT !.spool = "ended", !.stop = TRUE], "error"),
         UNCHANGED <<singer, pcmWire, pcmBack>>
  PROVE  SongInv'
<1>1. SongTypes /\ InRow /\ Spoken /\ SongKept /\ song \in SongSet
  BY DEF SongInv, SongTypes
<1>2. PICK r \in SongSet : r = [song EXCEPT !.spool = "ended", !.stop = TRUE]
  <2>1. song \in SongSet
    BY <1>1
  <2>2. [song EXCEPT !.spool = "ended", !.stop = TRUE] \in SongSet
    BY <2>1 DEF SongSet
  <2> QED BY <2>2
<1>3. r.events = song.events
  BY <1>1, <1>2 DEF SongSet
<1>4. PICK v \in Seq({"ready", "finished", "error"}) : song' = [r EXCEPT !.events = v] /\ Eventful(v, "error")
  BY <1>1, <1>2, <1>3, EventfulIs
<1>5. song' \in SongSet /\ SongTypes'
  <2>1. song' \in SongSet
    BY <1>2, <1>4 DEF SongSet
  <2> QED BY <1>1, <2>1 DEF SongTypes
<1>6. /\ song'.stop = TRUE /\ song'.epoch = song.epoch /\ song'.events = v
      /\ song'.event = song.event /\ song'.played = song.played /\ song'.ring = song.ring
      /\ song'.stored = song.stored /\ song'.finished = song.finished /\ song'.play = song.play
      /\ song'.dead = song.dead /\ song'.blocks = song.blocks /\ song'.spool = "ended"
  <2>1. /\ r.stop = TRUE /\ r.epoch = song.epoch /\ r.event = song.event /\ r.played = song.played
        /\ r.ring = song.ring /\ r.stored = song.stored /\ r.finished = song.finished
        /\ r.play = song.play /\ r.dead = song.dead /\ r.blocks = song.blocks /\ r.spool = "ended"
    BY <1>1, <1>2 DEF SongSet
  <2>2. r \in SongSet /\ song' = [r EXCEPT !.events = v]
    BY <1>2, <1>4
  <2> QED BY <2>1, <2>2 DEF SongSet
<1>7. song.epoch # 0 /\ ~song.finished /\ song.play # "opens" /\ singer.failures > 0
  BY <1>1 DEF InRow, Spoken, Ended
<1>8. /\ LastSaid'
      /\ \A i \in DOMAIN v : (i \in DOMAIN song.events /\ v[i] = song.events[i]) \/ v[i] = "error"
  BY <1>4, <1>6, <1>7, ErrorLastSaid
<1>9. Rung' = Rung /\ Spooled' = Spooled /\ ~Alive'
  BY <1>6 DEF Rung, Spooled, Alive
<1>10. Begun' /\ SingerRight' /\ SongFlow' /\ SongPaid'
  BY <1>5, <1>6, <1>9, MoneyStays
<1>11. InRow'
  <2>1. /\ \A i \in DOMAIN song'.played : song'.played[i] = i
        /\ \A i \in DOMAIN song'.ring : song'.ring[i] = Len(song'.played) + i
        /\ \A i \in DOMAIN song'.stored : song'.stored[i] = Rung' + i
    BY <1>1, <1>6, <1>9 DEF InRow
  <2> QED BY <1>6, <1>7, <1>9, <2>1 DEF InRow
<1>12. Ended' /\ SongKept'
  BY <1>1, <1>6, <1>7, <1>8 DEF Spoken, Ended, SongKept
<1>13. Reports'
  <2>1. \A i \in DOMAIN pcmBack' : pcmBack'[i].kind # "credit" => pcmBack'[i].n = 0
    BY <1>1 DEF Spoken, Reports
  <2>2. \A i \in DOMAIN song'.events : song'.events[i] = "ready" => i = 1
    BY <1>1, <1>6, <1>8 DEF Spoken, Reports
  <2>3. song'.event = "finished" \/ (\E i \in DOMAIN song'.events : song'.events[i] = "finished")
          => song.event = "finished" \/ \E i \in DOMAIN song.events : song.events[i] = "finished"
    BY <1>6, <1>8
  <2>4. ~(song'.event = "finished" \/ \E i \in DOMAIN song'.events : song'.events[i] = "finished")
    BY <1>1, <1>7, <2>3 DEF Spoken, Reports
  <2> QED BY <1>6, <1>7, <2>1, <2>2, <2>4 DEF Reports
<1> QED BY <1>5, <1>10, <1>11, <1>12, <1>13 DEF SongInv, Spoken

LEMMA PlayFailsKeeps ==
  ASSUME SongInv, ~song.dead, song.epoch > 0, song.play \in {"opens", "plays"}, ~song.stop,
         song' = S!Announce([song EXCEPT !.play = "ended", !.stop = TRUE], "error"),
         singer' = [singer EXCEPT !.failures = @ + 1], UNCHANGED <<pcmWire, pcmBack>>
  PROVE  SongInv'
<1>1. SongTypes /\ InRow /\ Spoken /\ SongKept /\ song \in SongSet /\ singer \in SingerSet
  BY DEF SongInv, SongTypes
<1>2. PICK r \in SongSet : r = [song EXCEPT !.play = "ended", !.stop = TRUE]
  <2>1. song \in SongSet
    BY <1>1
  <2>2. [song EXCEPT !.play = "ended", !.stop = TRUE] \in SongSet
    BY <2>1 DEF SongSet
  <2> QED BY <2>2
<1>3. r.events = song.events
  BY <1>1, <1>2 DEF SongSet
<1>4. PICK v \in Seq({"ready", "finished", "error"}) : song' = [r EXCEPT !.events = v] /\ Eventful(v, "error")
  BY <1>1, <1>2, <1>3, EventfulIs
<1>5. /\ singer' \in SingerSet /\ singer'.epoch = singer.epoch /\ singer'.credit = singer.credit
      /\ singer'.sent = singer.sent /\ singer'.ended = singer.ended /\ singer'.heard = singer.heard
      /\ singer'.failures > 0
  <2>1. PICK f \in Nat : f = singer.failures + 1 /\ f > 0
    BY <1>1 DEF SingerSet
  <2>2. singer' = [singer EXCEPT !.failures = f]
    BY <2>1
  <2> QED BY <1>1, <2>1, <2>2 DEF SingerSet
<1>6. song' \in SongSet /\ SongTypes'
  <2>1. song' \in SongSet
    BY <1>2, <1>4 DEF SongSet
  <2> QED BY <1>1, <1>5, <2>1 DEF SongTypes
<1>7. /\ song'.stop = TRUE /\ song'.epoch = song.epoch /\ song'.events = v
      /\ song'.event = song.event /\ song'.played = song.played /\ song'.ring = song.ring
      /\ song'.stored = song.stored /\ song'.finished = song.finished /\ song'.play = "ended"
      /\ song'.dead = song.dead /\ song'.blocks = song.blocks /\ song'.spool = song.spool
  BY <1>1, <1>2, <1>4 DEF SongSet
<1>8. song.epoch # 0
  BY SongHas, <1>1
<1>9. /\ LastSaid'
      /\ \A i \in DOMAIN v : (i \in DOMAIN song.events /\ v[i] = song.events[i]) \/ v[i] = "error"
  BY <1>4, <1>5, <1>7, <1>8, ErrorLastSaid
<1>10. Rung' = Rung /\ Spooled' = Spooled /\ ~Alive'
  BY <1>7 DEF Rung, Spooled, Alive
<1>11. Begun' /\ SingerRight' /\ SongFlow' /\ SongPaid'
  BY <1>5, <1>6, <1>7, <1>10, MoneyStays
<1>12. InRow'
  BY <1>1, <1>7, <1>8, <1>10, RowStays
<1>13. Ended' /\ SongKept'
  BY <1>1, <1>5, <1>7, <1>9 DEF Spoken, Ended, SongKept
<1>14. Reports'
  <2>1. \A i \in DOMAIN pcmBack' : pcmBack'[i].kind # "credit" => pcmBack'[i].n = 0
    BY <1>1 DEF Spoken, Reports
  <2>2. \A i \in DOMAIN song'.events : song'.events[i] = "ready" => i = 1
    BY <1>1, <1>7, <1>9 DEF Spoken, Reports
  <2>3. song'.event = "finished" \/ (\E i \in DOMAIN song'.events : song'.events[i] = "finished")
          => song.event = "finished" \/ \E i \in DOMAIN song.events : song.events[i] = "finished"
    BY <1>7, <1>9
  <2>4. ~(song'.event = "finished" \/ \E i \in DOMAIN song'.events : song'.events[i] = "finished")
    BY <1>1, <2>3 DEF Spoken, Reports
  <2> QED BY <1>7, <2>1, <2>2, <2>4 DEF Reports
<1> QED BY <1>6, <1>11, <1>12, <1>13, <1>14 DEF SongInv, Spoken

LEMMA SpoolFailsKeeps ==
  ASSUME SongInv, ~song.dead, song.epoch > 0, song.spool = "runs", song.blocks # <<>>, ~song.stop,
         song' = [song EXCEPT !.spool = "failing", !.blocks = <<>>],
         singer' = [singer EXCEPT !.failures = @ + 1], UNCHANGED <<pcmWire, pcmBack>>
  PROVE  SongInv'
<1>1. SongTypes /\ InRow /\ Spoken /\ SongKept /\ song \in SongSet /\ singer \in SingerSet
  BY DEF SongInv, SongTypes
<1>2. /\ singer' \in SingerSet /\ singer'.epoch = singer.epoch /\ singer'.credit = singer.credit
      /\ singer'.sent = singer.sent /\ singer'.ended = singer.ended /\ singer'.heard = singer.heard
      /\ singer'.failures > 0
  <2>1. PICK f \in Nat : f = singer.failures + 1 /\ f > 0
    BY <1>1 DEF SingerSet
  <2>2. singer' = [singer EXCEPT !.failures = f]
    BY <2>1
  <2> QED BY <1>1, <2>1, <2>2 DEF SingerSet
<1>3. SongTypes'
  <2>1. song \in SongSet /\ <<>> \in Seq(Nat)
    BY <1>1
  <2>2. song' \in SongSet
    BY <2>1 DEF SongSet
  <2> QED BY <1>1, <1>2, <2>2 DEF SongTypes
<1>4. /\ song'.stop = song.stop /\ song'.epoch = song.epoch /\ song'.events = song.events
      /\ song'.event = song.event /\ song'.played = song.played /\ song'.ring = song.ring
      /\ song'.stored = song.stored /\ song'.finished = song.finished /\ song'.play = song.play
      /\ song'.dead = song.dead /\ song'.blocks = <<>> /\ song'.spool = "failing"
  BY <1>1 DEF SongSet
<1>5. ~song.finished /\ song.play # "opens"
  BY HeadBlock DEF Alive
<1>6. Rung' = Rung /\ Spooled' = Spooled /\ ~Alive'
  BY <1>4 DEF Rung, Spooled, Alive
<1>7. Begun' /\ SingerRight' /\ SongFlow' /\ SongPaid'
  BY <1>2, <1>3, <1>4, <1>6, MoneyStays
<1>8. InRow'
  <2>1. /\ \A i \in DOMAIN song'.played : song'.played[i] = i
        /\ \A i \in DOMAIN song'.ring : song'.ring[i] = Len(song'.played) + i
        /\ \A i \in DOMAIN song'.stored : song'.stored[i] = Rung' + i
    BY <1>1, <1>4, <1>6 DEF InRow
  <2>2. song'.epoch # 0
    BY <1>1, <1>4, SongHas
  <2> QED BY <1>4, <1>5, <1>6, <2>1, <2>2 DEF InRow
<1>9. Ended' /\ SongKept'
  BY <1>1, <1>2, <1>4, <1>5 DEF Spoken, Ended, SongKept
<1>10. Reports'
  BY <1>1, <1>4 DEF Spoken, Reports
<1> QED BY <1>3, <1>7, <1>8, <1>9, <1>10 DEF SongInv, Spoken

LEMMA SongWorks == ASSUME SongInv, S!Works PROVE SongInv'
<1>1. ~song.dead /\ UNCHANGED <<singer, pcmWire, pcmBack>>
  BY DEF S!Works
<1>2. CASE S!Spool
  <2>1. CASE song.stop
    BY <1>1, <1>2, <2>1, SpoolStops DEF S!Spool
  <2>2. CASE ~song.stop /\ song.blocks # <<>> /\ Head(song.blocks) = S!End
    BY <1>1, <1>2, <2>2, SpoolEnds DEF S!Spool
  <2>3. CASE ~song.stop /\ song.blocks # <<>> /\ Head(song.blocks) # S!End
    BY <1>1, <1>2, <2>3, SpoolStores DEF S!Spool
  <2>4. song.stop \/ song.blocks # <<>>
    BY <1>2 DEF S!Spool
  <2> QED BY <2>1, <2>2, <2>3, <2>4
<1>3. CASE S!Ready
  BY <1>1, <1>3, ReadyKeeps DEF S!Ready
<1>4. CASE S!PlayBlock
  BY <1>1, <1>4, PlayBlockKeeps DEF S!PlayBlock
<1>5. CASE S!PlayEnds
  BY <1>1, <1>5, PlayEndsKeeps DEF S!PlayEnds, S!AtEnd
<1>6. CASE S!PlayStops
  BY <1>1, <1>6, PlayStopsKeeps DEF S!PlayStops
<1>7. CASE S!Callback
  BY <1>1, <1>7, CallbackKeeps DEF S!Callback
<1>8. CASE S!SpoolReports
  BY <1>1, <1>8, SpoolReportsKeeps DEF S!SpoolReports
<1>9. S!Spool \/ S!Ready \/ S!PlayBlock \/ S!PlayEnds \/ S!PlayStops \/ S!Callback \/ S!SpoolReports
  BY DEF S!Works, S!Play
<1> QED BY <1>2, <1>3, <1>4, <1>5, <1>6, <1>7, <1>8, <1>9

LEMMA SongFails == ASSUME SongInv, S!Failure PROVE SongInv'
<1>1. /\ ~song.dead /\ singer' = [singer EXCEPT !.failures = @ + 1] /\ UNCHANGED <<pcmWire, pcmBack>>
      /\ S!PlayFails \/ S!SpoolFails
  BY DEF S!Failure
<1>2. CASE S!PlayFails
  BY <1>1, <1>2, PlayFailsKeeps DEF S!PlayFails, S!Failing
<1>3. CASE S!SpoolFails
  BY <1>1, <1>3, SpoolFailsKeeps DEF S!SpoolFails, S!Failing
<1> QED BY <1>1, <1>2, <1>3

-----------------------------------------------------------------------------
\* What the host does leaves the song as it is.
LEMMA HostLeaves ==
  ASSUME SongInv, SongTypes', UNCHANGED <<song, pcmBack>>, singer'.failures = singer.failures,
         \/ singer'.epoch = singer.epoch /\ singer'.heard = singer.heard
         \/ singer'.epoch > song.epoch
  PROVE  InRow' /\ Spoken' /\ SongKept' /\ Rung' = Rung /\ Spooled' = Spooled /\ Got' = Got
         /\ Alive' = Alive /\ Claimed' = Claimed /\ Allowed' = Allowed
<1>1. InRow /\ Spoken /\ SongKept
  BY DEF SongInv
<1>2. /\ Rung' = Rung /\ Spooled' = Spooled /\ Alive' = Alive /\ Claimed' = Claimed
  BY DEF Rung, Spooled, Alive, Claimed
<1>3. Got' = Got /\ Allowed' = Allowed
  BY <1>2 DEF Got, Taken, Allowed
<1>4. InRow' /\ SongKept'
  BY <1>1, <1>2 DEF InRow, SongKept
<1>5. LastSaid => LastSaid'
  BY DEF LastSaid, Says
<1>6. Ended' /\ Reports'
  BY <1>1, <1>5 DEF Spoken, Ended, Reports
<1> QED BY <1>2, <1>3, <1>4, <1>6 DEF Spoken

LEMMA BehindIs == \A n : Behind(n) \in SUBSET Nat /\ Behind(n) \in SUBSET (1 .. SongBlocks + 1)
BY SongConstants DEF Behind

LEMMA WireGrows ==
  ASSUME NEW w \in Seq(SongMsg), NEW m \in SongMsg, NEW t, t = Append(w, m)
  PROVE  /\ t \in Seq(SongMsg) /\ Len(t) = Len(w) + 1 /\ Len(w) \in Nat
         /\ DOMAIN t = DOMAIN w \cup {Len(w) + 1} /\ t[Len(w) + 1] = m
         /\ \A i \in DOMAIN w : t[i] = w[i] /\ i < Len(w) + 1 /\ i \in Nat
<1>1. Len(w) \in Nat
  OBVIOUS
<1> QED BY <1>1, AppendPlaces

\* The host sends what is next, for a credit.
LEMMA SenderSends ==
  ASSUME SongInv, NEW m \in SongMsg, m.epoch = singer.epoch, m.kind \in {"chunk", "end"},
         m.kind = "chunk" => m.n <= SongBlocks, Portion(singer.epoch, m) = {Sent + 1},
         Sent + 1 <= SongBlocks + 1, singer.credit > 0, singer.epoch > 0,
         pcmWire' = Append(pcmWire, m), UNCHANGED <<song, pcmBack>>,
         SongTypes', singer'.epoch = singer.epoch, singer'.heard = singer.heard,
         singer'.failures = singer.failures, singer'.credit = singer.credit - 1, Sent' = Sent + 1,
         SingerRight'
  PROVE  SongInv'
<1>1. SongTypes /\ Begun /\ SongFlow /\ SongPaid
  BY DEF SongInv
<1>2. PICK w \in Seq(SongMsg), t \in Seq(SongMsg) : w = pcmWire /\ t = pcmWire'
  BY <1>1, SongHas DEF SongTypes
<1>3. /\ Len(t) = Len(w) + 1 /\ DOMAIN t = DOMAIN w \cup {Len(w) + 1} /\ t[Len(w) + 1] = m
      /\ \A i \in DOMAIN w : t[i] = w[i] /\ i < Len(w) + 1 /\ i \in Nat
  BY <1>2, WireGrows
<1>4. \A i \in DOMAIN t : (i \in DOMAIN w /\ t[i] = w[i]) \/ t[i] = m
  BY <1>3
<1>5. InRow' /\ Spoken' /\ SongKept' /\ Got' = Got /\ Alive' = Alive /\ Allowed' = Allowed
  BY HostLeaves
<1>6. PICK c \in Nat, n \in Nat, a \in Nat : c = singer.credit /\ n = Sent /\ a = Allowed
  BY <1>1, SongHas, SongLengths
<1>6a. c > 0 /\ singer'.credit = c - 1 /\ c - 1 \in Nat /\ n + 1 <= SongBlocks + 1 /\ Sent' = n + 1
  BY <1>6
<1>7. Begun'
  <2>1. \A i \in DOMAIN t : t[i].kind = "open" => i \in DOMAIN w /\ t[i] = w[i]
    BY <1>4
  <2>2. ASSUME NEW i \in DOMAIN t, t[i].kind = "open" PROVE Unsung(t[i].epoch)'
    <3>1. PICK e \in Nat : e = t[i].epoch /\ e = w[i].epoch /\ Unsung(e)
      BY <1>1, <1>2, <2>1, <2>2, SongMsgHas DEF Begun
    <3>2. e # singer.epoch
      BY <1>6, <1>6a, <3>1 DEF Unsung
    <3>3. \A j \in DOMAIN t : t[j].epoch = e => t[j].kind \notin {"chunk", "end"}
      BY <1>2, <1>4, <3>1, <3>2 DEF Unsung
    <3>4. Unsung(e)'
      BY <1>2, <3>1, <3>2, <3>3 DEF Unsung
    <3> QED BY <3>1, <3>4
  <2>3. \A i \in DOMAIN t : /\ 0 < t[i].epoch /\ t[i].epoch <= singer.epoch
                            /\ t[i].kind = "chunk" => t[i].n <= SongBlocks
    <3>1. \A i \in DOMAIN w : /\ 0 < w[i].epoch /\ w[i].epoch <= singer.epoch
                              /\ w[i].kind = "chunk" => w[i].n <= SongBlocks
      BY <1>1, <1>2 DEF Begun
    <3>2. singer.epoch <= singer.epoch
      BY <1>1, SongHas
    <3>3. /\ 0 < m.epoch /\ m.epoch <= singer.epoch
          /\ m.kind = "chunk" => m.n <= SongBlocks
      BY <3>2
    <3> QED BY <1>4, <3>1, <3>3
  <2>4. \A i, j \in DOMAIN t : i < j /\ t[i].kind = "open" /\ t[j].kind = "open"
                                => t[i].epoch < t[j].epoch
    BY <1>1, <1>2, <2>1 DEF Begun
  <2> QED BY <1>1, <1>2, <2>2, <2>3, <2>4 DEF Begun
<1>8. singer.epoch = song.epoch /\ Alive => n + 1 <= a
  <2> SUFFICES ASSUME singer.epoch = song.epoch, Alive PROVE n + 1 <= a
    OBVIOUS
  <2>1. PICK x \in Nat : x = song.pending + song.credits /\ x <= a
    BY <1>1, <1>6, SongHas DEF SongPaid
  <2>2. PICK q \in Amounts : q = Fees(song.epoch, pcmBack)
    BY <1>1, FeesAre, SongHas
  <2>3. Pays(q, n + c, a - x)
    BY <1>1, <1>6, <2>1, <2>2 DEF SongPaid
  <2>3a. n + c \in Nat /\ a - x \in Nat
    BY <2>1
  <2>4. n + c <= a - x
    BY <2>3, <2>3a, PaysMeans
  <2>5. \A i, j, k, l \in Nat : i + j <= k - l /\ l <= k /\ j > 0 => i + 1 <= k
    OBVIOUS
  <2> QED BY <1>6a, <2>1, <2>4, <2>5
<1>9. SongFlow'
  <2> SUFFICES ASSUME Alive PROVE \E y \in SUBSET (1 .. SongBlocks + 1) : Flowing(y)'
    BY <1>5 DEF SongFlow
  <2>1. PICK y \in SUBSET (1 .. SongBlocks + 1) : Flowing(y)
    BY <1>1 DEF SongFlow
  <2>2. PICK q \in Parts2, r \in Parts2 : q = Portions(song.epoch, w) /\ r = Portions(song.epoch, t)
    BY PortionsAre
  <2>2a. PICK d \in SUBSET Nat : d = IF song.epoch = singer.epoch THEN {n + 1} ELSE {}
    <3>1. {n + 1} \in SUBSET Nat /\ {} \in SUBSET Nat
      OBVIOUS
    <3> QED BY <3>1, Zenon
  <2>2b. d = Portion(song.epoch, m)
    <3>1. CASE song.epoch = singer.epoch
      BY <1>6, <2>2a, <3>1
    <3>2. CASE song.epoch # singer.epoch
      BY <2>2a, <3>2 DEF Portion
    <3> QED BY <3>1, <3>2
  <2>3. Longer(q, r, d)
    BY <1>2, <2>2, <2>2b, PortionsOn
  <2>4. PICK x \in SUBSET Nat : x = Behind(Got)
    BY BehindIs
  <2>5. Leads(TRUE, q, x, y)
    BY <1>2, <2>1, <2>2, <2>4 DEF Flowing
  <2>6. song.epoch = singer.epoch => y = Behind(n)
    BY <1>6, <2>1 DEF Flowing
  <2>7. song.epoch = singer.epoch => n + 1 \in y /\ \A l \in y : n + 1 <= l
    <3>1. n + 1 \in Behind(n) /\ \A l \in Behind(n) : n + 1 <= l
      BY <1>6a, SongConstants DEF Behind
    <3> QED BY <2>6, <3>1
  <2>8. d \subseteq y /\ \A k \in d, l \in y : k <= l
    BY <2>2a, <2>7
  <2>9. Leads(TRUE, r, x, y \ d)
    BY <2>3, <2>5, <2>8, LeadsOn
  <2>10. song.epoch = singer.epoch => y \ d = Behind(n + 1)
    BY <2>2a, <2>6, SongConstants DEF Behind
  <2>11. \A k \in 1 .. (SongBlocks + 1) : k > a => k \in y \ d
    BY <1>6, <1>8, <2>1, <2>2a, SongConstants DEF Flowing
  <2>12. Flowing(y \ d)'
    <3>1. Leads(TRUE, Portions(song'.epoch, pcmWire'), Behind(Got)', y \ d)
      BY <1>2, <1>5, <2>2, <2>4, <2>9 DEF Behind
    <3>2. \A k \in 1 .. (SongBlocks + 1) : k > Allowed' => k \in y \ d
      BY <1>5, <1>6, <2>11
    <3>3. singer'.epoch = song'.epoch => y \ d = Behind(Sent)'
      BY <1>6a, <2>10 DEF Behind
    <3> QED BY <3>1, <3>2, <3>3 DEF Flowing
  <2>13. y \ d \in SUBSET (1 .. SongBlocks + 1)
    OBVIOUS
  <2> QED BY <2>12, <2>13
<1>10. SongPaid'
  <2>1. Sent' + singer'.credit = Sent + singer.credit
    <3>1. (n + 1) + (c - 1) = n + c
      OBVIOUS
    <3> QED BY <1>6, <1>6a, <3>1
  <2> QED BY <1>1, <1>5, <2>1 DEF SongPaid
<1> QED BY <1>5, <1>7, <1>9, <1>10 DEF SongInv

LEMMA MsgIs ==
  ASSUME NEW k, NEW e \in Nat, NEW n \in Nat
  PROVE  /\ S!Msg(k, e, n).kind = k /\ S!Msg(k, e, n).epoch = e /\ S!Msg(k, e, n).n = n
         /\ k \in {"open", "cache", "chunk", "end", "close", "pause"} => S!Msg(k, e, n) \in SongMsg
         /\ k \in {"credit", "ready", "finished", "error"} => S!Msg(k, e, n) \in SingerMsg
BY DEF S!Msg, SongMsg, SingerMsg

LEMMA SenderKeeps == ASSUME SongInv, S!Sender PROVE SongInv'
<1>1. SongTypes /\ SingerRight /\ singer \in SingerSet
  BY DEF SongInv, SongTypes
<1>2. PICK c \in Nat, n \in Nat, e \in Nat : c = singer.credit /\ n = singer.sent /\ e = singer.epoch
  BY <1>1, SongHas
<1>3. PICK w \in Seq(SongMsg) : w = pcmWire
  BY <1>1, SongHas
<1>4. CASE S!HostSends
  <2>1. PICK m \in SongMsg : m = S!Msg("chunk", singer.epoch, singer.sent + 1)
                             /\ m.kind = "chunk" /\ m.epoch = e /\ m.n = n + 1
    <3>1. n + 1 \in Nat
      OBVIOUS
    <3>2. PICK m \in SongMsg : m = S!Msg("chunk", e, n + 1)
      BY <3>1, MsgIs
    <3>3. m.kind = "chunk" /\ m.epoch = e /\ m.n = n + 1
      BY <3>1, <3>2, MsgIs
    <3> QED BY <1>2, <3>2, <3>3
  <2>2. c > 0 /\ n < SongBlocks /\ pcmWire' = Append(pcmWire, m)
        /\ singer' = [singer EXCEPT !.sent = @ + 1, !.credit = @ - 1]
    BY <1>2, <1>4, <2>1 DEF S!HostSends, S!Tell
  <2>3. PICK f \in Nat, g \in Nat : f = n + 1 /\ g = c - 1
    BY <2>2
  <2>4. singer' = [singer EXCEPT !.sent = f, !.credit = g]
    BY <1>2, <2>2, <2>3
  <2>5. /\ singer' \in SingerSet /\ singer'.epoch = singer.epoch /\ singer'.heard = singer.heard
        /\ singer'.failures = singer.failures /\ singer'.credit = g /\ singer'.sent = f
        /\ singer'.ended = singer.ended
    BY <1>1, <2>4 DEF SingerSet
  <2>6. ~singer.ended /\ Sent = n /\ Sent' = f /\ n + 1 <= SongBlocks
    <3>1. ~singer.ended
      BY <1>1, <1>2, <2>2, SongConstants DEF SingerRight
    <3>2. Sent = n + 0 /\ Sent' = f + 0
      BY <1>2, <2>5, <3>1 DEF Sent
    <3> QED BY <2>2, <3>1, <3>2, SongConstants
  <2>7. SongTypes'
    <3>1. pcmWire' \in Seq(SongMsg)
      BY <1>3, <2>2, WireGrows
    <3>2. UNCHANGED <<song, pcmBack>>
      BY DEF S!Sender
    <3> QED BY <1>1, <2>5, <3>1, <3>2 DEF SongTypes
  <2>8. SingerRight' /\ e > 0
    BY <1>1, <1>2, <2>2, <2>3, <2>5, <2>6 DEF SingerRight
  <2>9. Portion(singer.epoch, m) = {Sent + 1}
    BY <1>2, <2>1, <2>6 DEF Portion
  <2>10. /\ m.epoch = singer.epoch /\ m.kind \in {"chunk", "end"} /\ (m.kind = "chunk" => m.n <= SongBlocks)
         /\ Sent + 1 <= SongBlocks + 1 /\ singer.credit > 0 /\ singer.epoch > 0
         /\ singer'.credit = singer.credit - 1 /\ Sent' = Sent + 1 /\ UNCHANGED <<song, pcmBack>>
    BY <1>2, <2>1, <2>2, <2>3, <2>5, <2>6, <2>8, SongConstants DEF S!Sender
  <2> QED BY <2>2, <2>5, <2>7, <2>8, <2>9, <2>10, SenderSends
<1>5. CASE S!HostEnds
  <2>1. PICK m \in SongMsg : m = S!Msg("end", singer.epoch, 0) /\ m.kind = "end" /\ m.epoch = e
    <3>1. PICK m \in SongMsg : m = S!Msg("end", e, 0)
      BY MsgIs
    <3>2. m.kind = "end" /\ m.epoch = e
      BY <3>1, MsgIs
    <3> QED BY <1>2, <3>1, <3>2
  <2>2. c > 0 /\ n = SongBlocks /\ ~singer.ended /\ pcmWire' = Append(pcmWire, m)
        /\ singer' = [singer EXCEPT !.ended = TRUE, !.credit = @ - 1]
    BY <1>2, <1>5, <2>1 DEF S!HostEnds, S!Tell
  <2>3. PICK g \in Nat : g = c - 1
    BY <2>2
  <2>4. singer' = [singer EXCEPT !.ended = TRUE, !.credit = g]
    BY <1>2, <2>2, <2>3
  <2>5. /\ singer' \in SingerSet /\ singer'.epoch = singer.epoch /\ singer'.heard = singer.heard
        /\ singer'.failures = singer.failures /\ singer'.credit = g /\ singer'.sent = singer.sent
        /\ singer'.ended = TRUE
    BY <1>1, <2>4 DEF SingerSet
  <2>6. Sent = n /\ Sent' = n + 1
    <3>1. Sent = n + 0 /\ Sent' = n + 1
      BY <1>2, <2>2, <2>5 DEF Sent
    <3> QED BY <3>1
  <2>7. SongTypes'
    <3>1. pcmWire' \in Seq(SongMsg)
      BY <1>3, <2>2, WireGrows
    <3>2. UNCHANGED <<song, pcmBack>>
      BY DEF S!Sender
    <3> QED BY <1>1, <2>5, <3>1, <3>2 DEF SongTypes
  <2>8. SingerRight' /\ e > 0
    BY <1>1, <1>2, <2>2, <2>3, <2>5, SongConstants DEF SingerRight
  <2>9. Portion(singer.epoch, m) = {Sent + 1}
    BY <1>2, <2>1, <2>2, <2>6 DEF Portion
  <2>10. /\ m.epoch = singer.epoch /\ m.kind \in {"chunk", "end"} /\ (m.kind = "chunk" => m.n <= SongBlocks)
         /\ Sent + 1 <= SongBlocks + 1 /\ singer.credit > 0 /\ singer.epoch > 0
         /\ singer'.credit = singer.credit - 1 /\ Sent' = Sent + 1 /\ UNCHANGED <<song, pcmBack>>
    BY <1>2, <2>1, <2>2, <2>3, <2>5, <2>6, <2>8, SongConstants DEF S!Sender
  <2> QED BY <2>2, <2>5, <2>7, <2>8, <2>9, <2>10, SenderSends
<1> QED BY <1>4, <1>5 DEF S!Sender

\* Messages that no song waits for go to the end of the wire.
Beside(w, t) ==
  /\ DOMAIN w \subseteq DOMAIN t /\ \A i \in DOMAIN w : t[i] = w[i]
  /\ \A i \in DOMAIN t : i \notin DOMAIN w => t[i].kind \notin {"chunk", "end"}

LEMMA BesideFlows ==
  ASSUME NEW w \in Seq(SongMsg), NEW t \in Seq(SongMsg), NEW e, Beside(w, t), NEW x, NEW y,
         Leads(TRUE, Portions(e, w), x, y)
  PROVE  Leads(TRUE, Portions(e, t), x, y)
<1>1. /\ DOMAIN Portions(e, w) = DOMAIN w /\ DOMAIN Portions(e, t) = DOMAIN t
      /\ \A i \in DOMAIN w : Portions(e, w)[i] = Portion(e, w[i])
      /\ \A i \in DOMAIN t : Portions(e, t)[i] = Portion(e, t[i])
  BY PortionsAre
<1>2. \A i \in DOMAIN t : i \notin DOMAIN w => Portion(e, t[i]) = {}
  BY DEF Beside, Portion
<1> DEFINE q == Portions(e, w)
           r == Portions(e, t)
<1>3. /\ DOMAIN q \subseteq DOMAIN r /\ \A i \in DOMAIN q : r[i] = q[i]
  BY <1>1 DEF Beside
<1>4. \A i \in DOMAIN r : i \notin DOMAIN q => r[i] = {}
  BY <1>1, <1>2
<1> HIDE DEF q, r
<1>5. Leads(TRUE, q, x, y)
  BY DEF q
<1>6. y = {k \in x : \A i \in DOMAIN r : k \notin r[i]}
  <2>1. y = {k \in x : \A i \in DOMAIN q : k \notin q[i]}
    BY <1>5 DEF Leads
  <2>2. \A k \in x : (\A i \in DOMAIN q : k \notin q[i]) <=> (\A i \in DOMAIN r : k \notin r[i])
    BY <1>3, <1>4
  <2> QED BY <2>1, <2>2, ZenonT(60)
<1>7. \A i \in DOMAIN r : r[i] \subseteq x
  BY <1>3, <1>4, <1>5 DEF Leads
<1>8. \A i, j \in DOMAIN r : i < j => r[i] \cap r[j] = {}
  BY <1>3, <1>4, <1>5 DEF Leads
<1>9. \A i \in DOMAIN r : \A n \in r[i], k \in x : k < n => \E j \in DOMAIN r : j < i /\ k \in r[j]
  BY <1>3, <1>4, <1>5 DEF Leads
<1>10. Leads(TRUE, r, x, y)
  BY <1>6, <1>7, <1>8, <1>9 DEF Leads
<1> QED BY <1>10 DEF r

\* The host speaks of its song without sending any of it.
LEMMA HostSpeaks ==
  ASSUME SongInv, SongTypes', UNCHANGED <<song, pcmBack, singer>>, Beside(pcmWire, pcmWire'),
         \A i \in DOMAIN pcmWire' : i \notin DOMAIN pcmWire =>
           pcmWire'[i].kind # "open" /\ 0 < pcmWire'[i].epoch /\ pcmWire'[i].epoch <= singer.epoch
  PROVE  SongInv'
<1>1. SongTypes /\ Begun /\ SongFlow /\ SongPaid /\ SingerRight
  BY DEF SongInv
<1>2. PICK w \in Seq(SongMsg), t \in Seq(SongMsg) : w = pcmWire /\ t = pcmWire'
  BY <1>1, SongHas DEF SongTypes
<1>3. /\ Beside(w, t)
      /\ \A i \in DOMAIN t : i \notin DOMAIN w =>
           t[i].kind # "open" /\ 0 < t[i].epoch /\ t[i].epoch <= singer.epoch
  BY <1>2
<1>4. InRow' /\ Spoken' /\ SongKept' /\ Got' = Got /\ Alive' = Alive /\ Allowed' = Allowed
  BY HostLeaves
<1>5. Sent' = Sent /\ SingerRight'
  BY <1>1 DEF Sent, SingerRight
<1>6. Begun'
  <2>1. \A i \in DOMAIN t : t[i].kind \in {"open", "chunk", "end"} => i \in DOMAIN w /\ t[i] = w[i]
    BY <1>3 DEF Beside
  <2>2. ASSUME NEW i \in DOMAIN t, t[i].kind = "open" PROVE Unsung(t[i].epoch)'
    <3>1. PICK e \in Nat : e = t[i].epoch /\ e = w[i].epoch /\ Unsung(e)
      BY <1>1, <1>2, <2>1, <2>2, SongMsgHas DEF Begun
    <3>2. \A j \in DOMAIN t : t[j].epoch = e => t[j].kind \notin {"chunk", "end"}
      BY <1>2, <2>1, <3>1 DEF Unsung
    <3>3. Unsung(e)'
      BY <1>2, <3>1, <3>2 DEF Unsung
    <3> QED BY <3>1, <3>3
  <2>3. \A i \in DOMAIN t : 0 < t[i].epoch /\ t[i].epoch <= singer.epoch
    BY <1>1, <1>2, <1>3 DEF Begun, Beside
  <2>4. \A i \in DOMAIN t : t[i].kind = "chunk" => t[i].n <= SongBlocks
    BY <1>1, <1>2, <2>1 DEF Begun
  <2>5. \A i, j \in DOMAIN t : i < j /\ t[i].kind = "open" /\ t[j].kind = "open"
                                => t[i].epoch < t[j].epoch
    BY <1>1, <1>2, <2>1 DEF Begun
  <2> QED BY <1>1, <1>2, <2>2, <2>3, <2>4, <2>5 DEF Begun
<1>7. SongFlow'
  <2> SUFFICES ASSUME Alive PROVE \E y \in SUBSET (1 .. SongBlocks + 1) : Flowing(y)'
    BY <1>4 DEF SongFlow
  <2>1. PICK y \in SUBSET (1 .. SongBlocks + 1) : Flowing(y)
    BY <1>1 DEF SongFlow
  <2>2. PICK x : x = Behind(Got) /\ Leads(TRUE, Portions(song.epoch, w), x, y)
    BY <1>2, <2>1 DEF Flowing
  <2>3. Leads(TRUE, Portions(song.epoch, t), x, y)
    BY <1>3, <2>2, BesideFlows
  <2>4. Flowing(y)'
    <3>1. Leads(TRUE, Portions(song'.epoch, pcmWire'), Behind(Got)', y)
      BY <1>2, <1>4, <2>2, <2>3 DEF Behind
    <3>2. \A k \in 1 .. (SongBlocks + 1) : k > Allowed' => k \in y
      BY <1>4, <2>1 DEF Flowing
    <3>3. singer'.epoch = song'.epoch => y = Behind(Sent)'
      BY <1>5, <2>1 DEF Flowing, Behind
    <3> QED BY <3>1, <3>2, <3>3 DEF Flowing
  <2> QED BY <2>4
<1>8. SongPaid'
  BY <1>1, <1>4, <1>5 DEF SongPaid
<1> QED BY <1>4, <1>5, <1>6, <1>7, <1>8 DEF SongInv

LEMMA HostTells ==
  ASSUME SongInv, NEW m \in SongMsg, m.epoch = singer.epoch, singer.epoch > 0,
         m.kind \in {"close", "pause"}, pcmWire' = Append(pcmWire, m),
         UNCHANGED <<song, pcmBack, singer>>
  PROVE  SongInv'
<1>1. SongTypes
  BY DEF SongInv
<1>2. PICK w \in Seq(SongMsg) : w = pcmWire
  BY <1>1, SongHas
<1>2a. PICK t : t = pcmWire' /\ t = Append(w, m)
  BY <1>2
<1>3. /\ t = pcmWire' /\ t \in Seq(SongMsg) /\ DOMAIN t = DOMAIN w \cup {Len(w) + 1}
      /\ t[Len(w) + 1] = m /\ \A i \in DOMAIN w : t[i] = w[i]
  BY <1>2, <1>2a, WireGrows
<1>4. SongTypes'
  BY <1>1, <1>3 DEF SongTypes
<1>5. Beside(w, t)
  BY <1>3 DEF Beside
<1>6. singer.epoch <= singer.epoch
  BY <1>1, SongHas
<1>7. \A i \in DOMAIN t : i \notin DOMAIN w =>
           t[i].kind # "open" /\ 0 < t[i].epoch /\ t[i].epoch <= singer.epoch
  BY <1>3, <1>6
<1> QED BY <1>2, <1>3, <1>4, <1>5, <1>7, HostSpeaks

\* A new song, with or without a cache.
Opened(w, m, k, t) ==
  /\ t \in Seq(SongMsg) /\ DOMAIN w \subseteq DOMAIN t /\ \A i \in DOMAIN w : t[i] = w[i]
  /\ \A i \in DOMAIN t : \/ i \in DOMAIN w
                         \/ t[i] = m /\ \A j \in DOMAIN w : j < i
                         \/ t[i] = k
  /\ \A i, j \in DOMAIN t : i \notin DOMAIN w /\ j \notin DOMAIN w /\ i < j => t[j] = k
LEMMA OpenPlaces ==
  ASSUME NEW w \in Seq(SongMsg), NEW m \in SongMsg, NEW k \in SongMsg, NEW r \in {<<>>, <<k>>},
         NEW t, t = w \o <<m>> \o r
  PROVE  Opened(w, m, k, t)
<1> DEFINE s == w \o <<m>>
<1>1. <<m>> \in Seq(SongMsg) /\ r \in Seq(SongMsg)
  <2>1. <<m>> \in Seq(SongMsg) /\ <<k>> \in Seq(SongMsg) /\ <<>> \in Seq(SongMsg)
    OBVIOUS
  <2> QED BY <2>1
<1>2. /\ s \in Seq(SongMsg) /\ Len(s) = Len(w) + 1 /\ Len(w) \in Nat
      /\ (\A i \in DOMAIN w : s[i] = w[i]) /\ s[Len(w) + 1] = m
  OBVIOUS
<1>3. /\ t = s \o r /\ t \in Seq(SongMsg) /\ Len(t) = Len(s) + Len(r)
      /\ (\A i \in DOMAIN s : t[i] = s[i]) /\ \A i \in DOMAIN t : i \notin DOMAIN s => t[i] = r[i - Len(s)]
  BY <1>1, <1>2
<1> HIDE DEF s
<1>4. \A i \in DOMAIN t : i \notin DOMAIN s => t[i] = k /\ i > Len(s)
  <2> SUFFICES ASSUME NEW i \in DOMAIN t, i \notin DOMAIN s PROVE t[i] = k /\ i > Len(s)
    OBVIOUS
  <2>1. i \in Nat /\ i > Len(s) /\ i <= Len(s) + Len(r) /\ Len(s) \in Nat
    BY <1>2, <1>3
  <2>2. CASE r = <<>>
    BY <2>1, <2>2
  <2>3. CASE r = <<k>>
    <3>1. i - Len(s) = 1
      BY <2>1, <2>3
    <3> QED BY <1>3, <2>1, <2>3, <3>1
  <2> QED BY <2>2, <2>3
<1>5. /\ DOMAIN w = 1 .. Len(w) /\ DOMAIN s = 1 .. (Len(w) + 1) /\ DOMAIN t = 1 .. Len(t)
      /\ Len(t) \in Nat /\ Len(w) + 1 <= Len(t)
  BY <1>1, <1>2, <1>3
<1>6. \A i \in DOMAIN t : i \in DOMAIN w \/ i = Len(w) + 1 \/ (i \notin DOMAIN s /\ i > Len(w) + 1)
  BY <1>2, <1>5
<1>7. t[Len(w) + 1] = m /\ \A j \in DOMAIN w : j < Len(w) + 1
  BY <1>2, <1>3, <1>5
<1>8. DOMAIN w \subseteq DOMAIN t /\ \A i \in DOMAIN w : t[i] = w[i]
  BY <1>2, <1>3, <1>5
<1>9. \A i \in DOMAIN t : \/ i \in DOMAIN w
                          \/ t[i] = m /\ \A j \in DOMAIN w : j < i
                          \/ t[i] = k
  BY <1>4, <1>6, <1>7
<1>10. \A i, j \in DOMAIN t : i \notin DOMAIN w /\ j \notin DOMAIN w /\ i < j => t[j] = k
  <2> SUFFICES ASSUME NEW i \in DOMAIN t, NEW j \in DOMAIN t, i \notin DOMAIN w, j \notin DOMAIN w, i < j
               PROVE  t[j] = k
    OBVIOUS
  <2>1. j > Len(w) + 1
    BY <1>2, <1>5, <1>6
  <2> QED BY <1>2, <1>4, <1>6, <2>1
<1> QED BY <1>3, <1>8, <1>9, <1>10 DEF Opened

LEMMA HostOpensKeeps ==
  ASSUME SongInv, NEW m \in SongMsg, NEW k \in SongMsg, NEW e \in Nat, e = singer.epoch + 1,
         m.kind = "open", k.kind = "cache", m.epoch = e, k.epoch = e, NEW r \in {<<>>, <<k>>},
         pcmWire' = pcmWire \o <<m>> \o r, UNCHANGED <<song, pcmBack>>,
         singer' = [epoch |-> e, credit |-> 0, sent |-> 0, ended |-> FALSE, heard |-> "nothing",
                    failures |-> singer.failures]
  PROVE  SongInv'
<1>1. SongTypes /\ Begun /\ SongFlow /\ SongPaid /\ SingerRight
  BY DEF SongInv
<1>2. PICK w \in Seq(SongMsg), t \in {pcmWire'} : w = pcmWire /\ t = pcmWire'
  BY <1>1, SongHas
<1>3. /\ t \in Seq(SongMsg) /\ DOMAIN w \subseteq DOMAIN t /\ \A i \in DOMAIN w : t[i] = w[i]
      /\ \A i \in DOMAIN t : \/ i \in DOMAIN w
                             \/ t[i] = m /\ \A j \in DOMAIN w : j < i
                             \/ t[i] = k
      /\ \A i, j \in DOMAIN t : i \notin DOMAIN w /\ j \notin DOMAIN w /\ i < j => t[j] = k
  <2>1. t = w \o <<m>> \o r
    BY <1>2
  <2>2. Opened(w, m, k, t)
    BY <1>2, <2>1, OpenPlaces
  <2> QED BY <2>2 DEF Opened
<1>4. /\ singer'.epoch = e /\ singer'.credit = 0 /\ singer'.sent = 0 /\ singer'.ended = FALSE
      /\ singer'.failures = singer.failures
  OBVIOUS
<1>5. SongTypes'
  <2>1. singer' \in SingerSet
    BY <1>1, SongHas DEF SingerSet
  <2> QED BY <1>1, <1>2, <1>3, <2>1 DEF SongTypes
<1>6. PICK f \in Nat, g \in Nat : f = song.epoch /\ g = singer.epoch /\ f <= g /\ e = g + 1 /\ f < e /\ g < e
  <2>1. PICK f \in Nat, g \in Nat : f = song.epoch /\ g = singer.epoch
    BY <1>1, SongHas
  <2>2. f <= g /\ e = g + 1
    BY <1>1, <2>1 DEF Begun
  <2>3. f < e /\ g < e
    BY <2>2
  <2> QED BY <2>1, <2>2, <2>3
<1>7. InRow' /\ Spoken' /\ SongKept' /\ Got' = Got /\ Alive' = Alive /\ Allowed' = Allowed
  BY <1>4, <1>5, <1>6, HostLeaves
<1>8. Beside(w, t)
  BY <1>3 DEF Beside
<1>9. \A i \in DOMAIN w : 0 < w[i].epoch /\ w[i].epoch \in Nat /\ w[i].epoch < e
  <2>1. \A i \in DOMAIN w : 0 < w[i].epoch /\ w[i].epoch \in Nat /\ w[i].epoch <= g
    <3>1. \A i \in DOMAIN w : w[i] \in SongMsg
      OBVIOUS
    <3> QED BY <1>1, <1>2, <1>6, <3>1, SongMsgHas DEF Begun
  <2> QED BY <1>6, <2>1
<1>10. Begun'
  <2>1. \A i \in DOMAIN t : t[i].kind \in {"chunk", "end"} => i \in DOMAIN w /\ t[i] = w[i]
    BY <1>3
  <2>2. ASSUME NEW i \in DOMAIN t, t[i].kind = "open" PROVE Unsung(t[i].epoch)'
    <3>1. CASE i \in DOMAIN w
      <4>1. PICK d \in Nat : d = t[i].epoch /\ d = w[i].epoch /\ Unsung(d) /\ d < e
        BY <1>1, <1>2, <1>3, <1>9, <2>2, <3>1 DEF Begun
      <4>2. \A j \in DOMAIN t : t[j].epoch = d => t[j].kind \notin {"chunk", "end"}
        BY <1>2, <2>1, <4>1 DEF Unsung
      <4>3. Unsung(d)'
        BY <1>2, <1>4, <4>1, <4>2 DEF Unsung
      <4> QED BY <4>1, <4>3
    <3>2. CASE i \notin DOMAIN w
      <4>1. t[i].epoch = e
        BY <1>3, <3>2
      <4>2. \A j \in DOMAIN t : t[j].epoch = e => t[j].kind \notin {"chunk", "end"}
        BY <1>9, <2>1
      <4>3. \A j \in DOMAIN pcmBack : pcmBack[j].epoch # e
        BY <1>1, <1>6 DEF Begun
      <4>4. e <= e
        OBVIOUS
      <4>5. Unsung(e)'
        BY <1>2, <1>4, <1>6, <4>2, <4>3, <4>4 DEF Unsung
      <4> QED BY <4>1, <4>5
    <3> QED BY <3>1, <3>2
  <2>3. \A i \in DOMAIN t : 0 < t[i].epoch /\ t[i].epoch <= e
    <3>1. 0 < e /\ e <= e
      BY <1>6
    <3>2. \A i \in DOMAIN w : 0 < w[i].epoch /\ w[i].epoch <= e
      BY <1>9
    <3> QED BY <1>3, <3>1, <3>2
  <2>4. \A i \in DOMAIN t : t[i].kind = "chunk" => t[i].n <= SongBlocks
    BY <1>1, <1>2, <2>1 DEF Begun
  <2>5. ASSUME NEW i \in DOMAIN t, NEW j \in DOMAIN t, i < j, t[i].kind = "open", t[j].kind = "open"
        PROVE  t[i].epoch < t[j].epoch
    <3>1. CASE j \in DOMAIN w
      <4>1. i \in DOMAIN w
        BY <1>3, <2>5, <3>1
      <4> QED BY <1>1, <1>2, <1>3, <2>5, <3>1, <4>1 DEF Begun
    <3>2. CASE j \notin DOMAIN w
      <4>1. t[j].epoch = e /\ i \in DOMAIN w
        BY <1>3, <2>5, <3>2
      <4> QED BY <1>3, <1>9, <4>1
    <3> QED BY <3>1, <3>2
  <2>6. song.epoch <= e /\ \A i \in DOMAIN pcmBack : 0 < pcmBack[i].epoch /\ pcmBack[i].epoch <= e
    <3>1. \A i \in DOMAIN pcmBack : 0 < pcmBack[i].epoch /\ pcmBack[i].epoch <= g /\ pcmBack[i].epoch \in Nat
      <4>1. \A i \in DOMAIN pcmBack : pcmBack[i] \in SingerMsg
        BY <1>1, SongHas
      <4> QED BY <1>1, <1>6, <4>1, SingerMsgHas DEF Begun
    <3> QED BY <1>6, <3>1
  <2> QED BY <1>2, <1>4, <2>2, <2>3, <2>4, <2>5, <2>6 DEF Begun
<1>11. SingerRight'
  BY <1>4, SongConstants DEF SingerRight
<1>12. SongFlow'
  <2> SUFFICES ASSUME Alive PROVE \E y \in SUBSET (1 .. SongBlocks + 1) : Flowing(y)'
    BY <1>7 DEF SongFlow
  <2>1. PICK y \in SUBSET (1 .. SongBlocks + 1) : Flowing(y)
    BY <1>1 DEF SongFlow
  <2>2. PICK x : x = Behind(Got) /\ Leads(TRUE, Portions(song.epoch, w), x, y)
    BY <1>2, <2>1 DEF Flowing
  <2>3. Leads(TRUE, Portions(song.epoch, t), x, y)
    BY <1>3, <1>8, <2>2, BesideFlows
  <2>4. Flowing(y)'
    <3>1. Leads(TRUE, Portions(song'.epoch, pcmWire'), Behind(Got)', y)
      BY <1>2, <1>7, <2>2, <2>3 DEF Behind
    <3>2. \A k2 \in 1 .. (SongBlocks + 1) : k2 > Allowed' => k2 \in y
      BY <1>7, <2>1 DEF Flowing
    <3>3. singer'.epoch # song'.epoch
      BY <1>4, <1>6
    <3> QED BY <3>1, <3>2, <3>3 DEF Flowing
  <2> QED BY <2>4
<1>13. SongPaid'
  BY <1>4, <1>6 DEF SongPaid
<1> QED BY <1>5, <1>7, <1>10, <1>11, <1>12, <1>13 DEF SongInv

LEMMA HostKeeps == ASSUME SongInv, S!Host PROVE SongInv'
<1>1. SongTypes /\ UNCHANGED <<song, pcmBack>>
  BY DEF SongInv, S!Host
<1>2. PICK e \in Nat, f \in Nat : e = singer.epoch /\ f = singer.epoch + 1
  BY <1>1, SongHas
<1>3. CASE S!HostOpens
  <2>1. PICK m \in SongMsg, k \in SongMsg : m = S!Msg("open", f, 0) /\ k = S!Msg("cache", f, 0)
    BY MsgIs
  <2>2. m.kind = "open" /\ k.kind = "cache" /\ m.epoch = f /\ k.epoch = f
    BY <2>1, MsgIs
  <2>3. PICK r \in {<<>>, <<k>>} : pcmWire' = pcmWire \o <<m>> \o r
    BY <1>2, <1>3, <2>1 DEF S!HostOpens
  <2>4. singer' = [epoch |-> f, credit |-> 0, sent |-> 0, ended |-> FALSE, heard |-> "nothing",
                   failures |-> singer.failures]
    BY <1>2, <1>3 DEF S!HostOpens
  <2> QED BY <1>1, <1>2, <2>2, <2>3, <2>4, HostOpensKeeps
<1>4. CASE S!HostCloses
  <2>1. PICK m \in SongMsg : m = S!Msg("close", e, 0)
    BY MsgIs
  <2>2. m.kind = "close" /\ m.epoch = e
    BY <2>1, MsgIs
  <2>3. singer.epoch > 0 /\ pcmWire' = Append(pcmWire, m) /\ UNCHANGED singer
    BY <1>2, <1>4, <2>1 DEF S!HostCloses, S!Tell
  <2> QED BY <1>1, <1>2, <2>2, <2>3, HostTells
<1>5. CASE S!HostPauses
  <2>1. PICK p \in {0, 1} : pcmWire' = Append(pcmWire, S!Msg("pause", e, p))
    BY <1>2, <1>5 DEF S!HostPauses, S!Tell
  <2>2. PICK m \in SongMsg : m = S!Msg("pause", e, p)
    BY MsgIs
  <2>3. m.kind = "pause" /\ m.epoch = e
    BY <2>2, MsgIs
  <2>4. singer.epoch > 0 /\ pcmWire' = Append(pcmWire, m) /\ UNCHANGED singer
    BY <1>5, <2>1, <2>2 DEF S!HostPauses
  <2> QED BY <1>1, <1>2, <2>3, <2>4, HostTells
<1> QED BY <1>3, <1>4, <1>5 DEF S!Host

\* The host reads a report.
LEMMA LastHeard ==
  ASSUME Begun, SongTypes, LastSaid, UNCHANGED song, singer'.epoch = singer.epoch,
         NEW s \in Seq(SingerMsg), s = pcmBack, s # <<>>, NEW t, t = Tail(s), pcmBack' = t,
         \A i \in DOMAIN s : s[i].kind # "credit" => s[i].n = 0,
         singer'.heard = IF s[1].epoch = singer.epoch /\ s[1].kind # "credit" THEN s[1].kind ELSE singer.heard
  PROVE  LastSaid'
<1>1. /\ t \in Seq(SingerMsg) /\ 1 \in DOMAIN s
      /\ \A i \in DOMAIN t : i \in Nat /\ i + 1 \in DOMAIN s /\ t[i] = s[i + 1] /\ 1 < i + 1
      /\ \A i, j \in DOMAIN t : i < j => i + 1 < j + 1
  BY TailPlaces
<1>2. CASE song.events # <<>> \/ song.event # "none"
  BY <1>2 DEF LastSaid
<1>3. CASE song.events = <<>> /\ song.event = "none"
  <2>1. song.epoch \in Nat /\ singer.epoch \in Nat /\ song.epoch <= singer.epoch
    BY SongHas DEF Begun
  <2>2. CASE \A i \in DOMAIN s : ~Says(i)
    <3>1. \A i \in DOMAIN t : ~Says(i)'
      BY <1>1, <2>2 DEF Says
    <3>2. singer.heard = "error" \/ singer.epoch > song.epoch
      BY <1>3, <2>2 DEF LastSaid
    <3>3. singer'.heard = "error" \/ singer'.epoch > song'.epoch
      <4>1. CASE singer.epoch > song.epoch
        BY <4>1
      <4>2. CASE singer.epoch = song.epoch
        BY <1>1, <2>2, <3>2, <4>2 DEF Says
      <4> QED BY <2>1, <4>1, <4>2
    <3> QED BY <1>3, <3>1, <3>3 DEF LastSaid
  <2>3. CASE \E i \in DOMAIN s : Says(i)
    <3>1. PICK i \in DOMAIN s : /\ s[i] = S!Msg("error", song.epoch, 0)
                                /\ \A j \in DOMAIN s : Says(j) /\ i < j => s[j].kind = "error"
      BY <1>3, <2>3 DEF LastSaid
    <3>2. CASE i # 1
      <4>1. i - 1 \in DOMAIN t /\ t[i - 1] = s[i]
        <5>1. DOMAIN s = 1 .. Len(s) /\ Len(s) \in Nat /\ DOMAIN t = 1 .. (Len(s) - 1)
          BY <1>1, TailPlaces
        <5>2. i - 1 \in DOMAIN t /\ (i - 1) + 1 = i
          BY <3>2, <5>1
        <5> QED BY <1>1, <5>2
      <4>2. \A j \in DOMAIN t : Says(j)' /\ i - 1 < j => t[j].kind = "error"
        <5> SUFFICES ASSUME NEW j \in DOMAIN t, Says(j)', i - 1 < j PROVE t[j].kind = "error"
          OBVIOUS
        <5>1. DOMAIN s = 1 .. Len(s) /\ Len(s) \in Nat /\ j \in Nat
          BY <1>1
        <5>2. i < j + 1
          BY <5>1
        <5>3. Says(j + 1)
          BY <1>1 DEF Says
        <5> QED BY <1>1, <3>1, <5>2, <5>3
      <4>3. Says(i - 1)'
        BY <3>1, <4>1 DEF Says, S!Msg
      <4> QED BY <1>3, <3>1, <4>1, <4>2, <4>3 DEF LastSaid
    <3>3. CASE i = 1
      <4>1. s[1].epoch = song.epoch /\ s[1].kind = "error"
        BY <3>1, <3>3 DEF S!Msg
      <4>2. singer'.heard = "error" \/ singer'.epoch > song'.epoch
        BY <2>1, <4>1
      <4>3. \A j \in DOMAIN t : Says(j)' => t[j] = S!Msg("error", song.epoch, 0) /\ t[j].kind = "error"
        <5> SUFFICES ASSUME NEW j \in DOMAIN t, Says(j)'
                     PROVE  t[j] = S!Msg("error", song.epoch, 0) /\ t[j].kind = "error"
          OBVIOUS
        <5>1. Says(j + 1) /\ j + 1 \in DOMAIN s /\ 1 < j + 1 /\ t[j] = s[j + 1]
          BY <1>1 DEF Says
        <5>2. s[j + 1].kind = "error" /\ s[j + 1].n = 0 /\ s[j + 1].epoch = song.epoch
          BY <3>1, <3>3, <5>1 DEF Says
        <5>3. s[j + 1] \in SingerMsg
          BY <5>1
        <5> QED BY <5>1, <5>2, <5>3 DEF S!Msg, SingerMsg
      <4> QED BY <1>3, <4>2, <4>3 DEF LastSaid
    <3> QED BY <3>2, <3>3
  <2> QED BY <2>2, <2>3
<1> QED BY <1>2, <1>3

LEMMA HostHearsKeeps == ASSUME SongInv, S!HostHears PROVE SongInv'
<1>1. SongTypes /\ Begun /\ SongFlow /\ SongPaid /\ SingerRight /\ InRow /\ Spoken /\ SongKept
      /\ singer \in SingerSet
  BY DEF SongInv, SongTypes
<1>2. PICK s \in Seq(SingerMsg), t \in {Tail(pcmBack)} : s = pcmBack /\ t = Tail(s)
  BY <1>1, SongHas
<1>3. s # <<>> /\ pcmBack' = t /\ UNCHANGED <<pcmWire, song>>
  BY <1>2 DEF S!HostHears
<1>4. PICK m \in SingerMsg : m = Head(s) /\ m = s[1]
  <2>1. Head(s) \in SingerMsg /\ Head(s) = s[1]
    BY <1>2, <1>3, TailPlaces
  <2> QED BY <2>1, Zenon
<1>5. singer' = IF m.epoch # singer.epoch THEN singer
                ELSE IF m.kind = "credit" THEN [singer EXCEPT !.credit = @ + m.n]
                ELSE [singer EXCEPT !.heard = m.kind]
  BY <1>2, <1>4 DEF S!HostHears
<1>6. /\ m.kind \in {"credit", "ready", "finished", "error"} /\ m.epoch \in Nat /\ m.n \in Nat
  BY SingerMsgHas
<1>7. PICK c \in Nat, f \in Nat : /\ c = singer.credit
                                  /\ f = IF m.epoch = singer.epoch /\ m.kind = "credit" THEN m.n ELSE 0
  BY <1>1, <1>6, SongHas
<1>8. /\ singer' \in SingerSet /\ singer'.epoch = singer.epoch /\ singer'.sent = singer.sent
      /\ singer'.ended = singer.ended /\ singer'.failures = singer.failures
      /\ singer'.credit = c + f
      /\ singer'.heard = IF m.epoch = singer.epoch /\ m.kind # "credit" THEN m.kind ELSE singer.heard
  <2>1. CASE m.epoch # singer.epoch
    BY <1>1, <1>5, <1>7, <2>1 DEF SingerSet
  <2>2. CASE m.epoch = singer.epoch /\ m.kind = "credit"
    <3>1. PICK g \in Nat : g = c + f
      OBVIOUS
    <3>2. singer' = [singer EXCEPT !.credit = g]
      BY <1>5, <1>7, <2>2, <3>1
    <3> QED BY <1>1, <2>2, <3>1, <3>2 DEF SingerSet
  <2>3. CASE m.epoch = singer.epoch /\ m.kind # "credit"
    <3>1. f = 0 /\ c + 0 = c /\ m.kind \in {"ready", "finished", "error"}
      BY <1>6, <1>7, <2>3
    <3>2. singer' = [singer EXCEPT !.heard = m.kind]
      BY <1>5, <2>3
    <3> QED BY <1>1, <1>7, <2>3, <3>1, <3>2 DEF SingerSet
  <2> QED BY <2>1, <2>2, <2>3
<1>9. /\ t \in Seq(SingerMsg) /\ 1 \in DOMAIN s
      /\ \A i \in DOMAIN t : i \in Nat /\ i + 1 \in DOMAIN s /\ t[i] = s[i + 1]
  BY <1>2, <1>3, TailPlaces
<1>10. SongTypes'
  BY <1>1, <1>3, <1>8, <1>9 DEF SongTypes
<1>11. Begun' /\ SingerRight'
  <2>1. \A e \in Nat : Unsung(e) => Unsung(e)'
    <3> SUFFICES ASSUME NEW e \in Nat, Unsung(e) PROVE Unsung(e)'
      OBVIOUS
    <3>1. \A i \in DOMAIN t : t[i].epoch # e
      BY <1>2, <1>9 DEF Unsung
    <3>2. m.epoch # e
      BY <1>2, <1>4, <1>9 DEF Unsung
    <3>3. singer.epoch = e => f = 0 /\ c = 0
      BY <1>7, <3>2 DEF Unsung
    <3> QED BY <1>3, <1>8, <3>1, <3>3 DEF Unsung
  <2>2. \A i \in DOMAIN t : 0 < t[i].epoch /\ t[i].epoch <= singer.epoch
    BY <1>1, <1>2, <1>9 DEF Begun
  <2>3. \A i \in DOMAIN pcmWire : pcmWire[i].epoch \in Nat
    <3>1. \A i \in DOMAIN pcmWire : pcmWire[i] \in SongMsg
      BY <1>1, SongHas
    <3> QED BY <3>1, SongMsgHas
  <2>4. Begun'
    BY <1>1, <1>3, <1>8, <2>1, <2>2, <2>3 DEF Begun
  <2>5. singer.epoch = 0 => f = 0 /\ c = 0
    BY <1>1, <1>2, <1>4, <1>6, <1>7, <1>9 DEF SingerRight, Begun
  <2> QED BY <1>1, <1>8, <2>4, <2>5 DEF SingerRight
<1>12. /\ Rung' = Rung /\ Spooled' = Spooled /\ Alive' = Alive /\ Claimed' = Claimed /\ Sent' = Sent
       /\ Got' = Got /\ Allowed' = Allowed
  <2>1. Rung' = Rung /\ Spooled' = Spooled /\ Alive' = Alive /\ Claimed' = Claimed /\ Sent' = Sent
    BY <1>3, <1>8 DEF Rung, Spooled, Alive, Claimed, Sent
  <2> QED BY <1>3, <2>1 DEF Got, Taken, Allowed
<1>13. InRow' /\ SongKept'
  BY <1>1, <1>3, <1>8, <1>12 DEF InRow, SongKept
<1>14. SongFlow'
  <2> SUFFICES ASSUME Alive PROVE \E y \in SUBSET (1 .. SongBlocks + 1) : Flowing(y)'
    BY <1>12 DEF SongFlow
  <2>1. PICK y \in SUBSET (1 .. SongBlocks + 1) : Flowing(y)
    BY <1>1 DEF SongFlow
  <2>2. Flowing(y)'
    BY <1>3, <1>8, <1>12, <2>1 DEF Flowing, Behind
  <2> QED BY <2>2
<1>15. SongPaid'
  <2> SUFFICES ASSUME Alive, singer.epoch = song.epoch
               PROVE  /\ song.pending + song.credits <= Allowed
                      /\ Pays(Fees(song.epoch, t), Sent + (c + f), Allowed - (song.pending + song.credits))
    BY <1>3, <1>8, <1>12 DEF SongPaid
  <2>1. PICK n \in Nat, a \in Nat, x \in Nat : n = Sent /\ a = Allowed /\ x = song.pending + song.credits
    BY <1>1, SongHas, SongLengths
  <2>2. x <= a /\ Pays(Fees(song.epoch, s), n + c, a - x)
    BY <1>1, <1>2, <1>7, <2>1 DEF SongPaid
  <2>3. a - x \in Nat /\ n + c \in Nat /\ (n + c) + f = n + (c + f)
    BY <2>2
  <2>4. Fee(song.epoch, m) = f
    BY <1>7 DEF Fee
  <2>5. Pays(Fees(song.epoch, t), (n + c) + f, a - x)
    BY <1>2, <1>3, <1>4, <2>2, <2>3, <2>4, FeesOff
  <2> QED BY <2>1, <2>2, <2>3, <2>5
<1>16. Spoken'
  <2>1. \A i \in DOMAIN s : s[i].kind # "credit" => s[i].n = 0
    BY <1>1, <1>2 DEF Spoken, Reports
  <2>2. LastSaid => LastSaid'
    BY <1>1, <1>2, <1>3, <1>4, <1>8, <2>1, LastHeard
  <2>3. Ended'
    BY <1>1, <1>3, <1>8, <2>2 DEF Spoken, Ended
  <2>4. \A i \in DOMAIN t : t[i].kind # "credit" => t[i].n = 0
    BY <1>9, <2>1
  <2>5. Reports'
    BY <1>1, <1>3, <2>4 DEF Spoken, Reports
  <2> QED BY <2>3, <2>5 DEF Spoken
<1> QED BY <1>10, <1>11, <1>13, <1>14, <1>15, <1>16 DEF SongInv

\* The receiver takes the first message.
LEMMA WireLeft ==
  ASSUME NEW s \in Seq(SongMsg), s # <<>>, NEW t, t = Tail(s)
  PROVE  /\ t \in Seq(SongMsg) /\ 1 \in DOMAIN s
         /\ \A i \in DOMAIN t : i \in Nat /\ i + 1 \in DOMAIN s /\ t[i] = s[i + 1] /\ 1 < i + 1
         /\ \A i, j \in DOMAIN t : i < j => i + 1 < j + 1
BY TailPlaces

LEMMA TakenBegun ==
  ASSUME SongInv, SongTypes', UNCHANGED <<singer, pcmBack>>, NEW s \in Seq(SongMsg), s = pcmWire,
         s # <<>>, NEW t, t = Tail(s), pcmWire' = t, NEW m \in SongMsg, m = s[1],
         \/ song'.epoch = song.epoch \/ song'.epoch = 0
         \/ m.kind = "open" /\ song'.epoch = m.epoch
  PROVE  Begun' /\ SingerRight'
<1>1. Begun /\ SingerRight /\ SongTypes
  BY DEF SongInv
<1>2. /\ t \in Seq(SongMsg) /\ 1 \in DOMAIN s
      /\ \A i \in DOMAIN t : i \in Nat /\ i + 1 \in DOMAIN s /\ t[i] = s[i + 1] /\ 1 < i + 1
      /\ \A i, j \in DOMAIN t : i < j => i + 1 < j + 1
  BY WireLeft
<1>3. ASSUME NEW i \in DOMAIN t, t[i].kind = "open" PROVE Unsung(t[i].epoch)'
  <2>1. PICK e \in Nat : e = t[i].epoch /\ e = s[i + 1].epoch /\ Unsung(e) /\ 0 < e
    BY <1>1, <1>2, <1>3, SongMsgHas DEF Begun
  <2>2. m.kind = "open" => m.epoch < e
    BY <1>1, <1>2, <1>3, <2>1 DEF Begun
  <2>3. song'.epoch < e
    BY <2>1, <2>2 DEF Unsung
  <2>4. \A j \in DOMAIN t : t[j].epoch = e => t[j].kind \notin {"chunk", "end"}
    BY <1>2, <2>1 DEF Unsung
  <2>5. Unsung(e)'
    BY <2>1, <2>3, <2>4 DEF Unsung
  <2> QED BY <2>1, <2>5
<1>4. \A i \in DOMAIN t : /\ 0 < t[i].epoch /\ t[i].epoch <= singer.epoch
                          /\ t[i].kind = "chunk" => t[i].n <= SongBlocks
  BY <1>1, <1>2 DEF Begun
<1>5. \A i, j \in DOMAIN t : i < j /\ t[i].kind = "open" /\ t[j].kind = "open"
                              => t[i].epoch < t[j].epoch
  BY <1>1, <1>2 DEF Begun
<1>6. song'.epoch <= singer.epoch
  <2>1. 0 <= singer.epoch /\ m.epoch <= singer.epoch /\ song.epoch <= singer.epoch
    BY <1>1, <1>2, SongHas DEF Begun
  <2> QED BY <2>1
<1> QED BY <1>1, <1>3, <1>4, <1>5, <1>6 DEF Begun, SingerRight

LEMMA TakenKeeps ==
  ASSUME SongInv, SongTypes', UNCHANGED <<singer, pcmBack>>, NEW s \in Seq(SongMsg), s = pcmWire,
         s # <<>>, NEW t, t = Tail(s), pcmWire' = t, NEW m \in SongMsg, m = s[1],
         song'.epoch = song.epoch,
         Alive' => /\ Alive /\ Behind(Got)' = Behind(Got) \ Portion(song.epoch, m)
                   /\ Allowed <= Allowed' /\ song'.pending = song.pending /\ song'.credits = song.credits
  PROVE  Begun' /\ SingerRight' /\ SongFlow' /\ SongPaid'
<1>1. SongTypes /\ SongFlow /\ SongPaid
  BY DEF SongInv
<1>2. Begun' /\ SingerRight'
  BY TakenBegun
<1>3. Sent' = Sent
  BY DEF Sent
<1>4. Allowed \in Nat /\ Allowed' \in Nat /\ Sent \in Nat
  BY <1>1, SongLengths, SongLengthsNext
<1>5. SongFlow'
  <2> SUFFICES ASSUME Alive' PROVE \E y \in SUBSET (1 .. SongBlocks + 1) : Flowing(y)'
    BY DEF SongFlow
  <2>1. Alive /\ Behind(Got)' = Behind(Got) \ Portion(song.epoch, m) /\ Allowed <= Allowed'
    OBVIOUS
  <2>2. PICK y \in SUBSET (1 .. SongBlocks + 1) : Flowing(y)
    BY <1>1, <2>1 DEF SongFlow
  <2>3. PICK q \in Parts2 : q = Portions(song.epoch, s)
    BY PortionsAre
  <2>4. t \in Seq(SongMsg) /\ Shorter(q, Portions(song.epoch, t)) /\ q[1] = Portion(song.epoch, m)
    BY <2>3, PortionsOff
  <2>5. PICK r \in Parts2 : r = Portions(song.epoch, t)
    BY <2>4, PortionsAre
  <2>6. PICK x \in SUBSET Nat : x = Behind(Got)
    BY BehindIs
  <2>7. Leads(TRUE, q, x, y)
    BY <2>2, <2>3, <2>6 DEF Flowing
  <2>8. Leads(TRUE, r, x \ q[1], y)
    BY <2>4, <2>5, <2>7, LeadsOff
  <2>9. \A k \in 1 .. (SongBlocks + 1) : k > Allowed' => k \in y
    BY <1>4, <2>1, <2>2, SongConstants DEF Flowing
  <2>10. singer.epoch = song.epoch => y = Behind(Sent)
    BY <2>2 DEF Flowing
  <2>11. Flowing(y)'
    <3>1. Leads(TRUE, Portions(song'.epoch, pcmWire'), Behind(Got)', y)
      BY <2>1, <2>4, <2>5, <2>6, <2>8
    <3>2. singer'.epoch = song'.epoch => y = Behind(Sent)'
      BY <1>3, <2>10 DEF Behind
    <3> QED BY <2>9, <3>1, <3>2 DEF Flowing
  <2> QED BY <2>11
<1>6. SongPaid'
  <2> SUFFICES ASSUME Alive', singer.epoch = song.epoch
               PROVE  /\ song'.pending + song'.credits <= Allowed'
                      /\ Pays(Fees(song.epoch, pcmBack), Sent + singer.credit,
                              Allowed' - (song'.pending + song'.credits))
    BY <1>3 DEF SongPaid
  <2>1. PICK x \in Nat : x = song.pending + song.credits /\ x = song'.pending + song'.credits
    BY <1>1, SongHas
  <2>2. PICK a \in Nat, b \in Nat : a = Allowed /\ b = Allowed' /\ a <= b
    BY <1>4
  <2>3. x <= a /\ Pays(Fees(song.epoch, pcmBack), Sent + singer.credit, a - x)
    BY <1>1, <2>1, <2>2 DEF SongPaid
  <2>4. x <= b /\ a - x <= b - x /\ a - x \in Nat /\ b - x \in Nat
    BY <2>2, <2>3
  <2>5. PICK q \in Amounts : q = Fees(song.epoch, pcmBack)
    BY <1>1, FeesAre DEF SongTypes
  <2>6. PICK c \in Nat : c = Sent + singer.credit
    BY <1>1, <1>4, SongHas
  <2>7. c <= c
    OBVIOUS
  <2>8. Pays(q, c, b - x)
    BY <2>3, <2>4, <2>5, <2>6, <2>7, PaysWeaker
  <2> QED BY <2>1, <2>2, <2>4, <2>5, <2>6, <2>8
<1> QED BY <1>2, <1>5, <1>6

\* A song begins; the one before is forgotten.
LEMMA SongOpens ==
  ASSUME SongInv, UNCHANGED <<singer, pcmBack>>, NEW s \in Seq(SongMsg), s = pcmWire,
         s # <<>>, NEW t, t = Tail(s), pcmWire' = t, NEW m \in SongMsg, m = s[1], m.kind = "open",
         song' = S!Opening(m.epoch)
  PROVE  SongInv'
<1>1. SongTypes /\ Begun /\ Spoken
  BY DEF SongInv
<1>2. /\ t \in Seq(SongMsg) /\ 1 \in DOMAIN s
      /\ \A i \in DOMAIN t : i \in Nat /\ i + 1 \in DOMAIN s /\ t[i] = s[i + 1] /\ 1 < i + 1
  BY WireLeft
<1>3. PICK e \in Nat : e = m.epoch /\ 0 < e /\ Unsung(e)
  BY <1>1, <1>2, SongMsgHas DEF Begun
<1>4. /\ song'.epoch = e /\ song'.cacheMode = FALSE /\ song'.stop = FALSE /\ song'.blocks = <<>>
      /\ song'.spool = "runs" /\ song'.stored = <<>> /\ song'.finished = FALSE
      /\ song'.play = "opens" /\ song'.ring = <<>> /\ song'.played = <<>> /\ song'.credits = 0
      /\ song'.events = <<>> /\ song'.pending = 0 /\ song'.event = "none" /\ song'.dead = FALSE
  BY <1>3 DEF S!Opening, S!Silent
<1>5. SongTypes'
  <2>1. song' = S!Opening(e) /\ <<>> \in Seq(Nat) /\ <<>> \in Seq({"ready", "finished", "error"})
    BY <1>3
  <2>2. PICK r \in SongSet : r = S!Silent
    <3>1. S!Silent \in SongSet
      BY <2>1 DEF SongSet, S!Silent
    <3> QED BY <3>1
  <2>3. song' = [r EXCEPT !.epoch = e, !.spool = "runs", !.play = "opens"]
    BY <2>1, <2>2 DEF S!Opening
  <2>4. song' \in SongSet
    BY <2>3 DEF SongSet
  <2> QED BY <1>1, <1>2, <2>4 DEF SongTypes
<1>6. Begun' /\ SingerRight'
  BY <1>3, <1>4, <1>5, TakenBegun
<1>7. Rung' = 0 /\ Spooled' = 0 /\ Got' = 0 /\ ~Claimed' /\ Allowed' = 0
  <2>1. Rung' = 0 /\ Spooled' = 0 /\ Taken' = 0 /\ ~Claimed'
    BY <1>4 DEF Rung, Spooled, Taken, Claimed
  <2> QED BY <1>4, <2>1 DEF Got, Allowed
<1>8. InRow'
  BY <1>3, <1>4, <1>7 DEF InRow
<1>9. SongFlow'
  <2>1. \A i \in DOMAIN t : t[i].epoch = e => t[i].kind \notin {"chunk", "end"}
    BY <1>2, <1>3 DEF Unsung
  <2>2. PICK q \in Parts2 : q = Portions(e, t) /\ \A i \in DOMAIN q : i \in DOMAIN t /\ q[i] = Portion(e, t[i])
    <3>1. /\ Portions(e, t) \in Parts2 /\ DOMAIN Portions(e, t) = DOMAIN t
          /\ \A i \in DOMAIN t : Portions(e, t)[i] = Portion(e, t[i])
      BY <1>2, PortionsAre
    <3> QED BY <3>1, Zenon
  <2>3. \A i \in DOMAIN q : q[i] = {}
    BY <2>1, <2>2 DEF Portion
  <2>4. Leads(TRUE, q, Behind(0), Behind(0))
    BY <2>3, LeadsNothing
  <2>5. Behind(0) \in SUBSET (1 .. SongBlocks + 1) /\ \A k \in 1 .. (SongBlocks + 1) : k > 0 => k \in Behind(0)
    BY SongConstants DEF Behind
  <2>6. singer.epoch = e => Sent' = 0
    BY <1>3 DEF Unsung, Sent
  <2>7. Flowing(Behind(0))'
    BY <1>4, <1>7, <2>2, <2>4, <2>5, <2>6 DEF Flowing, Behind
  <2>8. \E y \in SUBSET (1 .. SongBlocks + 1) : Flowing(y)'
    <3>1. Behind(0)' = Behind(0)
      BY DEF Behind
    <3>2. PICK y \in SUBSET (1 .. SongBlocks + 1) : y = Behind(0)
      BY <2>5
    <3>3. Flowing(y)'
      BY <1>4, <1>7, <2>2, <2>4, <2>5, <2>6, <3>2 DEF Flowing, Behind
    <3> QED BY <3>3
  <2> QED BY <2>8 DEF SongFlow
<1>10. SongPaid'
  <2> SUFFICES ASSUME singer.epoch = e
               PROVE  /\ song'.pending + song'.credits <= Allowed'
                      /\ Pays(Fees(song'.epoch, pcmBack'), Sent' + singer'.credit,
                              Allowed' - (song'.pending + song'.credits))
    BY <1>4 DEF SongPaid
  <2>1. Sent' = 0 /\ singer'.credit = 0
    BY <1>3 DEF Unsung, Sent
  <2>2. PICK q \in Amounts : /\ q = Fees(e, pcmBack)
                             /\ \A i \in DOMAIN q : i \in DOMAIN pcmBack /\ q[i] = Fee(e, pcmBack[i])
    BY <1>1, FeesAre DEF SongTypes
  <2>3. \A i \in DOMAIN q : q[i] = 0
    BY <1>3, <2>2 DEF Unsung, Fee
  <2>4. 0 \in Nat /\ 0 <= 0 /\ 0 + 0 = 0 /\ 0 - 0 = 0
    OBVIOUS
  <2>5. Pays(q, 0, 0)
    BY <2>3, <2>4, PaysNothing
  <2> QED BY <1>4, <1>7, <2>1, <2>2, <2>4, <2>5
<1>11. Spoken' /\ SongKept'
  BY <1>1, <1>4 DEF Spoken, Ended, Reports, SongKept
<1> QED BY <1>5, <1>6, <1>8, <1>9, <1>10, <1>11 DEF SongInv

\* A song is over.
LEMMA SongCloses ==
  ASSUME SongInv, UNCHANGED <<singer, pcmBack>>, NEW s \in Seq(SongMsg), s = pcmWire,
         s # <<>>, NEW t, t = Tail(s), pcmWire' = t, NEW m \in SongMsg, m = s[1], song' = S!Silent
  PROVE  SongInv'
<1>1. SongTypes /\ Spoken /\ t \in Seq(SongMsg)
  BY WireLeft DEF SongInv
<1>2. /\ song'.epoch = 0 /\ song'.stop = FALSE /\ song'.blocks = <<>> /\ song'.spool = "ended"
      /\ song'.stored = <<>> /\ song'.finished = FALSE /\ song'.play = "ended" /\ song'.ring = <<>>
      /\ song'.played = <<>> /\ song'.events = <<>> /\ song'.event = "none" /\ song'.dead = FALSE
  BY DEF S!Silent
<1>3. SongTypes'
  <2>1. <<>> \in Seq(Nat) /\ <<>> \in Seq({"ready", "finished", "error"})
    OBVIOUS
  <2>2. song' \in SongSet
    BY <2>1 DEF SongSet, S!Silent
  <2> QED BY <1>1, <2>2 DEF SongTypes
<1>4. ~Alive'
  BY <1>2 DEF Alive
<1>5. Begun' /\ SingerRight'
  BY <1>2, <1>3, TakenBegun
<1>6. InRow' /\ Spoken' /\ SongKept' /\ SongFlow' /\ SongPaid'
  <2>1. InRow'
    BY <1>2, <1>4 DEF InRow
  <2>2. SongKept' /\ SongFlow' /\ SongPaid'
    BY <1>2, <1>4 DEF SongKept, SongFlow, SongPaid
  <2>3. Spoken'
    BY <1>1, <1>2 DEF Spoken, Ended, Reports
  <2> QED BY <2>1, <2>2, <2>3
<1> QED BY <1>3, <1>5, <1>6 DEF SongInv

\* A message that is of no consequence for what is to come.
LEMMA SongPasses ==
  ASSUME SongInv, UNCHANGED <<singer, pcmBack>>, NEW s \in Seq(SongMsg), s = pcmWire,
         s # <<>>, NEW t, t = Tail(s), pcmWire' = t, NEW m \in SongMsg, m = s[1],
         Alive => Portion(song.epoch, m) = {},
         \/ song' = song \/ song' = [song EXCEPT !.cacheMode = TRUE]
         \/ \E p \in BOOLEAN : song' = [song EXCEPT !.paused = p]
  PROVE  SongInv'
<1>1. SongTypes /\ InRow /\ Spoken /\ SongKept /\ t \in Seq(SongMsg)
  BY WireLeft DEF SongInv
<1>2. SongTypes'
  <2>1. song \in SongSet
    BY <1>1 DEF SongTypes
  <2>2. song' \in SongSet
    BY <2>1 DEF SongSet
  <2> QED BY <1>1, <2>2 DEF SongTypes
<1>3. /\ song'.epoch = song.epoch /\ song'.stop = song.stop /\ song'.blocks = song.blocks
      /\ song'.spool = song.spool /\ song'.stored = song.stored /\ song'.finished = song.finished
      /\ song'.play = song.play /\ song'.ring = song.ring /\ song'.played = song.played
      /\ song'.credits = song.credits /\ song'.events = song.events /\ song'.pending = song.pending
      /\ song'.event = song.event /\ song'.dead = song.dead
      /\ song.cacheMode => song'.cacheMode
  BY <1>1 DEF SongTypes, SongSet
<1>4. /\ Rung' = Rung /\ Spooled' = Spooled /\ LastSaid' = LastSaid /\ Claimed' = Claimed
      /\ Alive' = Alive
  BY <1>3, LastSaidStays DEF Rung, Spooled, Claimed, Alive
<1>5. Got' = Got
  BY <1>3, <1>4 DEF Got, Taken
<1>6. Allowed <= Allowed'
  <2>1. PICK w \in Nat, r \in Nat, p \in Nat :
          /\ w = (IF Claimed THEN PcmWindow ELSE 0) /\ r = Rung /\ p = Spooled /\ r <= p
    <3>1. (IF Claimed THEN PcmWindow ELSE 0) \in Nat
      BY SongConstants
    <3> QED BY <1>1, <3>1, SongLengths
  <2>2. Allowed = w + (IF song.cacheMode THEN p ELSE r)
    BY <2>1 DEF Allowed
  <2>3. Allowed' = w + (IF song'.cacheMode THEN p ELSE r)
    BY <1>4, <2>1 DEF Allowed
  <2> QED BY <1>3, <2>1, <2>2, <2>3
<1>7. Begun' /\ SingerRight' /\ SongFlow' /\ SongPaid'
  <2>1. Alive => Behind(Got)' = Behind(Got) \ Portion(song.epoch, m)
    BY <1>5 DEF Behind
  <2> QED BY <1>2, <1>3, <1>4, <1>6, <2>1, TakenKeeps
<1>8. InRow'
  BY <1>1, <1>3, <1>4 DEF InRow
<1>9. Spoken' /\ SongKept'
  BY <1>1, <1>3, <1>4 DEF Spoken, Ended, Reports, SongKept
<1> QED BY <1>2, <1>7, <1>8, <1>9 DEF SongInv

\* There is room for the next block of a song that has not stopped.
LEMMA NextBlock ==
  ASSUME SongInv, Alive, NEW s \in Seq(SongMsg), s = pcmWire, s # <<>>, NEW m \in SongMsg, m = s[1],
         NEW k \in Nat, Portion(song.epoch, m) = {k}
  PROVE  /\ k = Spooled + Len(song.blocks) + 1 /\ k <= SongBlocks + 1 /\ song.spool = "runs"
         /\ ~song.finished /\ Got = Taken /\ Len(song.blocks) < PcmWindow
<1>1. SongTypes /\ SongFlow /\ InRow
  BY DEF SongInv
<1>2. PICK y \in SUBSET (1 .. SongBlocks + 1) : Flowing(y)
  BY <1>1 DEF SongFlow
<1>3. PICK q \in Parts2 : q = Portions(song.epoch, s)
  BY PortionsAre
<1>4. PICK t : t = Tail(s)
  OBVIOUS
<1>5. t \in Seq(SongMsg) /\ Shorter(q, Portions(song.epoch, t)) /\ q[1] = {k}
      /\ 1 \in DOMAIN q
  <2>1. DOMAIN Portions(song.epoch, s) = DOMAIN s
    BY PortionsAre
  <2> QED BY <1>3, <1>4, <2>1, PortionsOff
<1>6. PICK r \in Parts2 : r = Portions(song.epoch, t)
  BY <1>5, PortionsAre
<1>7. PICK x \in SUBSET Nat : x = Behind(Got)
  BY BehindIs
<1>8. Leads(TRUE, q, x, y)
  BY <1>2, <1>3, <1>7 DEF Flowing
<1>9. q[1] \subseteq x /\ \A i \in q[1], l \in x : i <= l
  BY <1>5, <1>6, <1>8, LeadsOff
<1>10. k \in Behind(Got) /\ (\A l \in Behind(Got) : k <= l) /\ k \notin y
  BY <1>5, <1>7, <1>8, <1>9 DEF Leads
<1>11. PICK g \in Nat, b \in Nat : g = Got /\ b = SongBlocks
  BY <1>1, SongLengths, SongConstants
<1>12. k > g /\ k <= b + 1 /\ k >= 1
  BY <1>10, <1>11 DEF Behind
<1>13. g + 1 \in Behind(Got)
  BY <1>11, <1>12 DEF Behind
<1>14. k = g + 1
  BY <1>10, <1>12, <1>13
<1>15. ~song.finished
  BY <1>11, <1>12 DEF Got
<1>16. song.spool = "runs"
  BY <1>1, <1>15, SongHas DEF InRow, Alive
<1>17. PICK p \in Nat, n \in Nat, w \in Nat, a \in Nat :
         /\ p = Spooled /\ n = Len(song.blocks) /\ w = PcmWindow /\ a = Allowed /\ a <= w + p
  BY <1>1, SongLengths, SongConstants
<1>18. g = p + n /\ Got = Taken
  BY <1>11, <1>15, <1>17 DEF Got, Taken
<1>19. ~(k > a)
  BY <1>2, <1>10, <1>11, <1>12, <1>17 DEF Flowing
<1>20. n < w
  BY <1>14, <1>17, <1>18, <1>19
<1> QED BY <1>11, <1>12, <1>14, <1>15, <1>16, <1>17, <1>18, <1>20

\* Where there is no room, the receiver ends.
LEMMA BlockRefused ==
  ASSUME SongInv, UNCHANGED <<singer, pcmBack>>, NEW s \in Seq(SongMsg), s = pcmWire,
         s # <<>>, NEW t, t = Tail(s), pcmWire' = t, NEW m \in SongMsg, m = s[1],
         song.epoch > 0, ~song.dead, ~Alive, song' = [song EXCEPT !.dead = TRUE]
  PROVE  SongInv'
<1>1. SongTypes /\ InRow /\ Spoken /\ SongKept /\ t \in Seq(SongMsg)
  BY WireLeft DEF SongInv
<1>2. SongTypes'
  <2>1. song \in SongSet
    BY <1>1 DEF SongTypes
  <2>2. song' \in SongSet
    BY <2>1 DEF SongSet
  <2> QED BY <1>1, <2>2 DEF SongTypes
<1>3. /\ song'.epoch = song.epoch /\ song'.stop = song.stop /\ song'.blocks = song.blocks
      /\ song'.spool = song.spool /\ song'.stored = song.stored /\ song'.finished = song.finished
      /\ song'.play = song.play /\ song'.ring = song.ring /\ song'.played = song.played
      /\ song'.events = song.events /\ song'.event = song.event /\ song'.dead
  BY <1>1 DEF SongTypes, SongSet
<1>4. Rung' = Rung /\ Spooled' = Spooled /\ LastSaid' = LastSaid /\ ~Alive'
  BY <1>3, LastSaidStays DEF Rung, Spooled, Alive
<1>5. Begun' /\ SingerRight' /\ SongFlow' /\ SongPaid'
  BY <1>2, <1>3, <1>4, TakenKeeps
<1>6. InRow'
  BY <1>1, <1>3, <1>4 DEF InRow
<1>7. song.stop \/ song.spool = "failing"
  BY <1>1 DEF Alive
<1>8. Spoken' /\ SongKept'
  BY <1>1, <1>3, <1>4, <1>7 DEF Spoken, Ended, Reports, SongKept
<1> QED BY <1>2, <1>5, <1>6, <1>8 DEF SongInv

\* Behind the next place there is one less.
LEMMA BehindNext == ASSUME NEW g \in Nat PROVE Behind(g + 1) = Behind(g) \ {g + 1}
<1>1. PICK b \in Nat : b = SongBlocks + 1
  BY SongConstants
<1>2. \A k \in 1 .. b : k > g + 1 <=> k > g /\ k # g + 1
  OBVIOUS
<1> QED BY <1>1, <1>2, Zenon DEF Behind

LEMMA BlockTaken ==
  ASSUME SongInv, UNCHANGED <<singer, pcmBack>>, NEW s \in Seq(SongMsg), s = pcmWire,
         s # <<>>, NEW t, t = Tail(s), pcmWire' = t, NEW m \in SongMsg, m = s[1],
         ~song.dead, song.spool = "runs", NEW n \in Nat,
         song' = [song EXCEPT !.blocks = Append(@, n)],
         Alive => /\ ~song.finished /\ Got = Taken
                  /\ Portion(song.epoch, m) = {Spooled + Len(song.blocks) + 1}
                  /\ n = IF Spooled + Len(song.blocks) + 1 = SongBlocks + 1 THEN S!End
                         ELSE Spooled + Len(song.blocks) + 1
  PROVE  SongInv'
<1>1. SongTypes /\ InRow /\ Spoken /\ SongKept /\ t \in Seq(SongMsg) /\ song.blocks \in Seq(Nat)
  BY WireLeft, SongHas DEF SongInv
<1>2. PICK b \in Seq(Nat), c \in Seq(Nat) : b = song.blocks /\ c = Append(b, n) /\ Extended(b, c, n)
  <2>1. Append(song.blocks, n) \in Seq(Nat) /\ Extended(song.blocks, Append(song.blocks, n), n)
    BY <1>1, NatAppend
  <2> QED BY <1>1, <2>1
<1>3. SongTypes'
  <2>1. song \in SongSet /\ song' = [song EXCEPT !.blocks = c]
    BY <1>1, <1>2 DEF SongTypes
  <2>2. song' \in SongSet
    BY <2>1 DEF SongSet
  <2> QED BY <1>1, <2>2 DEF SongTypes
<1>4. /\ song'.epoch = song.epoch /\ song'.stop = song.stop /\ song'.blocks = c
      /\ song'.spool = song.spool /\ song'.stored = song.stored /\ song'.finished = song.finished
      /\ song'.play = song.play /\ song'.ring = song.ring /\ song'.played = song.played
      /\ song'.credits = song.credits /\ song'.events = song.events /\ song'.pending = song.pending
      /\ song'.event = song.event /\ song'.dead = song.dead /\ song'.cacheMode = song.cacheMode
  BY <1>1, <1>2 DEF SongTypes, SongSet
<1>5. /\ Rung' = Rung /\ Spooled' = Spooled /\ LastSaid' = LastSaid /\ Claimed' = Claimed
      /\ Alive' = Alive
  BY <1>4, LastSaidStays DEF Rung, Spooled, Claimed, Alive
<1>6. Allowed' = Allowed
  BY <1>4, <1>5 DEF Allowed
<1>7. PICK p \in Nat, l \in Nat, a \in Nat : p = Spooled /\ l = Len(song.blocks) /\ a = Allowed
  BY <1>1, SongLengths
<1>8. Len(c) = l + 1
  BY <1>2, <1>7 DEF Extended
<1>9. Begun' /\ SingerRight' /\ SongFlow' /\ SongPaid'
  <2>1. ASSUME Alive PROVE Behind(Got)' = Behind(Got) \ Portion(song.epoch, m)
    <3>1. Got = p + l
      BY <1>7, <2>1 DEF Taken
    <3>2. Got' = p + (l + 1)
      BY <1>4, <1>5, <1>7, <1>8, <2>1 DEF Got, Taken
    <3>3. Portion(song.epoch, m) = {(p + l) + 1}
      BY <1>7, <2>1
    <3>4. PICK g \in Nat : g = p + l /\ p + (l + 1) = g + 1
      OBVIOUS
    <3>5. Behind(g + 1) = Behind(g) \ {g + 1}
      BY BehindNext
    <3>6. Behind(Got)' = Behind(g + 1)
      BY <3>2, <3>4 DEF Behind
    <3> QED BY <3>1, <3>3, <3>4, <3>5, <3>6
  <2>2. a <= a
    OBVIOUS
  <2>3. Alive' => /\ Alive /\ Behind(Got)' = Behind(Got) \ Portion(song.epoch, m)
                  /\ Allowed <= Allowed' /\ song'.pending = song.pending /\ song'.credits = song.credits
    BY <1>4, <1>5, <1>6, <1>7, <2>1, <2>2
  <2> QED BY <1>3, <1>4, <2>3, TakenKeeps
<1>10. InRow'
  <2>0. Alive => \A i \in DOMAIN song.blocks :
                   song.blocks[i] = IF Spooled + i = SongBlocks + 1 THEN S!End ELSE Spooled + i
    BY <1>1 DEF InRow
  <2>1. Alive => \A i \in DOMAIN c : c[i] = IF p + i = SongBlocks + 1 THEN S!End ELSE p + i
    <3> SUFFICES ASSUME Alive, NEW i \in DOMAIN c
                 PROVE  c[i] = IF p + i = SongBlocks + 1 THEN S!End ELSE p + i
      OBVIOUS
    <3>1. CASE i \in DOMAIN b /\ c[i] = b[i]
      <4>1. song.blocks[i] = IF p + i = SongBlocks + 1 THEN S!End ELSE p + i
        <5>1. i \in DOMAIN song.blocks
          BY <1>2, <3>1
        <5>2. song.blocks[i] = IF Spooled + i = SongBlocks + 1 THEN S!End ELSE Spooled + i
          BY <2>0, <5>1
        <5> QED BY <1>7, <5>2
      <4> QED BY <1>2, <3>1, <4>1
    <3>2. CASE i = l + 1
      <4>1. p + i = p + l + 1 /\ c[i] = n
        BY <1>2, <1>7, <3>2 DEF Extended
      <4> QED BY <1>7, <4>1
    <3> QED BY <1>2, <1>7, <3>1, <3>2 DEF Extended
  <2>2. ~song.finished
    BY <1>1 DEF InRow
  <2>3. /\ \A i \in DOMAIN song'.played : song'.played[i] = i
        /\ \A i \in DOMAIN song'.ring : song'.ring[i] = Len(song'.played) + i
        /\ \A i \in DOMAIN song'.stored : song'.stored[i] = Rung' + i
    BY <1>1, <1>4, <1>5 DEF InRow
  <2>4. /\ ~song'.finished /\ (song'.play = "opens" => Spooled' = 0)
        /\ song'.epoch # 0
    BY <1>1, <1>4, <1>5, <2>2 DEF InRow
  <2>5. Alive' => /\ song'.spool # "ended"
                  /\ \A i \in DOMAIN song'.blocks :
                       song'.blocks[i] = IF Spooled' + i = SongBlocks + 1 THEN S!End ELSE Spooled' + i
    BY <1>4, <1>5, <1>7, <2>1
  <2> QED BY <2>3, <2>4, <2>5 DEF InRow
<1>11. Spoken' /\ SongKept'
  BY <1>1, <1>4, <1>5 DEF Spoken, Ended, Reports, SongKept
<1> QED BY <1>3, <1>9, <1>10, <1>11 DEF SongInv

\* A block, or the end: there is room for it unless the song has failed.
LEMMA BlockKeeps ==
  ASSUME SongInv, UNCHANGED <<singer, pcmBack>>, NEW s \in Seq(SongMsg), s = pcmWire,
         s # <<>>, NEW t, t = Tail(s), pcmWire' = t, NEW m \in SongMsg, m = s[1],
         ~song.dead, m.epoch = song.epoch, m.kind \in {"chunk", "end"}, NEW n \in Nat,
         n = IF m.kind = "chunk" THEN m.n ELSE S!End, song' = S!Block(n)
  PROVE  SongInv'
<1>1. SongTypes /\ Begun /\ 1 \in DOMAIN s
  BY WireLeft DEF SongInv
<1>2. song.epoch > 0 /\ (m.kind = "chunk" => m.n <= SongBlocks)
  BY <1>1, SongHas DEF Begun
<1>3. CASE ~Alive
  BY <1>2, <1>3, BlockRefused, BlockTaken DEF S!Block
<1>4. CASE Alive
  <2>1. PICK k \in Nat : k = IF m.kind = "chunk" THEN m.n ELSE SongBlocks + 1
    <3>1. (IF m.kind = "chunk" THEN m.n ELSE SongBlocks + 1) \in Nat
      BY SongConstants, SongMsgHas
    <3> QED BY <3>1
  <2>2. Portion(song.epoch, m) = {k}
    BY <2>1 DEF Portion
  <2>3. /\ k = Spooled + Len(song.blocks) + 1 /\ k <= SongBlocks + 1 /\ song.spool = "runs"
        /\ ~song.finished /\ Got = Taken /\ Len(song.blocks) < PcmWindow
    BY <1>4, <2>2, NextBlock
  <2>4. n = IF k = SongBlocks + 1 THEN S!End ELSE k
    BY <1>2, <2>1, SongConstants
  <2>5. song' = [song EXCEPT !.blocks = Append(@, n)]
    BY <2>3 DEF S!Block
  <2> QED BY <2>2, <2>3, <2>4, <2>5, BlockTaken
<1> QED BY <1>3, <1>4

LEMMA SongReceives == ASSUME SongInv, S!Receive PROVE SongInv'
<1>1. SongTypes /\ UNCHANGED <<singer, pcmBack>> /\ ~song.dead
  BY DEF SongInv, S!Receive
<1>2. PICK s \in Seq(SongMsg), t \in {Tail(pcmWire)} : s = pcmWire /\ t = Tail(s)
  BY <1>1, SongHas
<1>3. s # <<>> /\ pcmWire' = t
  BY <1>2 DEF S!Receive
<1>4. PICK m \in SongMsg : m = Head(s) /\ m = s[1]
  <2>1. Head(s) \in SongMsg /\ Head(s) = s[1]
    BY <1>2, <1>3, TailPlaces
  <2> QED BY <2>1, Zenon
<1>5. /\ m.kind \in {"open", "cache", "chunk", "end", "close", "pause"} /\ m.n \in Nat
  BY SongMsgHas
<1>6. song' = IF m.kind = "open" THEN S!Opening(m.epoch)
              ELSE IF m.epoch # song.epoch THEN song
              ELSE CASE m.kind = "cache" -> [song EXCEPT !.cacheMode = TRUE]
                     [] m.kind = "pause" -> [song EXCEPT !.paused = (m.n = 1)]
                     [] m.kind = "chunk" -> IF song.stop THEN song ELSE S!Block(m.n)
                     [] m.kind = "end" -> S!Block(S!End)
                     [] m.kind = "close" -> S!Silent
  BY <1>2, <1>4 DEF S!Receive
<1>7. CASE m.kind = "open"
  BY <1>1, <1>2, <1>3, <1>4, <1>6, <1>7, SongOpens
<1>8. CASE m.kind # "open" /\ m.epoch # song.epoch
  <2>1. song' = song /\ Portion(song.epoch, m) = {}
    BY <1>6, <1>8 DEF Portion
  <2> QED BY <1>1, <1>2, <1>3, <1>4, <2>1, SongPasses
<1>9. CASE m.kind = "cache" /\ m.epoch = song.epoch
  <2>1. song' = [song EXCEPT !.cacheMode = TRUE] /\ Portion(song.epoch, m) = {}
    BY <1>6, <1>9 DEF Portion
  <2> QED BY <1>1, <1>2, <1>3, <1>4, <2>1, SongPasses
<1>10. CASE m.kind = "pause" /\ m.epoch = song.epoch
  <2>1. PICK p \in BOOLEAN : p = (m.n = 1)
    OBVIOUS
  <2>2. song' = [song EXCEPT !.paused = p] /\ Portion(song.epoch, m) = {}
    BY <1>6, <1>10, <2>1 DEF Portion
  <2> QED BY <1>1, <1>2, <1>3, <1>4, <2>2, SongPasses
<1>11. CASE m.kind = "chunk" /\ m.epoch = song.epoch /\ song.stop
  <2>1. song' = song /\ ~Alive
    BY <1>6, <1>11 DEF Alive
  <2> QED BY <1>1, <1>2, <1>3, <1>4, <2>1, SongPasses
<1>12. CASE m.kind = "chunk" /\ m.epoch = song.epoch /\ ~song.stop
  <2>1. song' = S!Block(m.n)
    BY <1>6, <1>12
  <2>2. PICK n \in Nat : n = m.n
    BY <1>5
  <2> QED BY <1>1, <1>2, <1>3, <1>4, <1>12, <2>1, <2>2, BlockKeeps
<1>13. CASE m.kind = "end" /\ m.epoch = song.epoch
  <2>1. song' = S!Block(S!End)
    BY <1>6, <1>13
  <2>2. PICK n \in Nat : n = S!End
    BY DEF S!End
  <2> QED BY <1>1, <1>2, <1>3, <1>4, <1>13, <2>1, <2>2, BlockKeeps
<1>14. CASE m.kind = "close" /\ m.epoch = song.epoch
  <2>1. song' = S!Silent
    BY <1>6, <1>14
  <2> QED BY <1>1, <1>2, <1>3, <1>4, <2>1, SongCloses
<1> QED BY <1>5, <1>7, <1>8, <1>9, <1>10, <1>11, <1>12, <1>13, <1>14

\* What a tick takes from the events.
Drawn(v, e) ==
  /\ v \in Seq({"ready", "finished", "error"}) /\ e \in {"none", "ready", "finished", "error"}
  /\ \/ song.event = "none" /\ song.events = <<>> /\ v = song.events /\ e = "none"
     \/ song.event # "none" /\ v = song.events /\ e = song.event
     \/ /\ song.event = "none" /\ song.events # <<>> /\ e = song.events[1] /\ 1 \in DOMAIN song.events
        /\ \A i \in DOMAIN v : i + 1 \in DOMAIN song.events /\ v[i] = song.events[i + 1] /\ 1 < i + 1
        /\ v = <<>> => e = song.events[Len(song.events)]
        /\ v # <<>> => v[Len(v)] = song.events[Len(song.events)]
        /\ Len(v) + 1 = Len(song.events)

LEMMA Draws ==
  ASSUME SongTypes, NEW v, NEW e, e = S!TickEvent,
         v = IF song.event = "none" /\ song.events # <<>> THEN Tail(song.events) ELSE song.events
  PROVE  Drawn(v, e)
<1>1. PICK q \in Seq({"ready", "finished", "error"}) : q = song.events
  BY SongHas
<1>2. song.event \in {"none", "ready", "finished", "error"}
  BY SongHas
<1>3. CASE ~(song.event = "none" /\ song.events # <<>>)
  BY <1>1, <1>2, <1>3 DEF Drawn, S!TickEvent
<1>4. CASE song.event = "none" /\ song.events # <<>>
  <2>1. v = Tail(q) /\ e = Head(q) /\ q # <<>>
    BY <1>1, <1>4 DEF S!TickEvent
  <2>1a. /\ Tail(q) \in Seq({"ready", "finished", "error"}) /\ Len(Tail(q)) = Len(q) - 1
         /\ Head(q) \in {"ready", "finished", "error"} /\ Head(q) = q[1] /\ 1 \in DOMAIN q
         /\ \A i \in DOMAIN Tail(q) : i + 1 \in DOMAIN q /\ Tail(q)[i] = q[i + 1] /\ i \in Nat
                                       /\ 1 < i + 1
    BY <2>1, TailPlaces
  <2>1b. Len(q) \in Nat
    OBVIOUS
  <2>2. /\ v \in Seq({"ready", "finished", "error"}) /\ Len(v) = Len(q) - 1 /\ Len(q) \in Nat
        /\ e \in {"ready", "finished", "error"} /\ e = q[1] /\ 1 \in DOMAIN q
        /\ \A i \in DOMAIN v : i + 1 \in DOMAIN q /\ v[i] = q[i + 1] /\ i \in Nat /\ 1 < i + 1
    BY <2>1, <2>1a, <2>1b
  <2>3. Len(v) + 1 = Len(q)
    BY <2>2
  <2>4. v = <<>> => e = q[Len(q)]
    <3> SUFFICES ASSUME v = <<>> PROVE e = q[Len(q)]
      OBVIOUS
    <3>1. q[0 + 1] = q[1] /\ Len(<<>>) = 0
      OBVIOUS
    <3>2. Len(q) = 0 + 1
      BY <2>3, <3>1, Zenon
    <3> QED BY <2>2, <3>1, <3>2, Zenon
  <2>5. v # <<>> => v[Len(v)] = q[Len(q)]
    <3> SUFFICES ASSUME v # <<>> PROVE v[Len(v)] = q[Len(q)]
      OBVIOUS
    <3>1. Len(v) \in DOMAIN v
      BY <2>2
    <3> QED BY <2>2, <2>3, <3>1
  <2> QED BY <1>1, <1>4, <2>2, <2>3, <2>4, <2>5 DEF Drawn
<1> QED BY <1>3, <1>4

\* The event that a tick has drawn is on its way, or waits.
Reported(c, e, f) ==
  \/ c = pcmBack /\ f = e
  \/ /\ e # "none" /\ f = "none"
     /\ \E i \in DOMAIN c : /\ c[i] = S!Msg(e, song.epoch, 0)
                            /\ \A j \in DOMAIN c : j # i => ~(i < j) /\ j \in DOMAIN pcmBack /\ c[j] = pcmBack[j]

LEMMA ReportIs ==
  ASSUME SongTypes, NEW e \in {"none", "ready", "finished", "error"}, NEW m, m = S!Msg(e, song.epoch, 0),
         NEW t \in BOOLEAN, t => e # "none", NEW c, c = IF t THEN Append(pcmBack, m) ELSE pcmBack,
         NEW f, f = IF t THEN "none" ELSE e
  PROVE  /\ c \in Seq(SingerMsg) /\ Reported(c, e, f)
         /\ \A i \in DOMAIN c : (i \in DOMAIN pcmBack /\ c[i] = pcmBack[i]) \/ (t /\ c[i] = m)
<1>1. PICK b \in Seq(SingerMsg) : b = pcmBack
  BY SongHas
<1>2. CASE ~t
  BY <1>1, <1>2 DEF Reported
<1>3. CASE t
  <2>1. m \in SingerMsg
    BY <1>3, SongHas DEF S!Msg, SingerMsg
  <2>2. c = Append(b, m) /\ f = "none" /\ e # "none"
    BY <1>1, <1>3
  <2>2a. /\ Append(b, m) \in Seq(SingerMsg) /\ Len(Append(b, m)) = Len(b) + 1
         /\ DOMAIN Append(b, m) = DOMAIN b \cup {Len(b) + 1}
         /\ (\A i \in DOMAIN b : Append(b, m)[i] = b[i] /\ i < Len(b) + 1 /\ i \in Nat)
         /\ Append(b, m)[Len(b) + 1] = m
    BY <2>1, AppendPlaces
  <2>2b. Len(b) \in Nat
    OBVIOUS
  <2>3. /\ c \in Seq(SingerMsg) /\ DOMAIN c = DOMAIN b \cup {Len(b) + 1} /\ c[Len(b) + 1] = m
        /\ \A i \in DOMAIN b : c[i] = b[i] /\ ~(Len(b) + 1 < i)
    <3>1. \A i, n \in Nat : i < n + 1 => ~(n + 1 < i)
      OBVIOUS
    <3>2. \A i \in DOMAIN b : ~(Len(b) + 1 < i)
      BY <2>2a, <2>2b, <3>1, Zenon
    <3> QED BY <2>2, <2>2a, <3>2, Zenon
  <2>4. Len(b) + 1 \in DOMAIN c
    BY <2>3
  <2>5. \A j \in DOMAIN c : j # Len(b) + 1 => ~(Len(b) + 1 < j) /\ j \in DOMAIN b /\ c[j] = b[j]
    BY <2>3
  <2>6. Reported(c, e, f)
    BY <1>1, <2>2, <2>4, <2>5 DEF Reported
  <2> QED BY <1>1, <1>3, <2>3, <2>6
<1> QED BY <1>2, <1>3

LEMMA StillLast ==
  ASSUME SongTypes, LastSaid, NEW v, NEW e, NEW c, NEW f, Drawn(v, e), Reported(c, e, f),
         pcmBack' = c, song'.event = f, song'.events = v, song'.epoch = song.epoch, UNCHANGED singer
  PROVE  LastSaid'
<1>1. CASE v # <<>>
  <2>1. v[Len(v)] = "error"
    BY <1>1 DEF Drawn, LastSaid
  <2> QED BY <1>1, <2>1 DEF LastSaid
<1>2. CASE v = <<>> /\ e # "none"
  <2>1. e = "error"
    BY <1>2 DEF Drawn, LastSaid
  <2>2. CASE f = e
    BY <1>2, <2>1, <2>2 DEF LastSaid
  <2>3. CASE f # e
    <3>1. f = "none"
      BY <2>3 DEF Reported
    <3>2. PICK i \in DOMAIN c : /\ c[i] = S!Msg("error", song.epoch, 0)
                                /\ \A j \in DOMAIN c : j # i => ~(i < j)
      BY <2>1, <2>3 DEF Reported
    <3>3. \A j \in DOMAIN c : Says(j)' /\ i < j => c[j].kind = "error"
      <4>1. \A j \in DOMAIN c : i < j => j = i
        BY <3>2
      <4> QED BY <3>2, <4>1 DEF S!Msg
    <3>4. Says(i)'
      BY <3>2 DEF Says, S!Msg
    <3> QED BY <1>2, <3>1, <3>2, <3>3, <3>4 DEF LastSaid
  <2> QED BY <2>2, <2>3
<1>3. CASE v = <<>> /\ e = "none"
  <2>1. song.events = <<>> /\ song.event = "none"
    BY <1>3, SongHas DEF Drawn
  <2>2. c = pcmBack /\ f = "none"
    BY <1>3 DEF Reported
  <2> QED BY <1>3, <2>1, <2>2, LastSaidStays
<1> QED BY <1>1, <1>2, <1>3

LEMMA FlowStays ==
  ASSUME SongTypes, SongTypes', SongFlow, UNCHANGED <<singer, pcmWire>>, song'.epoch = song.epoch,
         Alive' => Alive /\ Got' = Got /\ Allowed <= Allowed'
  PROVE  SongFlow'
<1> SUFFICES ASSUME Alive' PROVE \E y \in SUBSET (1 .. SongBlocks + 1) : Flowing(y)'
  BY DEF SongFlow
<1>1. Allowed \in Nat /\ Allowed' \in Nat /\ Allowed <= Allowed' /\ Behind(Got)' = Behind(Got)
  BY SongLengths, SongLengthsNext DEF Behind
<1>2. PICK y \in SUBSET (1 .. SongBlocks + 1) : Flowing(y)
  BY DEF SongFlow
<1>3. \A k \in 1 .. (SongBlocks + 1) : k > Allowed' => k \in y
  BY <1>1, <1>2, SongConstants DEF Flowing
<1>4. Leads(TRUE, Portions(song'.epoch, pcmWire'), Behind(Got)', y)
  BY <1>1, <1>2 DEF Flowing
<1>5. singer'.epoch = song'.epoch => y = Behind(Sent)'
  BY <1>2 DEF Flowing, Behind, Sent
<1>6. Flowing(y)'
  BY <1>3, <1>4, <1>5 DEF Flowing
<1> QED BY <1>6

\* Credits that are sent are those that were owed; the first are owed when the song is ready.
LEMMA TickPays ==
  ASSUME SongInv, Alive, singer.epoch = song.epoch, NEW c \in Seq(SingerMsg),
         Pays(Fees(song.epoch, c), Sent + singer.credit, Allowed - (song.pending + song.credits)),
         NEW o \in Nat, o + Allowed <= (song.pending + song.credits) + Allowed', Allowed' \in Nat,
         NEW h \in SingerMsg, h = S!Msg("credit", song.epoch, S!Smaller(o, PcmWindow)),
         NEW d, d = Append(c, h)
  PROVE  Pays(Fees(song.epoch, d), Sent + singer.credit, Allowed')
<1>1. SongTypes /\ SongPaid
  BY DEF SongInv
<1>2. PICK x \in Nat, a \in Nat, z \in Nat, n \in Nat :
        x = song.pending + song.credits /\ a = Allowed /\ z = Allowed' /\ n = Sent + singer.credit
  <2>1. Allowed \in Nat /\ Sent \in Nat /\ song.pending \in Nat /\ song.credits \in Nat /\ singer.credit \in Nat
    BY <1>1, SongHas, SongLengths
  <2>2. song.pending + song.credits \in Nat /\ Sent + singer.credit \in Nat
    <3>1. \A i, j \in Nat : i + j \in Nat
      OBVIOUS
    <3> QED BY <2>1, <3>1, Zenon
  <2> QED BY <2>1, <2>2, Zenon
<1>3. PICK g \in Nat : g = S!Smaller(o, PcmWindow) /\ g <= o
  BY SongConstants DEF S!Smaller
<1>4. x <= a /\ o + a <= x + z
  BY <1>1, <1>2 DEF SongPaid
<1>5. a - x \in Nat /\ (a - x) + g \in Nat /\ (a - x) + g <= z
  BY <1>3, <1>4
<1>6. Fee(song.epoch, h) = g
  BY <1>3 DEF Fee, S!Msg
<1>7. d \in Seq(SingerMsg) /\ Pays(Fees(song.epoch, d), n, (a - x) + g)
  <2>1. Pays(Fees(song.epoch, c), n, a - x)
    BY <1>2
  <2>2. PICK k \in Nat : k = a - x
    BY <1>5
  <2>3. d \in Seq(SingerMsg) /\ Pays(Fees(song.epoch, d), n, k + g)
    <3>1. /\ n \in Nat /\ k \in Nat /\ g \in Nat /\ c \in Seq(SingerMsg) /\ h \in SingerMsg
          /\ d = Append(c, h) /\ g = Fee(song.epoch, h) /\ Pays(Fees(song.epoch, c), n, k)
      BY <1>2, <1>3, <1>6, <2>1, <2>2
    <3> QED BY <3>1, FeesOn
  <2> QED BY <2>2, <2>3
<1>8. PICK q \in Amounts : q = Fees(song.epoch, d)
  BY <1>7, FeesAre
<1>9. n <= n
  OBVIOUS
<1>10. Pays(q, n, z)
  BY <1>5, <1>7, <1>8, <1>9, PaysWeaker
<1> QED BY <1>2, <1>8, <1>10

\* The event that is told costs nothing.
LEMMA TickTells ==
  ASSUME SongInv, Alive, singer.epoch = song.epoch, NEW e \in {"ready", "finished", "error"},
         NEW c, c = pcmBack \/ c = Append(pcmBack, S!Msg(e, song.epoch, 0))
  PROVE  Pays(Fees(song.epoch, c), Sent + singer.credit, Allowed - (song.pending + song.credits))
<1>1. SongTypes /\ SongPaid
  BY DEF SongInv
<1>2. PICK b \in Seq(SingerMsg) : b = pcmBack
  BY <1>1, SongHas
<1>3. PICK x \in Nat, a \in Nat, n \in Nat :
        x = song.pending + song.credits /\ a = Allowed /\ n = Sent + singer.credit
  <2>1. Allowed \in Nat /\ Sent \in Nat /\ song.pending \in Nat /\ song.credits \in Nat /\ singer.credit \in Nat
    BY <1>1, SongHas, SongLengths
  <2>2. song.pending + song.credits \in Nat /\ Sent + singer.credit \in Nat
    <3>1. \A i, j \in Nat : i + j \in Nat
      OBVIOUS
    <3> QED BY <2>1, <3>1, Zenon
  <2> QED BY <2>1, <2>2, Zenon
<1>4. x <= a /\ Pays(Fees(song.epoch, b), n, a - x)
  BY <1>1, <1>2, <1>3 DEF SongPaid
<1>5. CASE c = b
  BY <1>3, <1>4, <1>5
<1>6. CASE c = Append(b, S!Msg(e, song.epoch, 0))
  <2>1. PICK m \in SingerMsg : m = S!Msg(e, song.epoch, 0)
    BY <1>1, SongHas DEF SingerMsg, S!Msg
  <2>2. 0 = Fee(song.epoch, m) /\ 0 \in Nat
    BY <2>1 DEF Fee, S!Msg
  <2>3. a - x \in Nat /\ (a - x) + 0 = a - x
    BY <1>4
  <2>4. Pays(Fees(song.epoch, c), n, (a - x) + 0)
    <3>1. PICK k \in Nat : k = a - x
      BY <2>3
    <3>2. c = Append(b, m) /\ Pays(Fees(song.epoch, b), n, k)
      BY <1>4, <1>6, <2>1, <3>1
    <3> QED BY <2>2, <3>1, <3>2, FeesOn
  <2> QED BY <1>3, <2>3, <2>4
<1> QED BY <1>2, <1>5, <1>6

LEMMA TickReports ==
  ASSUME SongInv, NEW v, NEW e, NEW f, Drawn(v, e), f = e \/ f = "none", song'.event = f, song'.events = v,
         song'.stop = song.stop, song'.play = song.play, song'.finished = song.finished,
         song'.ring = song.ring, song'.stored = song.stored,
         \A i \in DOMAIN pcmBack' : pcmBack'[i].kind # "credit" => pcmBack'[i].n = 0
  PROVE  Reports'
<1>1. SongTypes /\ Reports
  BY DEF SongInv, Spoken
<1>2. PICK q \in Seq({"ready", "finished", "error"}) : q = song.events
  BY <1>1, SongHas
<1>3. /\ v \in Seq({"ready", "finished", "error"}) /\ Len(v) \in Nat /\ Len(q) \in Nat
      /\ Len(v) <= Len(q)
  BY <1>2 DEF Drawn
<1>4. song.play = "opens" => v = <<>> /\ f = "none"
  BY <1>1 DEF Reports, Drawn
<1>5. \A i \in DOMAIN v : \E j \in DOMAIN q : v[i] = q[j] /\ (j = 1 => i = 1)
  <2> SUFFICES ASSUME NEW i \in DOMAIN v PROVE \E j \in DOMAIN q : v[i] = q[j] /\ (j = 1 => i = 1)
    OBVIOUS
  <2>1. CASE v = q
    BY <2>1
  <2>2. CASE i + 1 \in DOMAIN q /\ v[i] = q[i + 1] /\ 1 < i + 1
    <3>1. i + 1 # 1
      BY <2>2
    <3> QED BY <2>2, <3>1
  <2> QED BY <1>2, <2>1, <2>2 DEF Drawn
<1>6. \A i \in DOMAIN v : v[i] = "ready" => i = 1
  BY <1>1, <1>2, <1>5 DEF Reports
<1>7. ~song.stop /\ song.play = "plays" => Len(v) <= 1 /\ \A i \in DOMAIN v : v[i] = "ready"
  <2> SUFFICES ASSUME ~song.stop, song.play = "plays"
               PROVE  Len(v) <= 1 /\ \A i \in DOMAIN v : v[i] = "ready"
    OBVIOUS
  <2>1. Len(q) <= 1 /\ \A i \in DOMAIN q : q[i] = "ready"
    BY <1>1, <1>2 DEF Reports
  <2> QED BY <1>3, <1>5, <2>1
<1>8. f = "finished" \/ (\E i \in DOMAIN v : v[i] = "finished")
        => song.event = "finished" \/ \E i \in DOMAIN q : q[i] = "finished"
  <2>1. f = "finished" => song.event = "finished" \/ \E i \in DOMAIN q : q[i] = "finished"
    BY <1>2 DEF Drawn
  <2> QED BY <1>5, <2>1
<1>9. f = "finished" \/ (\E i \in DOMAIN v : v[i] = "finished")
        => song.play = "ended" /\ song.finished /\ song.ring = <<>> /\ song.stored = <<>>
  BY <1>1, <1>2, <1>8 DEF Reports
<1> QED BY <1>4, <1>6, <1>7, <1>9 DEF Reports

\* A song that is ready may have a window of blocks more.
LEMMA TickAllows ==
  ASSUME SongInv, SongTypes', NEW v, NEW e, Drawn(v, e), song'.events = v, song'.play = song.play,
         song'.cacheMode = song.cacheMode, Rung' = Rung, Spooled' = Spooled
  PROVE  /\ Allowed <= Allowed'
         /\ song.event = "none" /\ song.events # <<>> /\ e = "ready" => Allowed' = Allowed + PcmWindow
<1>1. SongTypes /\ Reports
  BY DEF SongInv, Spoken
<1>2. Claimed => Claimed'
  BY DEF Claimed, Drawn
<1>3. song.event = "none" /\ song.events # <<>> /\ e = "ready" => ~Claimed /\ Claimed'
  <2> SUFFICES ASSUME song.event = "none", song.events # <<>>, e = "ready" PROVE ~Claimed /\ Claimed'
    OBVIOUS
  <2>1. song.events[1] = "ready" /\ 1 \in DOMAIN song.events
    BY DEF Drawn
  <2>2. song.play # "opens"
    BY <1>1 DEF Reports
  <2>3. \A i \in DOMAIN v : v[i] # "ready"
    <3> SUFFICES ASSUME NEW i \in DOMAIN v, v[i] = "ready" PROVE FALSE
      OBVIOUS
    <3>1. i + 1 \in DOMAIN song.events /\ song.events[i + 1] = "ready" /\ 1 < i + 1
      BY DEF Drawn
    <3>2. i + 1 = 1
      BY <1>1, <3>1 DEF Reports
    <3> QED BY <3>1, <3>2
  <2> QED BY <2>1, <2>2, <2>3 DEF Claimed
<1>4. PICK u \in Nat, w \in Nat : u = (IF song.cacheMode THEN Spooled ELSE Rung) /\ w = PcmWindow
  <2>1. (IF song.cacheMode THEN Spooled ELSE Rung) \in Nat /\ PcmWindow \in Nat
    BY <1>1, SongLengths, SongConstants
  <2> QED BY <2>1
<1>5. Allowed = (IF Claimed THEN w ELSE 0) + u /\ Allowed' = (IF Claimed' THEN w ELSE 0) + u
  BY <1>4 DEF Allowed
<1>6. CASE Claimed
  <2>1. Allowed = w + u /\ Allowed' = w + u /\ w + u <= w + u
    BY <1>2, <1>5, <1>6
  <2> QED BY <1>3, <1>6, <2>1
<1>7. CASE ~Claimed
  <2>1. Allowed = 0 + u /\ 0 + u = u /\ u <= w + u /\ u <= 0 + u /\ w + u = u + w
    BY <1>5, <1>7
  <2>2. Allowed' = w + u \/ Allowed' = 0 + u
    BY <1>5
  <2>3. song.event = "none" /\ song.events # <<>> /\ e = "ready" => Allowed' = w + u
    BY <1>3, <1>5
  <2> QED BY <1>4, <2>1, <2>2, <2>3
<1> QED BY <1>6, <1>7

\* What a tick does, with names for what it takes and sends.
TickOf(v, e, f, o, t, p, c, h) ==
  /\ Drawn(v, e) /\ f = (IF t THEN "none" ELSE e) /\ (t => e # "none")
  /\ c = IF t THEN Append(pcmBack, S!Msg(e, song.epoch, 0)) ELSE pcmBack
  /\ h = S!Msg("credit", song.epoch, S!Smaller(o, PcmWindow))
  /\ o = (IF song.event = "none" /\ song.events # <<>> /\ e = "ready" THEN PcmWindow
          ELSE song.pending) + (IF song.stop THEN 0 ELSE song.credits)
  /\ p => ~song.stop
  /\ pcmBack' = IF p THEN Append(c, h) ELSE c
  /\ song' = [song EXCEPT !.event = f, !.events = v, !.pending = (IF p THEN 0 ELSE o),
                          !.credits = IF song.stop THEN @ ELSE 0]
LEMMA TickIs ==
  ASSUME SongTypes, S!Tick
  PROVE  /\ song.epoch > 0 /\ ~song.dead /\ UNCHANGED <<singer, pcmWire>>
         /\ \E v \in Seq({"ready", "finished", "error"}), e \in {"none", "ready", "finished", "error"},
               f \in {"none", "ready", "finished", "error"} :
              \E o \in Nat, t \in BOOLEAN, p \in BOOLEAN :
                \E c \in Seq(SingerMsg), h \in SingerMsg : TickOf(v, e, f, o, t, p, c, h)
<1>1. PICK v, e : /\ e = S!TickEvent
                  /\ v = IF song.event = "none" /\ song.events # <<>> THEN Tail(song.events) ELSE song.events
  OBVIOUS
<1>2. Drawn(v, e)
  BY <1>1, Draws
<1>3. v \in Seq({"ready", "finished", "error"}) /\ e \in {"none", "ready", "finished", "error"}
  BY <1>2 DEF Drawn
<1>4. PICK t \in BOOLEAN : t = (e # "none" /\ Len(pcmBack) < PcmRoom)
  OBVIOUS
<1>5. PICK f : f = (IF t THEN "none" ELSE e)
  OBVIOUS
<1>5a. f \in {"none", "ready", "finished", "error"}
  BY <1>3, <1>5
<1>6. PICK m : m = S!Msg(e, song.epoch, 0)
  OBVIOUS
<1>7. PICK c : c = IF t THEN Append(pcmBack, m) ELSE pcmBack
  OBVIOUS
<1>8. c \in Seq(SingerMsg)
  BY <1>3, <1>4, <1>5, <1>6, <1>7, ReportIs
<1>9. PICK o \in Nat :
        o = (IF song.event = "none" /\ song.events # <<>> /\ e = "ready" THEN PcmWindow
             ELSE song.pending) + (IF song.stop THEN 0 ELSE song.credits)
  <2>1. /\ (IF song.event = "none" /\ song.events # <<>> /\ e = "ready" THEN PcmWindow
            ELSE song.pending) \in Nat
        /\ (IF song.stop THEN 0 ELSE song.credits) \in Nat
    BY SongHas, SongConstants
  <2>2. \A i, j \in Nat : i + j \in Nat
    OBVIOUS
  <2> QED BY <2>1, <2>2, Zenon
<1>10. PICK h \in SingerMsg : h = S!Msg("credit", song.epoch, S!Smaller(o, PcmWindow))
  <2>1. S!Smaller(o, PcmWindow) \in Nat /\ song.epoch \in Nat
    BY SongHas, SongConstants DEF S!Smaller
  <2>2. S!Msg("credit", song.epoch, S!Smaller(o, PcmWindow)) \in SingerMsg
    BY <2>1 DEF SingerMsg, S!Msg
  <2> QED BY <2>2, Zenon
<1>11. PICK p \in BOOLEAN : p = (~song.stop /\ o > 0 /\ Len(c) < PcmRoom)
  OBVIOUS
<1>12. /\ song.epoch > 0 /\ ~song.dead /\ UNCHANGED <<singer, pcmWire>>
       /\ pcmBack' = IF p THEN Append(c, h) ELSE c
       /\ song' = [song EXCEPT !.event = f, !.events = v, !.pending = (IF p THEN 0 ELSE o),
                               !.credits = IF song.stop THEN @ ELSE 0]
  BY <1>1, <1>4, <1>5, <1>6, <1>7, <1>9, <1>10, <1>11 DEF S!Tick
<1>13. c = IF t THEN Append(pcmBack, S!Msg(e, song.epoch, 0)) ELSE pcmBack
  BY <1>6, <1>7
<1>14. TickOf(v, e, f, o, t, p, c, h)
  BY <1>2, <1>4, <1>5, <1>9, <1>10, <1>11, <1>12, <1>13 DEF TickOf
<1>15. \E c1 \in Seq(SingerMsg), h1 \in SingerMsg : TickOf(v, e, f, o, t, p, c1, h1)
  BY <1>8, <1>10, <1>14, Zenon
<1>16. \E o1 \in Nat, t1 \in BOOLEAN, p1 \in BOOLEAN :
          \E c1 \in Seq(SingerMsg), h1 \in SingerMsg : TickOf(v, e, f, o1, t1, p1, c1, h1)
  BY <1>4, <1>9, <1>11, <1>15, Zenon
<1> QED BY <1>3, <1>5a, <1>12, <1>16, Zenon

LEMMA SongTicks == ASSUME SongInv, S!Tick PROVE SongInv'
<1>1. SongTypes /\ Begun /\ InRow /\ SingerRight /\ SongFlow /\ SongPaid /\ Spoken /\ SongKept
  BY DEF SongInv
<1>2. song.epoch > 0 /\ ~song.dead /\ UNCHANGED <<singer, pcmWire>>
  BY <1>1, TickIs
<1>3. PICK v \in Seq({"ready", "finished", "error"}), e \in {"none", "ready", "finished", "error"},
           f \in {"none", "ready", "finished", "error"} :
        \E o \in Nat, t \in BOOLEAN, p \in BOOLEAN :
          \E c \in Seq(SingerMsg), h \in SingerMsg : TickOf(v, e, f, o, t, p, c, h)
  BY <1>1, TickIs
<1>3a. PICK o \in Nat, t \in BOOLEAN, p \in BOOLEAN :
         \E c \in Seq(SingerMsg), h \in SingerMsg : TickOf(v, e, f, o, t, p, c, h)
  BY <1>3
<1>4a. PICK c \in Seq(SingerMsg), h \in SingerMsg : TickOf(v, e, f, o, t, p, c, h)
  BY <1>3a
<1>4. /\ Drawn(v, e) /\ f = (IF t THEN "none" ELSE e) /\ (t => e # "none")
      /\ c = IF t THEN Append(pcmBack, S!Msg(e, song.epoch, 0)) ELSE pcmBack
      /\ h = S!Msg("credit", song.epoch, S!Smaller(o, PcmWindow))
      /\ o = (IF song.event = "none" /\ song.events # <<>> /\ e = "ready" THEN PcmWindow
              ELSE song.pending) + (IF song.stop THEN 0 ELSE song.credits)
      /\ p => ~song.stop
      /\ pcmBack' = IF p THEN Append(c, h) ELSE c
      /\ song' = [song EXCEPT !.event = f, !.events = v, !.pending = (IF p THEN 0 ELSE o),
                              !.credits = IF song.stop THEN @ ELSE 0]
  BY <1>4a DEF TickOf
<1>5. PICK pd \in Nat, cr \in Nat, r \in SongSet :
        pd = (IF p THEN 0 ELSE o) /\ cr = (IF song.stop THEN song.credits ELSE 0) /\ r = song
  <2>1. (IF p THEN 0 ELSE o) \in Nat /\ (IF song.stop THEN song.credits ELSE 0) \in Nat /\ song \in SongSet
    BY <1>1, SongHas DEF SongTypes
  <2> QED BY <2>1
<1>6. /\ song'.epoch = song.epoch /\ song'.stop = song.stop /\ song'.blocks = song.blocks
      /\ song'.spool = song.spool /\ song'.stored = song.stored /\ song'.finished = song.finished
      /\ song'.play = song.play /\ song'.ring = song.ring /\ song'.played = song.played
      /\ song'.credits = cr /\ song'.events = v /\ song'.pending = pd /\ song'.event = f
      /\ song'.dead = song.dead /\ song'.cacheMode = song.cacheMode /\ song' \in SongSet
  <2>1. song' = [r EXCEPT !.event = f, !.events = v, !.pending = pd, !.credits = cr]
    BY <1>4, <1>5
  <2>2. song' \in SongSet
    <3>1. /\ v \in Seq({"ready", "finished", "error"}) /\ f \in {"none", "ready", "finished", "error"}
          /\ pd \in Nat /\ cr \in Nat /\ r \in SongSet
      BY <1>3, <1>5
    <3> QED BY <2>1, <3>1 DEF SongSet
  <2>3. /\ song'.credits = cr /\ song'.events = v /\ song'.pending = pd /\ song'.event = f
    BY <1>5, <2>1 DEF SongSet
  <2> QED BY <1>5, <2>1, <2>2, <2>3 DEF SongSet
<1>7. pcmBack' \in Seq(SingerMsg)
  <2>1. Append(c, h) \in Seq(SingerMsg)
    BY AppendPlaces
  <2> QED BY <1>4, <2>1
<1>8. SongTypes'
  BY <1>1, <1>2, <1>6, <1>7 DEF SongTypes
<1>9. /\ Rung' = Rung /\ Spooled' = Spooled /\ Alive' = Alive
  BY <1>6 DEF Rung, Spooled, Alive
<1>10. Got' = Got
  BY <1>6, <1>9 DEF Got, Taken
<1>11. /\ Allowed <= Allowed'
       /\ song.event = "none" /\ song.events # <<>> /\ e = "ready" => Allowed' = Allowed + PcmWindow
  BY <1>4, <1>6, <1>8, <1>9, TickAllows
<1>12. SongFlow'
  BY <1>1, <1>2, <1>6, <1>8, <1>9, <1>10, <1>11, FlowStays
<1>13. InRow' /\ SingerRight' /\ SongKept'
  <2>1. InRow'
    BY <1>1, <1>6, <1>9 DEF InRow
  <2> QED BY <1>1, <1>2, <1>6, <2>1 DEF SingerRight, SongKept
<1>14. /\ Reported(c, e, f)
       /\ \A i \in DOMAIN c : \/ i \in DOMAIN pcmBack /\ c[i] = pcmBack[i]
                              \/ t /\ c[i] = S!Msg(e, song.epoch, 0)
  <2>1. PICK m : m = S!Msg(e, song.epoch, 0)
    OBVIOUS
  <2>2. c = (IF t THEN Append(pcmBack, m) ELSE pcmBack) /\ f = (IF t THEN "none" ELSE e) /\ (t => e # "none")
    BY <1>4, <2>1
  <2>3. Reported(c, e, f)
    BY <1>1, <1>3, <1>3a, <2>1, <2>2, ReportIs
  <2>4. \A i \in DOMAIN c : (i \in DOMAIN pcmBack /\ c[i] = pcmBack[i]) \/ (t /\ c[i] = m)
    BY <1>1, <1>3, <1>3a, <2>1, <2>2, ReportIs
  <2> QED BY <2>1, <2>3, <2>4
<1>15. \A i \in DOMAIN pcmBack' : \/ i \in DOMAIN c /\ pcmBack'[i] = c[i]
                                  \/ p /\ pcmBack'[i] = h
  <2>1. /\ DOMAIN Append(c, h) = DOMAIN c \cup {Len(c) + 1} /\ Append(c, h)[Len(c) + 1] = h
        /\ \A i \in DOMAIN c : Append(c, h)[i] = c[i]
    BY AppendPlaces
  <2> QED BY <1>4, <2>1
<1>16. \A i \in DOMAIN pcmBack' : \/ i \in DOMAIN pcmBack /\ pcmBack'[i] = pcmBack[i]
                                  \/ pcmBack'[i].epoch = song.epoch
  BY <1>4, <1>14, <1>15 DEF S!Msg
<1>17. Begun'
  <2>1. \A i \in DOMAIN pcmBack' : 0 < pcmBack'[i].epoch /\ pcmBack'[i].epoch <= singer.epoch
    <3>1. 0 < song.epoch /\ song.epoch <= singer.epoch
      BY <1>1, <1>2, SongHas DEF Begun
    <3> QED BY <1>1, <1>16, <3>1 DEF Begun
  <2>2. \A k \in Nat : Unsung(k) => Unsung(k)'
    <3> SUFFICES ASSUME NEW k \in Nat, Unsung(k) PROVE Unsung(k)'
      OBVIOUS
    <3>1. song.epoch # k
      BY <1>1, SongHas DEF Unsung
    <3> QED BY <1>2, <1>6, <1>16, <3>1 DEF Unsung
  <2>3. \A i \in DOMAIN pcmWire : pcmWire[i].epoch \in Nat
    <3>1. \A i \in DOMAIN pcmWire : pcmWire[i] \in SongMsg
      BY <1>1, SongHas
    <3> QED BY <3>1, SongMsgHas
  <2> QED BY <1>1, <1>2, <1>6, <2>1, <2>2, <2>3 DEF Begun
<1>18. SongPaid'
  <2> SUFFICES ASSUME Alive, singer.epoch = song.epoch
               PROVE  /\ song'.pending + song'.credits <= Allowed'
                      /\ Pays(Fees(song.epoch, pcmBack'), Sent + singer.credit,
                              Allowed' - (song'.pending + song'.credits))
    BY <1>2, <1>6, <1>9 DEF SongPaid, Sent
  <2>1. ~song.stop /\ cr = 0
    BY <1>5 DEF Alive
  <2>2. PICK a \in Nat, b \in Nat, w \in Nat, n \in Nat, x \in Nat, y \in Nat :
          /\ a = Allowed /\ b = Allowed' /\ w = PcmWindow /\ x = song.pending /\ y = song.credits
          /\ n = Sent + singer.credit
    <3>1. /\ Allowed \in Nat /\ Allowed' \in Nat /\ PcmWindow \in Nat /\ Sent \in Nat
          /\ singer.credit \in Nat /\ song.pending \in Nat /\ song.credits \in Nat
      BY <1>1, <1>8, SongLengths, SongLengthsNext, SongConstants, SongHas
    <3>2. \A i, j \in Nat : i + j \in Nat
      OBVIOUS
    <3> QED BY <3>1, <3>2, Zenon
  <2>3. o + a <= (x + y) + b
    <3>1. CASE song.event = "none" /\ song.events # <<>> /\ e = "ready"
      <4>1. o = w + y /\ b = a + w
        BY <1>4, <1>11, <2>1, <2>2, <3>1
      <4> QED BY <4>1
    <3>2. CASE ~(song.event = "none" /\ song.events # <<>> /\ e = "ready")
      <4>1. o = x + y /\ a <= b
        BY <1>4, <1>11, <2>1, <2>2, <3>2
      <4> QED BY <4>1
    <3> QED BY <3>1, <3>2
  <2>4. Pays(Fees(song.epoch, c), n, a - (x + y)) /\ x + y <= a
    <3>1. x + y <= a
      BY <1>1, <2>2 DEF SongPaid
    <3>2. CASE e # "none"
      <4>1. e \in {"ready", "finished", "error"}
        BY <3>2
      <4>2. c = pcmBack \/ c = Append(pcmBack, S!Msg(e, song.epoch, 0))
        BY <1>4
      <4>3. Pays(Fees(song.epoch, c), Sent + singer.credit, Allowed - (song.pending + song.credits))
        BY <4>1, <4>2, TickTells
      <4> QED BY <2>2, <3>1, <4>3
    <3>3. CASE e = "none"
      <4>1. c = pcmBack
        BY <1>4, <3>3
      <4> QED BY <1>1, <2>2, <3>1, <4>1 DEF SongPaid
    <3> QED BY <3>2, <3>3
  <2>5. CASE p
    <3>1. pd = 0 /\ pcmBack' = Append(c, h)
      BY <1>4, <1>5, <2>5
    <3>2. Pays(Fees(song.epoch, c), Sent + singer.credit, Allowed - (song.pending + song.credits))
      BY <2>2, <2>4
    <3>3. o + Allowed <= (song.pending + song.credits) + Allowed' /\ Allowed' \in Nat
      BY <2>2, <2>3
    <3>4. h = S!Msg("credit", song.epoch, S!Smaller(o, PcmWindow))
      BY <1>4
    <3>5. Pays(Fees(song.epoch, pcmBack'), Sent + singer.credit, Allowed')
      BY <3>1, <3>2, <3>3, <3>4, TickPays
    <3>6. b - (0 + 0) = b /\ 0 + 0 <= b
      OBVIOUS
    <3> QED BY <1>6, <2>1, <2>2, <3>1, <3>5, <3>6
  <2>6. CASE ~p
    <3>1. pd = o /\ pcmBack' = c
      BY <1>4, <1>5, <2>6
    <3>2. o + 0 <= b /\ a - (x + y) <= b - (o + 0) /\ a - (x + y) \in Nat /\ b - (o + 0) \in Nat /\ n <= n
      <4>1. \A i, j, k, l \in Nat : k + i <= l + j /\ l <= i =>
               k + 0 <= j /\ i - l <= j - (k + 0) /\ i - l \in Nat /\ j - (k + 0) \in Nat
        OBVIOUS
      <4>2. x + y \in Nat /\ n <= n
        OBVIOUS
      <4> QED BY <2>3, <2>4, <4>1, <4>2
    <3>3. PICK q \in Amounts : q = Fees(song.epoch, c)
      BY FeesAre
    <3>4. Pays(q, n, b - (o + 0))
      BY <2>4, <3>2, <3>3, PaysWeaker
    <3> QED BY <1>6, <2>1, <2>2, <3>1, <3>2, <3>3, <3>4
  <2> QED BY <2>5, <2>6
<1>19. Spoken'
  <2>1. \A i \in DOMAIN pcmBack' : pcmBack'[i].kind # "credit" => pcmBack'[i].n = 0
    <3>1. h.kind = "credit" /\ S!Msg(e, song.epoch, 0).n = 0
      BY <1>4 DEF S!Msg
    <3>2. \A i \in DOMAIN c : c[i].kind # "credit" => c[i].n = 0
      BY <1>1, <1>14, <3>1 DEF Spoken, Reports
    <3> QED BY <1>15, <3>1, <3>2
  <2>2. f = e \/ f = "none"
    BY <1>4
  <2>3. Reports'
    BY <1>4, <1>6, <2>1, <2>2, TickReports
  <2>4. song.stop => LastSaid'
    <3> SUFFICES ASSUME song.stop PROVE LastSaid'
      OBVIOUS
    <3>1. LastSaid /\ pcmBack' = c
      BY <1>1, <1>4 DEF Spoken, Ended
    <3> QED BY <1>1, <1>2, <1>4, <1>6, <1>14, <3>1, StillLast
  <2>5. Ended'
    BY <1>1, <1>2, <1>6, <2>4 DEF Spoken, Ended
  <2> QED BY <2>3, <2>5 DEF Spoken
<1> QED BY <1>8, <1>12, <1>13, <1>17, <1>18, <1>19 DEF SongInv

\* The song's invariant holds at first, after every step, and implies what is asked of it.
LEMMA SongStart == S!PcmInit => SongInv
<1> SUFFICES ASSUME S!PcmInit PROVE SongInv
  OBVIOUS
<1>1. /\ song.epoch = 0 /\ song.stop = FALSE /\ song.blocks = <<>> /\ song.spool = "ended"
      /\ song.stored = <<>> /\ song.finished = FALSE /\ song.play = "ended" /\ song.ring = <<>>
      /\ song.played = <<>> /\ song.events = <<>> /\ song.event = "none" /\ song.dead = FALSE
      /\ singer.epoch = 0 /\ singer.credit = 0 /\ singer.sent = 0 /\ singer.ended = FALSE
      /\ pcmWire = <<>> /\ pcmBack = <<>>
  BY DEF S!PcmInit, S!Silent
<1>2. SongTypes
  <2>1. /\ <<>> \in Seq(Nat) /\ <<>> \in Seq({"ready", "finished", "error"})
        /\ <<>> \in Seq(SongMsg) /\ <<>> \in Seq(SingerMsg)
    OBVIOUS
  <2>2. song \in SongSet
    BY <2>1 DEF S!PcmInit, S!Silent, SongSet
  <2>3. singer \in SingerSet
    BY DEF S!PcmInit, SingerSet
  <2> QED BY <1>1, <2>1, <2>2, <2>3 DEF SongTypes
<1>3. ~Alive
  BY <1>1 DEF Alive
<1>4. Begun /\ SingerRight
  BY <1>1, SongConstants DEF Begun, SingerRight
<1>5. InRow
  BY <1>1, <1>3 DEF InRow
<1>6. SongFlow /\ SongPaid /\ SongKept
  BY <1>1, <1>3 DEF SongFlow, SongPaid, SongKept
<1>7. Spoken
  BY <1>1 DEF Spoken, Ended, Reports
<1> QED BY <1>2, <1>4, <1>5, <1>6, <1>7 DEF SongInv

LEMMA SongStays == ASSUME SongInv, UNCHANGED S!pcmVars PROVE SongInv'
<1>1. UNCHANGED <<singer, pcmWire, song, pcmBack>>
  BY DEF S!pcmVars
<1>2. SongTypes'
  BY <1>1 DEF SongInv, SongTypes
<1>3. Beside(pcmWire, pcmWire')
  BY <1>1, SongHas DEF Beside, SongInv
<1> QED BY <1>1, <1>2, <1>3, HostSpeaks

LEMMA SongStep == SongInv /\ [S!PcmNext]_S!pcmVars => SongInv'
BY HostKeeps, SenderKeeps, HostHearsKeeps, SongReceives, SongTicks, SongWorks, SongFails, SongStays
   DEF S!PcmNext

LEMMA SongMeans == SongInv => S!WindowKept /\ S!PlayedInFull /\ S!FailureTold
<1> SUFFICES ASSUME SongInv PROVE S!WindowKept /\ S!PlayedInFull /\ S!FailureTold
  OBVIOUS
<1>1. SongTypes /\ InRow /\ Spoken /\ SongKept
  BY DEF SongInv
<1>2. S!WindowKept
  BY <1>1 DEF SongKept, S!WindowKept
<1>3. S!PlayedInFull
  <2>1. ASSUME song.event = "finished" \/ "finished" \in {song.events[i] : i \in DOMAIN song.events}
        PROVE  Len(song.played) = SongBlocks
    <3>1. song.finished /\ song.ring = <<>> /\ song.stored = <<>>
      BY <1>1, <2>1 DEF Spoken, Reports
    <3>2. Spooled = SongBlocks
      BY <1>1, <3>1 DEF InRow
    <3>3. Len(song.played) \in Nat /\ Len(song.ring) = 0 /\ Len(song.stored) = 0
      BY <1>1, <3>1, SongLengths
    <3> QED BY <3>2, <3>3 DEF Spooled, Rung
  <2> QED BY <1>1, <2>1 DEF InRow, S!PlayedInFull
<1>4. S!FailureTold
  <2>1. song.events # <<>> => Len(song.events) \in DOMAIN song.events
    BY <1>1, SongHas
  <2> QED BY <1>1, <2>1 DEF Spoken, Ended, LastSaid, S!FailureTold
<1> QED BY <1>2, <1>3, <1>4
-----------------------------------------------------------------------------
(* The parts together. *)

\* A step moves one part, by a step of its own.
LEMMA EachPart == [Turn]_allVars => /\ [K!ClockNext]_K!clockVars /\ [Y!PlayNext]_Y!playVars
                                    /\ [R!RemoteNext]_R!remoteVars /\ [V!VideoNext]_V!videoVars
                                    /\ [S!PcmNext]_S!pcmVars
BY DEF Turn, allVars, dRest, eRest, yRest, kRest, rRest, sRest, vRest, gRest, dVars, eVars, yVars,
       kVars, rVars, sVars, vVars, gVars, K!clockVars, Y!playVars, R!remoteVars, V!videoVars,
       S!pcmVars

\* What is played on this machine is in time: the clock of the device that a reader gets is of one
\* period, and neither the decoders that wait for each other nor the slot that drops frames make
\* a gap in the sound or lose the newest frame.  The frames of a stream run ahead of its sound by
\* no more than the lookahead, the frame that is waited with and the next one.
THEOREM PlayedInTime == ASSUME VideoLead <= Lookahead + 2
                        PROVE  Transfers => []InTime
<1>1. Start => PlayInv /\ ClockInv
  BY PlayStart, ClockStart DEF Start
<1>2. PlayInv /\ ClockInv /\ [Turn]_allVars => PlayInv' /\ ClockInv'
  BY EachPart, PlayStep, ClockStep
<1>3. PlayInv /\ ClockInv => InTime
  BY ClockMeans DEF PlayInv, InTime
<1> QED BY <1>1, <1>2, <1>3, PTL DEF Transfers

\* A packet that was sent for a credit finds a decoder, room in its input and its permission,
\* whatever was closed and opened again in between and however the window was changed: the
\* frontend ends only behind a decoder that broke, or when it has adopted a window below the credit
\* that was out (canvas_video.rs:134-145 applies it at once).
THEOREM CanvasCreditFits == Transfers => [](part = "video" => V!CreditFits)
<1>1. Start => VideoInv
  BY VideoStart DEF Start
<1>2. VideoInv /\ [Turn]_allVars => VideoInv'
  BY EachPart, VideoStep
<1> QED BY <1>1, <1>2, VideoMeans, PTL DEF Transfers
=============================================================================
