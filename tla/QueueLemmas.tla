---------------------------- MODULE QueueLemmas ----------------------------
(***************************************************************************)
(* What queues of tasks, rings and the lists of a semaphore have in        *)
(* common: each is a sequence in which an item is named by a key, the      *)
(* request or the call it is of, and no key is there twice.                *)
(***************************************************************************)
EXTENDS Semaphore, Flattening, SequenceTheorems, FiniteSetTheorems, WellFoundedInduction, TLAPS

\* No two items of q that are in A have the same key.
Once(q, A, key) ==
  \A i, j \in 1 .. Len(q) : q[i] \in A /\ q[j] \in A /\ key[q[i]] = key[q[j]] => i = j

\* The keys of the items of q that are in A.
Keys(q, A, key) == {key[q[i]] : i \in {n \in 1 .. Len(q) : q[n] \in A}}

LEMMA OnceEmpty == ASSUME NEW A, NEW key PROVE Once(<<>>, A, key) /\ Keys(<<>>, A, key) = {}
BY EmptySeq DEF Once, Keys

\* A sequence whose items are all in a set is one over that set.
LEMMA Narrowed ==
  ASSUME NEW S, NEW T, NEW q \in Seq(S), \A i \in 1 .. Len(q) : q[i] \in T
  PROVE  q \in Seq(T)
<1>1. Len(q) \in Nat /\ q \in [1 .. Len(q) -> S]
  BY LenProperties
<1>2. q \in [1 .. Len(q) -> T]
  BY <1>1
<1> QED BY <1>1, <1>2, SeqDef

LEMMA OnceOne ==
  ASSUME NEW S, NEW e \in S, NEW A, NEW key
  PROVE  /\ <<e>> \in Seq(S) /\ Len(<<e>>) = 1
         /\ Once(<<e>>, A, key)
         /\ Keys(<<e>>, A, key) = IF e \in A THEN {key[e]} ELSE {}
<1>1. <<e>> \in Seq(S) /\ Len(<<e>>) = 1 /\ <<e>>[1] = e
  OBVIOUS
<1>2. Once(<<e>>, A, key)
  BY <1>1 DEF Once
<1> DEFINE p == <<e>>
<1> HIDE DEF p
<1>3. Len(p) = 1 /\ p[1] = e
  BY <1>1 DEF p
<1>4. Keys(p, A, key) = IF e \in A THEN {key[e]} ELSE {}
  BY <1>3 DEF Keys
<1> QED BY <1>1, <1>2, <1>4 DEF p

\* One item more, at the end.
LEMMA OnceAppend ==
  ASSUME NEW S, NEW q \in Seq(S), NEW e \in S, NEW A, NEW key,
         Once(q, A, key), e \in A => key[e] \notin Keys(q, A, key)
  PROVE  Append(q, e) \in Seq(S) /\ Once(Append(q, e), A, key)
<1> DEFINE p == Append(q, e)
           m == Len(q)
<1>1. /\ p \in Seq(S) /\ m \in Nat /\ Len(p) = m + 1
      /\ p[m + 1] = e /\ \A i \in 1 .. m : p[i] = q[i]
  BY AppendProperties, LenProperties
<1>2. \A i \in 1 .. m : q[i] \in A /\ e \in A => key[q[i]] # key[e]
  BY DEF Keys
<1> HIDE DEF p, m
<1>3. \A i \in 1 .. Len(p) : i \in 1 .. m \/ i = m + 1
  BY <1>1
<1>4. \A i, j \in 1 .. m : q[i] \in A /\ q[j] \in A /\ key[q[i]] = key[q[j]] => i = j
  BY DEF Once, m
<1>5. Once(p, A, key)
  BY <1>1, <1>2, <1>3, <1>4 DEF Once
<1> QED BY <1>1, <1>5 DEF p

\* Two sequences, one after the other: where each item comes from.
LEMMA JoinedItem ==
  ASSUME NEW S, NEW q \in Seq(S), NEW s \in Seq(S), NEW i \in 1 .. Len(q \o s)
  PROVE  \/ i \in 1 .. Len(q) /\ (q \o s)[i] = q[i]
         \/ i - Len(q) \in 1 .. Len(s) /\ (q \o s)[i] = s[i - Len(q)]
<1> DEFINE m == Len(q)
           n == Len(s)
           p == q \o s
<1>1. m \in Nat /\ n \in Nat
  BY LenProperties
<1>2. Len(p) = m + n /\ \A j \in 1 .. m + n : p[j] = IF j <= m THEN q[j] ELSE s[j - m]
  BY ConcatProperties
<1>3. i \in 1 .. m + n /\ i \in Int
  BY <1>1, <1>2
<1> HIDE DEF m, n, p
<1>4. CASE i <= m
  BY <1>1, <1>2, <1>3, <1>4 DEF m, p
<1>5. CASE ~(i <= m)
  <2>1. i - m \in 1 .. n
    BY <1>1, <1>3, <1>5
  <2> QED BY <1>2, <1>3, <1>5, <2>1 DEF m, n, p
<1> QED BY <1>4, <1>5

\* Two sequences with no key in common.
LEMMA OnceConcat ==
  ASSUME NEW S, NEW q \in Seq(S), NEW s \in Seq(S), NEW A, NEW key,
         Once(q, A, key), Once(s, A, key),
         Keys(q, A, key) \cap Keys(s, A, key) = {}
  PROVE  q \o s \in Seq(S) /\ Once(q \o s, A, key)
<1> DEFINE p == q \o s
           m == Len(q)
           n == Len(s)
<1>1. m \in Nat /\ n \in Nat /\ p \in Seq(S) /\ Len(p) \in Nat
  BY LenProperties, ConcatProperties
<1>2. \A i \in 1 .. Len(p) : (i \in 1 .. m /\ p[i] = q[i]) \/ (i - m \in 1 .. n /\ p[i] = s[i - m])
  BY JoinedItem
<1>3. \A i \in 1 .. m, j \in 1 .. n : ~(q[i] \in A /\ s[j] \in A /\ key[q[i]] = key[s[j]])
  BY DEF Keys
<1>4. /\ \A i, j \in 1 .. m : q[i] \in A /\ q[j] \in A /\ key[q[i]] = key[q[j]] => i = j
      /\ \A i, j \in 1 .. n : s[i] \in A /\ s[j] \in A /\ key[s[i]] = key[s[j]] => i = j
  BY DEF Once
<1> HIDE DEF p, m, n
<1>5. ASSUME NEW i \in 1 .. Len(p), NEW j \in 1 .. Len(p),
             p[i] \in A, p[j] \in A, key[p[i]] = key[p[j]]
      PROVE  i = j
  <2>1. i \in Int /\ j \in Int
    BY <1>1
  <2>2. CASE i \in 1 .. m /\ p[i] = q[i]
    <3>1. j \in 1 .. m /\ p[j] = q[j]
      BY <1>2, <1>3, <1>5, <2>2
    <3> QED BY <1>4, <1>5, <2>2, <3>1
  <2>3. CASE i - m \in 1 .. n /\ p[i] = s[i - m]
    <3>1. j - m \in 1 .. n /\ p[j] = s[j - m]
      BY <1>2, <1>3, <1>5, <2>3
    <3>2. i - m = j - m
      BY <1>4, <1>5, <2>3, <3>1
    <3> QED BY <1>1, <2>1, <3>2
  <2> QED BY <1>2, <2>2, <2>3
<1>6. Once(p, A, key)
  BY <1>5 DEF Once
<1> QED BY <1>1, <1>6 DEF p

LEMMA KeysConcat ==
  ASSUME NEW S, NEW q \in Seq(S), NEW s \in Seq(S), NEW A, NEW key
  PROVE  Keys(q \o s, A, key) \subseteq Keys(q, A, key) \cup Keys(s, A, key)
<1> DEFINE p == q \o s
<1>1. \A i \in 1 .. Len(p) :
        (i \in 1 .. Len(q) /\ p[i] = q[i]) \/ (i - Len(q) \in 1 .. Len(s) /\ p[i] = s[i - Len(q)])
  BY JoinedItem
<1> HIDE DEF p
<1>2. Keys(p, A, key) \subseteq Keys(q, A, key) \cup Keys(s, A, key)
  BY <1>1 DEF Keys
<1> QED BY <1>2 DEF p

\* The head is taken out: its key is gone with it.
LEMMA OnceTail ==
  ASSUME NEW S, NEW q \in Seq(S), q # <<>>, NEW A, NEW key, Once(q, A, key)
  PROVE  /\ Head(q) \in S /\ Tail(q) \in Seq(S) /\ Once(Tail(q), A, key)
         /\ Head(q) \in A => key[Head(q)] \notin Keys(Tail(q), A, key)
         /\ Keys(Tail(q), A, key) \subseteq Keys(q, A, key)
         /\ \A i \in 1 .. Len(Tail(q)) : i + 1 \in 1 .. Len(q) /\ Tail(q)[i] = q[i + 1]
<1> DEFINE t == Tail(q)
<1>1. /\ Head(q) \in S /\ Head(q) = q[1] /\ t \in Seq(S) /\ Len(q) \in Nat \ {0}
      /\ Len(t) = Len(q) - 1 /\ \A i \in 1 .. Len(t) : t[i] = q[i + 1]
  BY HeadTailProperties, EmptySeq
<1> HIDE DEF t
<1>2. \A i \in 1 .. Len(t) : i + 1 \in 1 .. Len(q) /\ t[i] = q[i + 1] /\ i + 1 # 1 /\ i \in Int
  BY <1>1
<1>3. \A i, j \in 1 .. Len(q) : q[i] \in A /\ q[j] \in A /\ key[q[i]] = key[q[j]] => i = j
  BY DEF Once
<1>4. ASSUME NEW i \in 1 .. Len(t), NEW j \in 1 .. Len(t),
             t[i] \in A, t[j] \in A, key[t[i]] = key[t[j]]
      PROVE  i = j
  <2>1. i + 1 = j + 1 /\ i \in Int /\ j \in Int
    BY <1>2, <1>3, <1>4
  <2> QED BY <2>1
<1>5. ASSUME Head(q) \in A, NEW i \in 1 .. Len(t), t[i] \in A PROVE key[t[i]] # key[Head(q)]
  <2>1. 1 \in 1 .. Len(q)
    BY <1>1
  <2> QED BY <1>1, <1>2, <1>3, <1>5, <2>1
<1>6. Once(t, A, key)
  BY <1>4 DEF Once
<1>7. Head(q) \in A => key[Head(q)] \notin Keys(t, A, key)
  BY <1>5 DEF Keys
<1>8. Keys(t, A, key) \subseteq Keys(q, A, key)
  BY <1>2 DEF Keys
<1> QED BY <1>1, <1>2, <1>6, <1>7, <1>8 DEF t

\* As many keys as items.
LEMMA OnceCounts ==
  ASSUME NEW S, NEW q \in Seq(S), NEW key, Once(q, S, key)
  PROVE  /\ IsFiniteSet(Keys(q, S, key)) /\ Cardinality(Keys(q, S, key)) = Len(q)
         /\ Keys(q, S, key) = {key[q[i]] : i \in 1 .. Len(q)}
<1> DEFINE n == Len(q)
           r == {key[q[i]] : i \in 1 .. n}
           f == [i \in 1 .. n |-> key[q[i]]]
<1>1. n \in Nat /\ \A i \in 1 .. n : q[i] \in S
  BY LenProperties
<1>2. Keys(q, S, key) = r
  BY <1>1 DEF Keys
<1>3. ExistsBijection(1 .. n, r)
  <2>1. f \in [1 .. n -> r]
    OBVIOUS
  <2>2. \A i, j \in 1 .. n : f[i] = f[j] => i = j
    BY <1>1 DEF Once
  <2>3. \A x \in r : \E i \in 1 .. n : f[i] = x
    OBVIOUS
  <2> HIDE DEF f, r
  <2>4. f \in Injection(1 .. n, r) /\ f \in Surjection(1 .. n, r)
    BY <2>1, <2>2, <2>3 DEF Injection, Surjection, IsInjective
  <2> QED BY <2>4 DEF ExistsBijection, Bijection
<1>4. IsFiniteSet(1 .. n) /\ Cardinality(1 .. n) = n
  <2>1. IsFiniteSet(1 .. n) /\ Cardinality(1 .. n) = IF 1 > n THEN 0 ELSE n - 1 + 1
    BY <1>1, FS_Interval
  <2> HIDE DEF n
  <2> QED BY <1>1, <2>1
<1>5. IsFiniteSet(r) /\ Cardinality(r) = n
  BY <1>3, <1>4, FS_Bijection
<1> QED BY <1>2, <1>5

-----------------------------------------------------------------------------
(* Semaphores whose clients each ask for one token.                        *)

Clients(W) == [tokens : {1}, who : W]

WhoOf(W) == [c \in Clients(W) |-> c.who]

\* wait(): the client takes a token or goes to the end of the list.
LEMMA WaitProperties ==
  ASSUME NEW W, NEW sem \in [tokens : Nat, waiting : Seq(Clients(W))], NEW k \in W
  PROVE  /\ AfterWait(sem, 1, k) \in [tokens : Nat, waiting : Seq(Clients(W))]
         /\ Admits(sem, 1) =>
              /\ AfterWait(sem, 1, k).tokens = sem.tokens - 1 /\ AfterWait(sem, 1, k).tokens # 0
              /\ AfterWait(sem, 1, k).waiting = sem.waiting
         /\ ~Admits(sem, 1) =>
              /\ AfterWait(sem, 1, k).tokens = sem.tokens
              /\ AfterWait(sem, 1, k).waiting = Append(sem.waiting, [tokens |-> 1, who |-> k])
<1>1. [tokens |-> 1, who |-> k] \in Clients(W)
  BY DEF Clients
<1>2. Append(sem.waiting, [tokens |-> 1, who |-> k]) \in Seq(Clients(W))
  BY <1>1, AppendProperties
<1>3. Admits(sem, 1) => sem.tokens - 1 \in Nat /\ sem.tokens - 1 # 0
  BY DEF Admits
<1> QED BY <1>2, <1>3 DEF AfterWait

\* release(): the client at the head is let in if there is a token for it.
LEMMA ReleaseProperties ==
  ASSUME NEW W, NEW sem \in [tokens : Nat, waiting : Seq(Clients(W))], NEW n \in Nat
  PROVE  /\ AfterRelease(sem, n) \in [tokens : Nat, waiting : Seq(Clients(W))]
         /\ Grants(sem, n) <=> sem.waiting # <<>> /\ 1 <= sem.tokens + n
         /\ Grants(sem, n) =>
              /\ AfterRelease(sem, n).tokens = sem.tokens + n - 1
              /\ AfterRelease(sem, n).waiting = Tail(sem.waiting)
              /\ AfterRelease(sem, n).waiting # sem.waiting
              /\ Head(sem.waiting).who \in W
         /\ ~Grants(sem, n) =>
              /\ AfterRelease(sem, n).tokens = sem.tokens + n
              /\ AfterRelease(sem, n).waiting = sem.waiting
<1>1. sem.waiting # <<>> => /\ Head(sem.waiting).who \in W /\ Head(sem.waiting).tokens = 1
                            /\ Tail(sem.waiting) \in Seq(Clients(W))
                            /\ Tail(sem.waiting) # sem.waiting
  <2>1. sem.waiting # <<>> => /\ Head(sem.waiting) \in Clients(W)
                              /\ Tail(sem.waiting) \in Seq(Clients(W))
                              /\ Len(Tail(sem.waiting)) = Len(sem.waiting) - 1
                              /\ Len(sem.waiting) \in Nat
    BY HeadTailProperties, LenProperties
  <2>2. sem.waiting # <<>> => Len(Tail(sem.waiting)) # Len(sem.waiting)
    BY <2>1
  <2> QED BY <2>1, <2>2 DEF Clients
<1>2. Grants(sem, n) <=> sem.waiting # <<>> /\ 1 <= sem.tokens + n
  BY <1>1 DEF Grants
<1>3. CASE Grants(sem, n)
  <2>1. sem.tokens + n - 1 \in Nat
    BY <1>2, <1>3
  <2> QED BY <1>1, <1>2, <1>3, <2>1 DEF AfterRelease
<1>4. CASE ~Grants(sem, n)
  <2>1. sem.tokens + n \in Nat
    OBVIOUS
  <2> QED BY <1>1, <1>2, <1>4, <2>1 DEF AfterRelease
<1> QED BY <1>3, <1>4

-----------------------------------------------------------------------------
(* The order of a queue: R holds the pairs of items of which the second     *)
(* must not come after the first.                                           *)

Items(q) == {q[i] : i \in 1 .. Len(q)}

Apart(A, B, R) == \A a \in A, b \in B : <<a, b>> \notin R

Ordered(q, R) == \A i, j \in 1 .. Len(q) : i < j => <<q[i], q[j]>> \notin R

LEMMA ItemsEmpty == ASSUME NEW R PROVE Items(<<>>) = {} /\ Ordered(<<>>, R)
BY EmptySeq DEF Items, Ordered

LEMMA ItemsType ==
  ASSUME NEW S, NEW q \in Seq(S)
  PROVE  /\ Items(q) \subseteq S /\ q \in Seq(Items(q))
         /\ Items(q) = {q[i] : i \in DOMAIN q}
<1>1. Items(q) \subseteq S /\ Items(q) = {q[i] : i \in DOMAIN q}
  BY LenProperties DEF Items
<1>2. \A i \in 1 .. Len(q) : q[i] \in Items(q)
  BY DEF Items
<1> QED BY <1>1, <1>2, Narrowed

LEMMA KeysOfItems ==
  ASSUME NEW q, NEW A, NEW key
  PROVE  Keys(q, A, key) = {key[x] : x \in Items(q) \cap A}
BY DEF Keys, Items

LEMMA OrderedAppend ==
  ASSUME NEW S, NEW q \in Seq(S), NEW e \in S, NEW R
  PROVE  /\ Items(Append(q, e)) = Items(q) \cup {e}
         /\ Ordered(q, R) /\ Apart(Items(q), {e}, R) => Ordered(Append(q, e), R)
<1> DEFINE p == Append(q, e)
           m == Len(q)
<1>1. m \in Nat /\ Len(p) = m + 1 /\ p[m + 1] = e /\ \A i \in 1 .. m : p[i] = q[i]
  BY AppendProperties, LenProperties
<1> HIDE DEF p, m
<1>2. \A i \in 1 .. Len(p) : i \in 1 .. m \/ i = m + 1
  BY <1>1
<1>3. 1 .. m \subseteq 1 .. Len(p) /\ m + 1 \in 1 .. Len(p)
  BY <1>1
<1>4. Items(q) = {q[i] : i \in 1 .. m}
  BY DEF Items, m
<1>5. Items(p) = Items(q) \cup {e}
  BY <1>1, <1>2, <1>3, <1>4 DEF Items
<1>6. ASSUME Ordered(q, R), Apart(Items(q), {e}, R) PROVE Ordered(p, R)
  <2>1. ASSUME NEW i \in 1 .. Len(p), NEW j \in 1 .. Len(p), i < j PROVE <<p[i], p[j]>> \notin R
    <3>1. i \in 1 .. m /\ i \in Int /\ j \in Int
      BY <1>1, <1>2, <2>1
    <3>2. CASE j \in 1 .. m
      <4>1. <<q[i], q[j]>> \notin R
        BY <1>6, <2>1, <3>1, <3>2 DEF Ordered, m
      <4> QED BY <1>1, <3>1, <3>2, <4>1
    <3>3. CASE j = m + 1
      <4>1. <<q[i], e>> \notin R
        BY <1>4, <1>6, <3>1 DEF Apart
      <4> QED BY <1>1, <3>1, <3>3, <4>1
    <3> QED BY <1>2, <3>2, <3>3
  <2> QED BY <2>1 DEF Ordered
<1> QED BY <1>5, <1>6 DEF p

LEMMA ItemsAppend ==
  ASSUME NEW S, NEW q \in Seq(S), NEW e \in S
  PROVE  Append(q, e) \in Seq(S) /\ Items(Append(q, e)) = Items(q) \cup {e}
<1>1. PICK R : R = {}
  OBVIOUS
<1>2. /\ Items(Append(q, e)) = Items(q) \cup {e}
      /\ Ordered(q, R) /\ Apart(Items(q), {e}, R) => Ordered(Append(q, e), R)
  BY OrderedAppend
<1>3. Append(q, e) \in Seq(S)
  BY AppendProperties
<1> QED BY <1>2, <1>3

LEMMA OrderedOne ==
  ASSUME NEW e, NEW R
  PROVE  Items(<<e>>) = {e} /\ Ordered(<<e>>, R)
<1>1. Len(<<e>>) = 1 /\ <<e>>[1] = e
  OBVIOUS
<1>2. \A i \in 1 .. 1 : i = 1
  OBVIOUS
<1> QED BY <1>1, <1>2 DEF Items, Ordered

LEMMA OrderedConcat ==
  ASSUME NEW S, NEW q \in Seq(S), NEW s \in Seq(S), NEW R
  PROVE  /\ Items(q \o s) = Items(q) \cup Items(s)
         /\ Ordered(q, R) /\ Ordered(s, R) /\ Apart(Items(q), Items(s), R) => Ordered(q \o s, R)
<1> DEFINE p == q \o s
           m == Len(q)
           n == Len(s)
<1>1. /\ m \in Nat /\ n \in Nat /\ Len(p) = m + n
      /\ \A i \in 1 .. m + n : p[i] = IF i <= m THEN q[i] ELSE s[i - m]
  BY ConcatProperties, LenProperties
<1>2. \A i \in 1 .. Len(p) : (i \in 1 .. m /\ p[i] = q[i]) \/ (i - m \in 1 .. n /\ p[i] = s[i - m])
  BY JoinedItem
<1> HIDE DEF p, m, n
<1>3. Items(q) = {q[i] : i \in 1 .. m} /\ Items(s) = {s[i] : i \in 1 .. n}
  BY DEF Items, m, n
<1>4. \A i \in 1 .. m : i \in 1 .. Len(p) /\ p[i] = q[i]
  BY <1>1
<1>5. \A i \in 1 .. n : i + m \in 1 .. Len(p) /\ p[i + m] = s[i]
  <2> SUFFICES ASSUME NEW i \in 1 .. n PROVE i + m \in 1 .. Len(p) /\ p[i + m] = s[i]
    OBVIOUS
  <2>1. i + m \in 1 .. m + n /\ ~(i + m <= m) /\ i + m - m = i
    BY <1>1
  <2> QED BY <1>1, <2>1
<1>6. Items(p) = Items(q) \cup Items(s)
  <2>1. Items(p) \subseteq Items(q) \cup Items(s)
    BY <1>2, <1>3 DEF Items
  <2>2. Items(q) \subseteq Items(p)
    BY <1>3, <1>4 DEF Items
  <2>3. ASSUME NEW i \in 1 .. n PROVE s[i] \in Items(p)
    <3>1. i + m \in 1 .. Len(p) /\ p[i + m] = s[i]
      BY <1>5
    <3> QED BY <3>1 DEF Items
  <2> QED BY <1>3, <2>1, <2>2, <2>3
<1>7. ASSUME Ordered(q, R), Ordered(s, R), Apart(Items(q), Items(s), R) PROVE Ordered(p, R)
  <2>1. ASSUME NEW i \in 1 .. Len(p), NEW j \in 1 .. Len(p), i < j PROVE <<p[i], p[j]>> \notin R
    <3>0. i \in Int /\ j \in Int
      BY <1>1
    <3>1. CASE i \in 1 .. m /\ p[i] = q[i] /\ j \in 1 .. m /\ p[j] = q[j]
      BY <1>7, <2>1, <3>1 DEF Ordered, m
    <3>2. CASE i \in 1 .. m /\ p[i] = q[i] /\ j - m \in 1 .. n /\ p[j] = s[j - m]
      BY <1>3, <1>7, <3>2 DEF Apart
    <3>3. CASE i - m \in 1 .. n /\ p[i] = s[i - m] /\ j - m \in 1 .. n /\ p[j] = s[j - m]
      <4>1. i - m < j - m
        BY <1>1, <2>1, <3>0
      <4> QED BY <1>7, <3>3, <4>1 DEF Ordered, n
    <3>4. ~(i - m \in 1 .. n /\ j \in 1 .. m)
      BY <1>1, <2>1, <3>0
    <3> QED BY <1>2, <3>1, <3>2, <3>3, <3>4
  <2> QED BY <2>1 DEF Ordered
<1> QED BY <1>6, <1>7 DEF p

LEMMA OrderedParts ==
  ASSUME NEW S, NEW q \in Seq(S), NEW s \in Seq(S), NEW R, Ordered(q \o s, R)
  PROVE  Ordered(q, R) /\ Ordered(s, R) /\ Apart(Items(q), Items(s), R)
<1> DEFINE p == q \o s
           m == Len(q)
           n == Len(s)
<1>1. /\ m \in Nat /\ n \in Nat /\ Len(p) = m + n
      /\ \A i \in 1 .. m + n : p[i] = IF i <= m THEN q[i] ELSE s[i - m]
  BY ConcatProperties, LenProperties
<1>2. \A i, j \in 1 .. Len(p) : i < j => <<p[i], p[j]>> \notin R
  BY DEF Ordered
<1> HIDE DEF p, m, n
<1>3. \A i \in 1 .. m : i \in 1 .. Len(p) /\ p[i] = q[i]
  BY <1>1
<1>4. \A i \in 1 .. n : i + m \in 1 .. Len(p) /\ p[i + m] = s[i]
  <2> SUFFICES ASSUME NEW i \in 1 .. n PROVE i + m \in 1 .. Len(p) /\ p[i + m] = s[i]
    OBVIOUS
  <2>1. i + m \in 1 .. m + n /\ ~(i + m <= m) /\ i + m - m = i
    BY <1>1
  <2> QED BY <1>1, <2>1
<1>5. Ordered(q, R)
  BY <1>2, <1>3 DEF Ordered, m
<1>6. ASSUME NEW i \in 1 .. n, NEW j \in 1 .. n, i < j PROVE <<s[i], s[j]>> \notin R
  <2>1. i + m < j + m
    BY <1>1, <1>6
  <2> QED BY <1>2, <1>4, <2>1
<1>7. ASSUME NEW i \in 1 .. m, NEW j \in 1 .. n PROVE <<q[i], s[j]>> \notin R
  <2>1. i < j + m
    BY <1>1
  <2> QED BY <1>2, <1>3, <1>4, <2>1
<1> QED BY <1>5, <1>6, <1>7 DEF Ordered, Apart, Items, m, n

\* The form in which the law is cited where terms are long.
Regroups(a, b, c) == (a \o b) \o c = a \o (b \o c)

LEMMA ConcatRegroups ==
  ASSUME NEW S, NEW a \in Seq(S), NEW b \in Seq(S), NEW c \in Seq(S)
  PROVE  Regroups(a, b, c)
BY ConcatAssociative DEF Regroups

LEMMA Associates == \A S : \A a, b, c \in Seq(S) : a \o b \in Seq(S) /\ (a \o b) \o c = a \o (b \o c)
BY ConcatAssociative, ConcatProperties

\* An item put between two parts of a queue that comes behind another one: w, p and
\* z are what comes up to each part, and y is all that was there.
Between(w, p, z, y, g, u, e, v) ==
  /\ w = g \o u /\ p = w \o e /\ z = p \o v /\ y = w \o v
  /\ z = g \o (u \o e \o v) /\ y = g \o (u \o v)

LEMMA PutBetween ==
  ASSUME NEW C, \A a, b, c \in C : a \o b \in C /\ (a \o b) \o c = a \o (b \o c)
  PROVE  \A g, u, e, v \in C : \E w, p, z, y \in C : Between(w, p, z, y, g, u, e, v)
<1> SUFFICES ASSUME NEW g \in C, NEW u \in C, NEW e \in C, NEW v \in C
             PROVE  \E w, p, z, y \in C : Between(w, p, z, y, g, u, e, v)
  OBVIOUS
<1>1. g \o u \in C /\ u \o e \in C
  OBVIOUS
<1>2. (g \o u) \o e \in C /\ (u \o e) \o v \in C /\ (g \o u) \o v \in C
  BY <1>1
<1>3. ((g \o u) \o e) \o v \in C
  BY <1>2
<1>4. (g \o u) \o e = g \o (u \o e) /\ (g \o (u \o e)) \o v = g \o ((u \o e) \o v)
  BY <1>1
<1>5. (g \o u) \o v = g \o (u \o v)
  OBVIOUS
<1>6. Between(g \o u, (g \o u) \o e, ((g \o u) \o e) \o v, (g \o u) \o v, g, u, e, v)
  BY <1>4, <1>5 DEF Between
<1> QED BY <1>1, <1>2, <1>3, <1>6

\* Relations that agree on the items of a queue order it alike.
LEMMA OrderedAlike ==
  ASSUME NEW q, NEW R, NEW Q, Ordered(q, R),
         \A x, y \in Items(q) : <<x, y>> \in Q => <<x, y>> \in R
  PROVE  Ordered(q, Q)
BY DEF Ordered, Items

LEMMA OrderedTail ==
  ASSUME NEW S, NEW q \in Seq(S), q # <<>>, NEW R
  PROVE  /\ Tail(q) \in Seq(S) /\ Head(q) \in S
         /\ Items(q) = {Head(q)} \cup Items(Tail(q))
         /\ Ordered(q, R) => Ordered(Tail(q), R) /\ Apart({Head(q)}, Items(Tail(q)), R)
<1> DEFINE t == Tail(q)
           h == Head(q)
<1>1. /\ h \in S /\ h = q[1] /\ t \in Seq(S) /\ Len(q) \in Nat \ {0}
      /\ Len(t) = Len(q) - 1 /\ \A i \in 1 .. Len(t) : t[i] = q[i + 1]
  BY HeadTailProperties, EmptySeq
<1> HIDE DEF t, h
<1>2. \A i \in 1 .. Len(t) : i + 1 \in 1 .. Len(q) /\ t[i] = q[i + 1] /\ i \in Int
  BY <1>1
<1>3. \A i \in 1 .. Len(q) : q[i] = h \/ (i - 1 \in 1 .. Len(t) /\ t[i - 1] = q[i])
  <2> SUFFICES ASSUME NEW i \in 1 .. Len(q), i # 1 PROVE i - 1 \in 1 .. Len(t) /\ t[i - 1] = q[i]
    BY <1>1
  <2>1. i - 1 \in 1 .. Len(t) /\ i - 1 + 1 = i
    BY <1>1
  <2> QED BY <1>1, <2>1
<1>4. 1 \in 1 .. Len(q)
  BY <1>1
<1>5. Items(q) = {h} \cup Items(t)
  <2>1. Items(q) \subseteq {h} \cup Items(t)
    BY <1>3 DEF Items
  <2>2. h \in Items(q) /\ Items(t) \subseteq Items(q)
    BY <1>1, <1>2, <1>4 DEF Items
  <2> QED BY <2>1, <2>2
<1>6. ASSUME Ordered(q, R) PROVE Ordered(t, R)
  <2>1. ASSUME NEW i \in 1 .. Len(t), NEW j \in 1 .. Len(t), i < j PROVE <<t[i], t[j]>> \notin R
    <3>1. i + 1 < j + 1
      BY <1>2, <2>1
    <3> QED BY <1>2, <1>6, <3>1 DEF Ordered
  <2> QED BY <2>1 DEF Ordered
<1>7. ASSUME Ordered(q, R) PROVE Apart({h}, Items(t), R)
  <2>1. ASSUME NEW i \in 1 .. Len(t) PROVE <<h, t[i]>> \notin R
    <3>1. 1 < i + 1
      BY <1>2
    <3> QED BY <1>1, <1>2, <1>4, <1>7, <3>1 DEF Ordered
  <2> QED BY <2>1 DEF Apart, Items
<1> QED BY <1>1, <1>5, <1>6, <1>7 DEF t, h

-----------------------------------------------------------------------------
(* Sequences taken apart.                                                  *)

LEMMA HeadThenTail ==
  ASSUME NEW S, NEW q \in Seq(S), q # <<>>
  PROVE  Head(q) \in S /\ Tail(q) \in Seq(S) /\ q = <<Head(q)>> \o Tail(q)
<1>1. Len(q) \in Nat /\ Len(q) # 0
  BY LenProperties, EmptySeq
<1>2. 1 \in 1 .. Len(q) /\ Len(q) \in 1 .. Len(q) /\ 1 + 1 = 2
  BY <1>1
<1>3. SubSeq(q, 1, Len(q)) = <<q[1]>> \o SubSeq(q, 2, Len(q))
  BY <1>2, SubSeqRecursiveFirst
<1>4. SubSeq(q, 1, Len(q)) = q /\ Tail(q) = SubSeq(q, 2, Len(q)) /\ Head(q) = q[1]
  BY SubSeqFull, TailIsSubSeq
<1>5. Head(q) \in S /\ Tail(q) \in Seq(S)
  BY HeadTailProperties
<1> QED BY <1>3, <1>4, <1>5

LEMMA FrontTaken ==
  ASSUME NEW S, NEW x \in S, NEW q \in Seq(S)
  PROVE  /\ <<x>> \o q \in Seq(S) /\ <<x>> \o q # <<>>
         /\ Head(<<x>> \o q) = x /\ Tail(<<x>> \o q) = q
<1>1. PICK o \in Seq(S) : o = <<x>> /\ Len(o) = 1 /\ o[1] = x
  <2>1. <<x>> \in Seq(S) /\ Len(<<x>>) = 1 /\ <<x>>[1] = x
    OBVIOUS
  <2> QED BY <2>1
<1>0. Len(q) \in Nat
  BY LenProperties
<1>2. PICK p \in Seq(S) : /\ p = <<x>> \o q /\ Len(p) = 1 + Len(q)
                          /\ \A i \in 1 .. 1 + Len(q) : p[i] = IF i <= 1 THEN o[i] ELSE q[i - 1]
  <2>1. /\ o \o q \in Seq(S) /\ Len(o \o q) = Len(o) + Len(q)
        /\ \A i \in 1 .. Len(o) + Len(q) : (o \o q)[i] = IF i <= Len(o) THEN o[i] ELSE q[i - Len(o)]
    BY ConcatProperties
  <2> QED BY <1>1, <2>1
<1>3. p # <<>>
  BY <1>0, <1>2, EmptySeq
<1>4. /\ Head(p) = p[1] /\ Tail(p) \in Seq(S) /\ Len(Tail(p)) = Len(p) - 1
      /\ \A i \in 1 .. Len(Tail(p)) : Tail(p)[i] = p[i + 1]
  BY <1>3, HeadTailProperties
<1>5. Head(p) = x
  BY <1>0, <1>1, <1>2, <1>4
<1>6. Tail(p) = q
  <2>1. Len(Tail(p)) = Len(q)
    BY <1>0, <1>2, <1>4
  <2>2. ASSUME NEW i \in 1 .. Len(q) PROVE Tail(p)[i] = q[i]
    <3>1. i + 1 \in 1 .. 1 + Len(q) /\ ~(i + 1 <= 1) /\ (i + 1) - 1 = i
      BY <1>0
    <3>2. p[i + 1] = q[i]
      BY <1>2, <3>1
    <3> QED BY <1>4, <2>1, <3>2
  <2> QED BY <1>4, <2>1, <2>2, SeqEqual
<1> QED BY <1>2, <1>3, <1>5, <1>6

LEMMA SameSubSeq ==
  ASSUME NEW S, NEW p, NEW q, NEW m \in Int, NEW n \in Int,
         \A i \in m .. n : p[i] \in S /\ q[i] \in S /\ p[i] = q[i]
  PROVE  SubSeq(p, m, n) = SubSeq(q, m, n)
<1>1. PICK u, v : u = SubSeq(p, m, n) /\ v = SubSeq(q, m, n)
  OBVIOUS
<1>2. /\ u \in Seq(S) /\ Len(u) = IF m <= n THEN n - m + 1 ELSE 0
      /\ \A i \in 1 .. n - m + 1 : u[i] = p[m + i - 1]
  BY <1>1, SubSeqProperties
<1>3. /\ v \in Seq(S) /\ Len(v) = IF m <= n THEN n - m + 1 ELSE 0
      /\ \A i \in 1 .. n - m + 1 : v[i] = q[m + i - 1]
  BY <1>1, SubSeqProperties
<1>4. ASSUME NEW i \in 1 .. Len(u) PROVE u[i] = v[i]
  <2>1. i \in 1 .. n - m + 1 /\ m + i - 1 \in m .. n
    BY <1>2
  <2> QED BY <1>2, <1>3, <2>1
<1> QED BY <1>1, <1>2, <1>3, <1>4, SeqEqual

\* q is u and v, cut where they meet.
Cut(q, u, v) ==
  /\ Len(q) = Len(u) + Len(v) /\ Len(u) \in Nat /\ Len(v) \in Nat
  /\ SubSeq(q, 1, Len(u)) = u /\ SubSeq(q, Len(u) + 1, Len(q)) = v
  /\ \A i \in 1 .. Len(q) : q[i] \in IF i <= Len(u) THEN Items(u) ELSE Items(v)

LEMMA CutApart ==
  ASSUME NEW S, NEW u \in Seq(S), NEW v \in Seq(S), NEW q, q = u \o v
  PROVE  Cut(q, u, v)
<1>1. /\ Len(u) \in Nat /\ Len(v) \in Nat /\ q \in Seq(S) /\ Len(q) = Len(u) + Len(v)
      /\ \A i \in 1 .. Len(u) + Len(v) : q[i] = IF i <= Len(u) THEN u[i] ELSE v[i - Len(u)]
  BY ConcatProperties, LenProperties
<1> DEFINE m == Len(u)
           n == Len(v)
<1>2. PICK l : l = m + n /\ Len(q) = l
  BY <1>1
<1> HIDE DEF m, n
<1>3. m \in Nat /\ n \in Nat /\ l = m + n /\ l \in Nat
  BY <1>1, <1>2 DEF m, n
<1>4. \A i \in 1 .. l : q[i] \in S /\ q[i] = IF i <= m THEN u[i] ELSE v[i - m]
  BY <1>1, <1>2 DEF m, n
<1>5. SubSeq(q, 1, m) = u
  <2>1. \A i \in 1 .. m : i \in 1 .. l
    BY <1>3
  <2>2. \A i \in 1 .. m : u[i] \in S /\ i <= m
    BY <1>3 DEF m
  <2>3. PICK lo \in Int, hi \in Int :
          lo = 1 /\ hi = m /\ hi - lo + 1 = m /\ (lo <= hi \/ m = 0) /\ \A i \in 1 .. m : lo + i - 1 = i
    BY <1>3
  <2>4. \A i \in lo .. hi : q[i] \in S
    BY <1>4, <2>1, <2>3
  <2>5. PICK w : w = SubSeq(q, lo, hi)
    OBVIOUS
  <2>6. /\ w \in Seq(S) /\ Len(w) = IF lo <= hi THEN hi - lo + 1 ELSE 0
        /\ \A i \in 1 .. hi - lo + 1 : w[i] = q[lo + i - 1]
    BY ONLY <2>4, <2>5, SubSeqProperties
  <2>7. Len(w) = m /\ \A i \in 1 .. m : w[i] = u[i]
    BY <1>3, <1>4, <2>1, <2>2, <2>3, <2>6
  <2>8. w = u
    BY <2>6, <2>7, SeqEqual DEF m
  <2> QED BY <2>3, <2>5, <2>8
<1>6. SubSeq(q, m + 1, l) = v
  <2> DEFINE lo == m + 1
  <2>1. lo \in Int /\ l \in Int /\ l - lo + 1 = n /\ (lo <= l \/ n = 0)
    BY <1>3
  <2>2. \A i \in lo .. l : i \in 1 .. l
    BY <1>3
  <2>3. \A i \in lo .. l : q[i] \in S
    BY <1>4, <2>2
  <2>4. \A i \in 1 .. n : lo + i - 1 \in 1 .. l /\ ~(lo + i - 1 <= m) /\ (lo + i - 1) - m = i
    BY <1>3
  <2> HIDE DEF lo
  <2>5. PICK w : w = SubSeq(q, lo, l)
    OBVIOUS
  <2>6. /\ w \in Seq(S) /\ Len(w) = IF lo <= l THEN l - lo + 1 ELSE 0
        /\ \A i \in 1 .. l - lo + 1 : w[i] = q[lo + i - 1]
    BY ONLY <2>1, <2>3, <2>5, SubSeqProperties
  <2>7. Len(w) = n /\ \A i \in 1 .. n : w[i] = v[i]
    BY <1>3, <1>4, <2>1, <2>4, <2>6
  <2>8. w = v
    BY <2>6, <2>7, SeqEqual DEF n
  <2> QED BY <2>5, <2>8 DEF lo
<1>7. ASSUME NEW i \in 1 .. l PROVE q[i] \in IF i <= m THEN Items(u) ELSE Items(v)
  <2>1. CASE i <= m
    <3>1. i \in 1 .. m
      BY <1>3, <2>1
    <3> QED BY <1>4, <2>1, <3>1 DEF Items, m
  <2>2. CASE ~(i <= m)
    <3>1. i - m \in 1 .. n
      BY <1>3, <2>2
    <3>2. v[i - m] \in Items(v)
      BY <3>1 DEF Items, n
    <3> QED BY <1>4, <2>2, <3>2
  <2> QED BY <2>1, <2>2
<1> QED BY <1>1, <1>2, <1>5, <1>6, <1>7 DEF m, n, Cut

\* An item taken out of the middle leaves what is before it and what is after it.
WithoutItem(q, x, r) ==
  \E i \in 1 .. Len(q) : q[i] = x /\ r = SubSeq(q, 1, i - 1) \o SubSeq(q, i + 1, Len(q))

LEMMA ItemsWithout ==
  ASSUME NEW S, NEW q \in Seq(S), NEW x, NEW r, WithoutItem(q, x, r)
  PROVE  \A y \in Items(q) : y # x => y \in Items(r)
<1>1. PICK i \in 1 .. Len(q) : q[i] = x /\ r = SubSeq(q, 1, i - 1) \o SubSeq(q, i + 1, Len(q))
  BY DEF WithoutItem
<1>2. Len(q) \in Nat /\ i \in Nat /\ 1 <= i /\ i <= Len(q)
  BY LenProperties
<1>3. /\ SubSeq(q, 1, i - 1) \in Seq(S) /\ Len(SubSeq(q, 1, i - 1)) = i - 1
      /\ \A j \in 1 .. i - 1 : SubSeq(q, 1, i - 1)[j] = q[j]
  <2>1. /\ SubSeq(q, 1, i - 1) \in Seq(S) /\ Len(SubSeq(q, 1, i - 1)) = (i - 1 + 1) - 1
        /\ \A j \in 1 .. (i - 1 + 1) - 1 : SubSeq(q, 1, i - 1)[j] = q[1 + j - 1]
    BY <1>2, SubSeqProperties
  <2> QED BY <1>2, <2>1
<1>4. /\ SubSeq(q, i + 1, Len(q)) \in Seq(S) /\ Len(SubSeq(q, i + 1, Len(q))) = Len(q) - i
      /\ \A j \in 1 .. Len(q) - i : SubSeq(q, i + 1, Len(q))[j] = q[i + j]
  BY <1>2, SubSeqProperties
<1>5. PICK u \in Seq(S), v \in Seq(S) : u = SubSeq(q, 1, i - 1) /\ v = SubSeq(q, i + 1, Len(q))
  BY <1>3, <1>4
<1>6. Items(r) = Items(u) \cup Items(v)
  <2>1. Items(u \o v) = Items(u) \cup Items(v)
    BY OrderedConcat
  <2> QED BY <1>1, <1>5, <2>1
<1>7. ASSUME NEW j \in 1 .. Len(q), j # i PROVE q[j] \in Items(u) \cup Items(v)
  <2>1. CASE j < i
    <3>1. j \in 1 .. i - 1
      BY <1>2, <2>1
    <3> QED BY <1>3, <1>5, <3>1 DEF Items
  <2>2. CASE ~(j < i)
    <3>1. j - i \in 1 .. Len(q) - i /\ i + (j - i) = j
      BY <1>2, <1>7, <2>2
    <3> QED BY <1>4, <1>5, <3>1 DEF Items
  <2> QED BY <2>1, <2>2
<1>8. ASSUME NEW y \in Items(q), y # x PROVE y \in Items(r)
  <2>1. PICK j \in 1 .. Len(q) : q[j] = y
    BY DEF Items
  <2>2. j # i
    BY <1>1, <1>8, <2>1
  <2> QED BY <1>6, <1>7, <2>1, <2>2
<1> QED BY <1>8

LEMMA TakenOut ==
  ASSUME NEW S, NEW a \in Seq(S), NEW x \in S, NEW b \in Seq(S),
         NEW q, q = a \o (<<x>> \o b)
  PROVE  WithoutItem(q, x, a \o b)
<1> DEFINE c == <<x>> \o b
           m == Len(a)
           n == Len(b)
<1>1. /\ m \in Nat /\ n \in Nat
      /\ c \in Seq(S) /\ Len(c) = n + 1 /\ c[1] = x /\ \A i \in 1 .. n : c[i + 1] = b[i]
  <2>1. <<x>> \in Seq(S) /\ Len(<<x>>) = 1 /\ <<x>>[1] = x
    OBVIOUS
  <2>2. m \in Nat /\ n \in Nat
    BY LenProperties
  <2>3. /\ c \in Seq(S) /\ Len(c) = 1 + n
        /\ \A i \in 1 .. 1 + n : c[i] = IF i <= 1 THEN <<x>>[i] ELSE b[i - 1]
    BY <2>1, ConcatProperties
  <2> HIDE DEF c, n
  <2>4. c[1] = x
    BY <2>1, <2>2, <2>3
  <2>5. \A i \in 1 .. n : c[i + 1] = b[i]
    <3> SUFFICES ASSUME NEW i \in 1 .. n PROVE c[i + 1] = b[i]
      OBVIOUS
    <3>1. i + 1 \in 1 .. 1 + n /\ ~(i + 1 <= 1) /\ (i + 1) - 1 = i
      BY <2>2
    <3> QED BY <2>3, <3>1
  <2> QED BY <2>2, <2>3, <2>4, <2>5
<1> HIDE DEF c
<1>2. /\ q \in Seq(S) /\ Len(q) = m + (n + 1)
      /\ \A i \in 1 .. m + (n + 1) : q[i] = IF i <= m THEN a[i] ELSE c[i - m]
  BY <1>1, ConcatProperties DEF c
<1> HIDE DEF m, n
<1> DEFINE i0 == m + 1
           u == SubSeq(q, 1, i0 - 1)
           v == SubSeq(q, i0 + 1, Len(q))
<1>3. i0 \in 1 .. Len(q) /\ q[i0] = x
  <2>1. i0 \in 1 .. m + (n + 1) /\ ~(i0 <= m) /\ i0 - m = 1
    BY <1>1
  <2> QED BY <1>1, <1>2, <2>1
<1>4. u = a
  <2>1. /\ u \in Seq(S) /\ Len(u) = m /\ \A i \in 1 .. m : u[i] = q[i]
    BY <1>1, <1>2, SubSeqProperties
  <2>2. \A i \in 1 .. m : i \in 1 .. m + (n + 1) /\ i <= m
    BY <1>1
  <2>3. \A i \in 1 .. m : u[i] = a[i]
    BY <1>2, <2>1, <2>2
  <2> HIDE DEF u
  <2> QED BY <2>1, <2>3, SeqEqual DEF m
<1>5. v = b
  <2>1. /\ v \in Seq(S) /\ Len(v) = n /\ \A i \in 1 .. n : v[i] = q[m + 1 + i]
    <3> DEFINE lo == i0 + 1
               hi == m + (n + 1)
    <3>1. lo \in Int /\ hi \in Int /\ \A i \in lo .. hi : q[i] \in S
      BY <1>1, <1>2
    <3>2. hi - lo + 1 = n /\ (lo <= hi \/ n = 0) /\ \A i \in 1 .. n : lo + i - 1 = m + 1 + i
      BY <1>1
    <3> HIDE DEF lo, hi
    <3>3. /\ SubSeq(q, lo, hi) \in Seq(S)
          /\ Len(SubSeq(q, lo, hi)) = IF lo <= hi THEN hi - lo + 1 ELSE 0
          /\ \A i \in 1 .. hi - lo + 1 : SubSeq(q, lo, hi)[i] = q[lo + i - 1]
      BY ONLY <3>1, SubSeqProperties
    <3>4. v = SubSeq(q, lo, hi)
      BY <1>2 DEF lo, hi
    <3> HIDE DEF v
    <3> QED BY <3>1, <3>2, <3>3, <3>4
  <2> HIDE DEF v
  <2>2. \A i \in 1 .. n : v[i] = b[i]
    <3> SUFFICES ASSUME NEW i \in 1 .. n PROVE v[i] = b[i]
      OBVIOUS
    <3>1. v[i] = q[m + 1 + i]
      BY <2>1
    <3>2. PICK j \in Int : j = m + 1 + i
      BY <1>1
    <3>3. j \in 1 .. m + (n + 1) /\ ~(j <= m) /\ j - m = i + 1
      BY <1>1, <3>2
    <3>4. q[j] = c[j - m]
      BY <1>2, <3>3
    <3> QED BY <1>1, <3>1, <3>2, <3>3, <3>4
  <2> QED BY <2>1, <2>2, SeqEqual DEF n
<1> HIDE DEF i0
<1>6. a \o b = SubSeq(q, 1, i0 - 1) \o SubSeq(q, i0 + 1, Len(q))
  BY <1>4, <1>5
<1> QED BY <1>3, <1>6 DEF WithoutItem

-----------------------------------------------------------------------------
(* Sequences of sequences.  What FlattenSeq computes, by induction: that is *)
(* the least number of a set here, since <, on Nat, is well-founded.        *)

\* A set of numbers that has zero and is closed under successor has all of them.
LEMMA NaturalsAll ==
  ASSUME NEW T, 0 \in T, \A n \in T \cap Nat : n + 1 \in T
  PROVE  Nat \subseteq T
<1> SUFFICES ASSUME Nat \ T # {} PROVE FALSE
  OBVIOUS
<1>1. PICK m \in Nat \ T : \A n \in Nat \ T : ~(n < m)
  <2>1. IsWellFoundedOn(OpToRel(<, Nat), Nat)
    BY NatLessThanWellFounded
  <2>2. \E x \in Nat \ T : \A y \in Nat \ T : <<y, x>> \notin OpToRel(<, Nat)
    BY <2>1, WFMin
  <2>3. \A x, y \in Nat : y < x => <<y, x>> \in OpToRel(<, Nat)
    BY DEF OpToRel
  <2> QED BY <2>2, <2>3
<1>2. m # 0 /\ m - 1 \in Nat /\ m - 1 < m
  BY <1>1
<1>3. m - 1 \in T
  BY <1>1, <1>2
<1>4. (m - 1) + 1 \in T
  BY <1>2, <1>3
<1> QED BY <1>1, <1>2, <1>4

\* The concatenations of the first sequences of ss.
LEMMA Concatenations ==
  ASSUME NEW S, NEW ss \in Seq(Seq(S))
  PROVE  \E f \in [0 .. Len(ss) -> Seq(S)] :
           f[0] = <<>> /\ \A i \in 1 .. Len(ss) : f[i] = f[i - 1] \o ss[i]
<1> DEFINE Built(f, m) == f[0] = <<>> /\ \A i \in 1 .. m : f[i] = f[i - 1] \o ss[i]
           Reached(m) == \E f \in [0 .. m -> Seq(S)] : Built(f, m)
           T == {m \in Nat : m <= Len(ss) => Reached(m)}
<1>1. Len(ss) \in Nat /\ \A i \in 1 .. Len(ss) : ss[i] \in Seq(S)
  BY LenProperties
<1>2. 0 \in T
  <2>1. [i \in 0 .. 0 |-> <<>>] \in [0 .. 0 -> Seq(S)] /\ Built([i \in 0 .. 0 |-> <<>>], 0)
    BY EmptySeq
  <2> QED BY <2>1
<1>3. ASSUME NEW m \in T \cap Nat PROVE m + 1 \in T
  <2>1. m + 1 \in Nat
    OBVIOUS
  <2>2. ASSUME m + 1 <= Len(ss) PROVE Reached(m + 1)
    <3>0. Reached(m)
      <4> HIDE DEF Reached
      <4> QED BY <1>1, <2>2
    <3>1. PICK f \in [0 .. m -> Seq(S)] : Built(f, m)
      BY <3>0
    <3> DEFINE v == f[m] \o ss[m + 1]
               g == [i \in 0 .. m + 1 |-> IF i = m + 1 THEN v ELSE f[i]]
    <3>2. v \in Seq(S)
      <4>1. f[m] \in Seq(S) /\ ss[m + 1] \in Seq(S)
        BY <1>1, <2>2
      <4> QED BY <4>1, ConcatProperties
    <3> HIDE DEF v
    <3>3. g \in [0 .. m + 1 -> Seq(S)]
      BY <3>2
    <3>4. g[0] = <<>> /\ g[m + 1] = v /\ \A i \in 0 .. m : g[i] = f[i]
      BY <3>1
    <3>5. \A i \in 1 .. m + 1 : g[i] = g[i - 1] \o ss[i]
      <4> SUFFICES ASSUME NEW i \in 1 .. m + 1 PROVE g[i] = g[i - 1] \o ss[i]
        OBVIOUS
      <4> HIDE DEF g
      <4>1. CASE i = m + 1
        <5>1. i - 1 = m /\ m \in 0 .. m
          BY <4>1
        <5>2. g[i - 1] = f[m]
          BY <5>1, <3>4
        <5> QED BY <3>4, <4>1, <5>2 DEF v
      <4>2. CASE i # m + 1
        <5>1. i \in 1 .. m /\ i \in 0 .. m /\ i - 1 \in 0 .. m
          BY <4>2
        <5> QED BY <3>1, <3>4, <5>1
      <4> QED BY <4>1, <4>2
    <3> QED BY <3>3, <3>4, <3>5
  <2> QED BY <2>1, <2>2
<1> HIDE DEF T
<1>4. Len(ss) \in T
  BY <1>1, <1>2, <1>3, NaturalsAll
<1>5. Reached(Len(ss))
  <2> HIDE DEF Reached
  <2> QED BY <1>1, <1>4 DEF T
<1> QED BY <1>5

\* Two functions agree at each number if at the one before.
AgreeOnwards(f, g, n) == \A i \in 1 .. n : f[i - 1] = g[i - 1] => f[i] = g[i]

AgreeUpTo(f, g, n) == \A i \in 0 .. n : f[i] = g[i]

LEMMA AgreeStepByStep ==
  ASSUME NEW n \in Nat, NEW f, NEW g, f[0] = g[0], AgreeOnwards(f, g, n)
  PROVE  AgreeUpTo(f, g, n)
<1> DEFINE T == {m \in Nat : m <= n => f[m] = g[m]}
<1>1. 0 \in T
  OBVIOUS
<1>2. ASSUME NEW m \in T \cap Nat PROVE m + 1 \in T
  <2>1. ASSUME m + 1 <= n PROVE f[m + 1] = g[m + 1]
    <3>1. m + 1 \in 1 .. n /\ (m + 1) - 1 = m /\ f[m] = g[m]
      BY <2>1
    <3> QED BY <3>1 DEF AgreeOnwards
  <2> QED BY <2>1
<1> HIDE DEF T
<1>3. Nat \subseteq T
  BY <1>1, <1>2, NaturalsAll
<1> QED BY <1>3 DEF T, AgreeUpTo

\* FlattenSeq, one sequence at a time.
LEMMA FlattenSteps ==
  ASSUME NEW S, NEW ss \in Seq(Seq(S))
  PROVE  \E f : /\ \A i \in 0 .. Len(ss) : f[i] \in Seq(S)
                /\ f[0] = <<>> /\ \A i \in 1 .. Len(ss) : f[i] = f[i - 1] \o ss[i]
                /\ Seqs!FlattenSeq(ss) = f[Len(ss)]
<1>1. PICK n \in Nat : n = Len(ss)
  BY LenProperties
<1> DEFINE Whole(c) == c = [i \in 1 .. n |-> IF i = 1 THEN ss[i] ELSE c[i - 1] \o ss[i]]
<1>11. \A i \in 1 .. n : ss[i] \in Seq(S)
  BY <1>1, LenProperties
<1>4. n # 0 => ((\E c : Whole(c)) => \E c : Whole(c) /\ Seqs!FlattenSeq(ss) = c[n])
  BY <1>1 DEF Seqs!FlattenSeq
<1>5. n = 0 => Seqs!FlattenSeq(ss) = <<>>
  <2>1. n = 0 => ss = <<>>
    BY <1>1, EmptySeq
  <2> QED BY <2>1 DEF Seqs!FlattenSeq
<1>6. PICK f \in [0 .. n -> Seq(S)] : f[0] = <<>> /\ \A i \in 1 .. n : f[i] = f[i - 1] \o ss[i]
  BY <1>1, Concatenations
<1>7. \A i \in 1 .. n : f[i] = f[i - 1] \o ss[i]
  BY <1>6
<1>8. n # 0 => f[1] = ss[1]
  <2>1. n # 0 => 1 \in 1 .. n /\ 1 - 1 = 0
    BY <1>1, <1>11
  <2>2. n # 0 => <<>> \o ss[1] = ss[1]
    BY <1>1, <1>11, <2>1, ConcatEmptySeq
  <2> QED BY <1>6, <1>7, <2>1, <2>2
<1>9. CASE n # 0
  <2>1. Whole([i \in 1 .. n |-> f[i]])
    <3> DEFINE c == [i \in 1 .. n |-> f[i]]
    <3>1. \A i \in 1 .. n : c[i] = IF i = 1 THEN ss[i] ELSE c[i - 1] \o ss[i]
      <4> SUFFICES ASSUME NEW i \in 1 .. n PROVE c[i] = IF i = 1 THEN ss[i] ELSE c[i - 1] \o ss[i]
        OBVIOUS
      <4>1. CASE i = 1
        BY <1>8, <1>9, <4>1
      <4>2. CASE i # 1
        <5>1. i - 1 \in 1 .. n
          BY <1>1, <1>11, <4>2
        <5> QED BY <1>7, <4>2, <5>1
      <4> QED BY <4>1, <4>2
    <3> QED BY <3>1
  <2>2. PICK c : Whole(c) /\ Seqs!FlattenSeq(ss) = c[n]
    BY <1>4, <1>9, <2>1
  <2> DEFINE d == [i \in 0 .. n |-> IF i = 0 THEN <<>> ELSE c[i]]
  <2>3. \A i \in 1 .. n : d[i] = c[i] /\ c[i] = IF i = 1 THEN ss[i] ELSE c[i - 1] \o ss[i]
    <3>1. \A i \in 1 .. n : c[i] = IF i = 1 THEN ss[i] ELSE c[i - 1] \o ss[i]
      BY <2>2
    <3>2. \A i \in 1 .. n : d[i] = c[i]
      BY <1>1, <1>11
    <3> QED BY <3>1, <3>2
  <2>4. d[0] = <<>> /\ \A i \in 1 .. n : i - 1 # 0 => d[i - 1] = c[i - 1]
    BY <1>1, <1>11
  <2> HIDE DEF d, Whole
  <2>5. \A i \in 1 .. n : d[i - 1] = f[i - 1] => d[i] = f[i]
    <3> SUFFICES ASSUME NEW i \in 1 .. n, d[i - 1] = f[i - 1] PROVE d[i] = f[i]
      OBVIOUS
    <3>1. CASE i = 1
      BY <1>8, <1>9, <2>3, <3>1
    <3>2. CASE i # 1
      <4>1. i - 1 \in 1 .. n
        BY <1>1, <1>11, <3>2
      <4>2. f[i] = f[i - 1] \o ss[i]
        BY <1>7
      <4>3. d[i] = c[i - 1] \o ss[i] /\ d[i - 1] = c[i - 1]
        BY <2>3, <2>4, <3>2, <4>1
      <4> QED BY <4>2, <4>3
    <3> QED BY <3>1, <3>2
  <2>6. \A i \in 0 .. n : d[i] = f[i]
    <3>1. n \in Nat /\ d[0] = f[0]
      BY <1>1, <1>11, <1>6, <2>4
    <3>2. AgreeOnwards(d, f, n)
      BY <2>5 DEF AgreeOnwards
    <3>3. AgreeUpTo(d, f, n)
      BY <3>1, <3>2, AgreeStepByStep
    <3> QED BY <3>3 DEF AgreeUpTo
  <2>7. n \in 1 .. n /\ n \in 0 .. n
    BY <1>1, <1>11, <1>9
  <2>8. Seqs!FlattenSeq(ss) = f[n]
    BY <2>2, <2>3, <2>6, <2>7
  <2> QED BY <1>6, <1>7, <2>8, <1>1
<1>10. CASE n = 0
  BY <1>5, <1>6, <1>7, <1>10, <1>1
<1> QED BY <1>9, <1>10

\* FlattenSeq of a concatenation.
LEMMA FlattenConcat ==
  ASSUME NEW S, NEW ss \in Seq(Seq(S)), NEW tt \in Seq(Seq(S))
  PROVE  /\ ss \o tt \in Seq(Seq(S))
         /\ Seqs!FlattenSeq(ss) \in Seq(S)
         /\ Seqs!FlattenSeq(ss \o tt) = Seqs!FlattenSeq(ss) \o Seqs!FlattenSeq(tt)
<1>1. PICK m \in Nat, n \in Nat : m = Len(ss) /\ n = Len(tt)
  BY LenProperties
<1>2. /\ ss \o tt \in Seq(Seq(S)) /\ Len(ss \o tt) = m + n
      /\ \A i \in 1 .. m : (ss \o tt)[i] = ss[i]
      /\ \A i \in 1 .. n : (ss \o tt)[m + i] = tt[i]
  BY <1>1, ConcatProperties
<1>3. PICK f :
        /\ \A i \in 0 .. m : f[i] \in Seq(S)
        /\ f[0] = <<>> /\ \A i \in 1 .. m : f[i] = f[i - 1] \o ss[i]
        /\ Seqs!FlattenSeq(ss) = f[m]
  BY <1>1, FlattenSteps
<1>4. PICK g :
        /\ \A i \in 0 .. n : g[i] \in Seq(S)
        /\ g[0] = <<>> /\ \A i \in 1 .. n : g[i] = g[i - 1] \o tt[i]
        /\ Seqs!FlattenSeq(tt) = g[n]
  BY <1>1, FlattenSteps
<1>5. PICK both :
      /\ both = ss \o tt
      /\ both \in Seq(Seq(S)) /\ Len(both) = m + n
      /\ \A i \in 1 .. m : both[i] = ss[i]
      /\ \A i \in 1 .. n : both[m + i] = tt[i]
  BY <1>2
<1>6. PICK h :
        /\ \A i \in 0 .. m + n : h[i] \in Seq(S)
        /\ h[0] = <<>> /\ \A i \in 1 .. m + n : h[i] = h[i - 1] \o both[i]
        /\ Seqs!FlattenSeq(both) = h[m + n]
  <2>1. both \in Seq(Seq(S)) /\ Len(both) = m + n
    BY <1>5
  <2>2. PICK h :
        /\ \A i \in 0 .. Len(both) : h[i] \in Seq(S)
        /\ h[0] = <<>> /\ \A i \in 1 .. Len(both) : h[i] = h[i - 1] \o both[i]
        /\ Seqs!FlattenSeq(both) = h[Len(both)]
    BY <2>1, FlattenSteps
  <2> QED BY <2>1, <2>2
<1>7. h[m] = f[m]
  <2>1. \A i \in 1 .. m : h[i - 1] = f[i - 1] => h[i] = f[i]
    <3> SUFFICES ASSUME NEW i \in 1 .. m, h[i - 1] = f[i - 1] PROVE h[i] = f[i]
      OBVIOUS
    <3>0. i \in 1 .. m + n
      OBVIOUS
    <3>1. i \in 1 .. m + n /\ both[i] = ss[i]
      BY <1>5, <3>0
    <3>2. h[i] = h[i - 1] \o ss[i] /\ f[i] = f[i - 1] \o ss[i]
      BY <1>3, <1>6, <3>1
    <3> QED BY <3>2
  <2>2. h[0] = f[0]
    BY <1>3, <1>6
  <2>3. m \in Nat
    OBVIOUS
  <2>4. \A i \in 0 .. m : h[i] = f[i]
    <3>1. AgreeOnwards(h, f, m)
      BY <2>1 DEF AgreeOnwards
    <3>2. AgreeUpTo(h, f, m)
      BY <2>2, <2>3, <3>1, AgreeStepByStep
    <3> QED BY <3>2 DEF AgreeUpTo
  <2> QED BY <2>3, <2>4
<1>8. h[m + n] = f[m] \o g[n]
  <2> DEFINE a == [i \in 0 .. n |-> h[m + i]]
             b == [i \in 0 .. n |-> f[m] \o g[i]]
  <2>1. f[m] \in Seq(S) /\ \A i \in 0 .. n : g[i] \in Seq(S)
    BY <1>3, <1>4
  <2>2. a[0] = b[0]
    <3>1. f[m] \o <<>> = f[m]
      BY <2>1, ConcatEmptySeq
    <3>2. a[0] = h[m] /\ b[0] = f[m] \o g[0]
      <4>1. 0 \in 0 .. n /\ m + 0 = m
        OBVIOUS
      <4> QED BY <4>1
    <3> QED BY <1>4, <1>7, <3>1, <3>2
  <2>3. \A i \in 1 .. n : a[i - 1] = b[i - 1] => a[i] = b[i]
    <3> SUFFICES ASSUME NEW i \in 1 .. n, a[i - 1] = b[i - 1] PROVE a[i] = b[i]
      OBVIOUS
    <3>0. i \in 0 .. n /\ i - 1 \in 0 .. n /\ m + i \in 1 .. m + n /\ (m + i) - 1 = m + (i - 1)
      OBVIOUS
    <3>1. /\ i \in 0 .. n /\ i - 1 \in 0 .. n /\ m + i \in 1 .. m + n /\ (m + i) - 1 = m + (i - 1)
          /\ both[m + i] = tt[i]
      BY <1>5, <3>0
    <3>2. h[m + i] = h[m + (i - 1)] \o tt[i] /\ g[i] = g[i - 1] \o tt[i]
      BY <1>4, <1>6, <3>1
    <3>3. h[m + (i - 1)] = f[m] \o g[i - 1]
      BY <3>1
    <3>4. tt[i] \in Seq(S)
      BY <1>1, LenProperties
    <3>5. (f[m] \o g[i - 1]) \o tt[i] = f[m] \o (g[i - 1] \o tt[i])
      <4>1. PICK u \in Seq(S), v \in Seq(S), w \in Seq(S) : u = f[m] /\ v = g[i - 1] /\ w = tt[i]
        BY <2>1, <3>1, <3>4
      <4>2. Regroups(u, v, w)
        BY ConcatRegroups
      <4> QED BY <4>1, <4>2 DEF Regroups
    <3>6. a[i] = h[m + i] /\ b[i] = f[m] \o g[i]
      BY <3>1
    <3> QED BY <3>2, <3>3, <3>5, <3>6
  <2> HIDE DEF a, b
  <2>4. \A i \in 0 .. n : a[i] = b[i]
    <3>1. n \in Nat
      OBVIOUS
    <3>2. AgreeOnwards(a, b, n)
      BY <2>3 DEF AgreeOnwards
    <3>3. AgreeUpTo(a, b, n)
      BY <2>2, <3>1, <3>2, AgreeStepByStep
    <3> QED BY <3>3 DEF AgreeUpTo
  <2>5. n \in 0 .. n
    OBVIOUS
  <2> QED BY <2>4, <2>5 DEF a, b
<1>9. f[m] \in Seq(S)
  BY <1>3
<1> QED BY <1>3, <1>4, <1>5, <1>6, <1>8, <1>9

\* FlattenSeq of one sequence, and of none.
LEMMA FlattenOne ==
  ASSUME NEW S, NEW s \in Seq(S)
  PROVE  /\ Seqs!FlattenSeq(<<>>) = <<>>
         /\ <<s>> \in Seq(Seq(S)) /\ Seqs!FlattenSeq(<<s>>) = s
<1>1. Seqs!FlattenSeq(<<>>) = <<>>
  BY DEF Seqs!FlattenSeq
<1> DEFINE ss == <<s>>
<1>2. ss \in Seq(Seq(S)) /\ Len(ss) = 1 /\ ss[1] = s
  OBVIOUS
<1> HIDE DEF ss
<1>3. PICK f :
        /\ f[0] = <<>> /\ \A i \in 1 .. Len(ss) : f[i] = f[i - 1] \o ss[i]
        /\ Seqs!FlattenSeq(ss) = f[Len(ss)]
  BY <1>2, FlattenSteps
<1>4. f[1] = <<>> \o s
  <2>1. 1 \in 1 .. Len(ss) /\ 1 - 1 = 0
    BY <1>2
  <2> QED BY <1>2, <1>3, <2>1
<1>5. <<>> \o s = s
  BY ConcatEmptySeq
<1>6. Seqs!FlattenSeq(ss) = s
  BY <1>2, <1>3, <1>4, <1>5
<1> QED BY <1>1, <1>2, <1>6 DEF ss

\* What is in FlattenSeq is in one of the sequences.
LEMMA FlattenItems ==
  ASSUME NEW S, NEW ss \in Seq(Seq(S)), NEW P,
         \A i \in 1 .. Len(ss) : Items(ss[i]) \subseteq P
  PROVE  Items(Seqs!FlattenSeq(ss)) \subseteq P
<1>1. PICK n \in Nat : n = Len(ss)
  BY LenProperties
<1>2. PICK f :
        /\ \A i \in 0 .. n : f[i] \in Seq(S)
        /\ f[0] = <<>> /\ \A i \in 1 .. n : f[i] = f[i - 1] \o ss[i]
        /\ Seqs!FlattenSeq(ss) = f[n]
  BY <1>1, FlattenSteps
<1> DEFINE T == {m \in Nat : m <= n => Items(f[m]) \subseteq P}
<1>3. 0 \in T
  <2>1. Items(f[0]) = {}
    BY <1>2, ItemsEmpty
  <2> QED BY <2>1
<1>4. ASSUME NEW m \in T \cap Nat PROVE m + 1 \in T
  <2>1. ASSUME m + 1 <= n PROVE Items(f[m + 1]) \subseteq P
    <3>1. m + 1 \in 1 .. n /\ (m + 1) - 1 = m /\ m \in 0 .. n /\ Items(f[m]) \subseteq P
      BY <2>1
    <3>2. f[m + 1] = f[m] \o ss[m + 1] /\ f[m] \in Seq(S) /\ ss[m + 1] \in Seq(S)
      BY <1>1, <1>2, <3>1, LenProperties
    <3>3. Items(f[m] \o ss[m + 1]) = Items(f[m]) \cup Items(ss[m + 1])
      <4>1. PICK u \in Seq(S), v \in Seq(S) : u = f[m] /\ v = ss[m + 1]
        BY <3>2
      <4>2. Items(u \o v) = Items(u) \cup Items(v)
        BY OrderedConcat
      <4> QED BY <4>1, <4>2
    <3> QED BY <1>1, <3>1, <3>2, <3>3
  <2> QED BY <2>1
<1> HIDE DEF T
<1>5. n \in T
  BY <1>3, <1>4, NaturalsAll
<1> QED BY <1>2, <1>5 DEF T

\* FlattenSeq of empty sequences.
LEMMA FlattenNothing ==
  ASSUME NEW S, NEW ss \in Seq(Seq(S)), \A i \in 1 .. Len(ss) : ss[i] = <<>>
  PROVE  Seqs!FlattenSeq(ss) = <<>>
<1>1. \A i \in 1 .. Len(ss) : Items(ss[i]) \subseteq {}
  BY ItemsEmpty
<1>2. Items(Seqs!FlattenSeq(ss)) \subseteq {}
  BY <1>1, FlattenItems
<1>3. Seqs!FlattenSeq(ss) \in Seq(S)
  BY FlattenConcat
<1> DEFINE q == Seqs!FlattenSeq(ss)
<1> HIDE DEF q
<1>4. q \in Seq(S) /\ Items(q) = {}
  BY <1>2, <1>3 DEF q
<1>5. q = <<>>
  <2>1. Len(q) = 0
    <3>1. Len(q) \in Nat /\ (1 \in 1 .. Len(q) => q[1] \in Items(q))
      BY <1>4, LenProperties DEF Items
    <3> QED BY <1>4, <3>1
  <2> QED BY <1>4, <2>1, EmptySeq
<1> QED BY <1>5 DEF q

\* a and b are what FlattenSeq makes of the sequences before and behind one of them.
Around(a, b, ss, d, S) ==
  /\ \A P : (\A i \in 1 .. d - 1 : Items(ss[i]) \subseteq P) => Items(a) \subseteq P
  /\ \A P : (\A i \in d + 1 .. Len(ss) : Items(ss[i]) \subseteq P) => Items(b) \subseteq P
  /\ \A s \in Seq(S) : Seqs!FlattenSeq([ss EXCEPT ![d] = s]) = a \o (s \o b)

LEMMA FlattenAround ==
  ASSUME NEW S, NEW ss \in Seq(Seq(S)), NEW d \in 1 .. Len(ss)
  PROVE  \E a, b \in Seq(S) : Around(a, b, ss, d, S)
<1> DEFINE n == Len(ss)
           pre == SubSeq(ss, 1, d - 1)
           post == SubSeq(ss, d + 1, n)
           a == Seqs!FlattenSeq(pre)
           b == Seqs!FlattenSeq(post)
<1>0. PICK C : C = Seq(S)
  OBVIOUS
<1>1. n \in Nat /\ d \in 1 .. n /\ ss \in Seq(C) /\ \A i \in 1 .. n : ss[i] \in C
  BY <1>0, LenProperties
<1>2. /\ pre \in Seq(C) /\ Len(pre) = d - 1 /\ \A i \in 1 .. d - 1 : pre[i] = ss[i]
  <2>1. \A i \in 1 .. d - 1 : ss[i] \in C
    BY <1>1
  <2>2. d - 1 \in Int /\ (1 <= d - 1 \/ d - 1 = 0)
    BY <1>1
  <2>3. PICK hi \in Int : hi = d - 1
    BY <2>2
  <2>4. /\ SubSeq(ss, 1, hi) \in Seq(C) /\ Len(SubSeq(ss, 1, hi)) = IF 1 <= hi THEN hi - 1 + 1 ELSE 0
        /\ \A i \in 1 .. hi - 1 + 1 : SubSeq(ss, 1, hi)[i] = ss[1 + i - 1]
    BY <2>1, <2>3, SubSeqProperties
  <2> QED BY <2>2, <2>3, <2>4
<1>3. /\ post \in Seq(C) /\ Len(post) = n - d /\ \A i \in 1 .. n - d : post[i] = ss[d + i]
  <2>1. \A i \in d + 1 .. n : ss[i] \in C
    BY <1>1
  <2>2. PICK lo \in Int : lo = d + 1
    BY <1>1
  <2>3. /\ SubSeq(ss, lo, n) \in Seq(C) /\ Len(SubSeq(ss, lo, n)) = IF lo <= n THEN n - lo + 1 ELSE 0
        /\ \A i \in 1 .. n - lo + 1 : SubSeq(ss, lo, n)[i] = ss[lo + i - 1]
    BY <1>1, <2>1, <2>2, SubSeqProperties
  <2>4. n - lo + 1 = n - d /\ (lo <= n \/ n - d = 0) /\ \A i \in 1 .. n - d : lo + i - 1 = d + i
    BY <1>1, <2>2
  <2> HIDE DEF n
  <2>5. post = SubSeq(ss, lo, n)
    BY <2>2
  <2> HIDE DEF post
  <2> QED BY <2>3, <2>4, <2>5
<1>4. pre \in Seq(Seq(S)) /\ post \in Seq(Seq(S))
  BY <1>0, <1>2, <1>3
<1> HIDE DEF pre, post
<1>5. PICK x \in Seq(S), y \in Seq(S) : x = a /\ y = b
  BY <1>4, FlattenConcat
<1>6. ASSUME NEW P, \A i \in 1 .. d - 1 : Items(ss[i]) \subseteq P PROVE Items(x) \subseteq P
  <2>1. \A i \in 1 .. Len(pre) : Items(pre[i]) \subseteq P
    BY <1>2, <1>6
  <2> QED BY <1>4, <1>5, <2>1, FlattenItems
<1>7. ASSUME NEW P, \A i \in d + 1 .. n : Items(ss[i]) \subseteq P PROVE Items(y) \subseteq P
  <2>1. ASSUME NEW i \in 1 .. Len(post) PROVE Items(post[i]) \subseteq P
    <3>1. i \in 1 .. n - d /\ d + i \in d + 1 .. n
      BY <1>1, <1>3
    <3> QED BY <1>3, <1>7, <3>1
  <2> QED BY <1>4, <1>5, <2>1, FlattenItems
<1>8. ASSUME NEW s \in Seq(S) PROVE Seqs!FlattenSeq([ss EXCEPT ![d] = s]) = x \o (s \o y)
  <2>1. PICK o \in Seq(C) : o = <<s>> /\ Len(o) = 1 /\ o[1] = s
    <3>1. <<s>> \in Seq(C) /\ Len(<<s>>) = 1 /\ <<s>>[1] = s
      BY <1>0
    <3> QED BY <3>1
  <2>2. PICK p : p = [ss EXCEPT ![d] = s] /\ p \in [1 .. n -> C]
           /\ \A i \in 1 .. n : p[i] = IF i = d THEN s ELSE ss[i]
    <3> DEFINE e == [ss EXCEPT ![d] = s]
    <3>1. ss \in [1 .. n -> C] /\ s \in C
      BY <1>0, <1>1, LenProperties
    <3> HIDE DEF n
    <3>2. e \in [1 .. n -> C] /\ \A i \in 1 .. n : e[i] = IF i = d THEN s ELSE ss[i]
      BY <1>1, <3>1
    <3> HIDE DEF e
    <3>3. \E p : p = e /\ p \in [1 .. n -> C] /\ \A i \in 1 .. n : p[i] = IF i = d THEN s ELSE ss[i]
      BY <3>2
    <3> QED BY <3>3 DEF e
  <2>3. p \in Seq(C) /\ Len(p) = n
    <3>1. p \in Seq(C)
      BY <1>1, <2>2, SeqDef
    <3> QED BY <1>1, <2>2, <3>1, LenProperties
  <2>4. PICK r \in Seq(C) : /\ r = o \o post /\ Len(r) = 1 + (n - d)
                            /\ \A i \in 1 .. 1 + (n - d) : r[i] = IF i <= 1 THEN o[i] ELSE post[i - 1]
    <3>1. /\ o \o post \in Seq(C) /\ Len(o \o post) = Len(o) + Len(post)
          /\ \A i \in 1 .. Len(o) + Len(post) : (o \o post)[i] = IF i <= Len(o) THEN o[i] ELSE post[i - Len(o)]
      BY <1>3, ConcatProperties
    <3> QED BY ONLY <1>3, <2>1, <3>1
  <2>5. PICK w \in Seq(C) : /\ w = pre \o r /\ Len(w) = Len(pre) + Len(r)
                            /\ \A i \in 1 .. Len(pre) + Len(r) :
                                 w[i] = IF i <= Len(pre) THEN pre[i] ELSE r[i - Len(pre)]
    <3>1. /\ pre \o r \in Seq(C) /\ Len(pre \o r) = Len(pre) + Len(r)
          /\ \A i \in 1 .. Len(pre) + Len(r) : (pre \o r)[i] = IF i <= Len(pre) THEN pre[i] ELSE r[i - Len(pre)]
      BY <1>2, ConcatProperties
    <3> QED BY <3>1
  <2> HIDE DEF n
  <2>6. w = p
    <3>0. (d - 1) + (1 + (n - d)) = n
      BY <1>1
    <3>1. /\ Len(pre) = d - 1 /\ Len(pre) + Len(r) = n
          /\ \A i \in 1 .. n : w[i] = IF i <= d - 1 THEN pre[i] ELSE r[i - (d - 1)]
      BY <1>2, <2>4, <2>5, <3>0
    <3>2. ASSUME NEW i \in 1 .. n PROVE w[i] = p[i]
      <4>1. CASE i < d
        <5>1. i <= d - 1 /\ i \in 1 .. d - 1 /\ i # d
          BY <1>1, <4>1
        <5> QED BY <1>2, <2>2, <2>5, <3>1, <5>1
      <4>2. CASE i = d
        <5>1. ~(i <= d - 1) /\ i - (d - 1) = 1 /\ 1 \in 1 .. 1 + (n - d) /\ 1 <= 1
          BY <1>1, <4>2
        <5>2. w[i] = r[1]
          BY <2>5, <3>1, <5>1
        <5>3. r[1] = o[1]
          BY <2>4, <5>1
        <5> QED BY <2>1, <2>2, <4>2, <5>2, <5>3
      <4>3. CASE i > d
        <5>1. PICK j \in Int : j = i - (d - 1)
          BY <1>1
        <5>2. ~(i <= d - 1) /\ j \in 1 .. 1 + (n - d) /\ ~(j <= 1) /\ j - 1 \in 1 .. n - d /\ d + (j - 1) = i /\ i # d
          BY <1>1, <4>3, <5>1
        <5>3. w[i] = r[j]
          BY <2>5, <3>1, <5>1, <5>2
        <5>4. r[j] = post[j - 1]
          BY <2>4, <5>2
        <5>5. post[j - 1] = ss[i]
          BY <1>3, <5>2
        <5> QED BY <2>2, <5>2, <5>3, <5>4, <5>5
      <4> QED BY <1>1, <4>1, <4>2, <4>3
    <3>3. Len(w) = n
      BY <2>5, <3>1
    <3> QED BY <2>3, <3>2, <3>3, SeqEqual
  <2> DEFINE F(c) == Seqs!FlattenSeq(c)
  <2>7. o \in Seq(Seq(S)) /\ r \in Seq(Seq(S))
    BY <1>0
  <2>8. F(o) = s
    BY <2>1, FlattenOne
  <2>9. F(o \o post) = F(o) \o F(post)
    BY <1>4, <2>7, FlattenConcat
  <2>10. F(pre \o r) = F(pre) \o F(r)
    BY <1>4, <2>7, FlattenConcat
  <2>11. F(pre) = x /\ F(post) = y
    BY <1>5
  <2> HIDE DEF F
  <2>12. F(p) = x \o (s \o y)
    BY <2>4, <2>5, <2>6, <2>8, <2>9, <2>10, <2>11
  <2> QED BY <2>2, <2>12 DEF F
<1>9. Around(x, y, ss, d, S)
  <2>1. \A P : (\A i \in 1 .. d - 1 : Items(ss[i]) \subseteq P) => Items(x) \subseteq P
    BY <1>6
  <2>2. \A P : (\A i \in d + 1 .. Len(ss) : Items(ss[i]) \subseteq P) => Items(y) \subseteq P
    BY <1>7
  <2>3. \A s \in Seq(S) : Seqs!FlattenSeq([ss EXCEPT ![d] = s]) = x \o (s \o y)
    BY <1>8
  <2> QED BY <2>1, <2>2, <2>3 DEF Around
<1> QED BY <1>9

-----------------------------------------------------------------------------
(* What the items of a queue stand for: spelling has a sequence for each.   *)

Spelled(q, spelling) == Seqs!FlattenSeq([i \in 1 .. Len(q) |-> spelling[q[i]]])

LEMMA SpelledEach ==
  ASSUME NEW T, NEW S, NEW spelling \in [T -> Seq(S)], NEW q \in Seq(T)
  PROVE  /\ [i \in 1 .. Len(q) |-> spelling[q[i]]] \in Seq(Seq(S))
         /\ Len([i \in 1 .. Len(q) |-> spelling[q[i]]]) = Len(q)
<1>1. Len(q) \in Nat /\ \A i \in 1 .. Len(q) : spelling[q[i]] \in Seq(S)
  BY LenProperties
<1>2. PICK e, C : /\ e = [i \in 1 .. Len(q) |-> spelling[q[i]]]
                  /\ C = Seq(S) /\ e \in [1 .. Len(q) -> C]
  <2> DEFINE each == [i \in 1 .. Len(q) |-> spelling[q[i]]]
  <2>1. each \in [1 .. Len(q) -> Seq(S)]
    BY <1>1
  <2> HIDE DEF each
  <2>2. \E e, C : e = each /\ C = Seq(S) /\ e \in [1 .. Len(q) -> C]
    BY <2>1
  <2> QED BY <2>2 DEF each
<1>3. e \in Seq(C)
  BY <1>1, <1>2, SeqDef
<1>4. Len(e) = Len(q)
  BY <1>1, <1>2, <1>3, LenProperties
<1> QED BY <1>2, <1>3, <1>4

SpelledApart(q, s, spelling) ==
  Spelled(q \o s, spelling) = Spelled(q, spelling) \o Spelled(s, spelling)

LEMMA SpelledConcat ==
  ASSUME NEW T, NEW S, NEW spelling \in [T -> Seq(S)], NEW q \in Seq(T), NEW s \in Seq(T)
  PROVE  Spelled(q, spelling) \in Seq(S) /\ SpelledApart(q, s, spelling)
<1> DEFINE each(p) == [i \in 1 .. Len(p) |-> spelling[p[i]]]
<1>1. ASSUME NEW p \in Seq(T) PROVE each(p) \in Seq(Seq(S)) /\ Len(each(p)) = Len(p)
  BY SpelledEach
<1>2. each(q \o s) = each(q) \o each(s)
  <2>1. /\ Len(q) \in Nat /\ Len(s) \in Nat /\ q \o s \in Seq(T)
        /\ Len(q \o s) = Len(q) + Len(s)
        /\ \A i \in 1 .. Len(q) + Len(s) : (q \o s)[i] = IF i <= Len(q) THEN q[i] ELSE s[i - Len(q)]
    BY ConcatProperties, LenProperties
  <2>2. PICK C : C = Seq(S)
    OBVIOUS
  <2>3. PICK u \in Seq(C), v \in Seq(C), b \in Seq(C) :
        /\ u = each(q) /\ v = each(s) /\ b = each(q \o s)
        /\ Len(u) = Len(q) /\ Len(v) = Len(s) /\ Len(b) = Len(q) + Len(s)
    BY <1>1, <2>1, <2>2
  <2>4. /\ u \o v \in Seq(C) /\ Len(u \o v) = Len(q) + Len(s)
        /\ \A i \in 1 .. Len(q) + Len(s) : (u \o v)[i] = IF i <= Len(q) THEN u[i] ELSE v[i - Len(q)]
    <3>1. /\ u \o v \in Seq(C) /\ Len(u \o v) = Len(u) + Len(v)
          /\ \A i \in 1 .. Len(u) + Len(v) : (u \o v)[i] = IF i <= Len(u) THEN u[i] ELSE v[i - Len(u)]
      BY ConcatProperties
    <3> QED BY ONLY <2>3, <3>1
  <2>5. \A i \in 1 .. Len(q) + Len(s) : b[i] = (u \o v)[i]
    <3> SUFFICES ASSUME NEW i \in 1 .. Len(q) + Len(s) PROVE b[i] = (u \o v)[i]
      OBVIOUS
    <3>1. b[i] = spelling[(q \o s)[i]]
      BY <2>1, <2>3
    <3>2. CASE i <= Len(q)
      <4>1. i \in 1 .. Len(q)
        BY <2>1, <3>2
      <4>2. u[i] = spelling[q[i]]
        BY <2>3, <4>1
      <4> QED BY <2>1, <2>4, <3>1, <3>2, <4>2
    <3>3. CASE ~(i <= Len(q))
      <4>1. i - Len(q) \in 1 .. Len(s)
        BY <2>1, <3>3
      <4>2. v[i - Len(q)] = spelling[s[i - Len(q)]]
        BY <2>3, <4>1
      <4> QED BY <2>1, <2>4, <3>1, <3>3, <4>2
    <3> QED BY <3>2, <3>3
  <2>6. b = u \o v
    BY <2>3, <2>4, <2>5, SeqEqual
  <2> QED BY <2>3, <2>6
<1>3. each(q) \in Seq(Seq(S)) /\ each(s) \in Seq(Seq(S))
  BY <1>1
<1> DEFINE F(c) == Seqs!FlattenSeq(c)
<1>4. F(each(q)) \in Seq(S) /\ F(each(q) \o each(s)) = F(each(q)) \o F(each(s))
  <2> HIDE DEF each
  <2> QED BY <1>3, FlattenConcat
<1>5. /\ Spelled(q, spelling) = F(each(q)) /\ Spelled(s, spelling) = F(each(s))
      /\ Spelled(q \o s, spelling) = F(each(q \o s))
  BY DEF Spelled
<1> HIDE DEF each, F
<1> QED BY <1>2, <1>4, <1>5 DEF SpelledApart

LEMMA SpelledOne ==
  ASSUME NEW T, NEW S, NEW spelling \in [T -> Seq(S)], NEW t \in T
  PROVE  /\ Spelled(<<>>, spelling) = <<>>
         /\ <<t>> \in Seq(T) /\ Spelled(<<t>>, spelling) = spelling[t]
<1>1. Spelled(<<>>, spelling) = <<>>
  <2>1. [i \in 1 .. Len(<<>>) |-> spelling[<<>>[i]]] = <<>>
    OBVIOUS
  <2>2. Seqs!FlattenSeq(<<>>) = <<>>
    <3>1. <<>> \in Seq(S)
      BY EmptySeq
    <3> QED BY <3>1, FlattenOne
  <2> QED BY <2>1, <2>2 DEF Spelled
<1>2. [i \in 1 .. Len(<<t>>) |-> spelling[<<t>>[i]]] = <<spelling[t]>>
  OBVIOUS
<1>3. PICK s \in Seq(S) : s = spelling[t]
  OBVIOUS
<1>4. Seqs!FlattenSeq(<<s>>) = s
  BY FlattenOne
<1> QED BY <1>1, <1>2, <1>3, <1>4 DEF Spelled

\* The head of the queue, and what is behind it.
LEMMA SpelledHead ==
  ASSUME NEW T, NEW S, NEW spelling \in [T -> Seq(S)], NEW q \in Seq(T), q # <<>>
  PROVE  /\ Head(q) \in T /\ Tail(q) \in Seq(T) /\ Spelled(Tail(q), spelling) \in Seq(S)
         /\ Spelled(q, spelling) = spelling[Head(q)] \o Spelled(Tail(q), spelling)
<1>1. Head(q) \in T /\ Tail(q) \in Seq(T) /\ q = <<Head(q)>> \o Tail(q)
  BY HeadThenTail
<1>2. PICK t \in T, r \in Seq(T) : t = Head(q) /\ r = Tail(q)
  BY <1>1
<1>3. Spelled(<<t>>, spelling) = spelling[t] /\ <<t>> \in Seq(T)
  BY SpelledOne
<1>4. PICK o \in Seq(T) : o = <<t>>
  BY <1>3
<1>5. Spelled(r, spelling) \in Seq(S) /\ SpelledApart(o, r, spelling)
  BY SpelledConcat
<1> QED BY <1>1, <1>2, <1>3, <1>4, <1>5 DEF SpelledApart

LEMMA SpelledNothing ==
  ASSUME NEW T, NEW S, NEW spelling \in [T -> Seq(S)], NEW q \in Seq(T),
         \A i \in 1 .. Len(q) : spelling[q[i]] = <<>>
  PROVE  Spelled(q, spelling) = <<>>
<1> DEFINE ss == [i \in 1 .. Len(q) |-> spelling[q[i]]]
<1>1. ss \in Seq(Seq(S)) /\ Len(ss) = Len(q)
  BY SpelledEach
<1>2. \A i \in 1 .. Len(ss) : ss[i] = <<>>
  BY <1>1
<1>3. Spelled(q, spelling) = Seqs!FlattenSeq(ss)
  BY DEF Spelled
<1> HIDE DEF ss
<1> QED BY <1>1, <1>2, <1>3, FlattenNothing

\* Items that stand for themselves.
LEMMA SpelledSame ==
  ASSUME NEW T, NEW S, NEW spelling \in [T -> Seq(S)], NEW q \in Seq(T), q \in Seq(S),
         \A i \in 1 .. Len(q) : spelling[q[i]] = <<q[i]>>
  PROVE  Spelled(q, spelling) = q
<1> DEFINE ss == [i \in 1 .. Len(q) |-> spelling[q[i]]]
           n == Len(q)
           g == [i \in 0 .. n |-> SubSeq(q, 1, i)]
<1>1. ss \in Seq(Seq(S)) /\ Len(ss) = n
  BY SpelledEach
<1>2. n \in Nat /\ \A i \in 1 .. n : ss[i] = <<q[i]>>
  BY LenProperties
<1>3. Spelled(q, spelling) = Seqs!FlattenSeq(ss)
  BY DEF Spelled
<1>4. g[0] = <<>> /\ g[n] = q
  <2>1. SubSeq(q, 1, 0) = <<>>
    BY SubSeqEmpty
  <2>2. SubSeq(q, 1, n) = q
    BY SubSeqFull
  <2> QED BY <1>2, <2>1, <2>2
<1>5. ASSUME NEW i \in 1 .. n PROVE g[i] = g[i - 1] \o <<q[i]>>
  <2>1. i \in 1 .. Len(q) /\ 1 \in 1 .. Len(q) /\ i - 1 \in 0 .. n /\ i \in 0 .. n
    BY <1>2
  <2>2. SubSeq(q, 1, i) = SubSeq(q, 1, i - 1) \o <<q[i]>>
    BY <2>1, SubSeqRecursiveSecond
  <2> QED BY <2>1, <2>2
<1> HIDE DEF ss, n, g
<1>6. PICK f : /\ f[0] = <<>> /\ \A i \in 1 .. n : f[i] = f[i - 1] \o ss[i]
               /\ Seqs!FlattenSeq(ss) = f[n]
  BY <1>1, FlattenSteps
<1>7. \A i \in 1 .. n : f[i - 1] = g[i - 1] => f[i] = g[i]
  BY <1>2, <1>5, <1>6
<1>8. f[0] = g[0]
  BY <1>4, <1>6
<1>9. \A i \in 0 .. n : f[i] = g[i]
  <2>1. n \in Nat
    BY <1>2
  <2>2. AgreeOnwards(f, g, n)
    BY <1>7 DEF AgreeOnwards
  <2>3. AgreeUpTo(f, g, n)
    BY <1>8, <2>1, <2>2, AgreeStepByStep
  <2> QED BY <2>3 DEF AgreeUpTo
<1> QED BY <1>2, <1>3, <1>4, <1>6, <1>9
=============================================================================
