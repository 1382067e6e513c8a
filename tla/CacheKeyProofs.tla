---------------------------- MODULE CacheKeyProofs ----------------------------
(***************************************************************************)
(* Proofs about CacheKey, for every set of values, nested however deep,    *)
(* every order that the keys of objects are visited in, and any number of  *)
(* calls. canonicalJSON is recursive in the values and, for each array and *)
(* object, in its components: what is claimed of all values is shown by    *)
(* taking one of least depth of which it is false. The chief lemma is      *)
(* CanonicalIsInjective, that no two values are written alike. The         *)
(* inductive invariant says of every entry which parts of its request made *)
(* its key; that a hit is the same call then follows from that lemma.      *)
(***************************************************************************)
EXTENDS CacheKey, Integers, SequenceTheorems, WellFoundedInduction, TLAPS

-----------------------------------------------------------------------------
(* Induction and recursion over what has a depth.                          *)

\* Every inhabited set of naturals has a least element.
LEMMA Least ==
  ASSUME NEW T \in SUBSET Nat, T # {}
  PROVE  \E m \in T : \A n \in T : m <= n
<1> DEFINE R == {ss \in Nat \X Nat : ss[1] < ss[2]}
<1>1. IsWellFoundedOn(R, Nat)
  BY NatLessThanWellFounded DEF OpToRel
<1>2. PICK m \in T : \A y \in T : ~(<<y, m>> \in R)
  <2> HIDE DEF R
  <2> QED BY <1>1, WFMin
<1>3. ASSUME NEW n \in T, n < m PROVE FALSE
  <2>1. n \in Nat /\ m \in Nat
    OBVIOUS
  <2>2. <<n, m>> \in Nat \X Nat
    BY <2>1
  <2>3. <<n, m>>[1] < <<n, m>>[2]
    BY <1>3
  <2>4. <<n, m>> \in R
    BY <2>2, <2>3
  <2>5. QED
    BY <1>2, <2>4
<1>4. QED
  BY <1>3

\* The same, of anything that has a depth.
LEMMA Shallowest ==
  ASSUME NEW V, NEW depth \in [V -> Nat], NEW T \in SUBSET V, T # {}
  PROVE  \E v \in T : \A u \in V : depth[u] < depth[v] => u \notin T
<1>1. {depth[v] : v \in T} \in SUBSET Nat /\ {depth[v] : v \in T} # {}
  OBVIOUS
<1>2. PICK m \in {depth[v] : v \in T} : \A n \in {depth[v] : v \in T} : m <= n
  BY <1>1, Least
<1>3. PICK v \in T : m = depth[v]
  BY <1>2
<1>4. ASSUME NEW u \in T, depth[u] < depth[v] PROVE FALSE
  <2>1. m <= depth[u]
    BY <1>2
  <2>2. QED
    BY <2>1, <1>3, <1>4
<1>5. QED
  BY <1>4

\* What G makes of a function on V depends, at v, on what is less deep than v.
Descends(V, S, depth, G) ==
    /\ depth \in [V -> Nat] /\ G \in [[V -> S] -> [V -> S]] /\ S # {}
    /\ \A p, q \in [V -> S] : \A v \in V :
         (\A u \in V : depth[u] < depth[v] => p[u] = q[u]) => G[p][v] = G[q][v]

IsFixed(f, V, S, G) == f \in [V -> S] /\ f = G[f]

\* Recursion: such a G has a fixed point.
LEMMA Recursion ==
  ASSUME NEW V, NEW S, NEW depth, NEW G, Descends(V, S, depth, G)
  PROVE  \E f : IsFixed(f, V, S, G)
<1> USE DEF Descends
<1> DEFINE Fixed(p, n) == p \in [V -> S] /\ \A v \in V : depth[v] < n => p[v] = G[p][v]
           Choice == [n \in Nat |-> CHOOSE p : Fixed(p, n)]
           f == [v \in V |-> Choice[depth[v] + 1][v]]
           Missing == {n \in Nat : \A p : ~Fixed(p, n)}
<1>1. ASSUME NEW n \in Nat
      PROVE  \E p : Fixed(p, n)
  <2>1. CASE Missing = {}
    <3> HIDE DEF Fixed
    <3>1. n \notin Missing
      BY <2>1
    <3>2. QED
      BY <3>1
  <2>2. CASE Missing # {}
    <3>1. PICK k \in Missing : \A j \in Missing : k <= j
      BY <2>2, Least
    <3>2. CASE k = 0
      <4>1. PICK s : V # {} => s \in S
        OBVIOUS
      <4>2. Fixed([v \in V |-> s], 0)
        BY <4>1
      <4>3. QED
        BY <4>2, <3>1, <3>2
    <3>3. CASE k # 0
      <4>1. k - 1 \in Nat /\ k - 1 \notin Missing
        BY <3>1, <3>3
      <4>2. PICK p : Fixed(p, k - 1)
        BY <4>1
      <4>3. G[p] \in [V -> S]
        BY <4>2
      <4>4. ASSUME NEW v \in V, depth[v] < k
            PROVE  G[p][v] = G[G[p]][v]
        <5>1. \A u \in V : depth[u] < depth[v] => p[u] = G[p][u]
          <6>1. ASSUME NEW u \in V, depth[u] < depth[v] PROVE depth[u] < k - 1
            BY <4>4, <6>1
          <6>2. QED
            BY <6>1, <4>2
        <5>2. QED
          BY <5>1, <4>2, <4>3
      <4>5. Fixed(G[p], k)
        BY <4>3, <4>4
      <4>6. QED
        BY <4>5, <3>1
    <3>4. QED
      BY <3>2, <3>3
  <2>3. QED
    BY <2>1, <2>2
<1>2. ASSUME NEW m \in Nat, NEW n \in Nat, NEW p, NEW q, Fixed(p, m), Fixed(q, n), NEW v \in V, depth[v] < m, depth[v] < n
      PROVE  p[v] = q[v]
  <2> DEFINE T == {u \in V : depth[u] < m /\ depth[u] < n /\ p[u] # q[u]}
  <2>1. SUFFICES ASSUME T # {} PROVE FALSE
    BY <1>2
  <2>2. PICK u \in T : \A w \in V : depth[w] < depth[u] => w \notin T
    <3> HIDE DEF T
    <3>1. T \in SUBSET V
      BY DEF T
    <3>2. QED
      BY <2>1, <3>1, Shallowest
  <2>3. \A w \in V : depth[w] < depth[u] => p[w] = q[w]
    <3>1. ASSUME NEW w \in V, depth[w] < depth[u] PROVE depth[w] < m /\ depth[w] < n
      BY <3>1
    <3>2. QED
      BY <3>1, <2>2
  <2>4. G[p][u] = G[q][u]
    BY <2>3, <1>2
  <2>5. QED
    BY <2>4, <1>2
<1>3. \A n \in Nat : Fixed(Choice[n], n)
  BY <1>1
<1> HIDE DEF Choice
<1>4. f \in [V -> S]
  <2>1. ASSUME NEW v \in V PROVE f[v] \in S
    <3>1. depth[v] + 1 \in Nat
      OBVIOUS
    <3>2. QED
      BY <3>1, <1>3
  <2>2. QED
    BY <2>1
<1>5. ASSUME NEW v \in V
      PROVE  f[v] = G[f][v]
  <2> DEFINE n == depth[v] + 1
  <2>1. n \in Nat /\ depth[v] < n
    OBVIOUS
  <2>2. Fixed(Choice[n], n)
    BY <2>1, <1>3
  <2>3. f[v] = G[Choice[n]][v]
    BY <2>1, <2>2
  <2>4. ASSUME NEW u \in V, depth[u] < depth[v]
        PROVE  Choice[n][u] = f[u]
    <3>1. depth[u] + 1 \in Nat /\ depth[u] < depth[u] + 1 /\ depth[u] < n
      BY <2>4
    <3>2. Fixed(Choice[depth[u] + 1], depth[u] + 1)
      BY <3>1, <1>3
    <3> HIDE DEF n, Fixed
    <3>3. QED
      BY <3>1, <3>2, <2>1, <2>2, <1>2
  <2>5. QED
    <3> HIDE DEF f
    <3> QED BY <2>2, <2>3, <2>4, <1>4
<1>6. f = G[f]
  <2> HIDE DEF f
  <2>1. G[f] \in [V -> S]
    BY <1>4
  <2>2. QED
    BY <2>1, <1>4, <1>5
<1>7. QED
  BY <1>4, <1>6 DEF IsFixed

-----------------------------------------------------------------------------
(* What is appended to a text, and texts written in turn.                  *)

\* What is appended is what the last place holds.
LEMMA AppendIsInjective ==
  ASSUME NEW S, NEW s \in Seq(S), NEW t \in Seq(S), NEW x, NEW y, x \in S, y \in S, Append(s, x) = Append(t, y)
  PROVE  s = t /\ x = y
<1>1. Len(s) = Len(t)
  <2>1. Len(Append(s, x)) = Len(s) + 1 /\ Len(Append(t, y)) = Len(t) + 1
    BY AppendProperties
  <2>2. QED
    BY <2>1, LenProperties
<1>2. Append(s, x)[Len(s) + 1] = x /\ Append(t, y)[Len(t) + 1] = y
  BY AppendProperties
<1>3. \A i \in 1..Len(s) : s[i] = t[i]
  <2>1. \A i \in 1..Len(s) : Append(s, x)[i] = s[i] /\ Append(t, y)[i] = t[i]
    BY <1>1, AppendProperties
  <2>2. QED
    BY <2>1
<1>4. QED
  BY <1>1, <1>2, <1>3, SeqEqual

LEMMA AppendTells ==
  ASSUME NEW b, b \in Buffers, NEW c, c \in Buffers, NEW x, x \in Tokens, NEW y, y \in Tokens,
         Append(b, x) = Append(c, y)
  PROVE  b = c /\ x = y
  BY AppendIsInjective DEF Buffers

LEMMA AppendType ==
  ASSUME NEW b, b \in Buffers, NEW x, x \in Tokens
  PROVE  Append(b, x) \in Buffers
  BY AppendProperties DEF Buffers

\* What begins a list: anything but a comma.
Begins(open) == open \in Tokens /\ open # ","

\* A comma after a text is not what begins a list.
LEMMA CommaFacts ==
  /\ \A b \in Buffers : Comma(b) \in Buffers
  /\ \A b, c \in Buffers : Comma(b) = Comma(c) => b = c
  /\ \A b, c \in Buffers : \A open : Begins(open) => Comma(b) # Append(c, open)
<1> DEFINE comma == ","
<1>1. comma \in Tokens
  BY DEF Tokens, Punctuation
<1>2. (\A b : Comma(b) = Append(b, comma)) /\ \A open : Begins(open) => open \in Tokens /\ open # comma
  BY DEF Comma, Begins
<1> HIDE DEF comma
<1>3. \A b \in Buffers : Comma(b) \in Buffers
  BY <1>1, <1>2, AppendType
<1>4. ASSUME NEW b \in Buffers, NEW c \in Buffers, Comma(b) = Comma(c) PROVE b = c
  BY <1>1, <1>2, <1>4, AppendTells
<1>5. ASSUME NEW b \in Buffers, NEW c \in Buffers, NEW open, Begins(open), Comma(b) = Append(c, open)
      PROVE  FALSE
  <2>1. open \in Tokens /\ open # comma /\ Append(b, comma) = Append(c, open)
    BY <1>2, <1>5
  <2>2. QED
    BY <1>1, <2>1, AppendTells
<1>6. QED
  BY <1>3, <1>4, <1>5

LEMMA BeginFacts ==
  ASSUME NEW open, Begins(open)
  PROVE  /\ \A b \in Buffers : Append(b, open) \in Buffers
         /\ \A b, c \in Buffers : Append(b, open) = Append(c, open) => b = c
<1>1. open \in Tokens
  BY DEF Begins
<1>2. \A b \in Buffers : Append(b, open) \in Buffers
  BY <1>1, AppendType
<1>3. ASSUME NEW b \in Buffers, NEW c \in Buffers, Append(b, open) = Append(c, open) PROVE b = c
  BY <1>1, <1>3, AppendTells
<1>4. QED
  BY <1>2, <1>3

\* The intermediate texts of InTurn.
IsText(text, n, writers, buf) ==
    /\ text \in [0..n -> Buffers]
    /\ text[0] = buf
    /\ \A i \in 1..n :
         text[i] = IF i \in DOMAIN writers
                   THEN writers[i][IF \E j \in DOMAIN writers : j < i THEN Comma(text[i - 1]) ELSE text[i - 1]]
                   ELSE text[i - 1]

\* Writers with indices in 1..n.
Indexed(writers, n) == n \in Nat /\ writers \in [DOMAIN writers -> Writers] /\ DOMAIN writers \subseteq 1..n

\* The recursive function in InTurn exists: its values are such texts.
LEMMA InTurnText ==
  ASSUME NEW n, NEW writers, Indexed(writers, n), NEW buf, buf \in Buffers
  PROVE  \E text : IsText(text, n, writers, buf) /\ InTurn(n, writers, buf) = text[n]
<1> DEFINE Before(text, i) ==
             IF \E j \in DOMAIN writers : j < i THEN Comma(text[i - 1]) ELSE text[i - 1]
           Step(text) ==
             [i \in 0..n |->
                CASE i = 0 -> buf
                  [] i \in DOMAIN writers -> writers[i][Before(text, i)]
                  [] OTHER -> text[i - 1]]
           G == [text \in [0..n -> Buffers] |-> Step(text)]
           depth == [i \in 0..n |-> i]
           result == CHOOSE text : text = Step(text)
<1> DEFINE I == DOMAIN writers
<1>0. n \in Nat /\ I \subseteq 1..n /\ \A i \in I : \A b \in Buffers : writers[i][b] \in Buffers
  BY DEF Indexed, Writers
<1>zero. 0 \notin DOMAIN writers
  BY <1>0
<1> USE <1>0, <1>zero
<1> HIDE DEF I
<1>1. ASSUME NEW text, NEW i \in 0..n, i # 0 => text[i - 1] \in Buffers
      PROVE  Step(text)[i] \in Buffers
  <2>1. i # 0 => Before(text, i) \in Buffers
    <3>1. i # 0 => Comma(text[i - 1]) \in Buffers
      BY <1>1, CommaFacts
    <3>2. QED
      BY <1>1, <3>1
  <2> HIDE DEF Before
  <2>2. i \in I => \A b \in Buffers : writers[i][b] \in Buffers
    BY <1>0
  <2>3. QED
    BY <1>1, <2>1, <2>2 DEF I
<1>2. G \in [[0..n -> Buffers] -> [0..n -> Buffers]]
  <2>1. ASSUME NEW text \in [0..n -> Buffers]
        PROVE  Step(text) \in [0..n -> Buffers]
    <3>1. \A i \in 0..n : i # 0 => i - 1 \in 0..n
      OBVIOUS
    <3> HIDE DEF Step
    <3>2. \A i \in 0..n : Step(text)[i] \in Buffers
      BY <1>1, <3>1
    <3>3. QED
      BY <3>2 DEF Step
  <2> HIDE DEF Step
  <2>2. QED
    BY <2>1
<1>3. \E text \in [0..n -> Buffers] : text = G[text]
  <2>1. depth \in [0..n -> Nat]
    OBVIOUS
  <2>3. Buffers # {}
    BY DEF Buffers
  <2>2. Descends(0..n, Buffers, depth, G)
    <3>1. ASSUME NEW p \in [0..n -> Buffers], NEW q \in [0..n -> Buffers], NEW i \in 0..n,
                 \A j \in 0..n : depth[j] < depth[i] => p[j] = q[j]
          PROVE  Step(p)[i] = Step(q)[i]
      <4>1. i # 0 => p[i - 1] = q[i - 1]
        BY <3>1
      <4>2. i # 0 => Before(p, i) = Before(q, i)
        BY <4>1
      <4> HIDE DEF Before
      <4>3. CASE i = 0
        BY <4>3
      <4>4. CASE i # 0 /\ i \in DOMAIN writers
        BY <4>2, <4>4
      <4>5. CASE i # 0 /\ i \notin DOMAIN writers
        BY <4>1, <4>5
      <4>6. QED
        BY <4>3, <4>4, <4>5
    <3> HIDE DEF Step, depth
    <3>2. QED
      BY <1>2, <2>1, <2>3, <3>1 DEF Descends
  <2>4. \E text : IsFixed(text, 0..n, Buffers, G)
    <3> HIDE DEF depth, G
    <3> QED BY <2>2, Recursion
  <2>5. QED
    BY <2>4 DEF IsFixed
<1>4. result = Step(result)
  <2> HIDE DEF Step
  <2>1. \E text : text = Step(text)
    BY <1>3
  <2>2. QED
    BY <2>1
<1>5. InTurn(n, writers, buf) = result[n]
  BY DEF InTurn
<1> HIDE DEF result
<1>6. result \in [0..n -> Buffers]
  <2> DEFINE T == {i \in 0..n : result[i] \notin Buffers}
  <2>1. T = {}
    <3>1. SUFFICES ASSUME T # {} PROVE FALSE
      OBVIOUS
    <3>2. T \in SUBSET Nat
      OBVIOUS
    <3>3. PICK i \in T : \A j \in T : i <= j
      <4> HIDE DEF T
      <4> QED BY <3>1, <3>2, Least
    <3>4. i # 0 => result[i - 1] \in Buffers
      BY <3>3
    <3> HIDE DEF Step
    <3>5. QED
      BY <1>1, <1>4, <3>4
  <2>2. result = [i \in 0..n |-> result[i]]
    BY <1>4
  <2>3. QED
    BY <2>1, <2>2
<1>7. IsText(result, n, writers, buf)
  <2>1. \A i \in 0..n : result[i] = Step(result)[i]
    <3> HIDE DEF Step
    <3> QED BY <1>4
  <2>2. result[0] = buf
    <3>1. 0 \in 0..n
      OBVIOUS
    <3>2. Step(result)[0] = buf
      <4> HIDE DEF Before
      <4> QED BY <3>1
    <3> HIDE DEF Step
    <3>3. QED
      BY <2>1, <3>1, <3>2
  <2>3. ASSUME NEW i \in 1..n
        PROVE  result[i] = IF i \in DOMAIN writers THEN writers[i][Before(result, i)] ELSE result[i - 1]
    <3>1. i \in 0..n /\ i # 0
      OBVIOUS
    <3>2. Step(result)[i] = IF i \in DOMAIN writers THEN writers[i][Before(result, i)] ELSE result[i - 1]
      <4> HIDE DEF Before
      <4>1. CASE i \in DOMAIN writers
        BY <3>1, <4>1
      <4>2. CASE i \notin DOMAIN writers
        BY <3>1, <4>2
      <4>3. QED
        BY <4>1, <4>2
    <3> HIDE DEF Before, Step
    <3>3. QED
      BY <2>1, <3>1, <3>2
  <2>4. QED
    BY <1>6, <2>2, <2>3 DEF IsText
<1>8. QED
  BY <1>5, <1>7

\* The writers up to i and those up to j write the same, one for one: Same relates
\* those that do.
Match(I, J, i, j, Same) ==
    /\ \A k \in I : k <= i => \E l \in J : l <= j /\ <<k, l>> \in Same
    /\ \A l \in J : l <= j => \E k \in I : k <= i /\ <<k, l>> \in Same
    /\ 1..i \subseteq I /\ 1..j \subseteq J => i = j /\ \A k \in 1..i : <<k, k>> \in Same

\* Until the first writer, nothing is written.
LEMMA NothingWritten ==
  ASSUME NEW n \in Nat, NEW writers, NEW buf, NEW text, IsText(text, n, writers, buf),
         NEW i \in 0..n, \A j \in DOMAIN writers : ~(j <= i)
  PROVE  text[i] = buf
<1> DEFINE T == {k \in 0..i : text[k] # buf}
<1>1. SUFFICES ASSUME T # {} PROVE FALSE
  OBVIOUS
<1>2. PICK k \in T : \A j \in T : k <= j
  <2>1. T \in SUBSET Nat
    OBVIOUS
  <2> HIDE DEF T
  <2>2. QED
    BY <1>1, <2>1, Least
<1>3. k # 0 /\ k \in 1..n /\ k - 1 \in 0..i /\ k \notin DOMAIN writers
  <2>1. k # 0
    BY <1>2 DEF IsText
  <2>2. QED
    BY <1>2, <2>1
<1>4. text[k] = text[k - 1] /\ k - 1 \notin T
  <2>1. text[k] = text[k - 1]
    BY <1>3 DEF IsText
  <2>2. ~(k <= k - 1)
    BY <1>3
  <2>3. QED
    BY <1>2, <2>1, <2>2
<1>5. k - 1 \in T
  BY <1>2, <1>3, <1>4
<1>6. QED
  BY <1>4, <1>5

\* Nothing that a comma or a bracket follows is mistaken: writers that can be told
\* from what they write can be told when they write in turn.
Apart(f, g, Same) ==
    \A i \in DOMAIN f, j \in DOMAIN g, x, y \in Buffers : f[i][x] = g[j][y] => <<i, j>> \in Same /\ x = y

NeverWrites(writer, token) == \A x, y \in Buffers : writer[x] # Append(y, token)
NeverEnds(f, token) == \A i \in DOMAIN f : NeverWrites(f[i], token)

LEMMA InTurnIsInjective ==
  ASSUME NEW m, NEW f, Indexed(f, m), NEW b, b \in Buffers,
         NEW n, NEW g, Indexed(g, n), NEW c, c \in Buffers,
         NEW open, Begins(open), NEW Same,
         Apart(f, g, Same), NeverEnds(f, open), NeverEnds(g, open),
         InTurn(m, f, Append(b, open)) = InTurn(n, g, Append(c, open))
  PROVE  b = c /\ Match(DOMAIN f, DOMAIN g, m, n, Same)
<1> DEFINE I == DOMAIN f
           J == DOMAIN g
           s == Append(b, open)
           t == Append(c, open)
<1>0. /\ m \in Nat /\ I \subseteq 1..m
      /\ n \in Nat /\ J \subseteq 1..n
  BY DEF Indexed
<1>2. s \in Buffers /\ t \in Buffers
  BY BeginFacts
<1> HIDE DEF I, J
<1> USE <1>0
<1> HIDE DEF s, t
<1>3. PICK tf : IsText(tf, m, f, s) /\ InTurn(m, f, s) = tf[m]
  BY <1>2, InTurnText
<1>4. PICK tg : IsText(tg, n, g, t) /\ InTurn(n, g, t) = tg[n]
  BY <1>2, InTurnText
<1> DEFINE Good(i, j) == b = c /\ Match(I, J, i, j, Same)
           Bad == {k \in Nat : \E i \in 0..m, j \in 0..n : i + j = k /\ tf[i] = tg[j] /\ ~Good(i, j)}
<1>5. SUFFICES ASSUME Bad # {} PROVE FALSE
  <2>1. m \in 0..m /\ n \in 0..n /\ m + n \in Nat
    OBVIOUS
  <2>2. tf[m] = tg[n]
    BY <1>3, <1>4 DEF s, t
  <2>3. CASE Good(m, n)
    BY <2>3 DEF I, J
  <2>4. CASE ~Good(m, n)
    <3>1. m + n \in Bad
      <4> HIDE DEF Good
      <4> QED BY <2>1, <2>2, <2>4
    <3> HIDE DEF Bad
    <3>2. QED
      BY <3>1
  <2>5. QED
    BY <2>3, <2>4
<1>6. PICK least \in Bad : \A k \in Bad : least <= k
  <2>1. Bad \in SUBSET Nat
    OBVIOUS
  <2> HIDE DEF Bad
  <2>2. QED
    BY <1>5, <2>1, Least
<1>7. PICK i \in 0..m, j \in 0..n : i + j = least /\ tf[i] = tg[j] /\ ~Good(i, j)
  BY <1>6
<1>8. ASSUME NEW k \in 0..m, NEW l \in 0..n, k + l < i + j, tf[k] = tg[l]
      PROVE  Good(k, l)
  <2>1. k + l \in Nat /\ ~(least <= k + l)
    BY <1>7, <1>8
  <2>2. k + l \notin Bad
    <3> HIDE DEF Bad
    <3> QED BY <1>6, <2>1
  <2> HIDE DEF Good
  <2>3. QED
    BY <1>8, <2>1, <2>2
<1> HIDE DEF Bad
<1>9. /\ \A k \in 0..m : tf[k] \in Buffers
      /\ \A k \in 0..n : tg[k] \in Buffers
  BY <1>3, <1>4 DEF IsText, I, J
<1>10. CASE i > 0 /\ i \notin I
  <2>1. i - 1 \in 0..m /\ tf[i] = tf[i - 1]
    BY <1>10, <1>3, <1>9 DEF IsText, I, J
  <2>2. Good(i - 1, j)
    <3>1. (i - 1) + j < i + j
      BY <1>10
    <3> HIDE DEF Good
    <3>2. QED
      BY <2>1, <3>1, <1>7, <1>8
  <2>3. (\A k \in I : k <= i => k <= i - 1) /\ (\A k \in I : k <= i - 1 => k <= i) /\ ~(1..i \subseteq I)
    BY <1>10
  <2>4. Good(i, j)
    BY <2>2, <2>3 DEF Match
  <2>5. QED
    BY <2>4, <1>7
<1>11. CASE j > 0 /\ j \notin J
  <2>1. j - 1 \in 0..n /\ tg[j] = tg[j - 1]
    BY <1>11, <1>4, <1>9 DEF IsText, I, J
  <2>2. Good(i, j - 1)
    <3>1. i + (j - 1) < i + j
      BY <1>11
    <3> HIDE DEF Good
    <3>2. QED
      BY <2>1, <3>1, <1>7, <1>8
  <2>3. (\A k \in J : k <= j => k <= j - 1) /\ (\A k \in J : k <= j - 1 => k <= j) /\ ~(1..j \subseteq J)
    BY <1>11
  <2>4. Good(i, j)
    BY <2>2, <2>3 DEF Match
  <2>5. QED
    BY <2>4, <1>7
<1> DEFINE Before(text, ws, k, first) == IF \E l \in ws : l < k THEN Comma(text[k - 1]) ELSE first
<1>12. ASSUME i \in I
       PROVE  tf[i] = f[i][Before(tf, I, i, s)] /\ Before(tf, I, i, s) \in Buffers
  <2>1. i - 1 \in 0..m /\ i \in 1..m
    BY <1>12
  <2>2. CASE \E l \in I : l < i
    <3>1. Comma(tf[i - 1]) \in Buffers
      BY <2>1, <1>9, CommaFacts
    <3>2. QED
      BY <1>3, <1>9, <1>12, <2>1, <2>2, <3>1 DEF IsText, I, J
  <2>3. CASE ~(\E l \in I : l < i)
    <3>1. \A l \in I : ~(l <= i - 1)
      BY <2>3
    <3>2. tf[i - 1] = s
      BY <1>2, <1>3, <2>1, <3>1, NothingWritten DEF I, J
    <3>3. QED
      BY <1>2, <1>3, <1>9, <1>12, <2>1, <2>3, <3>2 DEF IsText, I, J
  <2>4. QED
    BY <2>2, <2>3
<1>13. ASSUME j \in J
       PROVE  tg[j] = g[j][Before(tg, J, j, t)] /\ Before(tg, J, j, t) \in Buffers
  <2>1. j - 1 \in 0..n /\ j \in 1..n
    BY <1>13
  <2>2. CASE \E l \in J : l < j
    <3>1. Comma(tg[j - 1]) \in Buffers
      BY <2>1, <1>9, CommaFacts
    <3>2. QED
      BY <1>4, <1>9, <1>13, <2>1, <2>2, <3>1 DEF IsText, I, J
  <2>3. CASE ~(\E l \in J : l < j)
    <3>1. \A l \in J : ~(l <= j - 1)
      BY <2>3
    <3>2. tg[j - 1] = t
      BY <1>2, <1>4, <2>1, <3>1, NothingWritten DEF I, J
    <3>3. QED
      BY <1>2, <1>4, <1>9, <1>13, <2>1, <2>3, <3>2 DEF IsText, I, J
  <2>4. QED
    BY <2>2, <2>3
<1>14. (i = 0 => tf[i] = s) /\ (j = 0 => tg[j] = t)
  BY <1>3, <1>4 DEF IsText, I, J
<1>15. CASE i = 0 /\ j = 0
  <2>1. b = c
    BY <1>7, <1>14, <1>15, BeginFacts DEF s, t
  <2>2. Match(I, J, 0, 0, Same)
    BY DEF Match
  <2>3. QED
    BY <1>7, <1>15, <2>1, <2>2
<1>16. CASE i \in I /\ j = 0
  <2>1. f[i][Before(tf, I, i, s)] = Append(c, open)
    BY <1>7, <1>12, <1>14, <1>16 DEF t
  <2> HIDE DEF Before
  <2>2. QED
    BY <2>1, <1>12, <1>16 DEF NeverEnds, NeverWrites, I
<1>17. CASE i = 0 /\ j \in J
  <2>1. g[j][Before(tg, J, j, t)] = Append(b, open)
    BY <1>7, <1>13, <1>14, <1>17 DEF s
  <2> HIDE DEF Before
  <2>2. QED
    BY <2>1, <1>13, <1>17 DEF NeverEnds, NeverWrites, J
<1>18. CASE i \in I /\ j \in J
  <2>1. <<i, j>> \in Same /\ Before(tf, I, i, s) = Before(tg, J, j, t)
    <3> HIDE DEF Before
    <3> QED BY <1>7, <1>12, <1>13, <1>18 DEF Apart, I, J
  <2>2. i - 1 \in 0..m /\ j - 1 \in 0..n
    BY <1>18
  <2>3. CASE (\E l \in I : l < i) /\ (\E l \in J : l < j)
    <3>1. Comma(tf[i - 1]) = Comma(tg[j - 1])
      BY <2>1, <2>3
    <3>2. tf[i - 1] = tg[j - 1]
      BY <1>9, <2>2, <3>1, CommaFacts
    <3>3. Good(i - 1, j - 1)
      BY <1>8, <2>2, <3>2
    <3>4. Match(I, J, i, j, Same)
      <4>1. Match(I, J, i - 1, j - 1, Same)
        BY <3>3
      <4>2. /\ \A k \in I : k <= i => k = i \/ k <= i - 1
            /\ \A k \in J : k <= j => k = j \/ k <= j - 1
            /\ \A k \in I : k <= i - 1 => k <= i
            /\ \A k \in J : k <= j - 1 => k <= j
        OBVIOUS
      <4>3. \A k \in I : k <= i => \E l \in J : l <= j /\ <<k, l>> \in Same
        BY <1>18, <2>1, <4>1, <4>2 DEF Match
      <4>4. \A l \in J : l <= j => \E k \in I : k <= i /\ <<k, l>> \in Same
        BY <1>18, <2>1, <4>1, <4>2 DEF Match
      <4>5. ASSUME 1..i \subseteq I, 1..j \subseteq J
            PROVE  i = j /\ \A k \in 1..i : <<k, k>> \in Same
        <5>1. 1..(i - 1) \subseteq I /\ 1..(j - 1) \subseteq J
          BY <4>5
        <5>2. i - 1 = j - 1 /\ \A k \in 1..(i - 1) : <<k, k>> \in Same
          BY <4>1, <5>1 DEF Match
        <5>3. i = j
          BY <5>2
        <5>4. \A k \in 1..i : k = i \/ k \in 1..(i - 1)
          OBVIOUS
        <5>5. QED
          BY <2>1, <5>2, <5>3, <5>4
      <4>6. QED
        BY <4>3, <4>4, <4>5 DEF Match
    <3>5. QED
      BY <1>7, <3>3, <3>4
  <2>4. CASE ~(\E l \in I : l < i) /\ ~(\E l \in J : l < j)
    <3>1. s = t
      BY <2>1, <2>4
    <3>2. b = c
      BY <3>1, BeginFacts DEF s, t
    <3>3. Match(I, J, i, j, Same)
      <4>1. (\A k \in I : k <= i => k = i) /\ (\A k \in J : k <= j => k = j)
        BY <1>18, <2>4
      <4>2. (1..i \subseteq I => i = 1) /\ (1..j \subseteq J => j = 1)
        <5>1. (1..i \subseteq I => 1 \in I) /\ (1..j \subseteq J => 1 \in J)
          BY <1>18
        <5>2. QED
          BY <1>18, <5>1, <4>1
      <4>3. \A k \in 1..1 : k = 1
        OBVIOUS
      <4>4. QED
        BY <1>18, <2>1, <4>1, <4>2, <4>3 DEF Match
    <3>4. QED
      BY <1>7, <3>2, <3>3
  <2>5. CASE (\E l \in I : l < i) /\ ~(\E l \in J : l < j)
    <3>1. Comma(tf[i - 1]) = Append(c, open)
      BY <2>1, <2>5 DEF t
    <3>2. QED
      BY <1>9, <2>2, <3>1, CommaFacts
  <2>6. CASE ~(\E l \in I : l < i) /\ (\E l \in J : l < j)
    <3>1. Comma(tg[j - 1]) = Append(b, open)
      BY <2>1, <2>6 DEF s
    <3>2. QED
      BY <1>9, <2>2, <3>1, CommaFacts
  <2>7. QED
    BY <2>3, <2>4, <2>5, <2>6
<1>19. QED
  BY <1>10, <1>11, <1>15, <1>16, <1>17, <1>18

-----------------------------------------------------------------------------
(* canonicalJSON.                                                          *)

LEMMA InTurnType ==
  ASSUME NEW n, NEW writers, Indexed(writers, n), NEW buf, buf \in Buffers
  PROVE  InTurn(n, writers, buf) \in Buffers
<1>1. n \in Nat
  BY DEF Indexed
<1>2. PICK text : IsText(text, n, writers, buf) /\ InTurn(n, writers, buf) = text[n]
  BY InTurnText
<1>3. QED
  BY <1>1, <1>2 DEF IsText

\* How each kind of value is written.
ArrayText(write, items, b) ==
    Append(InTurn(Len(items), Items(write, items), Append(b, "[")), "]")

ObjectText(write, object, keys, b) ==
    Append(InTurn(Len(keys), Fields(write, object, keys), Append(b, "{")), "}")

LEMMA WrittenString ==
  ASSUME NEW write, NEW v, NEW keys, NEW b, IsString(v)
  PROVE  Written(write, v, keys, b) = Quote(b, v[2])
  BY DEF Written, IsString

LEMMA WrittenScalar ==
  ASSUME NEW write, NEW v, NEW keys, NEW b, IsScalar(v)
  PROVE  Written(write, v, keys, b) = Append(b, v[2])
  BY DEF Written, IsScalar

LEMMA WrittenArray ==
  ASSUME NEW write, NEW v, NEW keys, NEW b, IsArray(v)
  PROVE  Written(write, v, keys, b) = ArrayText(write, v[2], b)
  BY DEF Written, IsArray, ArrayText

LEMMA WrittenObject ==
  ASSUME NEW write, NEW v, NEW keys, NEW b, IsObject(v)
  PROVE  Written(write, v, keys, b) = ObjectText(write, v[2], keys, b)
  BY DEF Written, IsObject, ObjectText

\* write is what it must be for the components of v.
Writes(write, v) == \A u \in Below(v) : write[u] \in Writers

LEMMA QuoteType ==
  ASSUME NEW b, b \in Buffers, NEW s, s \in Texts
  PROVE  Quote(b, s) \in Buffers
<1>1. "'" \in Tokens /\ s \in Tokens
  BY DEF Tokens, Punctuation
<1>2. Append(b, "'") \in Buffers
  BY <1>1, AppendType
<1>3. Append(Append(b, "'"), s) \in Buffers
  BY <1>1, <1>2, AppendType
<1>4. QED
  BY <1>1, <1>3, AppendType DEF Quote

LEMMA ItemsIndexed ==
  ASSUME NEW write, NEW v, Writes(write, v), IsArray(v)
  PROVE  /\ Indexed(Items(write, v[2]), Len(v[2]))
         /\ DOMAIN Items(write, v[2]) = 1..Len(v[2])
         /\ \A i \in 1..Len(v[2]) : v[2][i] \in Below(v) /\ Items(write, v[2])[i] = write[v[2][i]]
<1>1. v[2] \in Seq(Below(v))
  BY DEF IsArray
<1>2. Len(v[2]) \in Nat /\ \A i \in 1..Len(v[2]) : v[2][i] \in Below(v)
  BY <1>1, LenProperties
<1>3. \A i \in 1..Len(v[2]) : write[v[2][i]] \in Writers
  BY <1>2 DEF Writes
<1>4. QED
  BY <1>2, <1>3 DEF Items, Indexed

LEMMA FieldType ==
  ASSUME NEW write, NEW k, k \in Texts, NEW u, write[u] \in Writers
  PROVE  /\ Field(write, k, u) \in Writers
         /\ \A b \in Buffers : /\ Append(Quote(b, k), ":") \in Buffers
                               /\ Field(write, k, u)[b] = write[u][Append(Quote(b, k), ":")]
<1>1. ":" \in Tokens
  BY DEF Tokens, Punctuation
<1>2. \A b \in Buffers : Append(Quote(b, k), ":") \in Buffers
  BY <1>1, QuoteType, AppendType
<1>3. QED
  BY <1>2 DEF Field, Writers

LEMMA FieldsIndexed ==
  ASSUME NEW write, NEW v, Writes(write, v), IsObject(v), NEW keys, keys \in Seq(Texts)
  PROVE  /\ Indexed(Fields(write, v[2], keys), Len(keys))
         /\ DOMAIN Fields(write, v[2], keys) = Present(v[2], keys)
         /\ \A i \in Present(v[2], keys) :
              /\ v[2][keys[i]] \in Below(v) /\ keys[i] \in Texts
              /\ Fields(write, v[2], keys)[i] = Field(write, keys[i], v[2][keys[i]])
<1>1. \A k \in DOMAIN v[2] : v[2][k] \in Below(v)
  BY DEF IsObject
<1>2. Len(keys) \in Nat /\ \A i \in 1..Len(keys) : keys[i] \in Texts
  BY LenProperties
<1>3. /\ Present(v[2], keys) \subseteq 1..Len(keys)
      /\ \A i \in Present(v[2], keys) : keys[i] \in Texts /\ v[2][keys[i]] \in Below(v)
  BY <1>1, <1>2 DEF Present
<1>4. \A i \in Present(v[2], keys) : Field(write, keys[i], v[2][keys[i]]) \in Writers
  BY <1>3, FieldType DEF Writes
<1>5. QED
  BY <1>2, <1>3, <1>4 DEF Fields, Indexed

LEMMA WrittenType ==
  ASSUME NEW write, NEW v \in Values, Writes(write, v), NEW keys, keys \in Seq(Texts), NEW b, b \in Buffers
  PROVE  Written(write, v, keys, b) \in Buffers
<1>1. {"[", "]", "{", "}"} \subseteq Tokens
  BY DEF Tokens, Punctuation
<1>2. IsString(v) \/ IsScalar(v) \/ IsArray(v) \/ IsObject(v)
  BY ValuesAssumption DEF IsValue
<1>3. CASE IsString(v)
  BY <1>3, WrittenString, QuoteType DEF IsString
<1>4. CASE IsScalar(v)
  <2>1. v[2] \in Tokens
    BY <1>4 DEF IsScalar, Tokens
  <2>2. QED
    BY <1>4, <2>1, WrittenScalar, AppendType
<1>5. CASE IsArray(v)
  <2>1. Append(b, "[") \in Buffers
    BY <1>1, AppendType
  <2>2. InTurn(Len(v[2]), Items(write, v[2]), Append(b, "[")) \in Buffers
    BY <1>5, <2>1, ItemsIndexed, InTurnType
  <2>3. ArrayText(write, v[2], b) \in Buffers
    BY <1>1, <2>2, AppendType DEF ArrayText
  <2>4. QED
    BY <1>5, <2>3, WrittenArray
<1>6. CASE IsObject(v)
  <2>1. Append(b, "{") \in Buffers
    BY <1>1, AppendType
  <2>2. InTurn(Len(keys), Fields(write, v[2], keys), Append(b, "{")) \in Buffers
    BY <1>6, <2>1, FieldsIndexed, InTurnType
  <2>3. ObjectText(write, v[2], keys, b) \in Buffers
    BY <1>1, <2>2, AppendType DEF ObjectText
  <2>4. QED
    BY <1>6, <2>3, WrittenObject
<1>7. QED
  BY <1>2, <1>3, <1>4, <1>5, <1>6

\* What is written depends on how the components are written, and on nothing else.
LEMMA WrittenLocal ==
  ASSUME NEW p, NEW q, NEW v \in Values, NEW keys, keys \in Seq(Texts), NEW b,
         \A u \in Below(v) : p[u] = q[u]
  PROVE  Written(p, v, keys, b) = Written(q, v, keys, b)
<1>1. IsString(v) \/ IsScalar(v) \/ IsArray(v) \/ IsObject(v)
  BY ValuesAssumption DEF IsValue
<1>2. CASE IsString(v) \/ IsScalar(v)
  BY <1>2, WrittenString, WrittenScalar
<1>3. CASE IsArray(v)
  <2>1. v[2] \in Seq(Below(v))
    BY <1>3 DEF IsArray
  <2>2. \A i \in 1..Len(v[2]) : v[2][i] \in Below(v)
    BY <2>1, LenProperties
  <2>3. Items(p, v[2]) = Items(q, v[2])
    BY <2>2 DEF Items
  <2>4. ArrayText(p, v[2], b) = ArrayText(q, v[2], b)
    BY <2>3 DEF ArrayText
  <2>5. QED
    BY <1>3, <2>4, WrittenArray
<1>4. CASE IsObject(v)
  <2>1. \A k \in DOMAIN v[2] : v[2][k] \in Below(v)
    BY <1>4 DEF IsObject
  <2>2. \A k \in DOMAIN v[2] : Field(p, k, v[2][k]) = Field(q, k, v[2][k])
    BY <2>1 DEF Field
  <2>3. Fields(p, v[2], keys) = Fields(q, v[2], keys)
    BY <2>2 DEF Fields, Present
  <2>4. ObjectText(p, v[2], keys, b) = ObjectText(q, v[2], keys, b)
    BY <2>3 DEF ObjectText
  <2>5. QED
    BY <1>4, <2>4, WrittenObject
<1>5. QED
  BY <1>1, <1>2, <1>3, <1>4

\* The recursive function in canonicalJSON exists: every value is written, by Written.
LEMMA CanonicalJSON ==
  ASSUME NEW keys, keys \in Seq(Texts)
  PROVE  /\ canonicalJSON(keys) \in [Values -> Writers]
         /\ \A v \in Values, b \in Buffers :
              canonicalJSON(keys)[v][b] = Written(canonicalJSON(keys), v, keys, b)
<1> DEFINE Step(write) == [value \in Values |-> [buf \in Buffers |-> Written(write, value, keys, buf)]]
           G == [write \in [Values -> Writers] |-> Step(write)]
           result == CHOOSE write : write = Step(write)
<1>1. G \in [[Values -> Writers] -> [Values -> Writers]]
  <2>1. \A write \in [Values -> Writers], v \in Values : Writes(write, v)
    BY DEF Writes, Below
  <2>2. \A write \in [Values -> Writers], v \in Values, b \in Buffers : Written(write, v, keys, b) \in Buffers
    BY <2>1, WrittenType
  <2>3. \A write \in [Values -> Writers] : Step(write) \in [Values -> Writers]
    BY <2>2 DEF Writers
  <2> HIDE DEF Step
  <2>4. QED
    BY <2>3
<1>2. Descends(Values, Writers, Depth, G)
  <2>1. ASSUME NEW p \in [Values -> Writers], NEW q \in [Values -> Writers], NEW v \in Values,
               \A u \in Values : Depth[u] < Depth[v] => p[u] = q[u]
        PROVE  G[p][v] = G[q][v]
    <3>1. \A u \in Below(v) : p[u] = q[u]
      BY <2>1 DEF Below
    <3>2. \A b : Written(p, v, keys, b) = Written(q, v, keys, b)
      BY <3>1, WrittenLocal
    <3>3. Step(p)[v] = Step(q)[v]
      BY <3>2
    <3> HIDE DEF Step
    <3>4. QED
      BY <3>3
  <2>2. [b \in Buffers |-> b] \in Writers
    BY DEF Writers
  <2> HIDE DEF G
  <2>3. QED
    BY <1>1, <2>1, <2>2, ValuesAssumption DEF Descends
<1>3. \E write : IsFixed(write, Values, Writers, G)
  <2> HIDE DEF G
  <2> QED BY <1>2, Recursion
<1>4. result = Step(result)
  <2>1. \E write : write = Step(write)
    <3> HIDE DEF Step
    <3> QED BY <1>3 DEF IsFixed
  <2> HIDE DEF Step
  <2>2. QED
    BY <2>1
<1>5. canonicalJSON(keys) = result
  BY DEF canonicalJSON
<1> HIDE DEF result
<1>6. \A v \in Values : result[v] \in Writers
  <2> DEFINE T == {v \in Values : result[v] \notin Writers}
  <2>1. SUFFICES ASSUME T # {} PROVE FALSE
    OBVIOUS
  <2>2. PICK v \in T : \A u \in Values : Depth[u] < Depth[v] => u \notin T
    <3>1. T \in SUBSET Values /\ Depth \in [Values -> Nat]
      BY ValuesAssumption
    <3> HIDE DEF T
    <3>2. QED
      BY <2>1, <3>1, Shallowest
  <2>3. Writes(result, v)
    BY <2>2 DEF Writes, Below
  <2>4. \A b \in Buffers : Written(result, v, keys, b) \in Buffers
    BY <2>3, WrittenType
  <2>5. Step(result)[v] \in Writers
    BY <2>4 DEF Writers
  <2> HIDE DEF Step
  <2>6. QED
    BY <1>4, <2>5
<1>7. result \in [Values -> Writers]
  <2>1. result = [v \in Values |-> result[v]]
    BY <1>4
  <2>2. QED
    BY <1>6, <2>1
<1>8. ASSUME NEW v \in Values, NEW b \in Buffers
      PROVE  result[v][b] = Written(result, v, keys, b)
  <2>1. Step(result)[v][b] = Written(result, v, keys, b)
    OBVIOUS
  <2> HIDE DEF Step
  <2>2. QED
    BY <1>4, <2>1
<1>9. QED
  BY <1>5, <1>7, <1>8

-----------------------------------------------------------------------------
(* No two values are written alike.                                        *)

W == canonicalJSON(FieldOrder)

LEMMA WFacts ==
  /\ W \in [Values -> Writers]
  /\ \A v \in Values : Writes(W, v)
  /\ \A v \in Values, b \in Buffers : W[v][b] = Written(W, v, FieldOrder, b) /\ W[v][b] \in Buffers
<1>1. /\ W \in [Values -> Writers]
      /\ \A v \in Values, b \in Buffers : W[v][b] = Written(W, v, FieldOrder, b)
  BY FieldOrderAssumption, CanonicalJSON DEF W
<1>2. \A v \in Values : Writes(W, v)
  BY <1>1 DEF Writes, Below
<1>3. \A v \in Values, b \in Buffers : W[v][b] \in Buffers
  BY <1>1 DEF Writers
<1>4. QED
  BY <1>1, <1>2, <1>3

\* The last token of a value tells its kind.
Ending(v) ==
    IF v[1] = "string" THEN "'" ELSE IF v[1] = "array" THEN "]" ELSE IF v[1] = "object" THEN "}" ELSE v[2]

LEMMA EndingTells ==
  ASSUME NEW v \in Values
  PROVE  /\ Ending(v) \in Tokens /\ Ending(v) # "[" /\ Ending(v) # "{"
         /\ \A w \in Values :
              Ending(v) = Ending(w) =>
                \/ IsString(v) /\ IsString(w)
                \/ IsScalar(v) /\ IsScalar(w) /\ v[2] = w[2]
                \/ IsArray(v) /\ IsArray(w)
                \/ IsObject(v) /\ IsObject(w)
<1>1. \A u \in Values : IsString(u) \/ IsScalar(u) \/ IsArray(u) \/ IsObject(u)
  BY ValuesAssumption DEF IsValue
<1>2. \A u \in Values :
        /\ IsString(u) => Ending(u) = "'"
        /\ IsScalar(u) => Ending(u) = u[2] /\ u[2] \in Texts /\ u[2] \notin Punctuation
        /\ IsArray(u) => Ending(u) = "]"
        /\ IsObject(u) => Ending(u) = "}"
  BY DEF Ending, IsString, IsScalar, IsArray, IsObject
<1>3. \A u \in Values : IsScalar(u) => u[2] \notin {"'", "[", "]", "{", "}"}
  BY DEF IsScalar, Punctuation
<1>4. Ending(v) \in Tokens
  BY <1>1, <1>2 DEF Tokens, Punctuation
<1>5. Ending(v) # "[" /\ Ending(v) # "{"
  BY <1>1, <1>2, <1>3
<1>6. ASSUME NEW w \in Values, Ending(v) = Ending(w)
      PROVE  \/ IsString(v) /\ IsString(w)
             \/ IsScalar(v) /\ IsScalar(w) /\ v[2] = w[2]
             \/ IsArray(v) /\ IsArray(w)
             \/ IsObject(v) /\ IsObject(w)
  <2>1. CASE IsString(v)
    BY <1>1, <1>2, <1>3, <1>6, <2>1
  <2>2. CASE IsScalar(v)
    BY <1>1, <1>2, <1>3, <1>6, <2>2
  <2>3. CASE IsArray(v)
    BY <1>1, <1>2, <1>3, <1>6, <2>3
  <2>4. CASE IsObject(v)
    BY <1>1, <1>2, <1>3, <1>6, <2>4
  <2>5. QED
    BY <1>1, <2>1, <2>2, <2>3, <2>4
<1>7. QED
  BY <1>4, <1>5, <1>6

LEMMA WEnds ==
  ASSUME NEW v \in Values, NEW b \in Buffers
  PROVE  \E x \in Buffers : W[v][b] = Append(x, Ending(v))
<1>1. {"'", "[", "]", "{", "}"} \subseteq Tokens
  BY DEF Tokens, Punctuation
<1>2. W[v][b] = Written(W, v, FieldOrder, b) /\ Writes(W, v)
  BY WFacts
<1>3. IsString(v) \/ IsScalar(v) \/ IsArray(v) \/ IsObject(v)
  BY ValuesAssumption DEF IsValue
<1>4. CASE IsString(v)
  <2>1. Append(b, "'") \in Buffers
    BY <1>1, AppendType
  <2>2. v[2] \in Tokens
    BY <1>4 DEF IsString, Tokens
  <2>3. Append(Append(b, "'"), v[2]) \in Buffers
    BY <2>1, <2>2, AppendType
  <2>4. Ending(v) = "'"
    BY <1>4 DEF Ending, IsString
  <2>5. W[v][b] = Quote(b, v[2])
    BY <1>2, <1>4, WrittenString
  <2>6. QED
    BY <2>3, <2>4, <2>5 DEF Quote
<1>5. CASE IsScalar(v)
  <2>1. Ending(v) = v[2]
    BY <1>5 DEF Ending, IsScalar
  <2>2. QED
    BY <1>2, <1>5, <2>1, WrittenScalar
<1>6. CASE IsArray(v)
  <2>1. Append(b, "[") \in Buffers
    BY <1>1, AppendType
  <2>2. InTurn(Len(v[2]), Items(W, v[2]), Append(b, "[")) \in Buffers
    BY <1>2, <1>6, <2>1, ItemsIndexed, InTurnType
  <2>3. Ending(v) = "]"
    BY <1>6 DEF Ending, IsArray
  <2>4. W[v][b] = ArrayText(W, v[2], b)
    BY <1>2, <1>6, WrittenArray
  <2>5. QED
    BY <2>2, <2>3, <2>4 DEF ArrayText
<1>7. CASE IsObject(v)
  <2>1. Append(b, "{") \in Buffers
    BY <1>1, AppendType
  <2>2. InTurn(Len(FieldOrder), Fields(W, v[2], FieldOrder), Append(b, "{")) \in Buffers
    BY <1>2, <1>7, <2>1, FieldOrderAssumption, FieldsIndexed, InTurnType
  <2>3. Ending(v) = "}"
    BY <1>7 DEF Ending, IsObject
  <2>4. W[v][b] = ObjectText(W, v[2], FieldOrder, b)
    BY <1>2, <1>7, WrittenObject
  <2>5. QED
    BY <2>2, <2>3, <2>4 DEF ObjectText
<1>8. QED
  BY <1>3, <1>4, <1>5, <1>6, <1>7

\* Whatever follows, a value can be told from what is written before it.
Told(u) == \A w \in Values, b, c \in Buffers : W[u][b] = W[w][c] => u = w /\ b = c

LEMMA QuoteIsInjective ==
  ASSUME NEW b \in Buffers, NEW c \in Buffers, NEW s \in Texts, NEW t \in Texts, Quote(b, s) = Quote(c, t)
  PROVE  b = c /\ s = t
<1> DEFINE quote == "'"
<1>1. quote \in Tokens /\ s \in Tokens /\ t \in Tokens
  BY DEF Tokens, Punctuation
<1> DEFINE b1 == Append(b, quote)
           c1 == Append(c, quote)
           b2 == Append(b1, s)
           c2 == Append(c1, t)
<1>2. Append(b2, quote) = Append(c2, quote)
  BY DEF Quote
<1> HIDE DEF quote
<1>3. b1 \in Buffers /\ c1 \in Buffers
  BY <1>1, AppendType
<1> HIDE DEF b1, c1
<1>4. b2 \in Buffers /\ c2 \in Buffers
  BY <1>1, <1>3, AppendType
<1> HIDE DEF b2, c2
<1>5. b2 = c2
  BY <1>1, <1>2, <1>4, AppendTells
<1>6. b1 = c1 /\ s = t
  BY <1>1, <1>3, <1>5, AppendTells DEF b2, c2
<1>7. QED
  BY <1>1, <1>6, AppendTells DEF b1, c1

LEMMA NeverEndsIn ==
  ASSUME NEW open, open \in {"[", "{"}
  PROVE  /\ Begins(open)
         /\ \A v \in Values : NeverWrites(W[v], open)
<1>1. Begins(open)
  BY DEF Begins, Tokens, Punctuation
<1>2. ASSUME NEW v \in Values, NEW x \in Buffers, NEW y \in Buffers, W[v][x] = Append(y, open)
      PROVE  FALSE
  <2>1. PICK z \in Buffers : Append(z, Ending(v)) = Append(y, open)
    BY <1>2, WEnds
  <2>2. Ending(v) \in Tokens /\ open \in Tokens
    BY <1>1, EndingTells DEF Begins
  <2>3. Ending(v) = open
    BY <2>1, <2>2, AppendTells
  <2>4. QED
    BY <2>3, EndingTells
<1>3. QED
  BY <1>1, <1>2 DEF NeverWrites

\* Arrays, then objects, whose components can be told apart can be told apart.
LEMMA ArraysDiffer ==
  ASSUME NEW v \in Values, NEW w \in Values, IsArray(v), IsArray(w), \A u \in Below(v) : Told(u),
         NEW b \in Buffers, NEW c \in Buffers, ArrayText(W, v[2], b) = ArrayText(W, w[2], c)
  PROVE  v[2] = w[2] /\ b = c
<1> DEFINE f == Items(W, v[2])
           g == Items(W, w[2])
           m == Len(v[2])
           n == Len(w[2])
           Same == {p \in (1..m) \X (1..n) : v[2][p[1]] = w[2][p[2]]}
           open == "["
<1>1. /\ Indexed(f, m) /\ DOMAIN f = 1..m
      /\ \A i \in 1..m : v[2][i] \in Below(v) /\ f[i] = W[v[2][i]]
  BY WFacts, ItemsIndexed
<1>2. /\ Indexed(g, n) /\ DOMAIN g = 1..n
      /\ \A i \in 1..n : w[2][i] \in Below(w) /\ g[i] = W[w[2][i]]
  BY WFacts, ItemsIndexed
<1>3. Begins(open) /\ \A u \in Values : NeverWrites(W[u], open)
  BY NeverEndsIn
<1>4. /\ InTurn(m, f, Append(b, open)) = InTurn(n, g, Append(c, open))
  <2>1. "]" \in Tokens /\ Append(b, open) \in Buffers /\ Append(c, open) \in Buffers
    BY <1>3, BeginFacts DEF Tokens, Punctuation
  <2>2. InTurn(m, f, Append(b, open)) \in Buffers /\ InTurn(n, g, Append(c, open)) \in Buffers
    BY <1>1, <1>2, <2>1, InTurnType
  <2>3. Append(InTurn(m, f, Append(b, open)), "]") = Append(InTurn(n, g, Append(c, open)), "]")
    BY DEF ArrayText
  <2> HIDE DEF f, g, m, n, open
  <2>4. QED
    BY <2>1, <2>2, <2>3, AppendTells
<1> HIDE DEF f, g, m, n, open
<1>5. Apart(f, g, Same)
  <2>1. ASSUME NEW i \in 1..m, NEW j \in 1..n, NEW x \in Buffers, NEW y \in Buffers, f[i][x] = g[j][y]
        PROVE  <<i, j>> \in Same /\ x = y
    <3>1. Told(v[2][i]) /\ w[2][j] \in Values /\ W[v[2][i]][x] = W[w[2][j]][y]
      BY <1>1, <1>2, <2>1 DEF Below
    <3>2. v[2][i] = w[2][j] /\ x = y
      BY <3>1 DEF Told
    <3>3. QED
      BY <3>2
  <2> HIDE DEF Same
  <2>2. QED
    BY <1>1, <1>2, <2>1 DEF Apart
<1>6. NeverEnds(f, open) /\ NeverEnds(g, open)
  <2>1. \A i \in 1..m : v[2][i] \in Values /\ f[i] = W[v[2][i]]
    BY <1>1 DEF Below
  <2>2. \A i \in 1..n : w[2][i] \in Values /\ g[i] = W[w[2][i]]
    BY <1>2 DEF Below
  <2>3. QED
    BY <1>1, <1>2, <1>3, <2>1, <2>2 DEF NeverEnds
<1>7. b = c /\ Match(1..m, 1..n, m, n, Same)
  <2> HIDE DEF Same
  <2>1. b = c /\ Match(DOMAIN f, DOMAIN g, m, n, Same)
    BY <1>1, <1>2, <1>3, <1>4, <1>5, <1>6, InTurnIsInjective
  <2>2. QED
    BY <1>1, <1>2, <2>1
<1>8. m = n /\ \A k \in 1..m : <<k, k>> \in Same
  <2> HIDE DEF Same
  <2> QED BY <1>7 DEF Match
<1>9. \A k \in 1..m : v[2][k] = w[2][k]
  BY <1>8
<1>10. v[2] \in Seq(Below(v)) /\ w[2] \in Seq(Below(w))
  BY DEF IsArray
<1>11. v[2] \in Seq(Values) /\ w[2] \in Seq(Values)
  <2>1. Below(v) \subseteq Values /\ Below(w) \subseteq Values
    BY DEF Below
  <2>2. QED
    BY <1>10, <2>1
<1>12. QED
  BY <1>7, <1>8, <1>9, <1>11, SeqEqual DEF m, n

LEMMA ObjectsDiffer ==
  ASSUME NEW v \in Values, NEW w \in Values, IsObject(v), IsObject(w), \A u \in Below(v) : Told(u),
         NEW b \in Buffers, NEW c \in Buffers,
         ObjectText(W, v[2], FieldOrder, b) = ObjectText(W, w[2], FieldOrder, c)
  PROVE  v[2] = w[2] /\ b = c
<1> DEFINE f == Fields(W, v[2], FieldOrder)
           g == Fields(W, w[2], FieldOrder)
           n == Len(FieldOrder)
           I == Present(v[2], FieldOrder)
           J == Present(w[2], FieldOrder)
           Same == {p \in I \X J :
                      FieldOrder[p[1]] = FieldOrder[p[2]] /\ v[2][FieldOrder[p[1]]] = w[2][FieldOrder[p[2]]]}
           open == "{"
<1>1. /\ Indexed(f, n) /\ DOMAIN f = I
      /\ \A i \in I : /\ v[2][FieldOrder[i]] \in Below(v) /\ FieldOrder[i] \in Texts
                     /\ f[i] = Field(W, FieldOrder[i], v[2][FieldOrder[i]])
  <2>1. Writes(W, v) /\ FieldOrder \in Seq(Texts)
    BY WFacts, FieldOrderAssumption
  <2>2. QED
    BY <2>1, FieldsIndexed
<1>2. /\ Indexed(g, n) /\ DOMAIN g = J
      /\ \A i \in J : /\ w[2][FieldOrder[i]] \in Below(w) /\ FieldOrder[i] \in Texts
                     /\ g[i] = Field(W, FieldOrder[i], w[2][FieldOrder[i]])
  <2>1. Writes(W, w) /\ FieldOrder \in Seq(Texts)
    BY WFacts, FieldOrderAssumption
  <2>2. QED
    BY <2>1, FieldsIndexed
<1>3. Begins(open) /\ \A u \in Values : NeverWrites(W[u], open)
  BY NeverEndsIn
<1>4. InTurn(n, f, Append(b, open)) = InTurn(n, g, Append(c, open))
  <2> DEFINE close == "}"
  <2>1. close \in Tokens /\ Append(b, open) \in Buffers /\ Append(c, open) \in Buffers
    BY <1>3, BeginFacts DEF Tokens, Punctuation
  <2>2. InTurn(n, f, Append(b, open)) \in Buffers /\ InTurn(n, g, Append(c, open)) \in Buffers
    BY <1>1, <1>2, <2>1, InTurnType
  <2>3. Append(InTurn(n, f, Append(b, open)), close) = Append(InTurn(n, g, Append(c, open)), close)
    BY DEF ObjectText
  <2> HIDE DEF f, g, n, open, close
  <2>4. QED
    BY <2>1, <2>2, <2>3, AppendTells
<1>5. ASSUME NEW u \in Values, NEW k \in Texts, NEW x \in Buffers
      PROVE  /\ Append(Quote(x, k), ":") \in Buffers
             /\ Field(W, k, u)[x] = W[u][Append(Quote(x, k), ":")]
  BY WFacts, FieldType
<1> HIDE DEF f, g, n, open, I, J
<1>6. Apart(f, g, Same)
  <2>1. ASSUME NEW i \in I, NEW j \in J, NEW x \in Buffers, NEW y \in Buffers, f[i][x] = g[j][y]
        PROVE  <<i, j>> \in Same /\ x = y
    <3> DEFINE k == FieldOrder[i]
               l == FieldOrder[j]
    <3>1. Told(v[2][k]) /\ v[2][k] \in Values /\ w[2][l] \in Values /\ k \in Texts /\ l \in Texts
      BY <1>1, <1>2 DEF Below
    <3>2. W[v[2][k]][Append(Quote(x, k), ":")] = W[w[2][l]][Append(Quote(y, l), ":")]
      BY <1>1, <1>2, <1>5, <2>1, <3>1
    <3>3. Append(Quote(x, k), ":") \in Buffers /\ Append(Quote(y, l), ":") \in Buffers
      BY <1>5, <3>1
    <3> DEFINE p == v[2][k]
               q == w[2][l]
               xk == Append(Quote(x, k), ":")
               yl == Append(Quote(y, l), ":")
    <3> HIDE DEF k, l
    <3>4. p = q /\ xk = yl
      <4> HIDE DEF p, q, xk, yl
      <4>1. Told(p) /\ p \in Values /\ q \in Values /\ xk \in Buffers /\ yl \in Buffers /\ W[p][xk] = W[q][yl]
        BY <3>1, <3>2, <3>3 DEF p, q, xk, yl
      <4>2. QED
        BY <4>1 DEF Told
    <3>5. Quote(x, k) = Quote(y, l)
      <4>1. ":" \in Tokens /\ Quote(x, k) \in Buffers /\ Quote(y, l) \in Buffers
        BY <3>1, QuoteType DEF Tokens, Punctuation
      <4>2. QED
        BY <3>4, <4>1, AppendTells
    <3>6. k = l /\ x = y
      BY <3>1, <3>5, QuoteIsInjective
    <3>7. QED
      BY <3>4, <3>6 DEF k, l
  <2> HIDE DEF Same
  <2>2. QED
    BY <1>1, <1>2, <2>1 DEF Apart
<1>7. NeverEnds(f, open) /\ NeverEnds(g, open)
  <2>1. \A u \in Values, k \in Texts : NeverWrites(Field(W, k, u), open)
    <3>1. ASSUME NEW u \in Values, NEW k \in Texts, NEW x \in Buffers, NEW y \in Buffers
          PROVE  Field(W, k, u)[x] # Append(y, open)
      <4> DEFINE z == Append(Quote(x, k), ":")
      <4>1. z \in Buffers /\ Field(W, k, u)[x] = W[u][z]
        BY <1>5
      <4> HIDE DEF z
      <4>2. QED
        BY <1>3, <4>1 DEF NeverWrites
    <3>2. QED
      BY <3>1 DEF NeverWrites
  <2>2. \A i \in I : NeverWrites(f[i], open)
    BY <1>1, <2>1 DEF Below
  <2>3. \A i \in J : NeverWrites(g[i], open)
    BY <1>2, <2>1 DEF Below
  <2>4. QED
    BY <1>1, <1>2, <2>2, <2>3 DEF NeverEnds
<1>8. b = c /\ Match(I, J, n, n, Same)
  <2> HIDE DEF Same
  <2>1. b = c /\ Match(DOMAIN f, DOMAIN g, n, n, Same)
    BY <1>1, <1>2, <1>3, <1>4, <1>6, <1>7, InTurnIsInjective
  <2>2. QED
    BY <1>1, <1>2, <2>1
<1>9. /\ \A i \in I : \E j \in J : <<i, j>> \in Same
      /\ \A j \in J : \E i \in I : <<i, j>> \in Same
  <2>1. n \in Nat /\ \A i \in I \cup J : i <= n
    BY FieldOrderAssumption, LenProperties DEF I, J, n, Present
  <2> HIDE DEF Same
  <2>2. QED
    BY <1>8, <2>1 DEF Match
<1>10. /\ \A k \in DOMAIN v[2] : \E i \in I : FieldOrder[i] = k
       /\ \A k \in DOMAIN w[2] : \E j \in J : FieldOrder[j] = k
  <2>1. DOMAIN FieldOrder = 1..n
    BY FieldOrderAssumption, LenProperties DEF n
  <2>2. QED
    BY <2>1 DEF IsObject, I, J, Present, n
<1>11. \A k \in DOMAIN v[2] : k \in DOMAIN w[2] /\ v[2][k] = w[2][k]
  <2>1. ASSUME NEW k \in DOMAIN v[2]
        PROVE  k \in DOMAIN w[2] /\ v[2][k] = w[2][k]
    <3>1. PICK i \in I, j \in J : FieldOrder[i] = k /\ <<i, j>> \in Same
      BY <1>9, <1>10
    <3>2. FieldOrder[j] = k /\ v[2][k] = w[2][k]
      BY <3>1
    <3>3. QED
      BY <3>2 DEF J, Present
  <2>2. QED
    BY <2>1
<1>12. \A k \in DOMAIN w[2] : k \in DOMAIN v[2]
  <2>1. ASSUME NEW k \in DOMAIN w[2]
        PROVE  k \in DOMAIN v[2]
    <3>1. PICK j \in J, i \in I : FieldOrder[j] = k /\ <<i, j>> \in Same
      BY <1>9, <1>10
    <3>2. FieldOrder[i] = k
      BY <3>1
    <3>3. QED
      BY <3>2 DEF I, Present
  <2>2. QED
    BY <2>1
<1>13. v[2] = w[2]
  BY <1>11, <1>12 DEF IsObject
<1>14. QED
  BY <1>8, <1>13

\* No two values are written alike, whatever they are written after
\* (cache_key.go:69-130).
THEOREM CanonicalIsInjective ==
  ASSUME NEW v \in Values
  PROVE  Told(v)
<1> DEFINE T == {u \in Values : ~Told(u)}
<1>1. SUFFICES ASSUME T # {} PROVE FALSE
  OBVIOUS
<1>2. PICK x \in T : \A u \in Values : Depth[u] < Depth[x] => u \notin T
  <2>1. T \in SUBSET Values /\ Depth \in [Values -> Nat]
    BY ValuesAssumption
  <2> HIDE DEF T
  <2>2. QED
    BY <1>1, <2>1, Shallowest
<1>3. \A u \in Below(x) : Told(u)
  BY <1>2 DEF Below
<1>4. PICK w \in Values, b \in Buffers, c \in Buffers : W[x][b] = W[w][c] /\ ~(x = w /\ b = c)
  BY <1>2 DEF Told
<1>5. /\ Written(W, x, FieldOrder, b) = Written(W, w, FieldOrder, c)
      /\ x = <<x[1], x[2]>> /\ w = <<w[1], w[2]>>
  BY <1>4, WFacts, ValuesAssumption DEF IsValue
<1>6. Ending(x) = Ending(w)
  <2>1. PICK y \in Buffers : W[x][b] = Append(y, Ending(x))
    BY WEnds
  <2>2. PICK z \in Buffers : W[w][c] = Append(z, Ending(w))
    BY WEnds
  <2>3. Append(y, Ending(x)) = Append(z, Ending(w))
    BY <1>4, <2>1, <2>2
  <2>4. Ending(x) \in Tokens /\ Ending(w) \in Tokens
    BY EndingTells
  <2>5. QED
    BY <2>3, <2>4, AppendTells
<1>7. CASE IsString(x) /\ IsString(w)
  <2>1. Quote(b, x[2]) = Quote(c, w[2])
    BY <1>5, <1>7, WrittenString
  <2>2. b = c /\ x[2] = w[2]
    BY <1>7, <2>1, QuoteIsInjective DEF IsString
  <2>3. x[1] = w[1]
    BY <1>7 DEF IsString
  <2>4. QED
    BY <1>4, <1>5, <2>2, <2>3
<1>8. CASE IsScalar(x) /\ IsScalar(w) /\ x[2] = w[2]
  <2>1. Append(b, x[2]) = Append(c, w[2]) /\ x = w
    BY <1>5, <1>8, WrittenScalar, ScalarsAssumption
  <2>2. x[2] \in Tokens /\ w[2] \in Tokens
    BY <1>8 DEF IsScalar, Tokens
  <2>3. b = c
    BY <2>1, <2>2, AppendTells
  <2>4. QED
    BY <1>4, <2>1, <2>3
<1>9. CASE IsArray(x) /\ IsArray(w)
  <2>1. ArrayText(W, x[2], b) = ArrayText(W, w[2], c)
    BY <1>5, <1>9, WrittenArray
  <2>2. b = c /\ x[2] = w[2]
    BY <1>3, <1>9, <2>1, ArraysDiffer
  <2>3. x[1] = w[1]
    BY <1>9 DEF IsArray
  <2>4. QED
    BY <1>4, <1>5, <2>2, <2>3
<1>10. CASE IsObject(x) /\ IsObject(w)
  <2>1. ObjectText(W, x[2], FieldOrder, b) = ObjectText(W, w[2], FieldOrder, c)
    BY <1>5, <1>10, WrittenObject
  <2>2. b = c /\ x[2] = w[2]
    BY <1>3, <1>10, <2>1, ObjectsDiffer
  <2>3. x[1] = w[1]
    BY <1>10 DEF IsObject
  <2>4. QED
    BY <1>4, <1>5, <2>2, <2>3
<1>11. QED
  BY <1>6, <1>7, <1>8, <1>9, <1>10, EndingTells

-----------------------------------------------------------------------------
(* Keys and calls.                                                         *)

HashOf(args) == Digest(W[<<"object", Relevant(args)>>][<<>>])

\* What a key consists of can be read off it.
LEMMA PartsDiffer ==
  /\ \A i, j : Given(i) = Given(j) => i = j
  /\ \A i, j : Generated(i) = Generated(j) => i = j
  /\ \A i, j : Digest(i) = Digest(j) => i = j
  /\ \A i, j : Given(i) # Generated(j) /\ Given(i) # Digest(j) /\ Generated(i) # Digest(j)
BY DEF Given, Generated, Digest

\* Likewise the keys made of them.
LEMMA KeysDiffer ==
  ASSUME NEW s, NEW t, NEW i, NEW j
  PROVE  /\ <<s, Given(i)>> = <<t, Given(j)>> => s = t /\ i = j
         /\ <<s, Generated(i)>> = <<t, Generated(j)>> => s = t /\ i = j
         /\ <<s, Digest(i)>> = <<t, Digest(j)>> => s = t /\ i = j
         /\ <<s, Given(i)>> # <<t, Generated(j)>> /\ <<s, Given(i)>> # <<t, Digest(j)>>
         /\ <<s, Generated(i)>> # <<t, Digest(j)>>
BY DEF Given, Generated, Digest

\* Arguments that are hashed alike are the same but for their ids.
LEMMA HashIsInjective ==
  ASSUME NEW a \in ArgSets, NEW b \in ArgSets, HashOf(a) = HashOf(b)
  PROVE  Relevant(a) = Relevant(b)
<1> DEFINE v == <<"object", Relevant(a)>>
           w == <<"object", Relevant(b)>>
<1>1. v \in Values /\ w \in Values
  BY ArgSetsAssumption
<1>2. W[v][<<>>] = W[w][<<>>]
  BY PartsDiffer DEF HashOf
<1>3. <<>> \in Buffers
  BY DEF Buffers
<1>4. v = w
  <2> HIDE DEF v, w
  <2> QED BY <1>1, <1>2, <1>3, CanonicalIsInjective DEF Told
<1>5. QED
  BY <1>4

LEMMA FormatIsRelevant ==
  ASSUME NEW a, NEW b, Relevant(a) = Relevant(b)
  PROVE  Format(a) = Format(b)
<1>1. Text(a, "response_format") = Text(b, "response_format")
  BY DEF Text, Relevant, Without
<1>2. QED
  BY <1>1 DEF Format

\* What is known of the key of a request: which of its parts made it, and that a
\* generated id is one of the past.
KeyFits(key, r) ==
    /\ ById(r.args) /\ GivenId(r.args) # NoText =>
         GivenId(r.args) # " " /\ key = <<r.tool, Given(GivenId(r.args))>>
    /\ ById(r.args) /\ GivenId(r.args) = NoText =>
         \E n \in 0..calls : n < calls /\ key = <<r.tool, Generated(n)>>
    /\ ~ById(r.args) => key = <<r.tool, HashOf(r.args)>>

EntryFits(e) ==
    /\ e.request.args \in ArgSets /\ e.key # None
    /\ e.format = Format(e.request.args)
    /\ KeyFits(e.key, e.request)

IInv == TypeOK /\ (\A e \in cache : EntryFits(e)) /\ HitIsSameCall /\ ResponseFits

\* A call whose key is found is the same call as the one that made the entry.
LEMMA FoundIsSame ==
  ASSUME calls \in Nat, NEW e, EntryFits(e), NEW tool, NEW args \in ArgSets, NEW visit,
         buildCacheKey(tool, args, visit) = e.key
  PROVE  SameCall(e.request, Request(tool, args))
<1> DEFINE r == e.request
<1>1. Request(tool, args).tool = tool /\ Request(tool, args).args = args
  BY DEF Request
<1>2. r.args \in ArgSets /\ KeyFits(e.key, r) /\ e.key # None
  BY DEF EntryFits
<1>3. \/ ById(r.args) /\ GivenId(r.args) # NoText /\ e.key = <<r.tool, Given(GivenId(r.args))>>
      \/ /\ ById(r.args) /\ GivenId(r.args) = NoText
         /\ \E n \in 0..calls : n < calls /\ e.key = <<r.tool, Generated(n)>>
      \/ ~ById(r.args) /\ e.key = <<r.tool, HashOf(r.args)>>
  BY <1>2 DEF KeyFits
<1>4. CASE ById(args) /\ GivenId(args) # NoText
  <2>1. e.key = <<tool, Given(GivenId(args))>>
    BY <1>2, <1>4 DEF buildCacheKey, CorrelationId
  <2>2. GivenId(args) # " "
    BY <1>2, <1>4 DEF buildCacheKey
  <2>3. ById(r.args) /\ GivenId(r.args) # NoText /\ e.key = <<r.tool, Given(GivenId(r.args))>>
    BY <1>3, <2>1, KeysDiffer DEF HashOf
  <2>4. r.tool = tool /\ GivenId(r.args) = GivenId(args)
    BY <2>1, <2>3, KeysDiffer
  <2>5. QED
    BY <1>1, <1>4, <2>2, <2>3, <2>4 DEF SameCall
<1>5. CASE ById(args) /\ GivenId(args) = NoText
  <2>1. e.key = <<tool, Generated(calls)>>
    BY <1>2, <1>5 DEF buildCacheKey, CorrelationId
  <2>2. PICK n \in 0..calls : n < calls /\ e.key = <<r.tool, Generated(n)>>
    BY <1>3, <2>1, PartsDiffer DEF HashOf
  <2>3. Generated(n) = Generated(calls)
    BY <2>1, <2>2
  <2>4. n = calls
    BY <2>3, PartsDiffer
  <2>5. QED
    BY <2>2, <2>4
<1>6. CASE ~ById(args)
  <2>1. e.key = <<tool, HashOf(args)>>
    BY <1>6 DEF buildCacheKey, HashOf, W, KeyOrder
  <2>2. ~ById(r.args) /\ e.key = <<r.tool, HashOf(r.args)>>
    BY <1>3, <2>1, PartsDiffer DEF HashOf
  <2>3. r.tool = tool /\ HashOf(r.args) = HashOf(args)
    BY <2>1, <2>2
  <2>4. Relevant(r.args) = Relevant(args)
    BY <1>2, <2>3, HashIsInjective
  <2>5. QED
    BY <1>1, <1>6, <2>2, <2>3, <2>4 DEF SameCall
<1>7. QED
  BY <1>4, <1>5, <1>6

\* The same call has the same key, in whatever order fields are visited.
LEMMA SameIsFound ==
  ASSUME NEW e, EntryFits(e), NEW tool, NEW args, NEW visit, SameCall(e.request, Request(tool, args))
  PROVE  buildCacheKey(tool, args, visit) = e.key
<1>1. Request(tool, args).tool = tool /\ Request(tool, args).args = args
  BY DEF Request
<1>2. KeyFits(e.key, e.request)
  BY DEF EntryFits
<1>3. CASE ById(args)
  <2>1. /\ ById(e.request.args) /\ GivenId(e.request.args) = GivenId(args) /\ e.request.tool = tool
        /\ GivenId(args) # NoText /\ GivenId(args) # " "
    BY <1>1, <1>3 DEF SameCall
  <2>2. e.key = <<tool, Given(GivenId(args))>>
    BY <1>2, <2>1 DEF KeyFits
  <2>3. QED
    BY <1>3, <2>1, <2>2 DEF buildCacheKey, CorrelationId
<1>4. CASE ~ById(args)
  <2>1. ~ById(e.request.args) /\ Relevant(e.request.args) = Relevant(args) /\ e.request.tool = tool
    BY <1>1, <1>4 DEF SameCall
  <2>2. e.key = <<tool, HashOf(args)>>
    BY <1>2, <2>1 DEF KeyFits, HashOf
  <2>3. QED
    BY <1>4, <2>2 DEF buildCacheKey, HashOf, W, KeyOrder
<1>5. QED
  BY <1>3, <1>4

\* What fits now fits when another call has been made.
LEMMA FitsLater ==
  ASSUME calls \in Nat, calls' = calls + 1, strategy' = strategy
  PROVE  /\ \A e : EntryFits(e) => EntryFits(e)'
         /\ \A args : ById(args)' = ById(args)
         /\ \A r, s : SameCall(r, s)' = SameCall(r, s)
<1>1. ASSUME NEW args
      PROVE  ById(args)' = ById(args)
  BY DEF ById
<1>2. ASSUME NEW r, NEW s
      PROVE  SameCall(r, s)' = SameCall(r, s)
  BY DEF SameCall, ById
<1>3. ASSUME NEW e, EntryFits(e)
      PROVE  EntryFits(e)'
  <2>1. \A n \in 0..calls : n < calls => n \in 0..calls' /\ n < calls'
    OBVIOUS
  <2>2. QED
    BY <1>3, <2>1 DEF EntryFits, KeyFits, ById
<1>4. QED
  BY <1>1, <1>2, <1>3

-----------------------------------------------------------------------------
(* The invariant, and the theorems.                                        *)

LEMMA InitIInv ==
  Init => IInv
BY MaxCallsAssumption DEF Init, IInv, TypeOK, HitIsSameCall, ResponseFits

\* A call that is answered from the cache.
LEMMA HitFits ==
  ASSUME IInv, calls < MaxCalls, calls' = calls + 1, UNCHANGED <<strategy, cache>>,
         NEW tool, NEW args \in ArgSets, NEW visit,
         NEW e \in cache, e.key = buildCacheKey(tool, args, visit), Hit(tool, args, e)
  PROVE  IInv'
<1>1. calls \in Nat /\ EntryFits(e) /\ \A f \in cache : EntryFits(f)
  BY MaxCallsAssumption DEF IInv, TypeOK
<1>2. TypeOK'
  BY MaxCallsAssumption DEF IInv, TypeOK
<1>3. (\A f \in cache : EntryFits(f))'
  BY <1>1, FitsLater
<1>4. /\ last'.tool = tool /\ last'.args = args /\ last'.id = CorrelationId(args)
      /\ last'.request = e.request /\ last'.format = e.format
  BY DEF Hit, Answered
<1>5. SameCall(e.request, Request(tool, args))
  BY <1>1, FoundIsSame
<1>6. HitIsSameCall'
  <2>1. SameCall(e.request, Request(tool, args))'
    BY <1>1, <1>5, FitsLater
  <2>2. QED
    BY <1>4, <2>1 DEF HitIsSameCall, Request
<1>7. ResponseFits'
  <2>1. GivenId(args) # NoText => last'.id = Given(GivenId(args))
    BY <1>4 DEF CorrelationId
  <2>2. ASSUME strategy = "arguments_hash"
        PROVE  last'.format = Format(args)
    <3>1. ~ById(args)
      BY <2>2 DEF ById, NoText
    <3>2. Relevant(e.request.args) = Relevant(args)
      BY <1>5, <3>1 DEF SameCall, Request
    <3>3. QED
      BY <1>1, <1>4, <3>2, FormatIsRelevant DEF EntryFits
  <2>3. QED
    BY <1>4, <2>1, <2>2 DEF ResponseFits
<1>8. QED
  BY <1>2, <1>3, <1>6, <1>7 DEF IInv

\* A call that is executed.
LEMMA MissFits ==
  ASSUME IInv, calls < MaxCalls, calls' = calls + 1, UNCHANGED strategy,
         NEW tool, NEW args \in ArgSets, NEW visit,
         \A e \in cache : e.key # buildCacheKey(tool, args, visit),
         Miss(tool, args, buildCacheKey(tool, args, visit))
  PROVE  IInv'
<1>1. calls \in Nat /\ \A e \in cache : EntryFits(e)
  BY MaxCallsAssumption DEF IInv, TypeOK
<1>2. PICK key : key = buildCacheKey(tool, args, visit)
  OBVIOUS
<1>3. PICK new : new = Entry(key, tool, args)
  OBVIOUS
<1>4. cache' = cache \/ (key # None /\ cache' = cache \cup {new})
  BY <1>2, <1>3 DEF Miss
<1>5. /\ new.key = key /\ new.request.tool = tool /\ new.request.args = args
      /\ new.format = Format(args) /\ Format(args) \in {"json", "markdown"}
  BY <1>3 DEF Entry, Request, Format
<1>6. ASSUME key # None
      PROVE  EntryFits(new)'
  <2>1. ById(args)' = ById(args) /\ calls \in 0..calls' /\ calls < calls'
    BY <1>1, FitsLater
  <2>2. CASE ById(args) /\ GivenId(args) # NoText
    <3>1. GivenId(args) # " " /\ key = <<tool, Given(GivenId(args))>>
      BY <1>2, <1>6, <2>2 DEF buildCacheKey, CorrelationId
    <3>2. KeyFits(key, new.request)'
      BY <1>5, <2>1, <2>2, <3>1 DEF KeyFits
    <3>3. QED
      BY <1>5, <1>6, <3>2 DEF EntryFits
  <2>3. CASE ById(args) /\ GivenId(args) = NoText
    <3>1. key = <<tool, Generated(calls)>>
      BY <1>2, <1>6, <2>3 DEF buildCacheKey, CorrelationId
    <3>2. KeyFits(key, new.request)'
      BY <1>5, <2>1, <2>3, <3>1 DEF KeyFits
    <3>3. QED
      BY <1>5, <1>6, <3>2 DEF EntryFits
  <2>4. CASE ~ById(args)
    <3>1. key = <<tool, HashOf(args)>>
      BY <1>2, <2>4 DEF buildCacheKey, HashOf, W, KeyOrder
    <3>2. KeyFits(key, new.request)'
      BY <1>5, <2>1, <2>4, <3>1 DEF KeyFits, HashOf
    <3>3. QED
      BY <1>5, <1>6, <3>2 DEF EntryFits
  <2>5. QED
    BY <2>2, <2>3, <2>4
<1>7. (\A e \in cache : EntryFits(e))'
  <2>1. \A e \in cache : EntryFits(e)'
    BY <1>1, FitsLater
  <2>2. QED
    BY <1>4, <1>6, <2>1
<1>8. TypeOK'
  <2>1. \A e \in cache : e.key # new.key
    BY <1>2, <1>5
  <2>2. QED
    BY <1>4, <1>5, <2>1, MaxCallsAssumption DEF IInv, TypeOK
<1>9. /\ last'.tool = tool /\ last'.args = args /\ last'.id = CorrelationId(args)
      /\ last'.format = Format(args) /\ last'.hit = FALSE
  BY DEF Miss, Answered
<1>10. HitIsSameCall'
  BY <1>9 DEF HitIsSameCall
<1>11. ResponseFits'
  BY <1>9 DEF ResponseFits, CorrelationId
<1>12. QED
  BY <1>7, <1>8, <1>10, <1>11 DEF IInv

\* A call, taken apart.
LEMMA CallIs ==
  ASSUME Call
  PROVE  /\ calls < MaxCalls /\ calls' = calls + 1 /\ UNCHANGED strategy
         /\ \E tool \in Tools, args \in ArgSets, visit \in Orders :
              \/ \E e \in cache :
                   e.key = buildCacheKey(tool, args, visit) /\ Hit(tool, args, e) /\ UNCHANGED cache
              \/ /\ \A e \in cache : e.key # buildCacheKey(tool, args, visit)
                 /\ Miss(tool, args, buildCacheKey(tool, args, visit))
BY DEF Call

LEMMA NextIInv ==
  ASSUME IInv, [Next]_vars
  PROVE  IInv'
<1>1. CASE Call
  BY <1>1, CallIs, HitFits, MissFits
<1>2. CASE UNCHANGED vars
  <2>1. (\A e \in cache : EntryFits(e))'
    BY <1>2 DEF IInv, EntryFits, KeyFits, ById, vars
  <2>2. TypeOK' /\ HitIsSameCall' /\ ResponseFits'
    BY <1>2 DEF IInv, TypeOK, HitIsSameCall, SameCall, ResponseFits, ById, vars
  <2>3. QED
    BY <2>1, <2>2 DEF IInv
<1>3. QED
  BY <1>1, <1>2 DEF Next, Terminated

LEMMA IInvHolds ==
  Spec => []IInv
BY InitIInv, NextIInv, PTL DEF Spec

\* One entry per key, in a format that the server knows.
THEOREM KeysTypeCorrect ==
  Spec => []TypeOK
<1>1. IInv => TypeOK
  BY DEF IInv
<1>2. QED
  BY <1>1, IInvHolds, PTL

\* No call is answered with the response to another: buildCacheKey
\* (cache_key.go:16-50) tells calls apart by their tool, their id or their
\* arguments, and canonicalJSON (cache_key.go:69-130) confuses no two arguments.
THEOREM HitsAreSameCalls ==
  Spec => []HitIsSameCall
<1>1. IInv => HitIsSameCall
  BY DEF IInv
<1>2. QED
  BY <1>1, IInvHolds, PTL

\* A response names the call it answers, and with keys from arguments only has
\* the format the call asked for, cached or not (build.go).
THEOREM ResponsesFit ==
  Spec => []ResponseFits
<1>1. IInv => ResponseFits
  BY DEF IInv
<1>2. QED
  BY <1>1, IInvHolds, PTL

\* The step of RepetitionHits.
Repeats ==
    \A e \in cache : last' # last /\ SameCall(e.request, Request(last'.tool, last'.args))
         => last'.hit

LEMMA CallRepeats ==
  ASSUME IInv, [Next]_vars
  PROVE  Repeats
<1>1. CASE UNCHANGED vars
  BY <1>1 DEF Repeats, vars
<1>2. CASE Call
  <2>1. PICK tool \in Tools, args \in ArgSets, visit \in Orders :
            \/ \E e \in cache : Hit(tool, args, e)
            \/ /\ \A e \in cache : e.key # buildCacheKey(tool, args, visit)
               /\ Miss(tool, args, buildCacheKey(tool, args, visit))
    BY <1>2, CallIs
  <2>2. CASE \E e \in cache : Hit(tool, args, e)
    BY <2>2 DEF Hit, Answered, Repeats
  <2>3. CASE /\ \A e \in cache : e.key # buildCacheKey(tool, args, visit)
             /\ Miss(tool, args, buildCacheKey(tool, args, visit))
    <3>1. last'.tool = tool /\ last'.args = args
      BY <2>3 DEF Miss, Answered
    <3>2. ASSUME NEW e \in cache, SameCall(e.request, Request(tool, args))
          PROVE  FALSE
      <4>1. EntryFits(e)
        BY DEF IInv
      <4>2. QED
        BY <2>3, <3>2, <4>1, SameIsFound
    <3>3. QED
      BY <3>1, <3>2 DEF Repeats
  <2>4. QED
    BY <2>1, <2>2, <2>3
<1>3. QED
  BY <1>1, <1>2 DEF Next, Terminated

\* A repetition of a cached call is answered from the cache: the keys of objects
\* are sorted (cache_key.go:107-112), so that Go's order of maps does not show.
THEOREM RepetitionsHit ==
  Spec => RepetitionHits
BY IInvHolds, CallRepeats, PTL DEF Spec, RepetitionHits, Repeats

-----------------------------------------------------------------------------
(* The keys of the gateway. Its calls are numbered; the n-th of them has a *)
(* tool, arguments and an order in which its fields are visited. ToolCall  *)
(* takes the id, or the arguments as a whole, for what its key is made of. *)

CONSTANTS Chosen, ToolAt, ArgsAt, VisitAt

\* The n-th call, under the strategy that the gateway was configured with.
At(n) == INSTANCE CacheKey WITH strategy <- Chosen, calls <- n

Key(n) == At(n)!buildCacheKey(ToolAt[n], ArgsAt[n], VisitAt[n])

Gateway ==
    INSTANCE CallKeys
    WITH ToolOf <- ToolAt,
         IdOf <- [n \in Nat |-> At(n)!CorrelationId(ArgsAt[n])],
         Provided <- {n \in Nat : GivenId(ArgsAt[n]) # NoText},
         ArgsOf <- [n \in Nat |-> <<"arguments", Relevant(ArgsAt[n])>>],
         Strategy <- IF Chosen = NoText THEN "auto" ELSE Chosen

StrategiesKnown == Chosen \in {NoText, "auto", "correlation_id", "arguments_hash"}

\* Neither the strategy nor the number of a call changes what arguments are written as.
LEMMA SameJSON ==
  ASSUME NEW n, NEW keys
  PROVE  At(n)!canonicalJSON(keys) = canonicalJSON(keys)
BY Zenon DEF canonicalJSON, Written, InTurn, Items, Fields, Field, Present, Quote, Comma, Writers, Buffers, Tokens, Punctuation,
       At!canonicalJSON, At!Written, At!InTurn, At!Items, At!Fields, At!Field, At!Present, At!Quote,
       At!Comma, At!Writers, At!Buffers, At!Tokens, At!Punctuation

\* What the n-th call is known by, when it gives an id and when it gives none.
IdAt(n) == IF GivenId(ArgsAt[n]) # NoText THEN Given(GivenId(ArgsAt[n])) ELSE Generated(n)

UsesId(n) == Chosen = "correlation_id" \/ (Chosen \in {"auto", NoText} /\ GivenId(ArgsAt[n]) # NoText)

\* What a call's key is, by how it was made.
LEMMA KeyIs ==
  ASSUME NEW n, GivenId(ArgsAt[n]) # " "
  PROVE  /\ At(n)!CorrelationId(ArgsAt[n]) = IdAt(n)
         /\ Key(n) = <<ToolAt[n], IF UsesId(n) THEN IdAt(n) ELSE HashOf(ArgsAt[n])>>
<1>1. At(n)!GivenId(ArgsAt[n]) = GivenId(ArgsAt[n]) /\ At(n)!NoText = NoText
  BY DEF GivenId, Text, NoText, At!GivenId, At!Text, At!NoText
<1>2. At(n)!CorrelationId(ArgsAt[n]) = IdAt(n)
  BY <1>1 DEF At!CorrelationId, At!Given, At!Generated, IdAt, Given, Generated
<1>3. At(n)!Digest(At(n)!canonicalJSON(At(n)!KeyOrder(VisitAt[n]))[<<"object", At(n)!Relevant(ArgsAt[n])>>][<<>>])
      = HashOf(ArgsAt[n])
  BY SameJSON DEF HashOf, W, Digest, Relevant, Without, At!Digest, At!KeyOrder, At!Relevant, At!Without
<1>4. At(n)!ById(ArgsAt[n]) <=> UsesId(n)
  BY <1>1 DEF At!ById, UsesId
<1>5. QED
  BY <1>1, <1>2, <1>3, <1>4 DEF Key, At!buildCacheKey

\* The gateway's key, taken apart likewise.
LEMMA GatewayKeyIs ==
  ASSUME StrategiesKnown, NEW n \in Nat, GivenId(ArgsAt[n]) # " "
  PROVE  Gateway!CacheKey(n) =
           <<ToolAt[n], IF UsesId(n) THEN IdAt(n) ELSE <<"arguments", Relevant(ArgsAt[n])>> >>
<1>1. At(n)!CorrelationId(ArgsAt[n]) = IdAt(n)
  BY KeyIs
<1>2. QED
  BY <1>1 DEF Gateway!CacheKey, StrategiesKnown, UsesId, NoText

LEMMA PairsAgree ==
  ASSUME NEW s, NEW t, NEW i, NEW j, NEW k, NEW l, i = j <=> k = l
  PROVE  <<s, i>> = <<t, j>> <=> <<s, k>> = <<t, l>>
OBVIOUS

\* ToolCall's abstraction of keys is exact: whatever the strategy, two calls have one
\* key just if their ids, or their arguments as a whole, are said to be one by ToolCall
\* (cache_key.go:16-51). Only of ids that are blank, which make no key, it does not speak.
THEOREM KeysAreAsTheGatewaySays ==
  ASSUME StrategiesKnown,
         NEW m \in Nat, ArgsAt[m] \in ArgSets, GivenId(ArgsAt[m]) # " ",
         NEW n \in Nat, ArgsAt[n] \in ArgSets, GivenId(ArgsAt[n]) # " "
  PROVE  Key(m) = Key(n) <=> Gateway!CacheKey(m) = Gateway!CacheKey(n)
<1> DEFINE args(k) == <<"arguments", Relevant(ArgsAt[k])>>
           part(k) == IF UsesId(k) THEN IdAt(k) ELSE HashOf(ArgsAt[k])
           whole(k) == IF UsesId(k) THEN IdAt(k) ELSE args(k)
<1>1. /\ Key(m) = <<ToolAt[m], part(m)>> /\ Gateway!CacheKey(m) = <<ToolAt[m], whole(m)>>
      /\ Key(n) = <<ToolAt[n], part(n)>> /\ Gateway!CacheKey(n) = <<ToolAt[n], whole(n)>>
  BY KeyIs, GatewayKeyIs
<1>2. \A k, l : IdAt(k) # args(l) /\ IdAt(k) # HashOf(ArgsAt[l])
  BY DEF IdAt, Given, Generated, HashOf, Digest
<1>3. HashOf(ArgsAt[m]) = HashOf(ArgsAt[n]) <=> Relevant(ArgsAt[m]) = Relevant(ArgsAt[n])
  BY HashIsInjective DEF HashOf
<1>4. args(m) = args(n) <=> Relevant(ArgsAt[m]) = Relevant(ArgsAt[n])
  OBVIOUS
<1> HIDE DEF args
<1>5. part(m) = part(n) <=> whole(m) = whole(n)
  BY <1>2, <1>3, <1>4, Zenon
<1> HIDE DEF part, whole
<1>6. <<ToolAt[m], part(m)>> = <<ToolAt[n], part(n)>> <=> <<ToolAt[m], whole(m)>> = <<ToolAt[n], whole(n)>>
  BY <1>5, PairsAgree, Zenon
<1>7. QED
  BY <1>1, <1>6, Zenon
===============================================================================
