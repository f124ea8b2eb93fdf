---------------------------- MODULE CodecProofs ----------------------------
(***************************************************************************)
(* What is read from the streams of CodecData is what was put in them, for  *)
(* every sequence of entries.  Both ways go through the entries one by one: *)
(* the recursive functions of CodecData are chains of steps (Chain), which  *)
(* exist (Chains) and are the ones the definitions choose.                  *)
(***************************************************************************)
EXTENDS Capabilities, NaturalsInduction, WellFoundedInduction, SequenceTheorems, TLAPS

-----------------------------------------------------------------------------
(* Induction and recursion over the natural numbers *)

LEMMA LeastOf ==
  ASSUME NEW S \in SUBSET Nat, S # {}
  PROVE  \E m \in S : \A n \in S : m <= n
<1> DEFINE R == OpToRel(<, Nat)
<1>1. IsWellFoundedOn(R, Nat)
  BY NatLessThanWellFounded
<1>2. \A m, n \in Nat : <<n, m>> \in R <=> n < m
  BY DEF OpToRel
<1> HIDE DEF R
<1>3. PICK m \in S : \A n \in S : ~(<<n, m>> \in R)
  BY <1>1, WFMin
<1>4. \A n \in S : ~(n < m)
  BY <1>2, <1>3, Zenon
<1> QED
  BY <1>4

\* Induction, over the set of the numbers a fact holds of
LEMMA Inductive ==
  ASSUME NEW H, 0 \in H, \A n \in Nat : n \in H => n + 1 \in H
  PROVE  \A n \in Nat : n \in H
<1> SUFFICES ASSUME Nat \ H # {}
             PROVE  FALSE
  OBVIOUS
<1>1. PICK m \in Nat \ H : \A n \in Nat \ H : m <= n
  BY LeastOf
<1>2. m # 0 /\ m - 1 \in Nat /\ m - 1 \in H
  BY <1>1
<1> QED
  BY <1>1, <1>2

\* n steps from start, the k-th by step[k]
Chain(f, n, S, start, step) ==
  /\ f \in [0..n -> S] /\ f[0] = start
  /\ \A k \in 1..n : f[k] = step[k][f[k - 1]]

LEMMA Chains ==
  ASSUME NEW n \in Nat, NEW S, NEW start \in S, NEW step \in [1..n -> [S -> S]]
  PROVE  \E f : Chain(f, n, S, start, step)
<1> DEFINE H == {m \in Nat : m > n \/ \E f : Chain(f, m, S, start, step)}
<1>1. 0 \in H
  <2> DEFINE f == [k \in 0..0 |-> start]
  <2>1. Chain(f, 0, S, start, step)
    BY DEF Chain
  <2> QED BY <2>1
<1>2. ASSUME NEW m \in Nat, m \in H
      PROVE  m + 1 \in H
  <2>1. CASE m + 1 > n
    BY <2>1
  <2>2. CASE m + 1 <= n
    <3>1. PICK f : Chain(f, m, S, start, step)
      BY <1>2, <2>2
    <3> DEFINE g == [k \in 0..(m + 1) |-> IF k = m + 1 THEN step[m + 1][f[m]] ELSE f[k]]
    <3>2. f[m] \in S /\ step[m + 1][f[m]] \in S
      BY <2>2, <3>1 DEF Chain
    <3>3. g \in [0..(m + 1) -> S]
      BY <3>1, <3>2 DEF Chain
    <3>4. g[0] = start /\ \A k \in 1..(m + 1) : g[k] = step[k][g[k - 1]]
      BY <3>1 DEF Chain
    <3> HIDE DEF g
    <3>5. Chain(g, m + 1, S, start, step)
      BY <3>3, <3>4 DEF Chain
    <3> QED BY <3>5
  <2> QED BY <2>1, <2>2
<1> HIDE DEF H
<1>3. n \in H
  BY <1>1, <1>2, Inductive
<1> QED
  BY <1>3 DEF H

\* A function that takes the same steps is the same
LEMMA ChainOnly ==
  ASSUME NEW n \in Nat, NEW S, NEW start, NEW step, NEW f, Chain(f, n, S, start, step),
         NEW g, g[0] = start, \A k \in 1..n : g[k - 1] \in S => g[k] = step[k][g[k - 1]]
  PROVE  \A k \in 0..n : g[k] = f[k]
<1> DEFINE H == {k \in Nat : k > n \/ g[k] = f[k]}
<1>1. 0 \in H
  BY DEF Chain
<1>2. ASSUME NEW k \in Nat, k \in H
      PROVE  k + 1 \in H
  <2>1. CASE k + 1 > n
    BY <2>1
  <2>2. CASE k + 1 <= n
    <3>1. k + 1 \in 1..n /\ (k + 1) - 1 = k /\ k \in 0..n
      BY <2>2
    <3>2. g[k] = f[k] /\ f[k] \in S
      BY <1>2, <2>2, <3>1 DEF Chain
    <3>3. g[k + 1] = step[k + 1][g[k]]
      BY <3>1, <3>2
    <3>4. f[k + 1] = step[k + 1][f[k]]
      BY <3>1 DEF Chain
    <3> QED BY <3>2, <3>3, <3>4
  <2> QED BY <2>1, <2>2
<1>3. \A k \in Nat : k \in H
  <2> HIDE DEF H
  <2> QED BY <1>1, <1>2, Inductive
<1> QED
  BY <1>3

-----------------------------------------------------------------------------
(* Streams *)

Bytes == Seq(Nat)
Entries == [type: Nat, value: Bytes]

LEMMA LtvIs ==
  ASSUME NEW room \in Int, NEW e \in Entries
  PROVE  /\ Ltv(room, e) \in Bytes /\ Len(e.value) \in Nat
         /\ room >= 2 + Len(e.value) =>
              /\ Ltv(room, e) = <<Len(e.value) + 1, e.type>> \o e.value
              /\ Len(Ltv(room, e)) = 2 + Len(e.value)
BY DEF Ltv, Entries, Bytes

LEMMA Joined ==
  ASSUME NEW a \in Bytes, NEW b \in Bytes
  PROVE  /\ a \o b \in Bytes
         /\ Len(a) \in Nat /\ Len(b) \in Nat /\ Len(a \o b) = Len(a) + Len(b)
         /\ \A j \in 1..Len(a) : (a \o b)[j] = a[j]
         /\ \A j \in 1..Len(b) : (a \o b)[Len(a) + j] = b[j]
BY DEF Bytes

\* An entry is put behind those before it
LEMMA FilledIs ==
  ASSUME NEW entries \in Seq(Entries), NEW room \in Int
  PROVE  \E body \in [0..Len(entries) -> Bytes] :
           /\ Filled(entries, room) = <<Len(body[Len(entries)])>> \o body[Len(entries)]
           /\ body[0] = <<>>
           /\ \A k \in 1..Len(entries) :
                body[k] = body[k - 1] \o Ltv(room - 1 - Len(body[k - 1]), entries[k])
<1> DEFINE n == Len(entries)
           step == [k \in 1..n |-> [x \in Bytes |-> x \o Ltv(room - 1 - Len(x), entries[k])]]
           Eq(g) == g = [k \in 0..n |-> IF k = 0 THEN <<>>
                           ELSE g[k - 1] \o Ltv(room - 1 - Len(g[k - 1]), entries[k])]
           body == CHOOSE g : Eq(g)
<1>1. n \in Nat /\ (\A k \in 1..n : entries[k] \in Entries) /\ <<>> \in Bytes
  BY DEF Bytes
<1>2. ASSUME NEW k \in 1..n, NEW x \in Bytes
      PROVE  x \o Ltv(room - 1 - Len(x), entries[k]) \in Bytes
  <2>1. Len(x) \in Nat
    BY DEF Bytes
  <2>2. room - 1 - Len(x) \in Int /\ entries[k] \in Entries
    BY <1>1, <2>1
  <2> HIDE DEF n
  <2>3. Ltv(room - 1 - Len(x), entries[k]) \in Bytes
    BY <2>2, LtvIs
  <2> QED BY <2>3 DEF Bytes
<1>3. step \in [1..n -> [Bytes -> Bytes]]
  BY <1>2
<1>4. PICK f : Chain(f, n, Bytes, <<>>, step)
  <2> HIDE DEF step, n
  <2> QED BY <1>1, <1>3, Chains
<1>5. Eq(f)
  <2>1. f = [k \in 0..n |-> f[k]] /\ f[0] = <<>>
    BY <1>4 DEF Chain
  <2>2. ASSUME NEW k \in 0..n, k # 0
        PROVE  f[k] = f[k - 1] \o Ltv(room - 1 - Len(f[k - 1]), entries[k])
    <3>1. k \in 1..n /\ k - 1 \in 0..n
      BY <1>1, <2>2
    <3>2. f[k - 1] \in Bytes /\ f[k] = step[k][f[k - 1]]
      <4> HIDE DEF step, n
      <4> QED BY <1>4, <3>1 DEF Chain
    <3> QED BY <3>1, <3>2
  <2> HIDE DEF n
  <2> QED BY <2>1, <2>2
<1>6. Eq(body)
  <2> HIDE DEF Eq
  <2> QED BY <1>5, Zenon
<1>7. /\ body = [k \in 0..n |-> IF k = 0 THEN <<>>
                  ELSE body[k - 1] \o Ltv(room - 1 - Len(body[k - 1]), entries[k])]
      /\ Filled(entries, room) = <<Len(body[n])>> \o body[n]
  BY <1>6, Zenon DEF Filled
<1> HIDE DEF body
<1>8. body[0] = <<>> /\ \A k \in 1..n : body[k] = body[k - 1] \o Ltv(room - 1 - Len(body[k - 1]), entries[k])
  <2> HIDE DEF n
  <2> QED BY <1>1, <1>7
<1>9. \A k \in 1..n : body[k - 1] \in Bytes => body[k] = step[k][body[k - 1]]
  BY <1>8
<1>10. \A k \in 0..n : body[k] = f[k]
  <2> HIDE DEF step, n
  <2> QED BY <1>1, <1>4, <1>8, <1>9, ChainOnly
<1>11. body \in [0..n -> Bytes]
  <2> HIDE DEF n, step
  <2>1. DOMAIN body = 0..n /\ body = [k \in 0..n |-> body[k]]
    BY <1>7
  <2> QED BY <1>4, <1>10, <2>1 DEF Chain
<1> QED
  BY <1>7, <1>8, <1>11

\* Where the entries end that stand one behind the other
Ends(size, entries) ==
  /\ size \in [0..Len(entries) -> Nat] /\ size[0] = 0
  /\ \A k \in 1..Len(entries) : size[k] = size[k - 1] + 2 + Len(entries[k].value)

LEMMA EndsGrow ==
  ASSUME NEW entries \in Seq(Entries), NEW size, Ends(size, entries)
  PROVE  \A k \in 0..Len(entries) :
           size[k] \in Nat /\ \A j \in 0..k : size[j] <= size[k]
<1> DEFINE n == Len(entries)
           H == {k \in Nat : k > n \/ \A j \in 0..k : size[j] <= size[k]}
<1>1. n \in Nat /\ \A k \in 1..n : Len(entries[k].value) \in Nat
  BY DEF Entries, Bytes
<1>2. 0 \in H
  BY DEF Ends
<1>3. ASSUME NEW k \in Nat, k \in H
      PROVE  k + 1 \in H
  <2>1. CASE k + 1 > n
    BY <2>1
  <2>2. CASE k + 1 <= n
    <3>1. k + 1 \in 1..n /\ (k + 1) - 1 = k /\ k \in 0..n /\ k + 1 \in 0..n
      BY <1>1, <2>2
    <3>2. size[k + 1] = size[k] + 2 + Len(entries[k + 1].value)
      BY <3>1 DEF Ends
    <3>3. size[k] \in Nat /\ size[k + 1] \in Nat /\ \A j \in 0..k : size[j] \in Nat
      <4>1. size \in [0..n -> Nat] /\ \A j \in 0..k : j \in 0..n
        BY <3>1 DEF Ends
      <4> HIDE DEF n
      <4> QED BY <3>1, <4>1
    <3>4. \A j \in 0..k : size[j] <= size[k]
      BY <1>1, <1>3, <3>1
    <3>5. \A j \in 0..(k + 1) : size[j] <= size[k + 1]
      BY <1>1, <3>1, <3>2, <3>3, <3>4
    <3> QED BY <3>5
  <2> QED BY <1>1, <2>1, <2>2
<1>4. \A k \in Nat : k \in H
  <2> HIDE DEF H
  <2> QED BY <1>2, <1>3, Inductive
<1>5. \A k \in 0..n : size[k] \in Nat
  BY DEF Ends
<1> QED
  BY <1>1, <1>4, <1>5

\* With room for all entries the stream has each of them at its place
LEMMA FilledHolds ==
  ASSUME NEW entries \in Seq(Entries), NEW room \in Int,
         NEW size, Ends(size, entries), size[Len(entries)] <= room - 1
  PROVE  /\ Filled(entries, room) \in Bytes
         /\ Len(Filled(entries, room)) = 1 + size[Len(entries)]
         /\ Filled(entries, room)[1] = size[Len(entries)]
         /\ \A k \in 1..Len(entries) :
              /\ Filled(entries, room)[size[k - 1] + 2] = Len(entries[k].value) + 1
              /\ Filled(entries, room)[size[k - 1] + 3] = entries[k].type
              /\ \A j \in 1..Len(entries[k].value) :
                   Filled(entries, room)[size[k - 1] + 3 + j] = entries[k].value[j]
<1> DEFINE n == Len(entries)
<1>1. n \in Nat /\ \A k \in 1..n : entries[k] \in Entries /\ Len(entries[k].value) \in Nat
  <2>1. n \in Nat /\ \A k \in 1..n : entries[k] \in Entries
    OBVIOUS
  <2>2. \A e \in Entries : Len(e.value) \in Nat
    BY DEF Entries, Bytes
  <2> HIDE DEF n
  <2> QED BY <2>1, <2>2
<1>2. PICK body \in [0..n -> Bytes] :
        /\ Filled(entries, room) = <<Len(body[n])>> \o body[n]
        /\ body[0] = <<>>
        /\ \A k \in 1..n : body[k] = body[k - 1] \o Ltv(room - 1 - Len(body[k - 1]), entries[k])
  BY FilledIs
<1>3. \A k \in 0..n : size[k] \in Nat /\ size[k] <= size[n]
  <2>1. n \in 0..n /\ \A k \in 0..n : \A j \in 0..k : size[k] \in Nat /\ size[j] <= size[k]
    BY <1>1, EndsGrow
  <2>2. \A k \in 0..n : k \in 0..k
    BY <1>1
  <2> HIDE DEF n
  <2> QED BY <2>1, <2>2
<1> DEFINE entry(k) == <<Len(entries[k].value) + 1, entries[k].type>> \o entries[k].value
           H == {k \in Nat : k > n \/ Len(body[k]) = size[k]}
<1>4. ASSUME NEW k \in 1..n, Len(body[k - 1]) = size[k - 1]
      PROVE  /\ body[k] = body[k - 1] \o entry(k) /\ body[k - 1] \in Bytes /\ entry(k) \in Bytes
             /\ Len(entry(k)) = 2 + Len(entries[k].value) /\ Len(body[k]) = size[k]
  <2> DEFINE left == room - 1 - Len(body[k - 1])
  <2>1. k - 1 \in 0..n /\ k \in 0..n
    BY <1>1
  <2>2. body[k - 1] \in Bytes /\ size[k - 1] \in Nat /\ size[k] \in Nat
        /\ size[k] = size[k - 1] + 2 + Len(entries[k].value)
    BY <1>3, <2>1 DEF Ends
  <2>3. left \in Int /\ left >= 2 + Len(entries[k].value)
    BY <1>1, <1>3, <1>4, <2>1, <2>2, SMTT(30)
  <2>4. Ltv(left, entries[k]) = entry(k) /\ Ltv(left, entries[k]) \in Bytes
        /\ Len(Ltv(left, entries[k])) = 2 + Len(entries[k].value)
    <3> HIDE DEF left, n
    <3> QED BY <1>1, <2>3, LtvIs
  <2>5. body[k] = body[k - 1] \o Ltv(left, entries[k])
    BY <1>2
  <2> HIDE DEF left, n, entry
  <2>6. Len(body[k]) = size[k]
    <3>1. Len(body[k - 1] \o Ltv(left, entries[k])) = Len(body[k - 1]) + Len(Ltv(left, entries[k]))
      BY <2>2, <2>4, Joined, Zenon
    <3> QED BY <1>1, <1>4, <2>2, <2>4, <2>5, <3>1, SMTT(30)
  <2> QED BY <1>1, <2>2, <2>4, <2>5, <2>6
<1>5. 0 \in H
  BY <1>2 DEF Ends
<1>6. ASSUME NEW k \in Nat, k \in H
      PROVE  k + 1 \in H
  <2>1. CASE k + 1 > n
    BY <2>1
  <2>2. CASE k + 1 <= n
    <3>1. k + 1 \in 1..n /\ (k + 1) - 1 = k
      BY <2>2
    <3>2. Len(body[k]) = size[k]
      BY <1>1, <1>6, <2>2
    <3>3. Len(body[k + 1]) = size[k + 1]
      <4> HIDE DEF n, entry, H
      <4> QED BY <1>4, <3>1, <3>2
    <3> QED BY <3>3
  <2> QED BY <1>1, <2>1, <2>2
<1>7. \A k \in 0..n : Len(body[k]) = size[k]
  <2>1. \A k \in Nat : k \in H
    <3> HIDE DEF H
    <3> QED BY <1>5, <1>6, Inductive
  <2> QED BY <1>1, <2>1
<1>8. ASSUME NEW k \in 1..n
      PROVE  /\ k - 1 \in 0..n /\ Len(body[k - 1]) = size[k - 1] /\ size[k - 1] \in Nat
             /\ body[k] = body[k - 1] \o entry(k) /\ body[k - 1] \in Bytes /\ entry(k) \in Bytes
             /\ Len(entry(k)) = 2 + Len(entries[k].value)
  <2>1. k - 1 \in 0..n
    BY <1>1
  <2> HIDE DEF n, entry
  <2> QED BY <1>3, <1>4, <1>7, <2>1
\* The bytes of the entries before stay
<1> DEFINE G == {m \in Nat : m > n \/ \A k \in 0..m : \A j \in 1..size[k] : body[m][j] = body[k][j]}
<1>9. 0 \in G
  BY <1>2 DEF Ends
<1>10. ASSUME NEW m \in Nat, m \in G
       PROVE  m + 1 \in G
  <2>1. CASE m + 1 > n
    BY <2>1
  <2>2. CASE m + 1 <= n
    <3>1. m + 1 \in 1..n /\ (m + 1) - 1 = m /\ m \in 0..n
      BY <1>1, <2>2
    <3>2. body[m + 1] = body[m] \o entry(m + 1) /\ body[m] \in Bytes /\ entry(m + 1) \in Bytes
          /\ Len(body[m]) = size[m] /\ size[m] \in Nat
      <4> HIDE DEF n, entry
      <4> QED BY <1>8, <3>1
    <3>3. \A j \in 1..size[m] : body[m + 1][j] = body[m][j]
      <4> HIDE DEF entry
      <4>1. \A j \in 1..Len(body[m]) : (body[m] \o entry(m + 1))[j] = body[m][j]
        BY <3>2, Joined, Zenon
      <4> QED BY <3>2, <4>1
    <3>4. ASSUME NEW k \in 0..m, NEW j \in 1..size[k]
          PROVE  body[m + 1][j] = body[k][j]
      <4>1. body[m][j] = body[k][j]
        BY <1>10, <3>1
      <4>2. k \in 0..n /\ size[k] \in Nat /\ size[k] <= size[m]
        BY <1>1, <1>3, <3>1, EndsGrow
      <4>3. j \in 1..size[m]
        BY <3>2, <4>2
      <4> QED BY <3>3, <4>1, <4>3
    <3>5. \A k \in 0..(m + 1) : \A j \in 1..size[k] : body[m + 1][j] = body[k][j]
      BY <3>4
    <3> QED BY <3>5
  <2> QED BY <1>1, <2>1, <2>2
<1>11. \A k \in 0..n : \A j \in 1..size[k] : body[n][j] = body[k][j]
  <2>1. n \in G
    <3> HIDE DEF G
    <3> QED BY <1>1, <1>9, <1>10, Inductive
  <2> QED BY <1>1, <2>1
<1> DEFINE s == Filled(entries, room)
<1>12. body[n] \in Bytes /\ Len(body[n]) = size[n] /\ size[n] \in Nat /\ n \in 0..n
  BY <1>1, <1>3, <1>7
<1>13. s \in Bytes /\ Len(s) = 1 + size[n] /\ s[1] = size[n] /\ \A j \in 1..size[n] : s[j + 1] = body[n][j]
  <2> DEFINE a == <<size[n]>>
  <2>1. a \in Bytes /\ Len(a) = 1 /\ a[1] = size[n]
    BY <1>12 DEF Bytes
  <2>2. s = a \o body[n]
    BY <1>2, <1>12
  <2>3. \A j \in 1..size[n] : j + 1 = 1 + j
    BY <1>12
  <2> HIDE DEF n, a, s
  <2>4. s \in Bytes /\ Len(s) = 1 + size[n] /\ s[1] = a[1] /\ \A j \in 1..size[n] : s[1 + j] = body[n][j]
    <3>1. /\ a \o body[n] \in Bytes /\ Len(a \o body[n]) = Len(a) + Len(body[n])
          /\ \A j \in 1..Len(a) : (a \o body[n])[j] = a[j]
          /\ \A j \in 1..Len(body[n]) : (a \o body[n])[Len(a) + j] = body[n][j]
      BY <1>12, <2>1, Joined, Zenon
    <3> QED BY <1>12, <2>1, <2>2, <3>1
  <2> QED BY <2>1, <2>3, <2>4
<1>14. ASSUME NEW k \in 1..n, NEW j \in 1..(2 + Len(entries[k].value))
       PROVE  s[size[k - 1] + 1 + j] = entry(k)[j]
  <2>1. /\ k - 1 \in 0..n /\ Len(body[k - 1]) = size[k - 1] /\ size[k - 1] \in Nat
        /\ body[k] = body[k - 1] \o entry(k) /\ body[k - 1] \in Bytes /\ entry(k) \in Bytes
        /\ Len(entry(k)) = 2 + Len(entries[k].value)
    BY <1>8
  <2>2. k \in 0..n /\ size[k] \in Nat /\ size[k] = size[k - 1] + 2 + Len(entries[k].value)
        /\ size[k] <= size[n] /\ Len(entries[k].value) \in Nat
    BY <1>1, <1>3 DEF Ends
  <2>3. size[k - 1] + j \in 1..size[k] /\ size[k - 1] + j \in 1..size[n]
    <3> DEFINE l == Len(entries[k].value)
    <3>1. l \in Nat /\ j \in 1..(2 + l) /\ size[k] = size[k - 1] + 2 + l /\ size[k - 1] \in Nat
          /\ size[k] \in Nat /\ size[n] \in Nat /\ size[k] <= size[n]
      BY <1>12, <2>1, <2>2, Zenon
    <3> DEFINE before == size[k - 1]
               with == size[k]
               all == size[n]
    <3>2. /\ l \in Nat /\ j \in 1..(2 + l) /\ with = before + 2 + l /\ before \in Nat
          /\ with \in Nat /\ all \in Nat /\ with <= all
      BY <3>1, Zenon
    <3> HIDE DEF n, l, before, with, all
    <3>3. before + j \in 1..with /\ before + j \in 1..all
      BY <3>2
    <3> QED BY <3>3, Zenon DEF before, with, all
  <2>4. body[k][size[k - 1] + j] = entry(k)[j]
    <3> HIDE DEF entry, n
    <3>1. \A i \in 1..Len(entry(k)) :
            (body[k - 1] \o entry(k))[Len(body[k - 1]) + i] = entry(k)[i]
      BY <2>1, Joined, Zenon
    <3> QED BY <2>1, <2>2, <3>1
  <2>5. body[n][size[k - 1] + j] = body[k][size[k - 1] + j]
    BY <1>11, <2>2, <2>3
  <2>6. s[(size[k - 1] + j) + 1] = body[n][size[k - 1] + j]
    BY <1>13, <2>3
  <2>7. size[k - 1] + 1 + j = (size[k - 1] + j) + 1
    BY <2>1
  <2> QED BY <2>4, <2>5, <2>6, <2>7
<1>15. ASSUME NEW k \in 1..n
       PROVE  /\ s[size[k - 1] + 2] = Len(entries[k].value) + 1
              /\ s[size[k - 1] + 3] = entries[k].type
              /\ \A j \in 1..Len(entries[k].value) : s[size[k - 1] + 3 + j] = entries[k].value[j]
  <2>1. entries[k] \in Entries /\ Len(entries[k].value) \in Nat /\ size[k - 1] \in Nat
    BY <1>1, <1>8
  <2>2. /\ entry(k)[1] = Len(entries[k].value) + 1 /\ entry(k)[2] = entries[k].type
        /\ \A j \in 1..Len(entries[k].value) : entry(k)[2 + j] = entries[k].value[j]
    BY <2>1 DEF Entries, Bytes
  <2> HIDE DEF entry, s
  <2> DEFINE l == Len(entries[k].value)
  <2>6. l \in Nat /\ 1 \in 1..(2 + l) /\ 2 \in 1..(2 + l) /\ \A j \in 1..l : 2 + j \in 1..(2 + l)
    <3>1. l \in Nat
      BY <2>1
    <3> HIDE DEF l
    <3> QED BY <3>1
  <2>3. s[size[k - 1] + 1 + 1] = entry(k)[1] /\ s[size[k - 1] + 1 + 2] = entry(k)[2]
    BY <1>14, <2>6, Zenon
  <2>4. ASSUME NEW j \in 1..Len(entries[k].value)
        PROVE  s[size[k - 1] + 3 + j] = entries[k].value[j]
    <3>1. 2 + j \in 1..(2 + Len(entries[k].value))
      BY <2>6, Zenon
    <3>2. s[size[k - 1] + 1 + (2 + j)] = entry(k)[2 + j]
      BY <1>14, <3>1, Zenon
    <3>3. size[k - 1] + 1 + (2 + j) = size[k - 1] + 3 + j
      <4>1. size[k - 1] \in Int /\ j \in Int
        BY <2>1
      <4>2. \A x, y \in Int : x + 1 + (2 + y) = x + 3 + y
        OBVIOUS
      <4> QED BY <4>1, <4>2, Zenon
    <3> QED BY <2>2, <3>2, <3>3
  <2>5. size[k - 1] + 1 + 1 = size[k - 1] + 2 /\ size[k - 1] + 1 + 2 = size[k - 1] + 3
    BY <2>1
  <2> QED BY <2>2, <2>3, <2>4, <2>5
<1> QED
  BY <1>13, <1>15

-----------------------------------------------------------------------------
(* Reading metadata *)

Contexts == [preferred_audio_ctx: Nat, streaming_audio_ctx: Nat]
ContextRounds == [i: Int, left: Int, read: Contexts]

LEMMA AtIs ==
  ASSUME NEW s \in Bytes, NEW i \in Int
  PROVE  At(s, i) \in Nat /\ TwoAt(s, i) \in Nat
<1>1. \A j \in Int : At(s, j) \in Nat
  BY DEF At, Bytes
<1> QED
  BY <1>1 DEF TwoAt

LEMMA MetadataRoundIs ==
  ASSUME NEW s \in Bytes, NEW r \in ContextRounds
  PROVE  MetadataRound(s, r) \in ContextRounds
<1>1. r.i \in Int /\ r.left \in Int /\ r.read \in Contexts
      /\ r = [i |-> r.i, left |-> r.left, read |-> r.read]
  BY DEF ContextRounds
<1>2. At(s, r.i) \in Int /\ TwoAt(s, (r.i + 1) + 1) \in Nat /\ TwoAt(s, r.i + 2) \in Nat
  BY <1>1, AtIs
<1> DEFINE type == At(s, r.i + 1)
           new == WithContext(r.read, s, r.i + 1)
<1>3. type \in {1, 2} => s[r.i + 1] = type
  BY DEF At
<1>4. type \in {1, 2} => new \in Contexts
  BY <1>1, <1>2, <1>3 DEF WithContext, Contexts
<1> HIDE DEF type, new
<1>5. MetadataRound(s, r) =
        IF r.left = 0 \/ At(s, r.i) > r.left \/ type \notin {1, 2, 5} THEN r
        ELSE IF type = 5 THEN [i |-> r.i + 2 + At(s, r.i), left |-> r.left - At(s, r.i) - 1, read |-> r.read]
        ELSE IF ValidContext(TwoAt(s, r.i + 2))
             THEN [i |-> r.i + 4, left |-> r.left - At(s, r.i) - 1, read |-> new]
        ELSE [i |-> r.i, left |-> 0, read |-> new]
  BY Zenon DEF MetadataRound, type, new
<1>6. CASE type = 5
  <2>1. MetadataRound(s, r) \in {r, [i |-> r.i + 2 + At(s, r.i), left |-> r.left - At(s, r.i) - 1, read |-> r.read]}
    BY <1>5, <1>6
  <2>3. [i |-> r.i + 2 + At(s, r.i), left |-> r.left - At(s, r.i) - 1, read |-> r.read] \in ContextRounds
    BY <1>1, <1>2 DEF ContextRounds
  <2> QED BY <2>1, <2>3
<1>7. CASE type \in {1, 2}
  <2>1. MetadataRound(s, r) \in {r, [i |-> r.i, left |-> 0, read |-> new],
                                [i |-> r.i + 4, left |-> r.left - At(s, r.i) - 1, read |-> new]}
    BY <1>5, <1>7
  <2>2. new \in Contexts
    BY <1>4, <1>7
  <2>3. [i |-> r.i, left |-> 0, read |-> new] \in ContextRounds
        /\ [i |-> r.i + 4, left |-> r.left - At(s, r.i) - 1, read |-> new] \in ContextRounds
    BY <1>1, <1>2, <2>2 DEF ContextRounds
  <2> QED BY <2>1, <2>3
<1>8. CASE type \notin {1, 2, 5}
  BY <1>5, <1>8
<1> QED
  BY <1>6, <1>7, <1>8

\* Reading takes as many rounds as there are bytes, each from where the last one came to
LEMMA MetadataIs ==
  ASSUME NEW s \in Bytes, NEW i \in Nat, NEW left \in Nat, NEW m \in Contexts
  PROVE  \E after \in [0..left -> ContextRounds] :
           /\ ReadMetadata(s, i, left, m) = after[left].read
           /\ after[0] = [i |-> i, left |-> left, read |-> m]
           /\ \A k \in 1..left : after[k] = MetadataRound(s, after[k - 1])
<1> DEFINE start == [i |-> i, left |-> left, read |-> m]
           step == [k \in 1..left |-> [r \in ContextRounds |-> MetadataRound(s, r)]]
           Eq(g) == g = [k \in 0..left |-> IF k = 0 THEN start ELSE MetadataRound(s, g[k - 1])]
           after == CHOOSE g : Eq(g)
<1>1. start \in ContextRounds
  BY DEF ContextRounds
<1>2. step \in [1..left -> [ContextRounds -> ContextRounds]]
  BY MetadataRoundIs
<1>3. PICK f : Chain(f, left, ContextRounds, start, step)
  <2> HIDE DEF step, start
  <2> QED BY <1>1, <1>2, Chains
<1>4. f \in [0..left -> ContextRounds] /\ f[0] = start
      /\ \A k \in 1..left : k - 1 \in 0..left /\ f[k] = MetadataRound(s, f[k - 1])
  <2>1. f \in [0..left -> ContextRounds] /\ f[0] = start /\ \A k \in 1..left : f[k] = step[k][f[k - 1]]
    <3> HIDE DEF step, start
    <3> QED BY <1>3 DEF Chain
  <2>2. ASSUME NEW k \in 1..left
        PROVE  k - 1 \in 0..left /\ f[k] = MetadataRound(s, f[k - 1])
    <3>1. k - 1 \in 0..left
      OBVIOUS
    <3>2. f[k - 1] \in ContextRounds
      BY <2>1, <3>1
    <3> QED BY <2>1, <3>1, <3>2
  <2> HIDE DEF step, start
  <2> QED BY <2>1, <2>2
<1>5. Eq(f)
  <2>1. \A k \in 0..left : k = 0 \/ k \in 1..left
    OBVIOUS
  <2>2. f = [k \in 0..left |-> f[k]]
    BY <1>4
  <2> HIDE DEF start
  <2> QED BY <1>4, <2>1, <2>2
<1>6. Eq(after)
  <2> HIDE DEF Eq
  <2> QED BY <1>5, Zenon
<1>7. /\ after = [k \in 0..left |-> IF k = 0 THEN start ELSE MetadataRound(s, after[k - 1])]
      /\ ReadMetadata(s, i, left, m) = after[left].read
  BY <1>6, Zenon DEF ReadMetadata
<1> HIDE DEF after
<1>8. after[0] = start /\ \A k \in 1..left : after[k] = MetadataRound(s, after[k - 1])
  <2> HIDE DEF start
  <2> QED BY <1>7
<1>9. \A k \in 1..left : after[k - 1] \in ContextRounds => after[k] = step[k][after[k - 1]]
  BY <1>8
<1>10. \A k \in 0..left : after[k] = f[k]
  <2> HIDE DEF step, start
  <2> QED BY <1>3, <1>8, <1>9, ChainOnly
<1>11. after \in [0..left -> ContextRounds]
  <2> HIDE DEF start
  <2>1. DOMAIN after = 0..left /\ after = [k \in 0..left |-> after[k]]
    BY <1>7
  <2> QED BY <1>4, <1>10, <2>1
<1> QED
  BY <1>7, <1>8, <1>11

-----------------------------------------------------------------------------
(* The contexts of a client's metadata *)

\* Contexts on the air
U16 == 0..(256 * 256 - 1)

LEMMA ContextIsNat ==
  ASSUME NEW v \in U16
  PROVE  v \in Nat
BY SMTT(20) DEF U16

\* Contexts, in any order and as often as the client likes, all but the last within the mask;
\* behind them at most one entry of another type.  All of it fits in a write.
ContextsFirst(entries) ==
  /\ entries \in Seq(Entries)
  /\ \A k \in DOMAIN entries :
       /\ 4 * (k - 1) + 2 + Len(entries[k].value) <= 254
       /\ entries[k].type \in {1, 2} =>
            \E v \in U16 : entries[k].value = Two(v) /\ (k < Len(entries) => ValidContext(v))
       /\ entries[k].type \notin {1, 2} => k = Len(entries)

LEMMA TwoIs ==
  ASSUME NEW v \in Nat
  PROVE  Two(v) \in Bytes /\ Len(Two(v)) = 2 /\ TwoAt(Two(v), 1) = v
<1>1. v % 256 \in Nat /\ v \div 256 \in Nat /\ v = (v % 256) + 256 * (v \div 256)
  OBVIOUS
<1>2. Two(v) \in Bytes /\ Len(Two(v)) = 2 /\ Two(v)[1] = v % 256 /\ Two(v)[2] = v \div 256
      /\ DOMAIN Two(v) = 1..2
  BY <1>1 DEF Two, Bytes
<1>3. At(Two(v), 1) = v % 256 /\ At(Two(v), 1 + 1) = v \div 256
  BY <1>2 DEF At
<1> QED
  BY <1>1, <1>2, <1>3 DEF TwoAt

\* Such metadata: its length, the lengths of its values and the bytes it takes
Shape(entries, n, len, total) ==
  /\ n \in Nat /\ n = Len(entries)
  /\ len \in [1..n -> Nat] /\ \A k \in 1..n : len[k] = Len(entries[k].value)
  /\ total \in Nat /\ n <= total /\ total <= 254
  /\ total = IF n = 0 THEN 0 ELSE 4 * (n - 1) + 2 + len[n]
  /\ \A k \in 1..n :
       /\ entries[k] \in Entries /\ entries[k].type \in Nat
       /\ entries[k].type \in {1, 2} =>
            /\ len[k] = 2
            /\ k < n => ValidContext(TwoAt(entries[k].value, 1))
       /\ entries[k].type \notin {1, 2} => k = n
       /\ 4 * (k - 1) + 2 + len[k] <= total

LEMMA ShapeIs ==
  ASSUME NEW entries, ContextsFirst(entries)
  PROVE  \E n, len, total : Shape(entries, n, len, total)
<1>1. entries \in Seq(Entries)
  BY DEF ContextsFirst
<1>2. PICK n \in Nat : n = Len(entries) /\ DOMAIN entries = 1..n /\ \A k \in 1..n : entries[k] \in Entries
  BY <1>1
<1>3. \A e \in Entries : e.type \in Nat /\ Len(e.value) \in Nat
  BY DEF Entries, Bytes
<1> DEFINE len == [k \in 1..n |-> Len(entries[k].value)]
<1>4. len \in [1..n -> Nat] /\ \A k \in 1..n : len[k] = Len(entries[k].value)
  BY <1>2, <1>3
<1> HIDE DEF len
<1>5. ASSUME NEW k \in 1..n
      PROVE  /\ 4 * (k - 1) + 2 + len[k] <= 254
             /\ entries[k].type \in {1, 2} =>
                  \E v \in U16 : entries[k].value = Two(v) /\ (k < n => ValidContext(v))
             /\ entries[k].type \notin {1, 2} => k = n
  BY <1>2, <1>4, Zenon DEF ContextsFirst
<1>6. ASSUME NEW k \in 1..n, entries[k].type \in {1, 2}
      PROVE  len[k] = 2 /\ (k < n => ValidContext(TwoAt(entries[k].value, 1)))
  <2>1. PICK v \in U16 : entries[k].value = Two(v) /\ (k < n => ValidContext(v))
    BY <1>5, <1>6, Zenon
  <2>2. v \in Nat
    BY <2>1, ContextIsNat
  <2> QED BY <1>4, <2>1, <2>2, TwoIs, Zenon
<1> DEFINE total == IF n = 0 THEN 0 ELSE 4 * (n - 1) + 2 + len[n]
<1>7. ASSUME NEW k \in 1..n
      PROVE  entries[k].type \notin {1, 2} => k = n
  BY <1>5, Zenon
<1>8. total \in Nat /\ n <= total /\ total <= 254
  <2>1. CASE n = 0
    BY <2>1
  <2>2. CASE n > 0
    <3>1. n \in 1..n /\ len[n] \in Nat
      BY <1>4, <2>2
    <3>2. 4 * (n - 1) + 2 + len[n] <= 254
      BY <1>5, <3>1, Zenon
    <3> QED BY <2>2, <3>1, <3>2
  <2> QED BY <2>1, <2>2
<1>9. ASSUME NEW k \in 1..n
      PROVE  4 * (k - 1) + 2 + len[k] <= total
  <2>1. CASE k = n
    BY <1>4, <2>1
  <2>2. CASE k < n
    <3>1. len[k] = 2
      <4>1. k # n
        BY <2>2
      <4> QED BY <1>6, <1>7, <4>1, Zenon
    <3>2. len[n] \in Nat
      BY <1>4, <2>2
    <3> QED BY <2>2, <3>1, <3>2
  <2> QED BY <2>1, <2>2
<1>10. \A k \in 1..n : entries[k] \in Entries /\ entries[k].type \in Nat
  BY <1>2, <1>3
<1> HIDE DEF total
<1>11. total = IF n = 0 THEN 0 ELSE 4 * (n - 1) + 2 + len[n]
  BY DEF total
<1>12. Shape(entries, n, len, total)
  BY <1>2, <1>4, <1>6, <1>7, <1>8, <1>9, <1>10, <1>11, Zenon DEF Shape
<1> QED
  BY <1>12, Zenon

\* The stream s has them from place p on
Stands(s, p, entries, n, len) ==
  \A k \in 1..n :
    /\ At(s, p + 4 * (k - 1)) = len[k] + 1
    /\ At(s, p + 4 * (k - 1) + 1) = entries[k].type
    /\ entries[k].type \in {1, 2} => TwoAt(s, p + 4 * (k - 1) + 2) = TwoAt(entries[k].value, 1)

\* The stream s has the bytes of filled from place p on, but for their length
Occurs(s, p, filled) == \A i \in 1..(Len(filled) - 1) : At(s, p + i - 1) = filled[i + 1]

\* Where such entries end
LEMMA ContextsEnd ==
  ASSUME NEW entries, ContextsFirst(entries), NEW n, NEW len, NEW total, Shape(entries, n, len, total)
  PROVE  \E size : /\ Ends(size, entries) /\ size[n] = total
                   /\ \A k \in 1..n : size[k - 1] = 4 * (k - 1)
<1>1. /\ entries \in Seq(Entries) /\ n \in Nat /\ n = Len(entries)
      /\ len \in [1..n -> Nat] /\ total \in Nat /\ n <= total /\ total <= 254
      /\ total = IF n = 0 THEN 0 ELSE 4 * (n - 1) + 2 + len[n]
  BY Zenon DEF ContextsFirst, Shape
<1>2. ASSUME NEW k \in 1..n
      PROVE  /\ len[k] = Len(entries[k].value) /\ len[k] \in Nat /\ entries[k].value \in Bytes
             /\ entries[k].type \in {1, 2} => len[k] = 2
             /\ entries[k].type \notin {1, 2} => k = n
             /\ 4 * (k - 1) + 2 + len[k] <= total
  <2>1. entries[k] \in Entries
    BY Zenon DEF Shape
  <2>2. entries[k].value \in Bytes
    BY <2>1 DEF Entries
  <2>3. len[k] \in Nat
    BY <1>1
  <2> QED BY <2>2, <2>3, Zenon DEF Shape
<1> DEFINE size == [k \in 0..n |-> IF k = n THEN total ELSE 4 * k]
<1>3. size \in [0..n -> Nat] /\ size[0] = 0 /\ size[n] = total /\ \A k \in 1..n : size[k - 1] = 4 * (k - 1)
  BY <1>1
<1>4. ASSUME NEW k \in 1..n
      PROVE  size[k] = size[k - 1] + 2 + len[k]
  <2>1. CASE k = n
    BY <1>1, <2>1
  <2>2. CASE k < n
    <3>1. len[k] = 2
      <4>1. k # n
        BY <2>2
      <4> QED BY <1>2, <4>1, Zenon
    <3> QED BY <1>1, <2>2, <3>1
  <2> QED BY <1>1, <2>1, <2>2
<1> HIDE DEF size
<1>5. Ends(size, entries)
  BY <1>1, <1>2, <1>3, <1>4, Zenon DEF Ends
<1> QED
  BY <1>3, <1>5, Zenon

\* The bytes of such metadata
LEMMA FilledEntries ==
  ASSUME NEW entries, ContextsFirst(entries), NEW n, NEW len, NEW total, Shape(entries, n, len, total)
  PROVE  /\ Filled(entries, 255) \in Bytes /\ Len(Filled(entries, 255)) = 1 + total
         /\ Filled(entries, 255)[1] = total
         /\ \A k \in 1..n :
              /\ Filled(entries, 255)[4 * (k - 1) + 2] = len[k] + 1
              /\ Filled(entries, 255)[4 * (k - 1) + 3] = entries[k].type
              /\ \A j \in 1..len[k] : Filled(entries, 255)[4 * (k - 1) + 3 + j] = entries[k].value[j]
<1>1. /\ entries \in Seq(Entries) /\ n \in Nat /\ n = Len(entries)
      /\ len \in [1..n -> Nat] /\ total \in Nat /\ n <= total /\ total <= 254
      /\ total = IF n = 0 THEN 0 ELSE 4 * (n - 1) + 2 + len[n]
  BY Zenon DEF ContextsFirst, Shape
<1>2. ASSUME NEW k \in 1..n
      PROVE  /\ len[k] = Len(entries[k].value) /\ len[k] \in Nat /\ entries[k].value \in Bytes
             /\ entries[k].type \in {1, 2} => len[k] = 2
             /\ entries[k].type \notin {1, 2} => k = n
             /\ 4 * (k - 1) + 2 + len[k] <= total
  <2>1. entries[k] \in Entries
    BY Zenon DEF Shape
  <2>2. entries[k].value \in Bytes
    BY <2>1 DEF Entries
  <2>3. len[k] \in Nat
    BY <1>1
  <2> QED BY <2>2, <2>3, Zenon DEF Shape
<1>3. PICK size : Ends(size, entries) /\ size[n] = total /\ \A k \in 1..n : size[k - 1] = 4 * (k - 1)
  BY ContextsEnd
<1>5. Ends(size, entries)
  BY <1>3
<1> DEFINE room == 255
           f == Filled(entries, room)
<1>6. /\ f \in Bytes /\ Len(f) = 1 + total /\ f[1] = total
      /\ \A k \in 1..n :
           /\ f[4 * (k - 1) + 2] = len[k] + 1
           /\ f[4 * (k - 1) + 3] = entries[k].type
           /\ \A j \in 1..len[k] : f[4 * (k - 1) + 3 + j] = entries[k].value[j]
  <2>1. total <= room - 1 /\ room \in Int
    BY <1>1
  <2> HIDE DEF room
  <2>2. /\ f \in Bytes /\ Len(f) = 1 + size[n] /\ f[1] = size[n]
        /\ \A k \in 1..n :
             /\ f[size[k - 1] + 2] = Len(entries[k].value) + 1
             /\ f[size[k - 1] + 3] = entries[k].type
             /\ \A j \in 1..Len(entries[k].value) : f[size[k - 1] + 3 + j] = entries[k].value[j]
    BY <1>1, <1>3, <1>5, <2>1, FilledHolds, Zenon
  <2> HIDE DEF f
  <2> QED BY <1>2, <1>3, <2>2, ZenonT(60)
<1> QED
  BY <1>6

LEMMA FilledStands ==
  ASSUME NEW entries, ContextsFirst(entries), NEW n, NEW len, NEW total, Shape(entries, n, len, total),
         NEW s, NEW p \in Nat, Occurs(s, p, Filled(entries, 255))
  PROVE  Len(Filled(entries, 255)) = 1 + total /\ Stands(s, p, entries, n, len)
<1>1. n \in Nat /\ len \in [1..n -> Nat] /\ total \in Nat
  BY Zenon DEF Shape
<1>2. ASSUME NEW k \in 1..n
      PROVE  /\ len[k] = Len(entries[k].value) /\ len[k] \in Nat /\ entries[k].value \in Bytes
             /\ entries[k].type \in {1, 2} => len[k] = 2
             /\ 4 * (k - 1) + 2 + len[k] <= total
  <2>1. entries[k] \in Entries
    BY Zenon DEF Shape
  <2>2. entries[k].value \in Bytes
    BY <2>1 DEF Entries
  <2>3. len[k] \in Nat
    BY <1>1
  <2> QED BY <2>2, <2>3, Zenon DEF Shape
<1> DEFINE room == 255
           f == Filled(entries, room)
<1>6. /\ f \in Bytes /\ Len(f) = 1 + total
      /\ \A k \in 1..n :
           /\ f[4 * (k - 1) + 2] = len[k] + 1
           /\ f[4 * (k - 1) + 3] = entries[k].type
           /\ \A j \in 1..len[k] : f[4 * (k - 1) + 3 + j] = entries[k].value[j]
  BY FilledEntries
<1> HIDE DEF f
<1>7. \A i \in 1..total : At(s, p + i - 1) = f[i + 1]
  <2>1. Occurs(s, p, f)
    BY DEF f
  <2>2. Len(f) - 1 = total
    BY <1>1, <1>6
  <2> QED BY <2>1, <2>2 DEF Occurs
<1>8. ASSUME NEW k \in 1..n
      PROVE  /\ At(s, p + 4 * (k - 1)) = len[k] + 1
             /\ At(s, p + 4 * (k - 1) + 1) = entries[k].type
             /\ \A j \in 1..len[k] : At(s, p + 4 * (k - 1) + 1 + j) = entries[k].value[j]
  <2>1. len[k] \in Nat /\ k \in Nat /\ k >= 1 /\ 4 * (k - 1) + 2 + len[k] <= total
    BY <1>1, <1>2
  <2>2. /\ 4 * (k - 1) + 1 \in 1..total /\ (4 * (k - 1) + 1) + 1 = 4 * (k - 1) + 2
        /\ p + (4 * (k - 1) + 1) - 1 = p + 4 * (k - 1)
        /\ 4 * (k - 1) + 2 \in 1..total /\ (4 * (k - 1) + 2) + 1 = 4 * (k - 1) + 3
        /\ p + (4 * (k - 1) + 2) - 1 = p + 4 * (k - 1) + 1
    BY <1>1, <2>1
  <2>3. /\ At(s, p + 4 * (k - 1)) = f[4 * (k - 1) + 2]
        /\ At(s, p + 4 * (k - 1) + 1) = f[4 * (k - 1) + 3]
    BY <1>7, <2>2
  <2>4. /\ f[4 * (k - 1) + 2] = len[k] + 1 /\ f[4 * (k - 1) + 3] = entries[k].type
        /\ \A j \in 1..len[k] : f[4 * (k - 1) + 3 + j] = entries[k].value[j]
    BY <1>6, Zenon
  <2>5. ASSUME NEW j \in 1..len[k]
        PROVE  At(s, p + 4 * (k - 1) + 1 + j) = entries[k].value[j]
    <3>1. /\ 4 * (k - 1) + 2 + j \in 1..total /\ (4 * (k - 1) + 2 + j) + 1 = 4 * (k - 1) + 3 + j
          /\ p + (4 * (k - 1) + 2 + j) - 1 = p + 4 * (k - 1) + 1 + j
      BY <1>1, <2>1
    <3>2. At(s, p + 4 * (k - 1) + 1 + j) = f[4 * (k - 1) + 3 + j]
      BY <1>7, <3>1
    <3> QED BY <2>4, <3>2, Zenon
  <2> QED BY <2>3, <2>4, <2>5, Zenon
<1>9. ASSUME NEW k \in 1..n, entries[k].type \in {1, 2}
      PROVE  TwoAt(s, p + 4 * (k - 1) + 2) = TwoAt(entries[k].value, 1)
  <2>1. len[k] = 2 /\ Len(entries[k].value) = 2 /\ entries[k].value \in Bytes
    BY <1>2, <1>9, Zenon
  <2>2. 1 \in 1..len[k] /\ 2 \in 1..len[k]
    BY <2>1
  <2>3. /\ At(s, p + 4 * (k - 1) + 1 + 1) = entries[k].value[1]
        /\ At(s, p + 4 * (k - 1) + 1 + 2) = entries[k].value[2]
    BY <1>8, <2>2, Zenon
  <2>4. /\ p + 4 * (k - 1) + 1 + 1 = p + 4 * (k - 1) + 2
        /\ p + 4 * (k - 1) + 1 + 2 = (p + 4 * (k - 1) + 2) + 1
    BY <1>1
  <2>5. At(entries[k].value, 1) = entries[k].value[1] /\ At(entries[k].value, 1 + 1) = entries[k].value[2]
    <3>1. DOMAIN entries[k].value = 1..2
      BY <2>1 DEF Bytes
    <3> QED BY <3>1 DEF At
  <2> QED BY <2>3, <2>4, <2>5, Zenon DEF TwoAt
<1>10. Stands(s, p, entries, n, len)
  BY <1>8, <1>9, Zenon DEF Stands
<1>11. Len(Filled(entries, 255)) = 1 + total
  BY <1>6 DEF f
<1> QED
  BY <1>10, <1>11, Zenon

\* A round reads an entry, or leaves everything as it is
LEMMA RoundReads ==
  ASSUME NEW entries, ContextsFirst(entries), NEW n, NEW len, NEW total, Shape(entries, n, len, total),
         NEW s \in Bytes, NEW p \in Nat, Stands(s, p, entries, n, len), NEW k \in 1..n,
         NEW r \in ContextRounds, r.i = p + 4 * (k - 1), r.left = total - 4 * (k - 1)
  PROVE  LET next == MetadataRound(s, r)
             v == TwoAt(entries[k].value, 1)
         IN /\ entries[k].type \in {1, 2} =>
                 /\ k < n => next.i = p + 4 * k
                 /\ next.left = total - 4 * k
                 /\ next.read.preferred_audio_ctx
                      = IF entries[k].type = 1 THEN v ELSE r.read.preferred_audio_ctx
                 /\ next.read.streaming_audio_ctx
                      = IF entries[k].type = 2 THEN v ELSE r.read.streaming_audio_ctx
            /\ entries[k].type \notin {1, 2} =>
                 next.read = r.read /\ (next.left = 0 \/ next = r)
<1> DEFINE type == entries[k].type
           v == TwoAt(entries[k].value, 1)
           next == MetadataRound(s, r)
           new == WithContext(r.read, s, r.i + 1)
<1>1. /\ n \in Nat /\ len[k] \in Nat /\ total \in Nat
      /\ total = IF n = 0 THEN 0 ELSE 4 * (n - 1) + 2 + len[n]
      /\ type \in Nat /\ 4 * (k - 1) + 2 + len[k] <= total
      /\ type \in {1, 2} => len[k] = 2 /\ (k < n => ValidContext(v))
      /\ type \notin {1, 2} => k = n
  <2>1. /\ n \in Nat /\ len \in [1..n -> Nat] /\ total \in Nat
        /\ total = IF n = 0 THEN 0 ELSE 4 * (n - 1) + 2 + len[n]
        /\ type \in Nat /\ 4 * (k - 1) + 2 + len[k] <= total
        /\ type \in {1, 2} => len[k] = 2 /\ (k < n => ValidContext(v))
        /\ type \notin {1, 2} => k = n
    BY Zenon DEF Shape
  <2> HIDE DEF type, v
  <2>2. len[k] \in Nat
    BY <2>1
  <2> QED BY <2>1, <2>2
<1>2. /\ At(s, p + 4 * (k - 1)) = len[k] + 1
      /\ At(s, p + 4 * (k - 1) + 1) = type
      /\ type \in {1, 2} => TwoAt(s, p + 4 * (k - 1) + 2) = v
  BY Zenon DEF Stands
<1> HIDE DEF v, next
<1>3. /\ At(s, r.i) = len[k] + 1 /\ At(s, r.i + 1) = type
      /\ type \in {1, 2} => TwoAt(s, r.i + 2) = v /\ TwoAt(s, (r.i + 1) + 1) = v
      /\ ~(len[k] + 1 > r.left) /\ r.left # 0 /\ r.left \in Int /\ r.i \in Int
  <2>1. (p + 4 * (k - 1) + 1) + 1 = p + 4 * (k - 1) + 2
    BY <1>1
  <2>2. ~(len[k] + 1 > total - 4 * (k - 1)) /\ total - 4 * (k - 1) # 0 /\ total - 4 * (k - 1) \in Int
        /\ p + 4 * (k - 1) \in Int
    BY <1>1
  <2> HIDE DEF type
  <2> QED BY <1>2, <2>1, <2>2, Zenon
<1>4. r.read \in Contexts
  BY DEF ContextRounds
<1>5. next = IF type \notin {1, 2, 5} THEN r
             ELSE IF type = 5 THEN [i |-> r.i + 2 + (len[k] + 1), left |-> r.left - (len[k] + 1) - 1,
                                    read |-> r.read]
             ELSE IF ValidContext(TwoAt(s, r.i + 2))
                  THEN [i |-> r.i + 4, left |-> r.left - (len[k] + 1) - 1, read |-> new]
             ELSE [i |-> r.i, left |-> 0, read |-> new]
  <2> HIDE DEF type, new
  <2>1. next = IF r.left = 0 \/ At(s, r.i) > r.left \/ type \notin {1, 2, 5} THEN r
               ELSE IF type = 5 THEN [i |-> r.i + 2 + At(s, r.i), left |-> r.left - At(s, r.i) - 1,
                                      read |-> r.read]
               ELSE IF ValidContext(TwoAt(s, r.i + 2))
                    THEN [i |-> r.i + 4, left |-> r.left - At(s, r.i) - 1, read |-> new]
               ELSE [i |-> r.i, left |-> 0, read |-> new]
    BY <1>3, Zenon DEF MetadataRound, next, new
  <2> QED BY <1>3, <2>1, Zenon
<1>6. CASE type \in {1, 2}
  <2>1. /\ new.preferred_audio_ctx = IF type = 1 THEN v ELSE r.read.preferred_audio_ctx
        /\ new.streaming_audio_ctx = IF type = 2 THEN v ELSE r.read.streaming_audio_ctx
    <3>1. s[r.i + 1] = type
      <4>1. At(s, r.i + 1) # 0
        BY <1>3, <1>6
      <4> QED BY <1>3, <4>1 DEF At
    <3>2. r.read = [preferred_audio_ctx |-> r.read.preferred_audio_ctx,
                    streaming_audio_ctx |-> r.read.streaming_audio_ctx]
      BY <1>4 DEF Contexts
    <3>3. CASE type = 1
      <4>1. new = [r.read EXCEPT !.preferred_audio_ctx = v]
        BY <1>3, <3>1, <3>3 DEF WithContext
      <4> HIDE DEF new, type
      <4> QED BY <1>4, <3>3, <4>1 DEF Contexts
    <3>4. CASE type = 2
      <4>1. new = [r.read EXCEPT !.streaming_audio_ctx = v]
        BY <1>3, <3>1, <3>4 DEF WithContext
      <4> HIDE DEF new, type
      <4> QED BY <1>4, <3>4, <4>1 DEF Contexts
    <3> QED BY <1>6, <3>3, <3>4
  <2> HIDE DEF new, type
  <2>2. next.read = new /\ next.left = total - 4 * k /\ (k < n => next.i = p + 4 * k)
    <3>1. CASE ValidContext(TwoAt(s, r.i + 2))
      <4>1. next = [i |-> r.i + 4, left |-> r.left - (len[k] + 1) - 1, read |-> new]
        BY <1>5, <1>6, <3>1
      <4>2. next.read = new /\ next.left = r.left - (len[k] + 1) - 1 /\ next.i = r.i + 4
        BY <4>1
      <4> QED BY <1>1, <1>6, <4>2
    <3>2. CASE ~ValidContext(TwoAt(s, r.i + 2))
      <4>1. next = [i |-> r.i, left |-> 0, read |-> new]
        BY <1>5, <1>6, <3>2
      <4>2. next.read = new /\ next.left = 0
        BY <4>1
      <4>3. ~(k < n)
        BY <1>1, <1>3, <1>6, <3>2, Zenon
      <4>4. k = n /\ total = 4 * (n - 1) + 2 + len[n] /\ len[n] = 2
        BY <1>1, <1>6, <4>3
      <4> QED BY <1>1, <4>2, <4>4
    <3> QED BY <3>1, <3>2
  <2> QED BY <1>6, <2>1, <2>2, Zenon DEF next, type, v
<1>7. CASE type \notin {1, 2}
  <2>1. CASE type = 5
    <3> HIDE DEF type, new
    <3>1. next = [i |-> r.i + 2 + (len[k] + 1), left |-> r.left - (len[k] + 1) - 1, read |-> r.read]
      BY <1>5, <2>1
    <3>2. next.read = r.read /\ next.left = r.left - (len[k] + 1) - 1
      BY <3>1
    <3>3. k = n /\ total = 4 * (n - 1) + 2 + len[n]
      BY <1>1, <1>7
    <3>4. next.left = 0
      BY <1>1, <3>2, <3>3
    <3> QED BY <1>7, <3>2, <3>4, Zenon DEF next, type
  <2>2. CASE type # 5
    <3> HIDE DEF type, new
    <3>1. next = r
      BY <1>5, <1>7, <2>2
    <3> QED BY <1>7, <3>1, Zenon DEF next, type
  <2> QED BY <2>1, <2>2
<1> QED
  BY <1>6, <1>7

\* What the last entry of a type says, of the first k
Latest(entries, k, type, old, v) ==
  \/ v = old /\ \A j \in 1..k : entries[j].type # type
  \/ \E j \in 1..k :
       /\ entries[j].type = type /\ v = TwoAt(entries[j].value, 1)
       /\ \A m \in 1..k : entries[m].type = type => m <= j

LEMMA LatestGrows ==
  ASSUME NEW entries, NEW k \in Nat, NEW type, NEW old, NEW v, NEW w, Latest(entries, k, type, old, v),
         w = IF entries[k + 1].type = type THEN TwoAt(entries[k + 1].value, 1) ELSE v
  PROVE  Latest(entries, k + 1, type, old, w)
<1>1. CASE entries[k + 1].type = type
  <2>1. k + 1 \in 1..(k + 1) /\ \A m \in 1..(k + 1) : m <= k + 1
    OBVIOUS
  <2> QED BY <1>1, <2>1, Zenon DEF Latest
<1>2. CASE entries[k + 1].type # type
  <2>1. \A m \in 1..(k + 1) : m = k + 1 \/ m \in 1..k
    OBVIOUS
  <2>2. \A m \in 1..k : m \in 1..(k + 1)
    OBVIOUS
  <2> QED BY <1>2, <2>1, <2>2, Zenon DEF Latest
<1> QED
  BY <1>1, <1>2

LEMMA LatestIsLast ==
  ASSUME NEW entries, NEW n \in Nat, DOMAIN entries = 1..n, NEW c \in 0..n, NEW type, NEW old, NEW v,
         Latest(entries, c, type, old, v), \A j \in 1..n : j > c => entries[j].type # type
  PROVE  LastOf(entries, type, old) = v
<1> DEFINE at == {i \in DOMAIN entries : entries[i].type = type}
<1>1. at = {j \in 1..c : entries[j].type = type}
  OBVIOUS
<1>2. CASE v = old /\ \A j \in 1..c : entries[j].type # type
  <2>1. at = {}
    BY <1>1, <1>2
  <2> QED BY <1>2, <2>1, Zenon DEF LastOf
<1>3. CASE \E j \in 1..c : /\ entries[j].type = type /\ v = TwoAt(entries[j].value, 1)
                           /\ \A m \in 1..c : entries[m].type = type => m <= j
  <2>1. PICK j \in 1..c : /\ entries[j].type = type /\ v = TwoAt(entries[j].value, 1)
                          /\ \A m \in 1..c : entries[m].type = type => m <= j
    BY <1>3
  <2>2. j \in at /\ (\A m \in at : m <= j) /\ at # {}
    BY <1>1, <2>1
  <2> DEFINE i == CHOOSE k \in at : \A m \in at : m <= k
  <2>3. i \in at /\ \A m \in at : m <= i
    <3> HIDE DEF at
    <3> QED BY <2>2, Zenon
  <2>4. i = j
    <3>1. i <= j /\ j <= i
      BY <2>2, <2>3, Zenon
    <3>2. i \in Int /\ j \in Int
      BY <1>1, <2>3
    <3> HIDE DEF i
    <3> QED BY <3>1, <3>2
  <2>5. LastOf(entries, type, old) = IF at = {} THEN old ELSE TwoAt(entries[i].value, 1)
    BY Zenon DEF LastOf
  <2> HIDE DEF at, i
  <2> QED BY <2>1, <2>2, <2>4, <2>5
<1> QED
  BY <1>2, <1>3, Zenon DEF Latest

LEMMA ContextsReadAt ==
  ASSUME NEW entries, ContextsFirst(entries), NEW m \in Contexts, NEW s \in Bytes, NEW p \in Nat,
         Occurs(s, p, Filled(entries, 255))
  PROVE  LET read == ReadMetadata(s, p, Len(Filled(entries, 255)) - 1, m)
         IN /\ read \in Contexts
            /\ read.preferred_audio_ctx = LastOf(entries, 1, m.preferred_audio_ctx)
            /\ read.streaming_audio_ctx = LastOf(entries, 2, m.streaming_audio_ctx)
<1>1. PICK n, len, total : Shape(entries, n, len, total)
  BY ShapeIs, Zenon
<1> DEFINE c == IF n > 0 /\ entries[n].type \notin {1, 2} THEN n - 1 ELSE n
<1>2. /\ n \in Nat /\ total \in Nat /\ n <= total /\ DOMAIN entries = 1..n
      /\ total = IF n = 0 THEN 0 ELSE 4 * (n - 1) + 2 + len[n]
      /\ \A k \in 1..n : entries[k].type \notin {1, 2} => k = n
      /\ \A k \in 1..n : entries[k].type \in {1, 2} => len[k] = 2
  <2>1. entries \in Seq(Entries) /\ n = Len(entries)
    BY <1>1, Zenon DEF Shape, ContextsFirst
  <2>2. DOMAIN entries = 1..n
    BY <2>1
  <2> QED BY <1>1, <2>2, Zenon DEF Shape
<1>3. Len(Filled(entries, 255)) - 1 = total /\ Stands(s, p, entries, n, len)
  <2>1. Len(Filled(entries, 255)) = 1 + total /\ Stands(s, p, entries, n, len)
    BY <1>1, FilledStands
  <2>2. total \in Nat
    BY <1>2
  <2> QED BY <2>1, <2>2
<1>4. /\ c \in Nat /\ c <= n /\ c <= total /\ c \in 0..n
      /\ \A k \in 1..n : k <= c => entries[k].type \in {1, 2}
      /\ \A k \in 1..n : k > c => entries[k].type \notin {1, 2}
      /\ c < n => c + 1 = n /\ n \in 1..n
      /\ c = n => total - 4 * n = 0
  <2>1. CASE n > 0 /\ entries[n].type \notin {1, 2}
    BY <1>2, <2>1
  <2>2. CASE n > 0 /\ entries[n].type \in {1, 2}
    <3>1. c = n /\ n \in 1..n
      BY <1>2, <2>2
    <3>2. len[n] = 2
      BY <1>2, <2>2, <3>1, Zenon
    <3>3. \A k \in 1..n : entries[k].type \in {1, 2}
      BY <1>2, <2>2, Zenon
    <3> HIDE DEF c
    <3> QED BY <1>2, <2>2, <3>1, <3>2, <3>3
  <2>3. CASE n = 0
    BY <1>2, <2>3
  <2> QED BY <1>2, <2>1, <2>2, <2>3
<1>5. PICK after \in [0..total -> ContextRounds] :
        /\ ReadMetadata(s, p, total, m) = after[total].read
        /\ after[0] = [i |-> p, left |-> total, read |-> m]
        /\ \A k \in 1..total : after[k] = MetadataRound(s, after[k - 1])
  <2>2. total \in Nat
    BY <1>2
  <2>3. \E g \in [0..total -> ContextRounds] :
          /\ ReadMetadata(s, p, total, m) = g[total].read
          /\ g[0] = [i |-> p, left |-> total, read |-> m]
          /\ \A k \in 1..total : g[k] = MetadataRound(s, g[k - 1])
    BY <2>2, MetadataIs
  <2> QED BY <2>3
<1> DEFINE Latests(k) == /\ Latest(entries, k, 1, m.preferred_audio_ctx, after[k].read.preferred_audio_ctx)
                         /\ Latest(entries, k, 2, m.streaming_audio_ctx, after[k].read.streaming_audio_ctx)
           At4(k) == (k < n => after[k].i = p + 4 * k) /\ after[k].left = total - 4 * k
           H == {k \in Nat : k > c \/ (At4(k) /\ Latests(k))}
<1> HIDE DEF c
<1>6. 0 \in H
  <2>1. At4(0)
    BY <1>2, <1>5
  <2>2. after[0].read = m /\ \A j \in 1..0 : FALSE
    BY <1>5
  <2>3. Latests(0)
    BY <2>2, Zenon DEF Latest
  <2> HIDE DEF At4, Latests
  <2> QED BY <2>1, <2>3
\* A round from the place of an entry
<1>7. ASSUME NEW k \in Nat, k + 1 \in 1..n, At4(k), k + 1 <= total
      PROVE  LET v == TwoAt(entries[k + 1].value, 1)
             IN /\ entries[k + 1].type \in {1, 2} =>
                     /\ At4(k + 1)
                     /\ after[k + 1].read.preferred_audio_ctx
                          = IF entries[k + 1].type = 1 THEN v ELSE after[k].read.preferred_audio_ctx
                     /\ after[k + 1].read.streaming_audio_ctx
                          = IF entries[k + 1].type = 2 THEN v ELSE after[k].read.streaming_audio_ctx
                /\ entries[k + 1].type \notin {1, 2} =>
                     /\ after[k + 1].read = after[k].read
                     /\ after[k + 1].left = 0 \/ after[k + 1] = after[k]
  <2>1. after[k] \in ContextRounds /\ k + 1 \in 1..total /\ (k + 1) - 1 = k
    <3>1. total \in Nat /\ k + 1 <= total
      BY <1>2, <1>7, Zenon
    <3>2. k \in 0..total /\ k + 1 \in 1..total /\ (k + 1) - 1 = k
      BY <3>1
    <3> QED BY <3>2
  <2>2. after[k + 1] = MetadataRound(s, after[k])
    BY <1>5, <2>1
  <2>3. after[k].i = p + 4 * ((k + 1) - 1) /\ after[k].left = total - 4 * ((k + 1) - 1)
    <3>1. after[k].i = p + 4 * k /\ after[k].left = total - 4 * k
      <4>1. k < n
        <5> HIDE DEF At4
        <5> QED BY <1>2, <1>7
      <4> QED BY <1>7, <4>1, Zenon
    <3> QED BY <2>1, <3>1
  <2> DEFINE v == TwoAt(entries[k + 1].value, 1)
             next == MetadataRound(s, after[k])
  <2>4. /\ entries[k + 1].type \in {1, 2} =>
             /\ k + 1 < n => next.i = p + 4 * (k + 1)
             /\ next.left = total - 4 * (k + 1)
             /\ next.read.preferred_audio_ctx
                  = IF entries[k + 1].type = 1 THEN v ELSE after[k].read.preferred_audio_ctx
             /\ next.read.streaming_audio_ctx
                  = IF entries[k + 1].type = 2 THEN v ELSE after[k].read.streaming_audio_ctx
        /\ entries[k + 1].type \notin {1, 2} =>
             next.read = after[k].read /\ (next.left = 0 \/ next = after[k])
    <3>1. Stands(s, p, entries, n, len) /\ k + 1 \in 1..n
      BY <1>3, <1>7
    <3> HIDE DEF At4
    <3> QED BY <1>1, <2>1, <2>3, <3>1, RoundReads
  <2>5. next = after[k + 1]
    BY <2>2
  <2> HIDE DEF next
  <2> QED BY <2>4, <2>5
<1>8. ASSUME NEW k \in Nat, k \in H
      PROVE  k + 1 \in H
  <2>1. CASE k + 1 > c
    BY <2>1
  <2>2. CASE k + 1 <= c
    <3>1. At4(k) /\ Latests(k)
      BY <1>4, <1>8, <2>2
    <3>2. k + 1 \in 1..n /\ k + 1 <= total /\ entries[k + 1].type \in {1, 2} /\ k + 1 \in Nat
      BY <1>2, <1>4, <2>2
    <3>3. At4(k + 1) /\ Latests(k + 1)
      <4>1. /\ At4(k + 1)
            /\ after[k + 1].read.preferred_audio_ctx
                 = IF entries[k + 1].type = 1 THEN TwoAt(entries[k + 1].value, 1)
                   ELSE after[k].read.preferred_audio_ctx
            /\ after[k + 1].read.streaming_audio_ctx
                 = IF entries[k + 1].type = 2 THEN TwoAt(entries[k + 1].value, 1)
                   ELSE after[k].read.streaming_audio_ctx
        <5> HIDE DEF At4
        <5> QED BY <1>7, <3>1, <3>2
      <4> HIDE DEF At4
      <4>2. Latests(k + 1)
        BY <3>1, <4>1, LatestGrows
      <4> QED BY <4>1, <4>2
    <3> HIDE DEF At4, Latests
    <3> QED BY <3>2, <3>3
  <2> QED BY <1>4, <2>1, <2>2
<1>9. At4(c) /\ Latests(c)
  <2>1. c \in H
    <3> HIDE DEF H
    <3> QED BY <1>4, <1>6, <1>8, Inductive
  <2> QED BY <1>4, <2>1
\* The rounds after the contexts change nothing more
<1> DEFINE G == {k \in Nat : c + k > total \/ (/\ after[c + k].read = after[c].read
                                               /\ \/ after[c + k].left = 0
                                                  \/ c < n /\ after[c + k] = after[c])}
<1>10. 0 \in G
  <2>1. c + 0 = c /\ (c < n \/ after[c].left = 0)
    BY <1>2, <1>4, <1>9
  <2> QED BY <2>1
<1>11. ASSUME NEW k \in Nat, k \in G
       PROVE  k + 1 \in G
  <2>1. CASE c + (k + 1) > total
    BY <2>1
  <2>2. CASE c + (k + 1) <= total
    <3>1. c + (k + 1) \in 1..total /\ (c + (k + 1)) - 1 = c + k /\ c + k \in 0..total /\ k + 1 \in Nat
      BY <1>2, <1>4, <2>2
    <3>2. after[c + (k + 1)] = MetadataRound(s, after[c + k])
      BY <1>5, <3>1
    <3>3. /\ after[c + k].read = after[c].read
          /\ after[c + k].left = 0 \/ (c < n /\ after[c + k] = after[c])
      BY <1>2, <1>4, <1>11, <2>2
    <3>4. CASE after[c + k].left = 0
      <4>1. after[c + (k + 1)] = after[c + k]
        BY <3>2, <3>4, Zenon DEF MetadataRound
      <4> QED BY <3>1, <3>3, <3>4, <4>1
    <3>5. CASE c < n /\ after[c + k] = after[c]
      <4>1. c + 1 \in 1..n /\ c + 1 <= total /\ c + 1 > c /\ c + 1 \in 1..total /\ (c + 1) - 1 = c
        BY <1>2, <1>4, <3>5
      <4>2. entries[c + 1].type \notin {1, 2}
        BY <1>4, <4>1
      <4>3. after[c + 1].read = after[c].read /\ (after[c + 1].left = 0 \/ after[c + 1] = after[c])
        <5> HIDE DEF At4
        <5> QED BY <1>4, <1>7, <1>9, <4>1, <4>2
      <4>4. after[c + (k + 1)] = after[c + 1]
        BY <1>5, <3>2, <3>5, <4>1
      <4> QED BY <3>1, <3>5, <4>3, <4>4
    <3> QED BY <3>3, <3>4, <3>5
  <2> QED BY <1>2, <1>4, <2>1, <2>2
<1>12. after[total].read = after[c].read
  <2>1. total - c \in Nat /\ c + (total - c) = total /\ total <= total
    BY <1>2, <1>4
  <2>2. total - c \in G
    <3> HIDE DEF G
    <3> QED BY <1>10, <1>11, <2>1, Inductive
  <2>3. c + (total - c) > total \/ after[c + (total - c)].read = after[c].read
    BY <2>2
  <2>4. ~(total > total)
    BY <1>2
  <2> QED BY <2>1, <2>3, <2>4, Zenon
<1>13. /\ LastOf(entries, 1, m.preferred_audio_ctx) = after[c].read.preferred_audio_ctx
       /\ LastOf(entries, 2, m.streaming_audio_ctx) = after[c].read.streaming_audio_ctx
  <2>1. Latests(c)
    BY <1>9
  <2>2. \A j \in 1..n : j > c => entries[j].type # 1 /\ entries[j].type # 2
    BY <1>4
  <2> QED BY <1>2, <1>4, <2>1, <2>2, LatestIsLast
<1>14. after[total] \in ContextRounds
  BY <1>2
<1>15. ReadMetadata(s, p, Len(Filled(entries, 255)) - 1, m) = after[total].read
  BY <1>3, <1>5, Zenon
<1> QED
  BY <1>12, <1>13, <1>14, <1>15 DEF ContextRounds

LEMMA ContextsRead ==
  ASSUME NEW entries, ContextsFirst(entries), NEW m \in Contexts
  PROVE  LET read == ReadMetadata(Written(entries), 1, Len(Written(entries)), m)
         IN /\ read \in Contexts
            /\ read.preferred_audio_ctx = LastOf(entries, 1, m.preferred_audio_ctx)
            /\ read.streaming_audio_ctx = LastOf(entries, 2, m.streaming_audio_ctx)
<1> DEFINE f == Filled(entries, 255)
           s == Written(entries)
<1>1. f \in Bytes /\ Len(f) \in Nat \ {0}
  <2>1. PICK n, len, total : Shape(entries, n, len, total)
    BY ShapeIs, Zenon
  <2>3. f \in Bytes /\ Len(f) = 1 + total
    BY <2>1, FilledEntries
  <2>4. total \in Nat
    BY <2>1, Zenon DEF Shape
  <2> QED BY <2>3, <2>4
<1>2. s = Tail(f)
  BY DEF Written
<1> HIDE DEF f, s
<1>3. s \in Bytes /\ Len(s) = Len(f) - 1 /\ \A i \in 1..Len(s) : s[i] = f[i + 1]
  <2>1. f \in Seq(Nat) /\ f # <<>>
    <3>1. f \in Seq(Nat) /\ Len(f) \in Nat \ {0}
      BY <1>1, Zenon DEF Bytes
    <3> QED BY <3>1
  <2>2. s \in Seq(Nat) /\ Len(s) = Len(f) - 1 /\ \A i \in 1..Len(s) : s[i] = f[i + 1]
    BY <1>2, <2>1, HeadTailProperties
  <2> QED BY <2>2 DEF Bytes
<1>4. Occurs(s, 1, f)
  <2>1. DOMAIN s = 1..Len(s)
    BY <1>3 DEF Bytes
  <2>2. \A i \in 1..(Len(f) - 1) : i \in 1..Len(s) /\ 1 + i - 1 = i
    BY <1>1, <1>3
  <2> QED BY <1>3, <2>1, <2>2, Zenon DEF Occurs, At
<1>5. 1 \in Nat
  OBVIOUS
<1> QED
  BY <1>3, <1>4, <1>5, ContextsReadAt DEF f, s

-----------------------------------------------------------------------------
(* The contexts an ASE streams for *)

\* What the clients write is contexts, and at most one entry more
ContextsOnly == \A entries \in Metadatas : ContextsFirst(entries)

\* An ASE streams for the contexts of the metadata written last
ContextsInv ==
  /\ streaming \in [AseTypes -> Contexts]
  /\ \A type \in AseTypes :
       /\ streaming[type].preferred_audio_ctx
            = LastOf(written[type], 1, streaming[type].preferred_audio_ctx)
       /\ streaming[type].streaming_audio_ctx
            = LastOf(written[type], 2, streaming[type].streaming_audio_ctx)

ContextsKept ==
  \A type \in AseTypes :
    /\ streaming'[type].preferred_audio_ctx
         = LastOf(written'[type], 1, streaming[type].preferred_audio_ctx)
    /\ streaming'[type].streaming_audio_ctx
         = LastOf(written'[type], 2, streaming[type].streaming_audio_ctx)

LEMMA LastOfAgain ==
  ASSUME NEW entries, NEW type, NEW old
  PROVE  LastOf(entries, type, LastOf(entries, type, old)) = LastOf(entries, type, old)
<1> DEFINE at == {i \in DOMAIN entries : entries[i].type = type}
           i == CHOOSE k \in at : \A m \in at : m <= k
<1>1. \A o : LastOf(entries, type, o) = IF at = {} THEN o ELSE TwoAt(entries[i].value, 1)
  BY Zenon DEF LastOf
<1> HIDE DEF at, i
<1> QED
  BY <1>1

LEMMA ContextsInit ==
  ASSUME CapabilitiesInit
  PROVE  ContextsInv
<1>1. NoMetadata \in Contexts
  BY DEF NoMetadata, Contexts
<1>2. streaming = [type \in AseTypes |-> NoMetadata] /\ written = [type \in AseTypes |-> <<>>]
  BY DEF CapabilitiesInit
<1>3. \A t, old : LastOf(<<>>, t, old) = old
  <2>1. \A t : {i \in DOMAIN <<>> : <<>>[i].type = t} = {}
    OBVIOUS
  <2> QED BY <2>1, Zenon DEF LastOf
<1> QED
  BY <1>1, <1>2, <1>3 DEF ContextsInv

\* Nothing but an ENABLE or UPDATE_METADATA changes them
LEMMA ContextsStay ==
  ASSUME ContextsInv, UNCHANGED <<streaming, written>>
  PROVE  ContextsInv' /\ ContextsKept
BY DEF ContextsInv, ContextsKept

LEMMA ContextsEnabled ==
  ASSUME ContextsInv, NEW type \in AseTypes, NEW entries, ContextsFirst(entries),
         EnableAse(type, entries), DOMAIN written = AseTypes
  PROVE  ContextsInv' /\ ContextsKept
<1> DEFINE read == ReadIntoAse(type, entries)
<1>1. streaming[type] \in Contexts
  BY DEF ContextsInv
<1>2. /\ read \in Contexts
      /\ read.preferred_audio_ctx = LastOf(entries, 1, streaming[type].preferred_audio_ctx)
      /\ read.streaming_audio_ctx = LastOf(entries, 2, streaming[type].streaming_audio_ctx)
  BY <1>1, ContextsRead DEF ReadIntoAse
<1> HIDE DEF read
<1>3. streaming' = [streaming EXCEPT ![type] = read] /\ written' = [written EXCEPT ![type] = entries]
  BY DEF EnableAse, read
<1>4. streaming' \in [AseTypes -> Contexts]
  BY <1>2, <1>3 DEF ContextsInv
<1>5. ASSUME NEW t \in AseTypes
      PROVE  /\ streaming'[t].preferred_audio_ctx
                  = LastOf(written'[t], 1, streaming[t].preferred_audio_ctx)
             /\ streaming'[t].streaming_audio_ctx
                  = LastOf(written'[t], 2, streaming[t].streaming_audio_ctx)
             /\ streaming'[t].preferred_audio_ctx
                  = LastOf(written'[t], 1, streaming'[t].preferred_audio_ctx)
             /\ streaming'[t].streaming_audio_ctx
                  = LastOf(written'[t], 2, streaming'[t].streaming_audio_ctx)
  <2>1. CASE t = type
    <3>1. streaming'[t] = read /\ written'[t] = entries
      BY <1>3, <2>1 DEF ContextsInv
    <3> QED BY <1>2, <2>1, <3>1, LastOfAgain
  <2>2. CASE t # type
    <3>1. streaming'[t] = streaming[t] /\ written'[t] = written[t]
      BY <1>3, <2>2 DEF ContextsInv
    <3> QED BY <3>1 DEF ContextsInv
  <2> QED BY <2>1, <2>2
<1> QED
  BY <1>4, <1>5 DEF ContextsInv, ContextsKept

\* For all metadata of contexts in any order, with at most one entry of another type at the
\* end: what ga_lib_bap_get_metadata takes from the stream ga_lib_bap_update_ltv made of it
\* are the contexts that were written, and an ASE keeps the ones that were not.
THEOREM ContextsHold == ContextsOnly => (CapabilitiesSpec => ContextsAsWritten)
<1> SUFFICES ASSUME ContextsOnly
             PROVE  CapabilitiesSpec => ContextsAsWritten
  OBVIOUS
<1> DEFINE Inv == ContextsInv /\ DOMAIN written = AseTypes
<1>1. CapabilitiesInit => Inv
  BY ContextsInit DEF CapabilitiesInit
<1>2. ASSUME Inv, [CapabilitiesNext]_capabilitiesVars
      PROVE  Inv' /\ ContextsKept
  <2>1. ASSUME NEW type \in AseTypes, NEW r \in Requests, ConfigCodec(type, r)
        PROVE  Inv' /\ ContextsKept
    BY <1>2, <2>1, ContextsStay DEF ConfigCodec
  <2>2. ASSUME NEW type \in AseTypes, NEW entries \in Metadatas, EnableAse(type, entries)
        PROVE  Inv' /\ ContextsKept
    <3>1. ContextsFirst(entries)
      BY DEF ContextsOnly
    <3>2. DOMAIN written' = AseTypes
      BY <1>2, <2>2 DEF EnableAse
    <3>3. ContextsInv' /\ ContextsKept
      BY <1>2, <2>2, <3>1, ContextsEnabled
    <3> QED BY <3>2, <3>3
  <2>3. ASSUME NEW type \in AseTypes, NEW locs \in Allocations, WriteLocations(type, locs)
        PROVE  Inv' /\ ContextsKept
    BY <1>2, <2>3, ContextsStay DEF WriteLocations
  <2>4. ASSUME NEW locs \in Allocations, SetAudioLocation(locs)
        PROVE  Inv' /\ ContextsKept
    BY <1>2, <2>4, ContextsStay DEF SetAudioLocation
  <2>5. CASE UNCHANGED capabilitiesVars
    BY <1>2, <2>5, ContextsStay DEF capabilitiesVars
  <2> QED BY <1>2, <2>1, <2>2, <2>3, <2>4, <2>5 DEF CapabilitiesNext
<1> HIDE DEF Inv
<1>3. CapabilitiesSpec => [][ContextsKept]_capabilitiesVars
  BY <1>1, <1>2, PTL DEF CapabilitiesSpec
<1> QED
  BY <1>3, PTL DEF ContextsAsWritten, ContextsKept

-----------------------------------------------------------------------------
(* The configurations that are accepted *)

LEMMA FrequenciesAre ==
  /\ DOMAIN Frequencies = 1..13
  /\ Frequencies[1] = 8000 /\ Frequencies[2] = 11025 /\ Frequencies[3] = 16000 /\ Frequencies[4] = 22050
  /\ Frequencies[5] = 24000 /\ Frequencies[6] = 32000 /\ Frequencies[7] = 44100 /\ Frequencies[8] = 48000
  /\ Frequencies[9] = 88200 /\ Frequencies[10] = 96000 /\ Frequencies[11] = 176400
  /\ Frequencies[12] = 192000 /\ Frequencies[13] = 384000
BY DEF Frequencies

\* From an index to a frequency and back
LEMMA FrequencyIndexIs ==
  ASSUME NEW i \in DOMAIN Frequencies
  PROVE  FrequencyIndex(Frequencies[i]) = i /\ Frequencies[i] # 0
<1>1. i \in 1..13 /\ \A j \in 1..13 : j = 1 \/ j = 2 \/ j = 3 \/ j = 4 \/ j = 5 \/ j = 6 \/ j = 7
                                      \/ j = 8 \/ j = 9 \/ j = 10 \/ j = 11 \/ j = 12 \/ j = 13
  BY FrequenciesAre
<1>2. ASSUME NEW j \in 1..13, Frequencies[j] = Frequencies[i]
      PROVE  j = i
  BY <1>1, <1>2, FrequenciesAre
<1>3. Frequencies[i] # 0
  BY <1>1, FrequenciesAre
<1> DEFINE hz == Frequencies[i]
<1>4. hz \in Range(Frequencies)
  BY DEF Range
<1> DEFINE index == CHOOSE j \in DOMAIN Frequencies : Frequencies[j] = hz
<1>5. index \in DOMAIN Frequencies /\ Frequencies[index] = hz
  <2> HIDE DEF hz
  <2>1. \E j \in DOMAIN Frequencies : Frequencies[j] = hz
    BY DEF hz
  <2> QED BY <2>1, Zenon
<1>6. FrequencyIndex(hz) = index
  <2> HIDE DEF hz, index
  <2> QED BY <1>4, Zenon DEF FrequencyIndex, index
<1> HIDE DEF index
<1>7. index = i
  <2>1. index \in 1..13 /\ Frequencies[index] = Frequencies[i]
    BY <1>5, FrequenciesAre
  <2> QED BY <1>2, <2>1
<1> QED
  BY <1>3, <1>6, <1>7

\* A configuration that was just accepted stood the comparison
AcceptedInv ==
  \/ accepted = <<>>
  \/ \E type \in AseTypes, r \in Requests :
       accepted = <<[type |-> type, request |-> r]>> /\ Compared(type, Configuration(r))

LEMMA AcceptedInvPublished ==
  ASSUME AcceptedInv
  PROVE  AcceptedIsPublished
<1>1. CASE accepted = <<>>
  <2>1. Range(accepted) = {}
    BY <1>1 DEF Range
  <2> QED BY <2>1 DEF AcceptedIsPublished
<1>2. ASSUME NEW type \in AseTypes, NEW r \in Requests, Compared(type, Configuration(r)),
             accepted = <<[type |-> type, request |-> r]>>
      PROVE  AcceptedIsPublished
  <2> DEFINE rates == {8000, 16000, 24000, 32000, 48000} \cup (IF type = "sink" THEN {44100} ELSE {})
  <2>1. ASSUME r.frequency \in DOMAIN Frequencies
        PROVE  Frequencies[r.frequency] \in rates
    <3>1. Configuration(r).sampling_frequency_hz = Frequencies[r.frequency]
      BY <2>1 DEF Configuration, FrequencyFromIndex
    <3>2. FrequencyPublished(type, Frequencies[r.frequency])
      BY <1>2, <2>1, <3>1, FrequencyIndexIs DEF Compared
    <3>3. (r.frequency - 1) \in PublishedFrequencies[type]
      BY <2>1, <3>2, FrequencyIndexIs DEF FrequencyPublished
    <3>4. r.frequency \in 1..13
      BY <2>1, FrequenciesAre
    <3>5. r.frequency \in {1, 3, 5, 6, 8} \/ (type = "sink" /\ r.frequency = 7)
      BY <3>3, <3>4 DEF PublishedFrequencies, AseTypes
    <3> QED BY <3>5, FrequenciesAre
  <2>2. r.octets # 0 => r.octets \in OctetsMin..OctetsMax
    BY <1>2 DEF Compared, Configuration, OctetsPublished
  <2>3. Range(accepted) = {[type |-> type, request |-> r]}
    BY <1>2 DEF Range
  <2> HIDE DEF rates
  <2>4. ASSUME NEW a \in Range(accepted)
        PROVE  a.type = type /\ a.request = r
    BY <2>3
  <2> QED BY <2>1, <2>2, <2>4 DEF AcceptedIsPublished, rates
<1> QED
  BY <1>1, <1>2 DEF AcceptedInv

\* For all requests: what lehs_pacs_compare_codec_param lets through is in the published
\* records of that direction.
THEOREM AcceptedHolds == CapabilitiesSpec => []AcceptedIsPublished
<1>1. CapabilitiesInit => AcceptedInv
  BY DEF CapabilitiesInit, AcceptedInv
<1>2. ASSUME AcceptedInv, [CapabilitiesNext]_capabilitiesVars
      PROVE  AcceptedInv'
  <2>1. ASSUME NEW type \in AseTypes, NEW r \in Requests, ConfigCodec(type, r)
        PROVE  AcceptedInv'
    BY <2>1, Zenon DEF ConfigCodec, AcceptedInv
  <2>2. CASE accepted' = <<>>
    BY <2>2 DEF AcceptedInv
  <2>3. CASE UNCHANGED capabilitiesVars
    BY <1>2, <2>3 DEF capabilitiesVars, AcceptedInv
  <2> QED
    BY <1>2, <2>1, <2>2, <2>3 DEF CapabilitiesNext, EnableAse, WriteLocations, SetAudioLocation
<1>3. AcceptedInv => AcceptedIsPublished
  BY AcceptedInvPublished
<1> QED
  BY <1>1, <1>2, <1>3, PTL DEF CapabilitiesSpec
=============================================================================
