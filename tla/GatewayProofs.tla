--------------------------- MODULE GatewayProofs ---------------------------
(***************************************************************************)
(* Proofs about the three parts of the Go gateway that MCGateway sets side *)
(* by side. A step of the sum is a step of one part or leaves its          *)
(* variables alone (StreamMoves, PreflightMoves, ProducerMoves), so what   *)
(* is inductive for a part holds in the sum:                               *)
(*   StreamInv   what the client has, what is pending and what is held are *)
(*               increasing positions of the text, one list after another, *)
(*               and between them they have its plain text;                *)
(*   HidingInv   of a sensitive value that has been read whole nothing is  *)
(*               left, and of one whose end is still to come the first     *)
(*               part is the end of what is held;                          *)
(*   JudgedInv   where the gateway and the backend are with a request      *)
(*               tells what decision they have and who took it.            *)
(* What Redact makes of a list is a fold of its pieces: FlattenIs gives    *)
(* the fold as a function of a prefix's length, and RedactIs shows by the  *)
(* least counterexample (Least) what holds of every prefix.                *)
(***************************************************************************)
EXTENDS MCGateway, WellFoundedInduction, TLAPS

(***************************************************************************)
(* Lists, and what Redact makes of one.                                    *)
(***************************************************************************)

\* A set of numbers has a least one.
LEMMA Least ==
    ASSUME NEW S, S \subseteq Nat, S # {}
    PROVE  \E n \in S : \A m \in S : n <= m
<1>1. PICK n \in S : \A m \in S : ~ (<<m, n>> \in OpToRel(<, Nat))
  BY NatLessThanWellFounded, WFMin, Zenon
<1>2. \A m \in S : ~(m < n)
  BY <1>1 DEF OpToRel
<1> QED BY <1>2

\* f[i] is the first i lists of s, one after the other: what FlattenSeq chooses.
Flat(f, s, n) == f = [i \in 1..n |-> IF i = 1 THEN s[i] ELSE f[i-1] \o s[i]]

LEMMA FlatExists == ASSUME NEW s, NEW n \in Nat PROVE \E f : Flat(f, s, n)
<1>1. PICK S : S = {k \in Nat : ~\E f : Flat(f, s, k)}
  OBVIOUS
<1>2. SUFFICES ASSUME S # {} PROVE FALSE
  BY <1>1
<1>3. PICK k \in S : \A m \in S : k <= m
  BY <1>1, <1>2, Least
<1>4. k # 0
  <2>1. Flat([i \in {} |-> i], s, 0)
    BY DEF Flat
  <2> QED BY <1>1, <2>1
<1>5. k \in Nat /\ k - 1 \in Nat /\ k - 1 \notin S
  BY <1>1, <1>3, <1>4
<1>6. PICK f : Flat(f, s, k - 1)
  BY <1>1, <1>5
<1>7. PICK g : g = [i \in 1..k |-> IF i = 1 THEN s[i] ELSE f[i-1] \o s[i]]
  OBVIOUS
<1>8. ASSUME NEW i \in 1..(k - 1) PROVE g[i] = f[i]
  <2>1. PICK h : h = [j \in 1..(k - 1) |-> IF j = 1 THEN s[j] ELSE f[j-1] \o s[j]]
    OBVIOUS
  <2>2. f = h
    BY <1>6, <2>1 DEF Flat
  <2>3. h[i] = IF i = 1 THEN s[i] ELSE f[i-1] \o s[i]
    BY <2>1
  <2>4. i \in 1..k
    BY <1>5
  <2>5. g[i] = IF i = 1 THEN s[i] ELSE f[i-1] \o s[i]
    BY <1>7, <2>4
  <2> QED BY <2>2, <2>3, <2>5
<1>9. ASSUME NEW i \in 1..k PROVE g[i] = IF i = 1 THEN s[i] ELSE g[i-1] \o s[i]
  <2>1. i # 1 => i - 1 \in 1..(k - 1)
    BY <1>5
  <2> QED BY <1>7, <1>8, <2>1
<1>10. Flat(g, s, k)
  BY <1>7, <1>9 DEF Flat
<1> QED BY <1>1, <1>3, <1>10

LEMMA FlattenIs ==
    ASSUME NEW s, Len(s) \in Nat \ {0}
    PROVE  \E f : Flat(f, s, Len(s)) /\ Stream!FlattenSeq(s) = f[Len(s)]
<1>1. PICK f : f = CHOOSE g : g = [i \in 1..Len(s) |-> IF i = 1 THEN s[i] ELSE g[i-1] \o s[i]]
  OBVIOUS
<1>2. Flat(f, s, Len(s))
  BY <1>1, FlatExists DEF Flat
<1>3. Stream!FlattenSeq(s) = f[Len(s)]
  BY <1>1 DEF Stream!FlattenSeq
<1> QED BY <1>2, <1>3


\* A list of positions goes on in the text where nothing was replaced in between.
Ordered(s) == /\ \A a, b \in DOMAIN s : a < b /\ s[a] > 0 /\ s[b] > 0 => s[a] < s[b]
              /\ \A a \in DOMAIN s : a + 1 \in DOMAIN s /\ s[a] > 0 /\ s[a + 1] > 0 => s[a + 1] = s[a] + 1

\* What becomes of place i of v: the first of a match is replaced, the others go.
Begins(v, i) == \E m \in Stream!Matches(v) : m[1] = i
Inside(v, i) == \E m \in Stream!Matches(v) : i \in m[1] + 1..m[2]
Covered(v, i) == Begins(v, i) \/ Inside(v, i)
Piece(v, i) == IF Begins(v, i) THEN <<0>> ELSE IF Inside(v, i) THEN <<>> ELSE <<v[i]>>

\* r is what redaction makes of the first i places of v.
Redacted(v, r, i) ==
    /\ r \in Seq(Nat) /\ Ordered(r)
    /\ \A j \in DOMAIN r : r[j] = 0 \/ \E k \in 1..i : ~Covered(v, k) /\ r[j] = v[k]
    /\ \A k \in 1..i : ~Covered(v, k) => \E j \in DOMAIN r : r[j] = v[k]
    /\ i > 0 => r # <<>> /\ r[Len(r)] = IF Covered(v, i) THEN 0 ELSE v[i]
    /\ \A j \in 1..i : (\A k \in j..i : ~Covered(v, k)) =>
          Len(r) >= i - j + 1 /\ \A k \in j..i : r[Len(r) - (i - k)] = v[k]

LEMMA OneMore ==
    ASSUME NEW r \in Seq(Nat), NEW e \in Nat
    PROVE  /\ r \o <<e>> \in Seq(Nat) /\ Len(r \o <<e>>) = Len(r) + 1
           /\ DOMAIN (r \o <<e>>) = 1..(Len(r) + 1)
           /\ \A j \in 1..Len(r) : (r \o <<e>>)[j] = r[j]
           /\ (r \o <<e>>)[Len(r) + 1] = e
OBVIOUS

\* Places of a list.
LEMMA Earlier == ASSUME NEW m \in Nat, NEW n \in Nat, NEW a \in 1..m, NEW b \in 1..n, a < b PROVE a \in 1..n
OBVIOUS

LEMMA UpToLast == ASSUME NEW n \in Nat, NEW a \in 1..(n + 1), a < n + 1 PROVE a \in 1..n
OBVIOUS
LEMMA MatchIsIn ==
    ASSUME NEW v \in Seq(Nat), NEW m \in Stream!Matches(v)
    PROVE  m[1] \in 1..Len(v) /\ m[2] \in 1..Len(v) /\ m[1] < m[2]
BY PartsAssumption DEF PartsAssumption, Stream!SizesAssumption, Stream!Matches

\* The next piece.
LEMMA PieceStep ==
    ASSUME NEW v \in Seq(Nat), Ordered(v), NEW i \in Nat, i + 1 <= Len(v), NEW r, Redacted(v, r, i)
    PROVE  Redacted(v, r \o Piece(v, i + 1), i + 1)
<1>0. /\ DOMAIN v = 1..Len(v) /\ Len(v) \in Nat /\ i + 1 \in DOMAIN v /\ v[i + 1] \in Nat
      /\ r \in Seq(Nat) /\ DOMAIN r = 1..Len(r) /\ Len(r) \in Nat
  BY DEF Redacted
<1>1. CASE Begins(v, i + 1) \/ ~Covered(v, i + 1)
  <2>1. PICK e \in Nat : e = IF Covered(v, i + 1) THEN 0 ELSE v[i + 1]
    BY <1>0
  <2>2. Piece(v, i + 1) = <<e>>
    BY <1>1, <2>1 DEF Piece, Covered
  <2>3. PICK q : q = r \o <<e>>
    OBVIOUS
  <2>4. /\ q \in Seq(Nat) /\ Len(q) = Len(r) + 1 /\ DOMAIN q = 1..(Len(r) + 1)
        /\ \A j \in 1..Len(r) : q[j] = r[j]
        /\ q[Len(r) + 1] = e
    BY <1>0, <2>3, OneMore
  <2>5. ASSUME NEW a \in DOMAIN q, NEW b \in DOMAIN q, a < b, q[a] > 0, q[b] > 0 PROVE q[a] < q[b]
    <3>1. CASE b \in 1..Len(r)
      <4>1. a \in DOMAIN r /\ b \in DOMAIN r /\ q[a] = r[a] /\ q[b] = r[b]
        <5>1. a \in 1..(Len(r) + 1) /\ b \in 1..Len(r)
          BY <2>4, <3>1
        <5>2. a \in 1..Len(r)
          BY <1>0, <2>5, <5>1, Earlier
        <5> QED BY <1>0, <2>4, <5>1, <5>2
      <4> QED BY <2>5, <4>1 DEF Redacted, Ordered
    <3>2. CASE b = Len(r) + 1
      <4>1. a \in 1..Len(r) /\ q[a] = r[a]
        <5>1. a \in 1..(Len(r) + 1) /\ a < Len(r) + 1
          BY <2>4, <2>5, <3>2
        <5>2. a \in 1..Len(r)
          BY <1>0, <5>1, UpToLast
        <5> QED BY <2>4, <5>2
      <4>a. r[a] = 0 \/ \E k \in 1..i : ~Covered(v, k) /\ r[a] = v[k]
        BY <1>0, <4>1 DEF Redacted
      <4>2. PICK k \in 1..i : r[a] = v[k]
        BY <2>5, <4>1, <4>a
      <4>3. q[b] = v[i + 1]
        BY <2>1, <2>4, <2>5, <3>2
      <4>4. k \in DOMAIN v /\ k < i + 1
        BY <1>0
      <4> QED BY <1>0, <2>5, <4>1, <4>2, <4>3, <4>4 DEF Ordered
    <3> QED BY <1>0, <2>4, <3>1, <3>2
  <2>6. ASSUME NEW a \in DOMAIN q, a + 1 \in DOMAIN q, q[a] > 0, q[a + 1] > 0 PROVE q[a + 1] = q[a] + 1
    <3>1. CASE a + 1 \in 1..Len(r)
      <4>1. a \in DOMAIN r /\ a + 1 \in DOMAIN r /\ q[a] = r[a] /\ q[a + 1] = r[a + 1]
        <5>1. a \in 1..(Len(r) + 1)
          BY <2>4
        <5>2. a < a + 1
          BY <1>0, <5>1
        <5>3. a \in 1..Len(r)
          BY <1>0, <3>1, <5>1, <5>2, Earlier
        <5> QED BY <1>0, <2>4, <3>1, <5>3
      <4> QED BY <2>6, <4>1 DEF Redacted, Ordered
    <3>2. CASE a = Len(r)
      <4>1. q[a] = r[Len(r)] /\ q[a + 1] = v[i + 1] /\ Len(r) > 0
        BY <1>0, <2>1, <2>4, <2>6, <3>2
      <4>2. i > 0
        <5>1. i = 0 => r[Len(r)] = 0
          BY <1>0, <4>1 DEF Redacted
        <5> QED BY <2>6, <4>1, <5>1
      <4>3. q[a] = v[i]
        BY <2>6, <4>1, <4>2 DEF Redacted
      <4>4. i \in DOMAIN v
        BY <1>0, <4>2
      <4> QED BY <1>0, <2>6, <4>1, <4>3, <4>4 DEF Ordered
    <3>3. a \in 1..(Len(r) + 1) /\ a + 1 \in 1..(Len(r) + 1)
      BY <2>4, <2>6
    <3>4. a = Len(r) \/ a + 1 \in 1..Len(r)
      BY <1>0, <3>3
    <3> QED BY <3>1, <3>2, <3>4
  <2>7. Ordered(q)
    BY <2>5, <2>6 DEF Ordered
  <2>8. ASSUME NEW j \in DOMAIN q PROVE q[j] = 0 \/ \E k \in 1..(i + 1) : ~Covered(v, k) /\ q[j] = v[k]
    <3>1. CASE j \in 1..Len(r)
      <4>1. q[j] = r[j] /\ j \in DOMAIN r
        BY <1>0, <2>4, <3>1
      <4>2. r[j] = 0 \/ \E k \in 1..i : ~Covered(v, k) /\ r[j] = v[k]
        BY <4>1 DEF Redacted
      <4>3. 1..i \subseteq 1..(i + 1)
        BY <1>0
      <4> QED BY <4>1, <4>2, <4>3
    <3>2. CASE j = Len(r) + 1
      <4>1. i + 1 \in 1..(i + 1)
        BY <1>0
      <4> QED BY <2>1, <2>4, <3>2, <4>1
    <3> QED BY <1>0, <2>4, <3>1, <3>2
  <2>9. ASSUME NEW k \in 1..(i + 1), ~Covered(v, k) PROVE \E j \in DOMAIN q : q[j] = v[k]
    <3>1. CASE k \in 1..i
      <4>1. PICK j \in DOMAIN r : r[j] = v[k]
        BY <2>9, <3>1 DEF Redacted
      <4>2. j \in DOMAIN q /\ q[j] = r[j]
        BY <1>0, <2>4
      <4> QED BY <4>1, <4>2
    <3>2. CASE k = i + 1
      <4>1. Len(r) + 1 \in DOMAIN q
        BY <1>0, <2>4
      <4> QED BY <2>1, <2>4, <2>9, <3>2, <4>1
    <3> QED BY <3>1, <3>2
  <2>10. q # <<>> /\ q[Len(q)] = IF Covered(v, i + 1) THEN 0 ELSE v[i + 1]
    BY <1>0, <2>1, <2>4
  <2>11. ASSUME NEW j \in 1..(i + 1), \A k \in j..(i + 1) : ~Covered(v, k)
         PROVE  Len(q) >= i + 1 - j + 1 /\ \A k \in j..(i + 1) : q[Len(q) - (i + 1 - k)] = v[k]
    <3>1. ~Covered(v, i + 1) /\ e = v[i + 1]
      BY <2>1, <2>11
    <3>2. CASE j = i + 1
      BY <1>0, <2>4, <3>1, <3>2
    <3>3. CASE j \in 1..i
      <4>1. \A k \in j..i : ~Covered(v, k)
        BY <2>11
      <4>2. Len(r) >= i - j + 1 /\ \A k \in j..i : r[Len(r) - (i - k)] = v[k]
        BY <3>3, <4>1 DEF Redacted
      <4>3. ASSUME NEW k \in j..i PROVE q[Len(q) - (i + 1 - k)] = v[k]
        <5>1. Len(q) - (i + 1 - k) = Len(r) - (i - k)
          BY <1>0, <2>4
        <5>2. Len(r) - (i - k) \in 1..Len(r)
          BY <1>0, <4>2
        <5>3. q[Len(r) - (i - k)] = r[Len(r) - (i - k)]
          BY <2>4, <5>2
        <5> QED BY <4>2, <5>1, <5>3
      <4>4. q[Len(q) - (i + 1 - (i + 1))] = v[i + 1]
        BY <1>0, <2>4, <3>1
      <4>5. \A k \in j..(i + 1) : k \in j..i \/ k = i + 1
        BY <1>0
      <4>6. Len(q) >= i + 1 - j + 1
        BY <1>0, <2>4, <4>2
      <4> QED BY <4>3, <4>4, <4>5, <4>6
    <3> QED BY <1>0, <3>2, <3>3
  <2>12. Redacted(v, q, i + 1)
    BY <2>4, <2>7, <2>8, <2>9, <2>10, <2>11, <1>0 DEF Redacted
  <2> QED BY <2>2, <2>3, <2>12
<1>2. CASE ~Begins(v, i + 1) /\ Inside(v, i + 1)
  <2>1. Piece(v, i + 1) = <<>> /\ Covered(v, i + 1)
    BY <1>2 DEF Piece, Covered
  <2>2. r \o <<>> = r
    BY <1>0
  <2>3. PICK m \in Stream!Matches(v) : i + 1 \in m[1] + 1..m[2]
    BY <1>2 DEF Inside
  <2>4. i > 0 /\ Covered(v, i)
    <3>1. m[1] \in Nat \ {0} /\ m[2] \in Nat
      BY <1>0, MatchIsIn
    <3>2. ASSUME NEW x \in Nat \ {0}, NEW y \in Nat, i + 1 \in x + 1..y
          PROVE  i > 0 /\ (x = i \/ i \in x + 1..y)
      BY <3>2
    <3>3. i > 0 /\ (m[1] = i \/ i \in m[1] + 1..m[2])
      BY <2>3, <3>1, <3>2
    <3> QED BY <3>3 DEF Covered, Begins, Inside
  <2>5. r # <<>> /\ r[Len(r)] = 0
    BY <2>4 DEF Redacted
  <2>6. 1..i \subseteq 1..(i + 1) /\ \A k \in 1..(i + 1) : ~Covered(v, k) => k \in 1..i
    BY <2>1
  <2>7. \A j \in 1..(i + 1) : ~ \A k \in j..(i + 1) : ~Covered(v, k)
    BY <2>1
  <2>8. \A j \in DOMAIN r : r[j] = 0 \/ \E k \in 1..(i + 1) : ~Covered(v, k) /\ r[j] = v[k]
    BY <2>6 DEF Redacted
  <2>9. \A k \in 1..(i + 1) : ~Covered(v, k) => \E j \in DOMAIN r : r[j] = v[k]
    BY <2>6 DEF Redacted
  <2>10. r \in Seq(Nat) /\ Ordered(r)
    BY DEF Redacted
  <2>11. Redacted(v, r, i + 1)
    BY <2>1, <2>5, <2>7, <2>8, <2>9, <2>10 DEF Redacted
  <2> QED BY <2>1, <2>2, <2>11
<1> QED BY <1>1, <1>2 DEF Covered

\* What Redact makes of a whole list.
LEMMA RedactIs == ASSUME NEW v \in Seq(Nat), Ordered(v) PROVE Redacted(v, Stream!Redact(v), Len(v))
<1>1. PICK S : S = [i \in 1..Len(v) |-> CASE \E m \in Stream!Matches(v) : m[1] = i -> <<Stream!Replaced>>
                                         [] \E m \in Stream!Matches(v) : i \in m[1] + 1..m[2] -> <<>>
                                         [] OTHER -> <<v[i]>>]
  OBVIOUS
<1>2. Stream!Redact(v) = Stream!FlattenSeq(S)
  BY <1>1 DEF Stream!Redact
<1>3. ASSUME NEW i \in 1..Len(v) PROVE S[i] = Piece(v, i)
  <2>1. ~ (Begins(v, i) /\ Inside(v, i))
    <3> SUFFICES ASSUME NEW m \in Stream!Matches(v), m[1] = i, NEW n \in Stream!Matches(v), i \in n[1] + 1..n[2]
                 PROVE  FALSE
      BY DEF Begins, Inside
    <3>1. m[1] \in 1..Len(v) /\ Stream!Symbol(v, m[1]) = "k"
      BY DEF Stream!Matches
    <3>2. Stream!Symbol(v, i) = "x"
      BY DEF Stream!Matches
    <3> QED BY <3>1, <3>2
  <2> QED BY <1>1, <2>1 DEF Piece, Begins, Inside, Stream!Replaced
<1>4. Len(S) = Len(v) /\ Len(v) \in Nat
  BY <1>1
<1>5. CASE Len(v) = 0
  <2>1. S = <<>>
    BY <1>1, <1>5
  <2>2. Stream!FlattenSeq(S) = <<>>
    BY <1>4, <1>5, <2>1 DEF Stream!FlattenSeq
  <2> QED BY <1>2, <1>5, <2>2 DEF Redacted, Ordered
<1>6. CASE Len(v) # 0
  <2>1. PICK f : Flat(f, S, Len(v)) /\ Stream!FlattenSeq(S) = f[Len(v)]
    BY <1>4, <1>6, FlattenIs
  <2>2. ASSUME NEW n \in 1..Len(v) PROVE f[n] = IF n = 1 THEN Piece(v, n) ELSE f[n - 1] \o Piece(v, n)
    <3>1. PICK h : h = [j \in 1..Len(v) |-> IF j = 1 THEN S[j] ELSE f[j-1] \o S[j]]
      OBVIOUS
    <3>2. f = h
      BY <2>1, <3>1 DEF Flat
    <3>3. h[n] = IF n = 1 THEN S[n] ELSE f[n-1] \o S[n]
      BY <3>1
    <3> QED BY <1>3, <3>2, <3>3
  <2>3. PICK B : B = {n \in 1..Len(v) : ~Redacted(v, f[n], n)}
    OBVIOUS
  <2>4. B = {}
    <3> SUFFICES ASSUME B # {} PROVE FALSE
      OBVIOUS
    <3>1. PICK n \in B : \A m \in B : n <= m
      <4>1. B \subseteq Nat
        BY <2>3
      <4> QED BY <4>1, Least
    <3>2. n \in 1..Len(v) /\ ~Redacted(v, f[n], n)
      BY <2>3, <3>1
    <3>3. Redacted(v, <<>>, 0)
      BY DEF Redacted, Ordered
    <3>4. CASE n = 1
      <4>1. Redacted(v, <<>> \o Piece(v, 0 + 1), 0 + 1)
        <5>1. 0 \in Nat /\ 0 + 1 <= Len(v)
          BY <1>4, <3>2, <3>4
        <5> QED BY <3>3, <5>1, PieceStep
      <4>2. <<>> \o Piece(v, 1) = Piece(v, 1)
        <5>1. v[1] \in Nat
          BY <3>2, <3>4
        <5> QED BY <5>1 DEF Piece
      <4> QED BY <2>2, <3>2, <3>4, <4>1, <4>2
    <3>5. CASE n # 1
      <4>1. n - 1 \in 1..Len(v) /\ n - 1 \in Nat /\ ~(n <= n - 1) /\ (n - 1) + 1 = n
        BY <1>4, <3>2, <3>5
      <4>2. Redacted(v, f[n - 1], n - 1)
        BY <2>3, <3>1, <4>1
      <4>3. PICK k \in Nat : k = n - 1
        BY <4>1
      <4>4. Redacted(v, f[k] \o Piece(v, k + 1), k + 1)
        BY <1>4, <3>2, <4>1, <4>2, <4>3, PieceStep
      <4> QED BY <2>2, <3>2, <3>5, <4>1, <4>3, <4>4
    <3> QED BY <3>4, <3>5
  <2>5. Redacted(v, f[Len(v)], Len(v))
    BY <1>4, <1>6, <2>3, <2>4
  <2> QED BY <1>2, <2>1, <2>5
<1> QED BY <1>4, <1>5, <1>6


\* A flush takes the first part of what was redacted, and the carry is the rest.
First(T, r, k, s) == /\ s \in Seq(T) /\ Len(s) = k /\ DOMAIN s = 1..k
                     /\ \A i \in 1..k : s[i] = r[i]
Rest(T, r, k, s) == /\ s \in Seq(T) /\ Len(s) = Len(r) - k /\ DOMAIN s = 1..(Len(r) - k)
                    /\ \A i \in 1..(Len(r) - k) : s[i] = r[k + i]
LEMMA SplitIs ==
    ASSUME NEW T, NEW r \in Seq(T), NEW k \in 0..Len(r)
    PROVE  First(T, r, k, SubSeq(r, 1, k)) /\ Rest(T, r, k, SubSeq(r, k + 1, Len(r)))
BY DEF First, Rest

\* One list after another.
Both(T, r, s, q) == /\ q \in Seq(T) /\ Len(q) = Len(r) + Len(s)
                    /\ DOMAIN q = 1..(Len(r) + Len(s))
                    /\ \A i \in 1..Len(r) : q[i] = r[i]
                    /\ \A i \in 1..Len(s) : q[Len(r) + i] = s[i]
LEMMA JoinIs ==
    ASSUME NEW T, NEW r \in Seq(T), NEW s \in Seq(T) PROVE Both(T, r, s, r \o s)
BY DEF Both

\* A bounded set has a greatest element.
LEMMA Greatest ==
    ASSUME NEW n \in Nat, NEW S, S \subseteq 1..n, S # {}
    PROVE  \E i \in S : \A j \in S : j <= i
<1>1. PICK D : D = {n - i : i \in S}
  OBVIOUS
<1>2. D \subseteq Nat /\ D # {}
  <2>1. \A i \in S : i \in 1..n /\ n - i \in Nat
    OBVIOUS
  <2> QED BY <1>1, <2>1
<1>3. PICK d \in D : \A e \in D : d <= e
  BY <1>2, Least
<1>4. PICK i \in S : d = n - i
  BY <1>1
<1>5. ASSUME NEW j \in S PROVE j <= i
  <2>1. d <= n - j
    BY <1>1, <1>3
  <2> QED BY <1>4, <2>1
<1> QED BY <1>5

LEMMA LastOrIs ==
    ASSUME NEW n \in Nat, NEW S, S \subseteq 1..n, NEW d PROVE Stream!LastOr(S, d) \in S \cup {d}
BY Greatest DEF Stream!LastOr

\* What may leave ends in a newline, or leaves the carry behind.
LEMMA FlushIs ==
    ASSUME NEW r \in Seq(Nat)
    PROVE  LET k == Stream!SafeFlushLength(r)
           IN /\ k \in 0..Len(r)
              /\ k = 0 \/ Stream!Symbol(r, k) = "n" \/ k <= Len(r) - CarryBytes
<1>0. Len(r) \in Nat /\ CarryBytes \in Nat
  BY PartsAssumption DEF PartsAssumption, Stream!SizesAssumption
<1>1. PICK k : k = Stream!SafeFlushLength(r)
  OBVIOUS
<1>2. CASE Len(r) <= CarryBytes
  <2>1. PICK S : S = Stream!BlankLines(r, Len(r))
    OBVIOUS
  <2>2. S \subseteq 1..Len(r) /\ \A i \in S : Stream!Symbol(r, i) = "n"
    BY <1>0, <2>1 DEF Stream!BlankLines, Stream!NewlineAt
  <2>3. k = Stream!LastOr(S, 0)
    BY <1>1, <1>2, <2>1 DEF Stream!SafeFlushLength
  <2>4. k \in S \cup {0}
    BY <1>0, <2>2, <2>3, LastOrIs
  <2> QED BY <1>0, <1>1, <2>2, <2>4
<1>3. CASE ~(Len(r) <= CarryBytes)
  <2>1. PICK n \in Nat : n = Len(r) - CarryBytes /\ n <= Len(r)
    <3>1. Len(r) - CarryBytes \in Nat /\ Len(r) - CarryBytes <= Len(r)
      BY <1>0, <1>3
    <3> QED BY <3>1
  <2>2. PICK S, L : S = Stream!BlankLines(r, n) /\ L = Stream!LineEnds(r, n)
    OBVIOUS
  <2>3. S \subseteq 1..n /\ L \subseteq 1..n
    BY <2>1, <2>2 DEF Stream!BlankLines, Stream!LineEnds
  <2>4. k = Stream!LastOr(S, Stream!LastOr(L, n))
    BY <1>1, <1>3, <2>1, <2>2 DEF Stream!SafeFlushLength
  <2>5. k \in 0..n
    <3>1. PICK d : d = Stream!LastOr(L, n)
      OBVIOUS
    <3>2. d \in L \cup {n}
      BY <2>3, <3>1, LastOrIs
    <3>3. k \in S \cup {d}
      BY <2>3, <2>4, <3>1, LastOrIs
    <3> QED BY <2>3, <3>2, <3>3
  <2> QED BY <1>0, <1>1, <2>1, <2>5
<1> QED BY <1>1, <1>2, <1>3

-----------------------------------------------------------------------------
Rising(s) == \A a, b \in DOMAIN s : a < b /\ s[a] > 0 /\ s[b] > 0 => s[a] < s[b]
Before(s, t) == \A a \in DOMAIN s, b \in DOMAIN t : s[a] > 0 /\ t[b] > 0 => s[a] < t[b]
UpTo(s, n) == \A a \in DOMAIN s : s[a] <= n
Has(s, p) == \E a \in DOMAIN s : s[a] = p

StreamType == /\ text \in Seq({"k", "x", "n", "p"}) /\ taken \in 0..Len(text)
              /\ carry \in Seq(Nat) /\ pending \in Seq(Int) /\ out \in Seq(Int)

\* What the client has, what is pending and what is held follow each other in the text, and
\* the carry goes up to what has been read.
Lists == /\ Ordered(carry) /\ Rising(pending) /\ Rising(out)
         /\ Before(out, pending) /\ Before(out, carry) /\ Before(pending, carry)
         /\ UpTo(out, taken) /\ UpTo(pending, taken) /\ UpTo(carry, taken)
         /\ carry # <<>> /\ carry[Len(carry)] > 0 => carry[Len(carry)] = taken

\* The plain text that was read is in one of the three, unless the stream broke off.
AllPlain == \A p \in Stream!Plain : p <= taken => Has(out, p) \/ Has(pending, p) \/ Has(carry, p)
Whole == /\ ending \in {"none", "eof"} => AllPlain
         /\ ending = "eof" => carry = <<>> /\ taken = Len(text)
         /\ ending # "none" => done

StreamInv == StreamType /\ Lists /\ Whole

\* The carry and the next chunk.
Joined(n, v) ==
    /\ v \in Seq(Nat) /\ Len(v) = Len(carry) + n /\ DOMAIN v = 1..(Len(carry) + n)
    /\ \A i \in 1..Len(carry) : v[i] = carry[i]
    /\ \A i \in 1..n : v[Len(carry) + i] = taken + i
    /\ Ordered(v) /\ UpTo(v, taken + n)
    /\ v # <<>> /\ v[Len(v)] > 0 => v[Len(v)] = taken + n
LEMMA ReadIs ==
    ASSUME StreamType, Lists, NEW n \in Nat, taken + n <= Len(text), NEW v, v = carry \o Stream!Chunk(n)
    PROVE  Joined(n, v)
<1>0. carry \in Seq(Nat) /\ Len(carry) \in Nat /\ DOMAIN carry = 1..Len(carry) /\ taken \in Nat
  BY DEF StreamType
<1>1. PICK c : c = Stream!Chunk(n)
  OBVIOUS
<1>2. c \in Seq(Nat) /\ Len(c) = n /\ \A i \in 1..n : c[i] = taken + i
  BY <1>0, <1>1 DEF Stream!Chunk
<1>3. /\ v \in Seq(Nat) /\ Len(v) = Len(carry) + n /\ DOMAIN v = 1..(Len(carry) + n)
      /\ \A i \in 1..Len(carry) : v[i] = carry[i]
      /\ \A i \in 1..n : v[Len(carry) + i] = taken + i
  <2>1. Both(Nat, carry, c, v)
    BY <1>0, <1>1, <1>2, JoinIs
  <2> QED BY <1>2, <2>1 DEF Both
<1>4. ASSUME NEW a \in DOMAIN v PROVE \/ a \in DOMAIN carry /\ v[a] = carry[a] /\ v[a] <= taken
                                      \/ a - Len(carry) \in 1..n /\ v[a] = taken + (a - Len(carry))
  <2>1. a \in 1..Len(carry) \/ a - Len(carry) \in 1..n
    BY <1>0, <1>3
  <2>2. a - Len(carry) \in 1..n => v[a] = taken + (a - Len(carry))
    <3> SUFFICES ASSUME NEW i \in 1..n, i = a - Len(carry) PROVE v[a] = taken + i
      OBVIOUS
    <3>1. a = Len(carry) + i
      BY <1>0, <1>3
    <3> QED BY <1>3, <3>1
  <2>3. a \in 1..Len(carry) => v[a] = carry[a] /\ v[a] <= taken
    BY <1>0, <1>3 DEF Lists, UpTo
  <2> QED BY <1>0, <2>1, <2>2, <2>3
<1>5. ASSUME NEW a \in DOMAIN v, NEW b \in DOMAIN v, a < b, v[a] > 0, v[b] > 0 PROVE v[a] < v[b]
  <2>1. CASE b \in DOMAIN carry
    <3>1. a \in DOMAIN carry /\ v[a] = carry[a] /\ v[b] = carry[b]
      BY <1>0, <1>3, <1>5, <2>1
    <3> QED BY <1>5, <2>1, <3>1 DEF Lists, Ordered
  <2>2. CASE b \notin DOMAIN carry
    <3>1. b - Len(carry) \in 1..n /\ v[b] = taken + (b - Len(carry))
      BY <1>4, <2>2
    <3>2. a \in 1..(Len(carry) + n) /\ b \in 1..(Len(carry) + n) /\ v[a] \in Nat
      <4>1. v \in Seq(Nat) /\ a \in DOMAIN v
        BY <1>3, <1>5
      <4>2. v[a] \in Nat
        BY <4>1
      <4> QED BY <1>3, <1>5, <4>2
    <3>3. CASE a \in DOMAIN carry /\ v[a] = carry[a] /\ v[a] <= taken
      BY <1>0, <3>1, <3>2, <3>3
    <3>4. CASE a - Len(carry) \in 1..n /\ v[a] = taken + (a - Len(carry))
      <4>1. ASSUME NEW l \in Nat, NEW x \in Nat, NEW y \in Nat, x < y
            PROVE  taken + (x - l) < taken + (y - l)
        BY <1>0, <4>1
      <4>2. a \in Nat /\ b \in Nat
        BY <1>0, <3>2
      <4> QED BY <1>0, <1>5, <3>1, <3>4, <4>1, <4>2
    <3> QED BY <1>4, <3>3, <3>4
  <2> QED BY <2>1, <2>2
<1>6. ASSUME NEW a \in DOMAIN v, a + 1 \in DOMAIN v, v[a] > 0, v[a + 1] > 0 PROVE v[a + 1] = v[a] + 1
  <2>1. CASE a + 1 \in DOMAIN carry
    <3>1. a \in DOMAIN carry /\ v[a] = carry[a] /\ v[a + 1] = carry[a + 1]
      BY <1>0, <1>3, <1>6, <2>1
    <3> QED BY <1>6, <2>1, <3>1 DEF Lists, Ordered
  <2>2. CASE a = Len(carry)
    <3>1. Len(carry) > 0 /\ v[a] = carry[Len(carry)] /\ carry # <<>>
      BY <1>0, <1>3, <1>6, <2>2
    <3>2. v[a] = taken
      BY <1>6, <3>1 DEF Lists
    <3>3. a + 1 - Len(carry) = 1 /\ 1 \in 1..n
      BY <1>0, <1>3, <1>6, <2>2
    <3>4. v[Len(carry) + 1] = taken + 1
      BY <1>3, <3>3
    <3> QED BY <1>0, <2>2, <3>2, <3>4
  <2>3. CASE a > Len(carry)
    <3>1. a \notin DOMAIN carry /\ a + 1 \notin DOMAIN carry
      BY <1>0, <1>3, <1>6, <2>3
    <3>2. v[a] = taken + (a - Len(carry)) /\ v[a + 1] = taken + (a + 1 - Len(carry))
      BY <1>4, <1>6, <3>1
    <3> QED BY <1>0, <1>3, <1>6, <3>2
  <2>4. a \in 1..(Len(carry) + n) /\ a + 1 \in 1..(Len(carry) + n)
    BY <1>3, <1>6
  <2>5. a + 1 \in 1..Len(carry) \/ a = Len(carry) \/ a > Len(carry)
    BY <1>0, <2>4
  <2> QED BY <1>0, <2>1, <2>2, <2>3, <2>5
<1>7. ASSUME NEW a \in DOMAIN v PROVE v[a] <= taken + n
  <2>1. a \in 1..(Len(carry) + n) /\ v[a] \in Nat
    <3>1. a \in 1..(Len(carry) + n)
      BY <1>3
    <3>2. v \in Seq(Nat)
      BY <1>3
    <3> QED BY <3>1, <3>2
  <2>2. CASE v[a] <= taken
    BY <1>0, <2>1, <2>2
  <2>3. CASE a - Len(carry) \in 1..n /\ v[a] = taken + (a - Len(carry))
    BY <1>0, <2>1, <2>3
  <2> QED BY <1>4, <2>2, <2>3
<1>8. ASSUME v # <<>>, v[Len(v)] > 0 PROVE v[Len(v)] = taken + n
  <2>1. CASE n = 0
    <3>1. Len(v) = Len(carry) /\ Len(carry) > 0 /\ carry # <<>>
      <4>1. Len(v) > 0
        BY <1>3, <1>8
      <4>a. Len(v) = Len(carry) + n
        BY <1>3
      <4>b. Len(carry) \in Nat
        BY <1>0
      <4>2. Len(v) = Len(carry)
        BY <2>1, <4>a, <4>b
      <4> QED BY <1>0, <4>1, <4>2
    <3>2. v[Len(v)] = carry[Len(carry)]
      BY <1>0, <1>3, <3>1
    <3> QED BY <1>0, <1>8, <2>1, <3>1, <3>2 DEF Lists
  <2>2. CASE n # 0
    <3>1. n \in 1..n
      BY <2>2
    <3> QED BY <1>3, <3>1
  <2> QED BY <2>1, <2>2
<1>9. Ordered(v) /\ UpTo(v, taken + n)
  BY <1>5, <1>6, <1>7 DEF Ordered, UpTo
<1> QED BY <1>3, <1>8, <1>9 DEF Joined


\* A turn of the loop that reads: what was held and what came are redacted, and the first part
\* of it may leave.
Turn(n, k, r) == /\ n \in Nat /\ taken + n <= Len(text) /\ pending = <<>>
                 /\ r = Stream!Redact(carry \o Stream!Chunk(n)) /\ k \in 0..Len(r)
                 /\ pending' = SubSeq(r, 1, k) /\ carry' = SubSeq(r, k + 1, Len(r))
                 /\ taken' = taken + n /\ text' = text /\ out' = out

LEMMA TurnKeepsLists ==
    ASSUME StreamType, Lists, NEW n, NEW k, NEW r, Turn(n, k, r)
    PROVE  StreamType' /\ Lists' /\ (AllPlain => AllPlain')
<1>0. /\ n \in Nat /\ taken \in Nat /\ taken + n <= Len(text) /\ taken' = taken + n /\ out' = out /\ text' = text
      /\ carry \in Seq(Nat) /\ DOMAIN carry = 1..Len(carry) /\ Len(carry) \in Nat
      /\ out \in Seq(Int)
  BY DEF Turn, StreamType
<1>1. PICK v : v = carry \o Stream!Chunk(n)
  OBVIOUS
<1>a. Joined(n, v)
  BY <1>0, <1>1, ReadIs
<1>2. /\ v \in Seq(Nat) /\ Len(v) = Len(carry) + n /\ DOMAIN v = 1..(Len(carry) + n)
      /\ \A i \in 1..Len(carry) : v[i] = carry[i]
      /\ \A i \in 1..n : v[Len(carry) + i] = taken + i
      /\ Ordered(v) /\ UpTo(v, taken + n)
      /\ v # <<>> /\ v[Len(v)] > 0 => v[Len(v)] = taken + n
  BY <1>a DEF Joined
<1>3. Redacted(v, r, Len(v))
  BY <1>1, <1>2, RedactIs DEF Turn
<1>4. r \in Seq(Nat) /\ Ordered(r) /\ k \in 0..Len(r) /\ Len(r) \in Nat /\ DOMAIN r = 1..Len(r)
  BY <1>3 DEF Redacted, Turn
<1>b. First(Nat, r, k, pending') /\ Rest(Nat, r, k, carry')
  BY <1>4, SplitIs DEF Turn
<1>5. /\ pending' \in Seq(Nat) /\ Len(pending') = k /\ DOMAIN pending' = 1..k
      /\ \A i \in 1..k : pending'[i] = r[i]
  BY <1>b DEF First
<1>6. /\ carry' \in Seq(Nat) /\ Len(carry') = Len(r) - k /\ DOMAIN carry' = 1..(Len(r) - k)
      /\ \A i \in 1..(Len(r) - k) : carry'[i] = r[k + i]
  BY <1>b DEF Rest
<1>7. \A i \in 1..k : i \in DOMAIN r
  BY <1>4
<1>8. \A i \in 1..(Len(r) - k) : k + i \in DOMAIN r
  BY <1>4
\* What is in r was read.
<1>9. ASSUME NEW j \in DOMAIN r, r[j] > 0
      PROVE  \E i \in DOMAIN v : ~Covered(v, i) /\ r[j] = v[i]
  <2>1. r[j] = 0 \/ \E i \in 1..Len(v) : ~Covered(v, i) /\ r[j] = v[i]
    BY <1>3 DEF Redacted
  <2> QED BY <1>2, <1>9, <2>1
<1>10. \A j \in DOMAIN r : r[j] <= taken + n
  <2> SUFFICES ASSUME NEW j \in DOMAIN r PROVE r[j] <= taken + n
    OBVIOUS
  <2>1. r[j] \in Nat
    BY <1>4
  <2>2. CASE r[j] = 0
    BY <1>0, <2>2
  <2>3. CASE r[j] > 0
    BY <1>2, <1>9, <2>3 DEF UpTo
  <2> QED BY <2>1, <2>2, <2>3
<1>11. StreamType'
  <2>1. pending' \in Seq(Int)
    BY <1>5
  <2>2. taken' \in 0..Len(text')
    BY <1>0
  <2> QED BY <1>0, <1>6, <2>1, <2>2 DEF StreamType
<1>12. UpTo(pending', taken') /\ UpTo(carry', taken') /\ UpTo(out', taken')
  <2>1. UpTo(pending', taken')
    BY <1>0, <1>5, <1>7, <1>10 DEF UpTo
  <2>2. UpTo(carry', taken')
    BY <1>0, <1>6, <1>8, <1>10 DEF UpTo
  <2>3. UpTo(out', taken')
    <3> SUFFICES ASSUME NEW a \in DOMAIN out PROVE out[a] <= taken + n
      BY <1>0 DEF UpTo
    <3>1. out[a] \in Int /\ out[a] <= taken
      BY <1>0 DEF Lists, UpTo
    <3> QED BY <1>0, <3>1
  <2> QED BY <2>1, <2>2, <2>3
<1>13. Rising(pending') /\ Rising(out')
  <2>1. ASSUME NEW a \in 1..k, NEW b \in 1..k, a < b, r[a] > 0, r[b] > 0 PROVE r[a] < r[b]
    BY <1>4, <1>7, <2>1 DEF Ordered
  <2> QED BY <1>0, <1>5, <2>1 DEF Lists, Rising
<1>14. Ordered(carry')
  <2>1. ASSUME NEW a \in 1..(Len(r) - k), NEW b \in 1..(Len(r) - k), a < b, r[k + a] > 0, r[k + b] > 0
        PROVE  r[k + a] < r[k + b]
    <3>1. k + a < k + b
      BY <1>4, <2>1
    <3> QED BY <1>4, <1>8, <2>1, <3>1 DEF Ordered
  <2>2. ASSUME NEW a \in 1..(Len(r) - k), a + 1 \in 1..(Len(r) - k), r[k + a] > 0, r[k + (a + 1)] > 0
        PROVE  r[k + (a + 1)] = r[k + a] + 1
    <3>1. k + (a + 1) = (k + a) + 1
      BY <1>4
    <3>2. k + a \in DOMAIN r /\ (k + a) + 1 \in DOMAIN r
      BY <1>8, <2>2, <3>1
    <3> QED BY <1>4, <2>2, <3>1, <3>2 DEF Ordered
  <2>3. \A a \in DOMAIN carry' : /\ a \in 1..(Len(r) - k) /\ carry'[a] = r[k + a]
    BY <1>6
  <2> QED BY <2>1, <2>2, <2>3 DEF Ordered
<1>15. Before(pending', carry')
  <2>1. ASSUME NEW a \in 1..k, NEW b \in 1..(Len(r) - k), r[a] > 0, r[k + b] > 0 PROVE r[a] < r[k + b]
    <3>1. a < k + b
      BY <1>4
    <3> QED BY <1>4, <1>7, <1>8, <2>1, <3>1 DEF Ordered
  <2>2. \A a \in 1..k, b \in 1..(Len(r) - k) : pending'[a] > 0 /\ carry'[b] > 0 => pending'[a] < carry'[b]
    BY <1>5, <1>6, <2>1
  <2> QED BY <1>5, <1>6, <2>2 DEF Before
<1>16. ASSUME NEW a \in DOMAIN out, NEW j \in DOMAIN r, out[a] > 0, r[j] > 0 PROVE out[a] < r[j]
  <2>1. PICK i \in DOMAIN v : r[j] = v[i]
    BY <1>9, <1>16
  <2>2. out[a] \in Int /\ out[a] <= taken
    BY <1>0 DEF Lists, UpTo
  <2>3. CASE i \in 1..Len(carry)
    <3>1. v[i] = carry[i] /\ i \in DOMAIN carry
      BY <1>0, <1>2, <2>3
    <3> QED BY <1>16, <2>1, <3>1 DEF Lists, Before
  <2>4. CASE i \notin 1..Len(carry)
    <3>1. PICK d \in 1..n : i = Len(carry) + d
      <4>1. i \in 1..(Len(carry) + n)
        BY <1>2
      <4>2. i - Len(carry) \in 1..n /\ i = Len(carry) + (i - Len(carry))
        BY <1>0, <2>4, <4>1
      <4> QED BY <4>2
    <3>2. v[i] = taken + d
      BY <1>2, <3>1
    <3> QED BY <1>0, <2>1, <2>2, <3>2
  <2> QED BY <2>3, <2>4
<1>17. Before(out', pending') /\ Before(out', carry')
  <2>1. Before(out', pending')
    BY <1>0, <1>5, <1>7, <1>16 DEF Before
  <2>2. Before(out', carry')
    BY <1>0, <1>6, <1>8, <1>16 DEF Before
  <2> QED BY <2>1, <2>2
<1>18. carry' # <<>> /\ carry'[Len(carry')] > 0 => carry'[Len(carry')] = taken'
  <2> SUFFICES ASSUME carry' # <<>>, carry'[Len(carry')] > 0 PROVE carry'[Len(carry')] = taken'
    OBVIOUS
  <2>1. Len(carry') > 0
    BY <1>6
  <2>2. Len(r) - k \in 1..(Len(r) - k) /\ k + (Len(r) - k) = Len(r) /\ Len(r) > 0
    BY <1>4, <1>6, <2>1
  <2>3. carry'[Len(carry')] = r[Len(r)]
    BY <1>6, <2>2
  <2>4. Len(v) \in Nat
    BY <1>2
  <2>5. Len(v) > 0
    <3>1. Len(v) = 0 => r[Len(r)] = 0
      <4>1. Len(r) \in DOMAIN r
        BY <1>4, <2>2
      <4>2. 1..0 = {}
        OBVIOUS
      <4> QED BY <1>3, <4>1, <4>2 DEF Redacted
    <3> QED BY <2>3, <2>4, <3>1
  <2>6. r[Len(r)] = IF Covered(v, Len(v)) THEN 0 ELSE v[Len(v)]
    BY <1>3, <2>5 DEF Redacted
  <2>7. v # <<>>
    BY <1>2, <2>5
  <2> QED BY <1>0, <1>2, <2>3, <2>6, <2>7
<1>19. Lists'
  BY <1>12, <1>13, <1>14, <1>15, <1>17, <1>18 DEF Lists
<1>20. ASSUME AllPlain PROVE AllPlain'
  <2>1. Stream!Plain' = Stream!Plain /\ \A p \in Stream!Plain : p \in Nat /\ p > 0 /\ text[p] \in {"p", "n"}
    BY <1>0 DEF Stream!Plain, StreamType
  <2> SUFFICES ASSUME NEW p \in Stream!Plain, p <= taken + n
               PROVE  Has(out', p) \/ Has(pending', p) \/ Has(carry', p)
    BY <1>0, <2>1 DEF AllPlain
  <2>2. ASSUME NEW i \in DOMAIN v, v[i] = p PROVE Has(pending', p) \/ Has(carry', p)
    <3>1. Stream!Symbol(v, i) \in {"p", "n"}
      BY <2>1, <2>2 DEF Stream!Symbol
    <3>2. ~Covered(v, i)
      BY <3>1 DEF Covered, Begins, Inside, Stream!Matches
    <3>3. PICK j \in DOMAIN r : r[j] = p
      BY <1>2, <1>3, <2>2, <3>2 DEF Redacted
    <3>4. CASE j \in 1..k
      BY <1>5, <3>3, <3>4 DEF Has
    <3>5. CASE j \notin 1..k
      <4>1. j - k \in 1..(Len(r) - k) /\ k + (j - k) = j
        BY <1>4, <3>5
      <4>2. carry'[j - k] = p
        BY <1>6, <3>3, <4>1
      <4> QED BY <1>6, <4>1, <4>2 DEF Has
    <3> QED BY <3>4, <3>5
  <2>3. CASE p <= taken
    <3>1. Has(out, p) \/ Has(carry, p)
      <4>1. ~Has(<<>>, p)
        BY DEF Has
      <4> QED BY <1>20, <2>3, <4>1 DEF AllPlain, Turn
    <3>2. CASE Has(out, p)
      BY <1>0, <3>2
    <3>3. CASE Has(carry, p)
      <4>1. PICK a \in DOMAIN carry : carry[a] = p
        BY <3>3 DEF Has
      <4>2. a \in DOMAIN v /\ v[a] = p
        BY <1>0, <1>2, <4>1
      <4> QED BY <2>2, <4>2
    <3> QED BY <3>1, <3>2, <3>3
  <2>4. CASE p > taken
    <3>1. p - taken \in 1..n /\ taken + (p - taken) = p
      BY <1>0, <2>1, <2>4
    <3>2. Len(carry) + (p - taken) \in DOMAIN v /\ v[Len(carry) + (p - taken)] = p
      <4>1. PICK d \in 1..n : d = p - taken
        BY <3>1
      <4>2. v[Len(carry) + d] = taken + d
        BY <1>2
      <4>3. Len(carry) + d \in 1..(Len(carry) + n)
        BY <1>0
      <4> QED BY <1>2, <3>1, <4>1, <4>2, <4>3
    <3> QED BY <2>2, <3>2
  <2> QED BY <1>0, <2>1, <2>3, <2>4
<1> QED BY <1>11, <1>19, <1>20


\* The client takes n symbols.
Drained(n) ==
    /\ pending \in Seq(Int) /\ out \in Seq(Int) /\ n \in 1..Len(pending)
    /\ Rest(Int, pending, n, pending')
    /\ out' \in Seq(Int) /\ DOMAIN out' = 1..(Len(out) + n)
    /\ \A i \in 1..Len(out) : out'[i] = out[i]
    /\ \A i \in 1..n : out'[Len(out) + i] = pending[i]

LEMMA DrainIs == ASSUME StreamType, Stream!DrainPending PROVE \E n \in 1..Len(pending) : Drained(n)
<1>0. pending \in Seq(Int) /\ out \in Seq(Int) /\ Len(pending) \in Nat
  BY DEF StreamType
<1>1. PICK n \in 1..Len(pending) : /\ out' = out \o SubSeq(pending, 1, n)
                                   /\ pending' = SubSeq(pending, n + 1, Len(pending))
  BY DEF Stream!DrainPending
<1>2. PICK f : f = SubSeq(pending, 1, n)
  OBVIOUS
<1>3. First(Int, pending, n, f) /\ Rest(Int, pending, n, pending')
  <2>1. n \in 0..Len(pending)
    BY <1>0
  <2> QED BY <1>0, <1>1, <1>2, <2>1, SplitIs
<1>4. f \in Seq(Int) /\ Len(f) = n /\ \A i \in 1..n : f[i] = pending[i]
  BY <1>3 DEF First
<1>5. PICK q : q = out \o f
  OBVIOUS
<1>a. Both(Int, out, f, q)
  BY <1>0, <1>4, <1>5, JoinIs
<1>6. /\ q \in Seq(Int) /\ DOMAIN q = 1..(Len(out) + Len(f))
      /\ \A i \in 1..Len(out) : q[i] = out[i]
      /\ \A i \in 1..Len(f) : q[Len(out) + i] = f[i]
  BY <1>a DEF Both
<1>7. out' = q
  BY <1>1, <1>2, <1>5
<1> QED BY <1>0, <1>3, <1>4, <1>6, <1>7 DEF Drained

\* Where a symbol is after that.
LEMMA DrainMoves ==
    ASSUME NEW n, Drained(n)
    PROVE  /\ \A a \in DOMAIN out' : \/ a \in DOMAIN out /\ out'[a] = out[a]
                                     \/ a - Len(out) \in 1..n /\ a - Len(out) \in DOMAIN pending /\ a > Len(out)
                                        /\ out'[a] = pending[a - Len(out)]
           /\ \A a \in DOMAIN pending' : a + n \in DOMAIN pending /\ pending'[a] = pending[a + n] /\ a > 0
           /\ \A a \in DOMAIN out : a \in DOMAIN out' /\ out'[a] = out[a]
           /\ \A a \in DOMAIN pending : Has(out', pending[a]) \/ Has(pending', pending[a])
<1>0. /\ Len(out) \in Nat /\ DOMAIN out = 1..Len(out) /\ Len(pending) \in Nat /\ DOMAIN pending = 1..Len(pending)
      /\ n \in 1..Len(pending) /\ DOMAIN out' = 1..(Len(out) + n)
  BY DEF Drained
<1>1. DOMAIN pending' = 1..(Len(pending) - n) /\ \A i \in 1..(Len(pending) - n) : pending'[i] = pending[n + i]
  BY DEF Drained, Rest
<1>2. ASSUME NEW a \in DOMAIN out'
      PROVE  \/ a \in DOMAIN out /\ out'[a] = out[a]
             \/ a - Len(out) \in 1..n /\ a - Len(out) \in DOMAIN pending /\ a > Len(out)
                /\ out'[a] = pending[a - Len(out)]
  <2>1. CASE a \in DOMAIN out
    BY <1>0, <2>1 DEF Drained
  <2>2. CASE a \notin DOMAIN out
    <3>1. PICK d \in 1..n : d = a - Len(out) /\ a = Len(out) + d /\ a > Len(out)
      <4>1. a \in 1..(Len(out) + n) /\ a \notin 1..Len(out)
        BY <1>0, <2>2
      <4>2. a - Len(out) \in 1..n /\ a = Len(out) + (a - Len(out)) /\ a > Len(out)
        BY <1>0, <4>1
      <4> QED BY <4>2
    <3>2. out'[Len(out) + d] = pending[d]
      BY DEF Drained
    <3>3. d \in DOMAIN pending
      BY <1>0
    <3> QED BY <3>1, <3>2, <3>3
  <2> QED BY <2>1, <2>2
<1>3. ASSUME NEW a \in DOMAIN pending' PROVE a + n \in DOMAIN pending /\ pending'[a] = pending[a + n] /\ a > 0
  <2>1. n + a = a + n /\ a + n \in 1..Len(pending) /\ a > 0
    BY <1>0, <1>1
  <2> QED BY <1>0, <1>1, <2>1
<1>4. ASSUME NEW a \in DOMAIN out PROVE a \in DOMAIN out' /\ out'[a] = out[a]
  BY <1>0 DEF Drained
<1>5. ASSUME NEW a \in DOMAIN pending PROVE Has(out', pending[a]) \/ Has(pending', pending[a])
  <2>1. CASE a \in 1..n
    <3>1. Len(out) + a \in DOMAIN out' /\ out'[Len(out) + a] = pending[a]
      <4>1. PICK x : x = Len(out) + a
        OBVIOUS
      <4>2. Len(out) \in Nat /\ a \in Nat /\ 1 <= a /\ a <= n /\ n \in Nat
        BY <1>0, <2>1
      <4>3. x \in 1..(Len(out) + n)
        BY <4>1, <4>2
      <4>4. out'[x] = pending[a]
        BY <2>1, <4>1 DEF Drained
      <4>5. x \in DOMAIN out'
        BY <1>0, <4>3
      <4> QED BY <4>1, <4>4, <4>5
    <3> QED BY <3>1 DEF Has
  <2>2. CASE a \notin 1..n
    <3>1. a - n \in 1..(Len(pending) - n) /\ n + (a - n) = a
      BY <1>0, <2>2
    <3>2. pending'[a - n] = pending[a]
      BY <1>1, <3>1
    <3> QED BY <1>1, <3>1, <3>2 DEF Has
  <2> QED BY <2>1, <2>2
<1> QED BY <1>2, <1>3, <1>4, <1>5

LEMMA DrainKeepsLists ==
    ASSUME StreamType, Lists, Stream!DrainPending PROVE StreamType' /\ Lists' /\ (AllPlain => AllPlain')
<1>0. UNCHANGED <<text, taken, carry>>
  BY DEF Stream!DrainPending
<1>1. PICK n \in 1..Len(pending) : Drained(n)
  BY DrainIs
<1>2. \A a \in DOMAIN out' : \/ a \in DOMAIN out /\ out'[a] = out[a]
                             \/ a - Len(out) \in 1..n /\ a - Len(out) \in DOMAIN pending /\ a > Len(out)
                                /\ out'[a] = pending[a - Len(out)]
  BY <1>1, DrainMoves
<1>3. \A a \in DOMAIN pending' : a + n \in DOMAIN pending /\ pending'[a] = pending[a + n] /\ a > 0
  BY <1>1, DrainMoves
<1>4. Len(out) \in Nat /\ DOMAIN out = 1..Len(out) /\ Len(pending) \in Nat /\ DOMAIN pending = 1..Len(pending)
      /\ DOMAIN out' \subseteq Nat /\ DOMAIN pending' \subseteq Nat
  <2>1. /\ Len(out) \in Nat /\ DOMAIN out = 1..Len(out) /\ Len(pending) \in Nat /\ DOMAIN pending = 1..Len(pending)
        /\ n \in 1..Len(pending) /\ DOMAIN out' = 1..(Len(out) + n)
    BY <1>1 DEF Drained
  <2>2. DOMAIN pending' = 1..(Len(pending) - n)
    BY <1>1 DEF Drained, Rest
  <2> QED BY <2>1, <2>2
<1>5. StreamType'
  <2>1. pending' \in Seq(Int) /\ out' \in Seq(Int)
    BY <1>1 DEF Drained, Rest
  <2> QED BY <1>0, <2>1 DEF StreamType
<1>6. Rising(pending')
  <2> SUFFICES ASSUME NEW a \in DOMAIN pending', NEW b \in DOMAIN pending', a < b, pending'[a] > 0, pending'[b] > 0
               PROVE  pending'[a] < pending'[b]
    BY DEF Rising
  <2>1. a + n < b + n
    BY <1>1, <1>4
  <2> QED BY <1>3, <2>1 DEF Lists, Rising
<1>7. Rising(out')
  <2> SUFFICES ASSUME NEW a \in DOMAIN out', NEW b \in DOMAIN out', a < b, out'[a] > 0, out'[b] > 0
               PROVE  out'[a] < out'[b]
    BY DEF Rising
  <2>1. CASE a \in DOMAIN out /\ out'[a] = out[a] /\ b \in DOMAIN out /\ out'[b] = out[b]
    BY <2>1 DEF Lists, Rising
  <2>2. CASE /\ a \in DOMAIN out /\ out'[a] = out[a]
             /\ b - Len(out) \in DOMAIN pending /\ out'[b] = pending[b - Len(out)]
    BY <2>2 DEF Lists, Before
  <2>3. CASE /\ a - Len(out) \in DOMAIN pending /\ out'[a] = pending[a - Len(out)]
             /\ b - Len(out) \in DOMAIN pending /\ out'[b] = pending[b - Len(out)]
    <3>1. a - Len(out) < b - Len(out)
      BY <1>4
    <3> QED BY <2>3, <3>1 DEF Lists, Rising
  <2>4. ~(a > Len(out) /\ b \in DOMAIN out)
    BY <1>4
  <2> QED BY <1>2, <2>1, <2>2, <2>3, <2>4
<1>8. Before(out', pending')
  <2> SUFFICES ASSUME NEW a \in DOMAIN out', NEW b \in DOMAIN pending', out'[a] > 0, pending'[b] > 0
               PROVE  out'[a] < pending'[b]
    BY DEF Before
  <2>1. CASE a \in DOMAIN out /\ out'[a] = out[a]
    BY <1>3, <2>1 DEF Lists, Before
  <2>2. CASE a - Len(out) \in 1..n /\ a - Len(out) \in DOMAIN pending /\ out'[a] = pending[a - Len(out)]
    <3>1. a - Len(out) < b + n
      BY <1>3, <1>4, <2>2
    <3> QED BY <1>3, <2>2, <3>1 DEF Lists, Rising
  <2> QED BY <1>2, <2>1, <2>2
<1>9. Before(out', carry') /\ Before(pending', carry')
  BY <1>0, <1>2, <1>3 DEF Lists, Before
<1>10. UpTo(out', taken') /\ UpTo(pending', taken')
  BY <1>0, <1>2, <1>3 DEF Lists, UpTo
<1>11. Lists'
  <2>1. Ordered(carry') /\ UpTo(carry', taken') /\ (carry' # <<>> /\ carry'[Len(carry')] > 0 => carry'[Len(carry')] = taken')
    BY <1>0 DEF Lists
  <2> QED BY <2>1, <1>6, <1>7, <1>8, <1>9, <1>10 DEF Lists
<1>12. AllPlain => AllPlain'
  <2> SUFFICES ASSUME AllPlain, NEW p \in Stream!Plain, p <= taken
               PROVE  Has(out', p) \/ Has(pending', p) \/ Has(carry', p)
    BY <1>0 DEF AllPlain, Stream!Plain
  <2>1. CASE Has(out, p)
    BY <1>1, <2>1, DrainMoves DEF Has
  <2>2. CASE Has(pending, p)
    <3>1. PICK a \in DOMAIN pending : pending[a] = p
      BY <2>2 DEF Has
    <3>2. Has(out', pending[a]) \/ Has(pending', pending[a])
      BY <1>1, DrainMoves
    <3> QED BY <3>1, <3>2
  <2>3. CASE Has(carry, p)
    BY <1>0, <2>3
  <2> QED BY <2>1, <2>2, <2>3 DEF AllPlain
<1> QED BY <1>5, <1>11, <1>12

LEMMA ReadChunkTurns ==
    ASSUME StreamType, Lists, Stream!ReadChunk
    PROVE  \E n \in Nat, r \in Seq(Nat) : Turn(n, Stream!SafeFlushLength(r), r)
<1>1. PICK n \in 1..Buffer :
          /\ taken + n <= Len(text)
          /\ LET p == Stream!Process(Stream!Chunk(n), FALSE)
             IN pending' = p.out /\ carry' = p.carry
          /\ taken' = taken + n
  BY DEF Stream!ReadChunk
<1>2. pending = <<>> /\ text' = text /\ out' = out
  BY DEF Stream!ReadChunk
<1>3. n \in Nat
  BY PartsAssumption DEF PartsAssumption, Stream!SizesAssumption
<1>4. PICK v : v = carry \o Stream!Chunk(n)
  OBVIOUS
<1>5. v \in Seq(Nat) /\ Ordered(v)
  BY <1>1, <1>3, <1>4, ReadIs DEF Joined
<1>6. PICK r \in Seq(Nat) : r = Stream!Redact(v)
  BY <1>5, RedactIs DEF Redacted
<1>7. PICK k : k = Stream!SafeFlushLength(r)
  OBVIOUS
<1>8. k \in 0..Len(r)
  BY <1>7, FlushIs
<1>9. pending' = SubSeq(r, 1, k) /\ carry' = SubSeq(r, k + 1, Len(r))
  BY <1>1, <1>4, <1>6, <1>7 DEF Stream!Process
<1>10. Turn(n, k, r)
  BY <1>1, <1>2, <1>3, <1>4, <1>6, <1>8, <1>9 DEF Turn
<1> QED BY <1>3, <1>7, <1>10

LEMMA ReadEndTurns ==
    ASSUME StreamType, Lists, Stream!ReadEnd
    PROVE  /\ \E r \in Seq(Nat) : Turn(0, Len(r), r)
           /\ carry' = <<>> /\ taken = Len(text)
<1>1. /\ pending = <<>> /\ text' = text /\ out' = out /\ taken' = taken /\ taken = Len(text)
      /\ LET p == Stream!Process(<<>>, TRUE) IN pending' = p.out /\ carry' = p.carry
  BY DEF Stream!ReadEnd
<1>2. taken \in Nat /\ taken + 0 = taken /\ carry \in Seq(Nat)
  BY DEF StreamType
<1>3. Stream!Chunk(0) = <<>> 
  BY DEF Stream!Chunk
<1>4. PICK v : v = carry \o <<>>
  OBVIOUS
<1>5. v \in Seq(Nat) /\ Ordered(v)
  <2>1. 0 \in Nat /\ taken + 0 <= Len(text) /\ v = carry \o Stream!Chunk(0)
    BY <1>1, <1>2, <1>3, <1>4
  <2>2. Joined(0, v)
    BY <2>1, ReadIs
  <2> QED BY <2>2 DEF Joined
<1>6. PICK r \in Seq(Nat) : r = Stream!Redact(v)
  BY <1>5, RedactIs DEF Redacted
<1>7. pending' = SubSeq(r, 1, Len(r)) /\ carry' = SubSeq(r, Len(r) + 1, Len(r))
  BY <1>1, <1>4, <1>6 DEF Stream!Process
<1>8. Len(r) \in Nat /\ Len(r) \in 0..Len(r)
  OBVIOUS
<1>9. Turn(0, Len(r), r)
  <2>1. r = Stream!Redact(carry \o Stream!Chunk(0))
    BY <1>3, <1>4, <1>6
  <2>2. 0 \in Nat /\ taken + 0 <= Len(text) /\ taken' = taken + 0
    BY <1>1, <1>2 DEF StreamType
  <2> QED BY <1>1, <1>7, <1>8, <2>1, <2>2 DEF Turn
<1>10. carry' = <<>>
  <2>1. Rest(Nat, r, Len(r), carry')
    BY <1>7, <1>8, SplitIs
  <2> QED BY <1>8, <2>1 DEF Rest
<1> QED BY <1>1, <1>9, <1>10

\* A step of the sum is a step of the stream or leaves it alone.
LEMMA StreamMoves == Spec => Stream!Spec
<1>1. Init => Stream!Init
  BY DEF Init
<1>2. [Next]_vars => [Stream!Next]_Stream!vars
  BY DEF Next, StreamStep, PreflightStep, ProducerStep, vars, streamVars, Stream!vars
<1> QED BY <1>1, <1>2, PTL DEF Spec, Stream!Spec

LEMMA StreamInvHolds == Spec => []StreamInv
<1>1. Stream!Init => StreamInv
  <2> SUFFICES ASSUME Stream!Init PROVE StreamInv
    OBVIOUS
  <2>1. text \in Seq({"k", "x", "n", "p"}) /\ taken = 0 /\ carry = <<>> /\ pending = <<>> /\ out = <<>>
        /\ done = FALSE /\ ending = "none"
    BY PartsAssumption DEF PartsAssumption, Stream!TextsAssumption, Stream!Init
  <2>2. StreamType
    BY <2>1 DEF StreamType
  <2>3. Lists
    BY <2>1 DEF Lists, Ordered, Rising, Before, UpTo
  <2>4. AllPlain
    BY <2>1 DEF AllPlain, Stream!Plain
  <2> QED BY <2>1, <2>2, <2>3, <2>4 DEF StreamInv, Whole
<1>2. StreamInv /\ [Stream!Next]_Stream!vars => StreamInv'
  <2> SUFFICES ASSUME StreamInv, [Stream!Next]_Stream!vars PROVE StreamInv'
    OBVIOUS
  <2>0. StreamType /\ Lists /\ Whole
    BY DEF StreamInv
  <2>1. ASSUME UNCHANGED <<text, taken, carry, pending, out>>, ending' # "eof" \/ ending' = ending,
               ending' # "none" => done', ending' = "none" => ending = "none"
        PROVE  StreamInv'
    <3>1. StreamType' /\ Lists' /\ (AllPlain => AllPlain')
      BY <2>0, <2>1 DEF StreamType, Lists, AllPlain, Stream!Plain
    <3>2. Whole'
      BY <2>0, <2>1, <3>1 DEF Whole
    <3> QED BY <3>1, <3>2 DEF StreamInv
  <2>2. CASE UNCHANGED Stream!vars
    BY <2>0, <2>1, <2>2 DEF Stream!vars, Whole
  <2>3. CASE Stream!DrainPending
    <3>1. StreamType' /\ Lists' /\ (AllPlain => AllPlain')
      BY <2>0, <2>3, DrainKeepsLists
    <3>2. UNCHANGED <<text, taken, carry, ending, done>>
      BY <2>3 DEF Stream!DrainPending
    <3> QED BY <2>0, <3>1, <3>2 DEF StreamInv, Whole
  <2>4. CASE Stream!ReadChunk
    <3>1. StreamType' /\ Lists' /\ (AllPlain => AllPlain')
      BY <2>0, <2>4, ReadChunkTurns, TurnKeepsLists
    <3>2. UNCHANGED <<ending, done>> /\ ~done
      BY <2>4 DEF Stream!ReadChunk
    <3> QED BY <2>0, <3>1, <3>2 DEF StreamInv, Whole
  <2>5. CASE Stream!ReadEnd
    <3>1. StreamType' /\ Lists' /\ (AllPlain => AllPlain')
      BY <2>0, <2>5, ReadEndTurns, TurnKeepsLists
    <3>2. carry' = <<>> /\ taken' = Len(text') /\ ~done /\ done' /\ ending' = "eof"
      BY <2>0, <2>5, ReadEndTurns DEF Stream!ReadEnd
    <3> QED BY <2>0, <3>1, <3>2 DEF StreamInv, Whole
  <2>6. CASE Stream!ReadError
    <3>1. pending = <<>> /\ pending' = <<-1>> /\ UNCHANGED <<text, taken, carry, out>> /\ done' /\ ending' = "failed"
      BY <2>6 DEF Stream!ReadError, Stream!Placeholder
    <3>2. pending' \in Seq(Int) /\ \A a \in DOMAIN pending' : pending'[a] = -1
      BY <3>1
    <3>3. StreamType'
      BY <2>0, <3>1, <3>2 DEF StreamType
    <3>4. Rising(pending') /\ Before(out, pending') /\ Before(pending', carry) /\ UpTo(pending', taken)
      BY <2>0, <3>2 DEF Rising, Before, UpTo, StreamType
    <3>5. Lists'
      BY <2>0, <3>1, <3>4 DEF Lists
    <3> QED BY <3>1, <3>3, <3>5 DEF StreamInv, Whole
  <2>7. CASE Stream!SourceBreaks
    BY <2>0, <2>1, <2>7 DEF Stream!SourceBreaks, Whole
  <2>8. CASE Stream!Close
    <3>1. UNCHANGED <<text, taken, carry, pending, out>> /\ done' /\ ending' = IF done THEN ending ELSE "closed"
      BY <2>8 DEF Stream!Close
    <3> QED BY <2>1, <3>1
  <2> QED BY <2>2, <2>3, <2>4, <2>5, <2>6, <2>7, <2>8 DEF Stream!Next
<1> QED BY <1>1, <1>2, StreamMoves, PTL DEF Stream!Spec

\* TextIsKept: what the client has read is in the order of the text, and a stream read to its
\* end has every plain symbol of it, however the text is cut into chunks and drained
\* (redacting_body.go 26-69).
THEOREM TextIsKeptHolds == Spec => []TextIsKept
<1>1. StreamInv => TextIsKept
  <2> SUFFICES ASSUME StreamInv PROVE TextIsKept
    OBVIOUS
  <2>1. \A i, j \in DOMAIN out : i < j /\ out[i] > 0 /\ out[j] > 0 => out[i] < out[j]
    BY DEF StreamInv, Lists, Rising
  <2>2. ASSUME ending = "eof", pending = <<>>, NEW i \in Stream!Plain PROVE \E j \in DOMAIN out : out[j] = i
    <3>1. AllPlain /\ carry = <<>> /\ taken = Len(text)
      BY <2>2 DEF StreamInv, Whole
    <3>2. i <= taken
      BY <3>1 DEF Stream!Plain, StreamInv, StreamType
    <3>3. ~Has(<<>>, i)
      BY DEF Has
    <3> QED BY <2>2, <3>1, <3>2, <3>3 DEF AllPlain, Has
  <2> QED BY <2>1, <2>2 DEF TextIsKept, Stream!TextIsKept
<1> QED BY <1>1, StreamInvHolds, PTL


-----------------------------------------------------------------------------
\* A value of fixed length, as an AWS key or a social security number is, which fits in the
\* carry; one of open length may be replaced too early (redactor.go 172).
FixedLength == MinBody = MaxBody /\ MinBody <= CarryBytes

Values == Stream!Matches([i \in 1..Len(text) |-> i])

\* A value that was read whole is not in the carry, and of one whose end is still to come the
\* carry's end is the first part.
Held(m) ==
    /\ m[2] <= taken => \A a \in DOMAIN carry : carry[a] \notin m[1]..m[2]
    /\ m[1] <= taken /\ taken < m[2] =>
          /\ Len(carry) >= taken - m[1] + 1
          /\ \A p \in m[1]..taken : carry[Len(carry) - (taken - p)] = p
Without(s) == \A a \in DOMAIN s : \A m \in Values : s[a] \notin m[1]..m[2]
HidingInv == Without(out) /\ Without(pending) /\ \A m \in Values : Held(m)

LEMMA ValueIs ==
    ASSUME FixedLength, StreamType, NEW m \in Values
    PROVE  /\ m[1] \in 1..Len(text) /\ m[2] \in 1..Len(text) /\ m[2] = m[1] + MinBody /\ MinBody \in Nat \ {0}
           /\ text[m[1]] = "k" /\ \A i \in m[1] + 1..m[2] : text[i] = "x"
           /\ m[1] - 1 \in 1..Len(text) => text[m[1] - 1] \notin {"k", "x"}
           /\ m[2] + 1 \in 1..Len(text) => text[m[2] + 1] \notin {"k", "x"}
<1>0. Len(text) \in Nat /\ MinBody \in Nat \ {0} /\ MaxBody = MinBody
  BY PartsAssumption DEF PartsAssumption, Stream!SizesAssumption, StreamType, FixedLength
<1>1. PICK w : w = [i \in 1..Len(text) |-> i]
  OBVIOUS
<1>2. w \in Seq(Nat) /\ Len(w) = Len(text) /\ \A i \in 1..Len(text) : w[i] = i
  BY <1>0, <1>1
<1>3. \A i \in 1..Len(text) : Stream!Symbol(w, i) = text[i]
  BY <1>2 DEF Stream!Symbol
<1>4. m \in Stream!Matches(w)
  BY <1>1 DEF Values
<1>5. /\ m[1] \in 1..Len(text) /\ m[2] \in 1..Len(text) /\ m[2] - m[1] \in MinBody..MaxBody
      /\ Stream!Symbol(w, m[1]) = "k" /\ \A i \in m[1] + 1..m[2] : Stream!Symbol(w, i) = "x"
      /\ ~Stream!Word(w, m[1] - 1) /\ ~Stream!Word(w, m[2] + 1)
  BY <1>2, <1>4 DEF Stream!Matches
<1>6. m[2] = m[1] + MinBody
  BY <1>0, <1>5
<1>7. text[m[1]] = "k"
  BY <1>3, <1>5
<1>8. \A i \in m[1] + 1..m[2] : i \in 1..Len(text) /\ text[i] = "x"
  BY <1>0, <1>3, <1>5
<1>9. m[1] - 1 \in 1..Len(text) => text[m[1] - 1] \notin {"k", "x"}
  BY <1>2, <1>3, <1>5 DEF Stream!Word
<1>10. m[2] + 1 \in 1..Len(text) => text[m[2] + 1] \notin {"k", "x"}
  BY <1>2, <1>3, <1>5 DEF Stream!Word
<1> QED BY <1>0, <1>5, <1>6, <1>7, <1>8, <1>9, <1>10

\* The place in carry and chunk of a symbol of a value that ends in the chunk or after it.
Place(p) == Len(carry) + (p - taken)
Numbers(m, c, t, x, y) == c = Len(carry) /\ t = taken /\ x = m[1] /\ y = m[2]
LEMMA NumbersAre ==
    ASSUME FixedLength, StreamType, NEW m \in Values
    PROVE  /\ \E c \in Nat, t \in Nat, x \in Nat \ {0}, y \in Nat : Numbers(m, c, t, x, y)
           /\ MinBody \in Nat \ {0} /\ MaxBody = MinBody
<1>1. Len(carry) \in Nat /\ taken \in Nat
  BY DEF StreamType
<1>2. m[1] \in Nat \ {0} /\ m[2] \in Nat
  <2>1. m[1] \in 1..Len(text) /\ m[2] \in 1..Len(text)
    BY ValueIs
  <2> QED BY <2>1
<1>3. MinBody \in Nat \ {0} /\ MaxBody = MinBody
  BY PartsAssumption DEF PartsAssumption, Stream!SizesAssumption, FixedLength
<1> QED BY <1>1, <1>2, <1>3 DEF Numbers

LEMMA PlaceIs ==
    ASSUME FixedLength, StreamType, NEW m \in Values, Held(m), taken < m[2], NEW n \in Nat, NEW v, Joined(n, v),
           NEW p \in m[1]..m[2], p <= taken + n
    PROVE  Place(p) \in DOMAIN v /\ v[Place(p)] = p /\ p > 0
<1>1. PICK c \in Nat, t \in Nat, x \in Nat \ {0}, y \in Nat : Numbers(m, c, t, x, y)
  BY NumbersAre
<1>2. /\ DOMAIN v = 1..(c + n)
      /\ \A i \in 1..c : v[i] = carry[i]
      /\ \A i \in 1..n : v[c + i] = t + i
  BY <1>1 DEF Joined, Numbers
<1>3. p \in x..y /\ p \in Nat /\ p > 0 /\ t < y /\ p <= t + n
  <2>1. p \in x..y /\ t < y /\ p <= t + n
    BY <1>1 DEF Numbers
  <2> QED BY <2>1
<1>4. Place(p) = c + (p - t)
  BY <1>1 DEF Numbers, Place
<1>5. CASE p <= t
  <2>0. x <= t
    BY <1>3, <1>5
  <2>1. c >= t - x + 1 /\ \A q \in x..t : carry[c - (t - q)] = q
    BY <1>1, <1>3, <2>0 DEF Held, Numbers
  <2>2. p \in x..t /\ c + (p - t) = c - (t - p) /\ c - (t - p) \in 1..c
    BY <1>3, <1>5, <2>1
  <2>3. c - (t - p) \in 1..(c + n)
    BY <2>2
  <2>4. v[c - (t - p)] = p
    BY <1>2, <2>1, <2>2
  <2> QED BY <1>2, <1>3, <1>4, <2>2, <2>3, <2>4
<1>6. CASE p > t
  <2>1. PICK d \in 1..n : d = p - t
    BY <1>3, <1>6
  <2>2. c + (p - t) = c + d /\ c + d \in 1..(c + n) /\ t + d = p
    BY <1>3, <2>1
  <2>3. v[c + d] = p
    BY <1>2, <2>2
  <2> QED BY <1>2, <1>3, <1>4, <2>2, <2>3
<1> QED BY <1>3, <1>5, <1>6

\* A value whose end is in the chunk is found.
LEMMA ValueIsMatched ==
    ASSUME FixedLength, StreamType, NEW m \in Values, Held(m), taken < m[2],
           NEW n \in Nat, taken + n <= Len(text), m[2] <= taken + n, NEW v, Joined(n, v)
    PROVE  <<Place(m[1]), Place(m[2])>> \in Stream!Matches(v)
<1>1. PICK c \in Nat, t \in Nat, x \in Nat \ {0}, y \in Nat : Numbers(m, c, t, x, y)
  BY NumbersAre
<1>2. MinBody \in Nat \ {0} /\ MaxBody = MinBody /\ y = x + MinBody
  BY <1>1, NumbersAre, ValueIs DEF Numbers
<1>3. PICK N \in Nat : N = Len(text) /\ t + n <= N /\ y <= t + n
  BY <1>1 DEF Numbers, StreamType
<1>4. /\ text[x] = "k" /\ \A i \in x + 1..y : text[i] = "x"
      /\ x - 1 \in 1..N => text[x - 1] \notin {"k", "x"}
      /\ y + 1 \in 1..N => text[y + 1] \notin {"k", "x"}
  BY <1>1, <1>3, ValueIs DEF Numbers
<1>5. /\ v \in Seq(Nat) /\ Len(v) = c + n /\ DOMAIN v = 1..(c + n)
      /\ Ordered(v) /\ \A i \in 1..(c + n) : v[i] \in Nat /\ v[i] <= t + n
  <2>1. v \in Seq(Nat) /\ Len(v) = c + n /\ DOMAIN v = 1..(c + n) /\ Ordered(v)
    BY <1>1 DEF Numbers, Joined
  <2>2. \A i \in DOMAIN v : v[i] <= t + n
    BY <1>1 DEF Numbers, Joined, UpTo
  <2>3. \A i \in DOMAIN v : v[i] \in Nat
    BY <2>1
  <2> QED BY <2>1, <2>2, <2>3
<1>6. ASSUME NEW p \in x..y PROVE c + (p - t) \in 1..(c + n) /\ v[c + (p - t)] = p /\ p > 0
  <2>1. p <= t + n
    BY <1>3
  <2>2. Place(p) \in DOMAIN v /\ v[Place(p)] = p /\ p > 0
    BY <1>1, <2>1, PlaceIs DEF Numbers
  <2>3. Place(p) = c + (p - t)
    BY <1>1 DEF Numbers, Place
  <2> QED BY <1>5, <2>2, <2>3
<1>7. PICK a \in Int, b \in Int : a = c + (x - t) /\ b = c + (y - t)
  OBVIOUS
<1>8. /\ a \in 1..(c + n) /\ b \in 1..(c + n) /\ v[a] = x /\ v[b] = y
  BY <1>2, <1>6, <1>7
<1>9. b - a = MinBody
  BY <1>2, <1>7
<1>10. Stream!Symbol(v, a) = "k"
  BY <1>4, <1>8 DEF Stream!Symbol
<1>11. ASSUME NEW i \in a + 1..b PROVE Stream!Symbol(v, i) = "x"
  <2>1. PICK p \in Int : p = i - c + t
    OBVIOUS
  <2>2. p \in x + 1..y /\ p \in x..y /\ c + (p - t) = i
    BY <1>7, <2>1
  <2>3. v[i] = p /\ p > 0
    BY <1>6, <2>2
  <2> QED BY <1>4, <2>2, <2>3 DEF Stream!Symbol
<1>12. ~Stream!Word(v, a - 1)
  <2> SUFFICES ASSUME a - 1 \in 1..(c + n), Stream!Symbol(v, a - 1) \in {"k", "x"} PROVE FALSE
    BY <1>5 DEF Stream!Word
  <2>1. v[a - 1] > 0 /\ text[v[a - 1]] \in {"k", "x"}
    BY DEF Stream!Symbol
  <2>2. PICK d \in Int : d = a - 1 /\ d + 1 = a /\ d \in 1..(c + n)
    OBVIOUS
  <2>3. v[d + 1] = v[d] + 1
    <3>1. v[d + 1] > 0 /\ v[d] > 0
      BY <1>8, <2>1, <2>2
    <3>2. d \in DOMAIN v /\ d + 1 \in DOMAIN v
      BY <1>5, <1>8, <2>2
    <3> QED BY <1>5, <3>1, <3>2 DEF Ordered
  <2>4. PICK e \in Nat : e = v[d]
    BY <1>5, <2>2
  <2>5. e > 0 /\ x = e + 1
    BY <1>8, <2>1, <2>2, <2>3, <2>4
  <2>6. e = x - 1 /\ x - 1 \in 1..N
    BY <1>2, <1>3, <2>5
  <2> QED BY <1>4, <2>1, <2>2, <2>4, <2>6
<1>13. ~Stream!Word(v, b + 1)
  <2> SUFFICES ASSUME b + 1 \in 1..(c + n), Stream!Symbol(v, b + 1) \in {"k", "x"} PROVE FALSE
    BY <1>5 DEF Stream!Word
  <2>1. v[b + 1] > 0 /\ text[v[b + 1]] \in {"k", "x"}
    BY DEF Stream!Symbol
  <2>2. v[b + 1] = y + 1
    <3>1. y > 0
      BY <1>2
    <3> QED BY <1>5, <1>8, <2>1, <3>1 DEF Ordered
  <2>3. y + 1 <= t + n
    BY <1>5, <2>2
  <2>4. y + 1 \in 1..N
    BY <1>3, <2>3
  <2> QED BY <1>4, <2>1, <2>2, <2>4
<1>14. a \in 1..Len(v) /\ b \in 1..Len(v) /\ b - a \in MinBody..MaxBody
  BY <1>2, <1>5, <1>8, <1>9
<1>15. <<a, b>> \in (1..Len(v)) \X (1..Len(v)) /\ <<a, b>>[1] = a /\ <<a, b>>[2] = b
  BY <1>14
<1>16. <<a, b>> \in Stream!Matches(v)
  BY <1>10, <1>11, <1>12, <1>13, <1>14, <1>15 DEF Stream!Matches
<1>17. a = Place(m[1]) /\ b = Place(m[2])
  BY <1>1, <1>7 DEF Numbers, Place
<1> QED BY <1>16, <1>17

LEMMA MatchBounds ==
    ASSUME NEW v \in Seq(Nat), NEW w \in Stream!Matches(v)
    PROVE  \E f \in 1..Len(v), l \in 1..Len(v) :
             /\ f = w[1] /\ l = w[2] /\ l - f \in MinBody..MaxBody /\ f < l
             /\ Stream!Symbol(v, f) = "k" /\ \A j \in f + 1..l : Stream!Symbol(v, j) = "x"
<1>1. w[1] \in 1..Len(v) /\ w[2] \in 1..Len(v)
  BY MatchIsIn
<1>2. PICK f \in 1..Len(v), l \in 1..Len(v) : f = w[1] /\ l = w[2]
  BY <1>1
<1>3. f < l
  BY <1>2, MatchIsIn
<1>4. /\ l - f \in MinBody..MaxBody
      /\ Stream!Symbol(v, f) = "k" /\ \A j \in f + 1..l : Stream!Symbol(v, j) = "x"
  BY <1>2 DEF Stream!Matches
<1> QED BY <1>2, <1>3, <1>4

\* The first part of a value whose end is still to come is no match's.
LEMMA PartIsUncovered ==
    ASSUME FixedLength, StreamType, NEW m \in Values, Held(m), taken < m[2],
           NEW n \in Nat, m[1] <= taken + n, taken + n < m[2], NEW v, Joined(n, v),
           NEW i \in Place(m[1])..Len(v)
    PROVE  ~Covered(v, i)
<1>1. PICK c \in Nat, t \in Nat, x \in Nat \ {0}, y \in Nat : Numbers(m, c, t, x, y)
  BY NumbersAre
<1>2. MinBody \in Nat \ {0} /\ MaxBody = MinBody /\ y = x + MinBody /\ x <= t + n /\ t + n < y
  BY <1>1, NumbersAre, ValueIs DEF Numbers
<1>4. text[x] = "k" /\ \A j \in x + 1..y : text[j] = "x"
  BY <1>1, ValueIs DEF Numbers
<1>5. v \in Seq(Nat) /\ Len(v) = c + n
  BY <1>1 DEF Numbers, Joined
<1>6. ASSUME NEW p \in x..y, p <= t + n PROVE c + (p - t) \in 1..(c + n) /\ v[c + (p - t)] = p /\ p > 0
  <2>2. Place(p) \in DOMAIN v /\ v[Place(p)] = p /\ p > 0
    BY <1>1, <1>6, PlaceIs DEF Numbers
  <2>3. Place(p) = c + (p - t)
    BY <1>1 DEF Numbers, Place
  <2> QED BY <1>5, <2>2, <2>3
<1>7. PICK a \in Int : a = c + (x - t)
  OBVIOUS
<1>8. a \in 1..(c + n) /\ v[a] = x
  BY <1>2, <1>6, <1>7
<1>9. Stream!Symbol(v, a) = "k"
  BY <1>4, <1>8 DEF Stream!Symbol
<1>10. ASSUME NEW j \in a + 1..(c + n) PROVE Stream!Symbol(v, j) = "x"
  <2>1. PICK p \in Int : p = j - c + t
    OBVIOUS
  <2>2. p \in x + 1..y /\ p \in x..y /\ p <= t + n /\ c + (p - t) = j
    BY <1>2, <1>7, <2>1
  <2>3. v[j] = p /\ p > 0
    BY <1>6, <2>2
  <2> QED BY <1>4, <2>2, <2>3 DEF Stream!Symbol
<1>11. a + MinBody > c + n
  BY <1>2, <1>7
<1>12. i \in Int /\ i >= a
  BY <1>1, <1>5, <1>7 DEF Numbers, Place
<1>13. ASSUME NEW w \in Stream!Matches(v), i \in w[1]..w[2] PROVE FALSE
  <2>1. PICK f \in 1..(c + n), l \in 1..(c + n) :
             /\ f = w[1] /\ l = w[2] /\ l - f \in MinBody..MaxBody /\ f < l
             /\ Stream!Symbol(v, f) = "k" /\ \A j \in f + 1..l : Stream!Symbol(v, j) = "x"
    BY <1>5, MatchBounds
  <2>2. l = f + MinBody /\ i \in f..l
    BY <1>2, <1>13, <2>1
  <2>3. CASE f > a
    <3>1. f \in a + 1..(c + n)
      BY <2>3
    <3> QED BY <1>10, <2>1, <3>1
  <2>4. CASE f = a
    BY <1>11, <2>2, <2>4
  <2>5. CASE f < a
    <3>1. a \in f + 1..l
      BY <1>12, <2>2, <2>5
    <3> QED BY <1>9, <2>1, <3>1
  <2> QED BY <2>3, <2>4, <2>5
<1>14. ~Begins(v, i)
  <2> SUFFICES ASSUME NEW w \in Stream!Matches(v), w[1] = i PROVE FALSE
    BY DEF Begins
  <2>1. PICK f \in 1..Len(v), l \in 1..Len(v) : f = w[1] /\ l = w[2] /\ f < l
    BY <1>5, MatchBounds
  <2>2. i \in f..l
    BY <1>5, <2>1
  <2> QED BY <1>13, <2>1, <2>2
<1>15. ~Inside(v, i)
  <2> SUFFICES ASSUME NEW w \in Stream!Matches(v), i \in w[1] + 1..w[2] PROVE FALSE
    BY DEF Inside
  <2>1. PICK f \in 1..Len(v), l \in 1..Len(v) : f = w[1] /\ l = w[2] /\ f < l
    BY <1>5, MatchBounds
  <2>2. i \in f..l
    BY <1>5, <2>1
  <2> QED BY <1>13, <2>1, <2>2
<1> QED BY <1>14, <1>15 DEF Covered

LEMMA TurnIs ==
    ASSUME StreamType, Lists, NEW n, NEW k, NEW r, Turn(n, k, r)
    PROVE  \E v : Joined(n, v) /\ Redacted(v, r, Len(v))
<1>1. PICK v : v = carry \o Stream!Chunk(n)
  OBVIOUS
<1>2. Joined(n, v)
  BY <1>1, ReadIs DEF Turn
<1>3. Redacted(v, r, Len(v))
  BY <1>1, <1>2, RedactIs DEF Turn, Joined
<1> QED BY <1>2, <1>3

\* Nothing is left of a value whose end has been read.
LEMMA ValueIsGone ==
    ASSUME FixedLength, StreamType, Lists, NEW m \in Values, Held(m), NEW n, NEW k, NEW r, Turn(n, k, r),
           m[2] <= taken + n, NEW j \in DOMAIN r, r[j] \in m[1]..m[2]
    PROVE  FALSE
<1>1. PICK v : Joined(n, v) /\ Redacted(v, r, Len(v))
  BY TurnIs
<1>2. PICK c \in Nat, t \in Nat, x \in Nat \ {0}, y \in Nat : Numbers(m, c, t, x, y)
  BY NumbersAre
<1>3. n \in Nat /\ taken + n <= Len(text)
  BY DEF Turn
<1>4. PICK q \in x..y : q = r[j] /\ q > 0
  BY <1>2 DEF Numbers
<1>5. PICK i \in 1..Len(v) : ~Covered(v, i) /\ q = v[i]
  <2>1. r[j] = 0 \/ \E i \in 1..Len(v) : ~Covered(v, i) /\ r[j] = v[i]
    BY <1>1 DEF Redacted
  <2> QED BY <1>4, <2>1
<1>6. /\ Len(v) = c + n /\ DOMAIN v = 1..(c + n) /\ v \in Seq(Nat)
      /\ \A d \in 1..c : v[d] = carry[d]
      /\ \A d \in 1..n : v[c + d] = t + d
  BY <1>1, <1>2 DEF Joined, Numbers
<1>7. CASE y <= t
  <2>1. i \in 1..c
    <3> SUFFICES ASSUME i \notin 1..c PROVE FALSE
      OBVIOUS
    <3>1. PICK d \in 1..n : i = c + d
      <4>1. i - c \in 1..n /\ i = c + (i - c)
        BY <1>3, <1>5, <1>6
      <4> QED BY <4>1
    <3>2. q = t + d
      BY <1>5, <1>6, <3>1
    <3> QED BY <1>3, <1>4, <1>7, <3>2
  <2>2. carry[i] = q /\ i \in DOMAIN carry
    <3>1. i \in 1..Len(carry)
      BY <1>2, <2>1 DEF Numbers
    <3> QED
      <4>1. v[i] = carry[i]
        BY <1>6, <2>1
      <4>2. i \in DOMAIN carry
        BY <3>1 DEF StreamType
      <4> QED BY <1>5, <4>1, <4>2
  <2> QED BY <1>2, <1>7, <1>4, <2>2 DEF Held, Numbers
<1>8. CASE t < y
  <2>1. taken < m[2] /\ q \in m[1]..m[2] /\ q <= taken + n
    BY <1>2, <1>3, <1>4, <1>8 DEF Numbers
  <2>2. Place(q) \in DOMAIN v /\ v[Place(q)] = q
    BY <1>1, <1>3, <2>1, PlaceIs
  <2>3. Place(q) = i
    <3>1. Ordered(v)
      BY <1>1 DEF Joined
    <3>2. PICK e \in 1..(c + n) : e = Place(q)
      BY <1>6, <2>2
    <3>3. v[e] = q /\ v[i] = q /\ i \in 1..(c + n)
      BY <1>5, <1>6, <2>2, <3>2
    <3>4. ~(e < i) /\ ~(i < e)
      <4>1. e \in DOMAIN v /\ i \in DOMAIN v /\ v[e] > 0 /\ v[i] > 0 /\ ~(v[e] < v[i]) /\ ~(v[i] < v[e])
        BY <1>4, <1>6, <3>3
      <4> QED BY <3>1, <4>1 DEF Ordered
    <3> QED BY <3>2, <3>3, <3>4
  <2>4. <<Place(m[1]), Place(m[2])>> \in Stream!Matches(v)
    BY <1>1, <1>3, <2>1, ValueIsMatched
  <2>5. Place(m[1]) = c + (x - t) /\ Place(m[2]) = c + (y - t) /\ Place(q) = c + (q - t)
    BY <1>2 DEF Numbers, Place
  <2>6. PICK w \in Stream!Matches(v) : w[1] = c + (x - t) /\ w[2] = c + (y - t)
    <3>1. PICK a, b : a = Place(m[1]) /\ b = Place(m[2])
      OBVIOUS
    <3>2. <<a, b>>[1] = a /\ <<a, b>>[2] = b /\ <<a, b>> \in Stream!Matches(v)
      BY <2>4, <3>1
    <3> QED BY <2>5, <3>1, <3>2
  <2>7. i = c + (q - t)
    BY <2>3, <2>5
  <2>8. CASE q = x
    BY <1>5, <2>6, <2>7, <2>8 DEF Covered, Begins
  <2>9. CASE q # x
    <3>1. i \in w[1] + 1..w[2]
      BY <1>4, <2>6, <2>7, <2>9
    <3> QED BY <1>5, <3>1 DEF Covered, Inside
  <2> QED BY <2>8, <2>9
<1> QED BY <1>7, <1>8

\* The first part of a value whose end is still to come ends what was redacted.
Ends(m, r, u) == \A t \in Nat, x \in Nat, l \in Nat :
                    t = u /\ x = m[1] /\ l = Len(r) =>
                      l >= t - x + 1 /\ \A p \in x..t : r[l - (t - p)] = p
LEMMA PartEnds ==
    ASSUME FixedLength, StreamType, Lists, NEW m \in Values, Held(m), NEW n, NEW k, NEW r, Turn(n, k, r),
           m[1] <= taken + n, taken + n < m[2]
    PROVE  Ends(m, r, taken + n)
<1>1. PICK v : Joined(n, v) /\ Redacted(v, r, Len(v))
  BY TurnIs
<1>2. PICK c \in Nat, t \in Nat, x \in Nat \ {0}, y \in Nat : Numbers(m, c, t, x, y)
  BY NumbersAre
<1>3. n \in Nat /\ x <= t + n /\ t + n < y
  BY <1>2 DEF Turn, Numbers
<1>4. r \in Seq(Nat) /\ Len(r) \in Nat
  BY <1>1 DEF Redacted
<1>5. PICK l \in Nat : l = Len(r)
  BY <1>4
<1>6. PICK u \in Nat : u = t + n
  BY <1>3
<1>7. Len(v) = c + n /\ DOMAIN v = 1..(c + n)
  BY <1>1, <1>2 DEF Joined, Numbers
<1>8. ASSUME NEW p \in x..u
      PROVE  c + (p - t) \in 1..(c + n) /\ v[c + (p - t)] = p
  <2>1. p \in x..y /\ p <= t + n /\ t < y
    BY <1>3, <1>6
  <2>2. taken < m[2] /\ p \in m[1]..m[2] /\ p <= taken + n
    BY <1>2, <2>1 DEF Numbers
  <2>3. Place(p) \in DOMAIN v /\ v[Place(p)] = p
    BY <1>1, <1>3, <2>2, PlaceIs
  <2>4. Place(p) = c + (p - t)
    BY <1>2 DEF Numbers, Place
  <2> QED BY <1>7, <2>3, <2>4
<1>9. PICK a \in Int : a = c + (x - t)
  OBVIOUS
<1>10. a \in 1..(c + n)
  BY <1>3, <1>6, <1>8, <1>9
<1>11. \A i \in a..(c + n) : ~Covered(v, i)
  <2> SUFFICES ASSUME NEW i \in a..(c + n) PROVE ~Covered(v, i)
    OBVIOUS
  <2>1. a = Place(m[1])
    BY <1>2, <1>9 DEF Numbers, Place
  <2>2. i \in Place(m[1])..Len(v)
    BY <1>7, <2>1
  <2>3. taken < m[2]
    BY <1>2, <1>3 DEF Numbers
  <2> QED BY <1>1, <1>3, <2>2, <2>3, PartIsUncovered
<1>12. l >= (c + n) - a + 1 /\ \A i \in a..(c + n) : r[l - ((c + n) - i)] = v[i]
  BY <1>1, <1>5, <1>7, <1>10, <1>11 DEF Redacted
<1>13. l >= u - x + 1
  BY <1>3, <1>6, <1>9, <1>12
<1>14. ASSUME NEW p \in x..u PROVE r[l - (u - p)] = p
  <2>1. PICK i \in a..(c + n) : i = c + (p - t)
    BY <1>3, <1>6, <1>8, <1>9
  <2>2. l - ((c + n) - i) = l - (u - p)
    BY <1>3, <1>6, <2>1
  <2> QED BY <1>8, <1>12, <2>1, <2>2
<1>15. taken + n = u /\ m[1] = x
  BY <1>2, <1>6 DEF Numbers
<1> QED BY <1>5, <1>13, <1>14, <1>15 DEF Ends

\* And it stays in the carry.
LEMMA PartIsHeld ==
    ASSUME FixedLength, StreamType, Lists, NEW m \in Values, Held(m), NEW n, NEW k, NEW r, Turn(n, k, r),
           m[1] <= taken + n, taken + n < m[2], k = Stream!SafeFlushLength(r)
    PROVE  Held(m)' /\ \A a \in DOMAIN pending' : pending'[a] \notin m[1]..m[2]
<1>1. PICK c \in Nat, s \in Nat, x \in Nat \ {0}, y \in Nat : Numbers(m, c, s, x, y)
  BY NumbersAre
<1>2. /\ MinBody \in Nat \ {0} /\ CarryBytes \in Nat /\ MinBody <= CarryBytes /\ y = x + MinBody
  BY <1>1, NumbersAre, ValueIs, PartsAssumption
     DEF Numbers, PartsAssumption, Stream!SizesAssumption, FixedLength
<1>3. PICK t \in Nat : t = taken + n /\ taken' = t /\ x <= t /\ t < y
  BY <1>1 DEF Turn, Numbers
<1>4. r \in Seq(Nat) /\ Ordered(r)
  BY TurnIs DEF Redacted
<1>5. PICK l \in Nat : l = Len(r)
  BY <1>4
<1>6. l >= t - x + 1 /\ \A p \in x..t : r[l - (t - p)] = p
  <2>1. m[1] = x /\ m[1] <= taken + n /\ taken + n < m[2]
    BY <1>1 DEF Numbers
  <2>2. Ends(m, r, t)
    BY <1>3, <2>1, PartEnds
  <2> QED BY <1>5, <2>1, <2>2 DEF Ends
<1>7. k \in 0..l /\ (k = 0 \/ Stream!Symbol(r, k) = "n" \/ k <= l - CarryBytes)
  BY <1>4, <1>5, FlushIs
<1>8. k <= l - (t - x + 1)
  <2> SUFFICES ASSUME k > l - (t - x + 1) PROVE FALSE
    BY <1>7
  <2>1. Stream!Symbol(r, k) = "n"
    BY <1>2, <1>3, <1>6, <1>7
  <2>2. PICK p \in Int : p = t - (l - k)
    BY <1>7
  <2>3. p \in x..t /\ l - (t - p) = k
    <3>1. k \in Int /\ k <= l
      BY <1>7
    <3> QED BY <2>2, <3>1
  <2>4. r[k] = p /\ p > 0
    BY <1>6, <2>3
  <2>5. text[p] = "n"
    BY <2>1, <2>4 DEF Stream!Symbol
  <2>6. text[x] = "k" /\ \A i \in x + 1..y : text[i] = "x"
    BY <1>1, ValueIs DEF Numbers
  <2>7. p = x \/ p \in x + 1..y
    BY <1>3, <2>3
  <2> QED BY <2>5, <2>6, <2>7
<1>9. First(Nat, r, k, pending') /\ Rest(Nat, r, k, carry')
  BY <1>4, SplitIs DEF Turn
<1>10. /\ Len(carry') = l - k
       /\ \A i \in 1..(l - k) : carry'[i] = r[k + i]
  BY <1>5, <1>9 DEF Rest
<1>11. DOMAIN pending' = 1..k /\ \A i \in 1..k : pending'[i] = r[i]
  BY <1>9 DEF First
<1>12. ASSUME NEW p \in x..t PROVE carry'[(l - k) - (t - p)] = p
  <2>1. PICK i \in 1..(l - k) : i = (l - k) - (t - p)
    BY <1>7, <1>8
  <2>2. k + i = l - (t - p)
    BY <1>7, <2>1
  <2> QED BY <1>6, <1>10, <2>1, <2>2
<1>13. Held(m)'
  <2>1. m[1] = x /\ m[2] = y
    BY <1>1 DEF Numbers
  <2>2. ~(m[2] <= taken')
    BY <1>3, <2>1
  <2>3. Len(carry') >= t - x + 1
    BY <1>7, <1>8, <1>10
  <2>4. \A p \in x..t : carry'[Len(carry') - (t - p)] = p
    BY <1>10, <1>12
  <2> QED BY <1>3, <2>1, <2>2, <2>3, <2>4 DEF Held
<1>14. ASSUME NEW a \in DOMAIN pending', pending'[a] \in m[1]..m[2] PROVE FALSE
  <2>1. a \in 1..k /\ a \in 1..l /\ r[a] \in x..y /\ r[a] = pending'[a]
    BY <1>1, <1>7, <1>11, <1>14 DEF Numbers
  <2>2. PICK p \in Nat : p = r[a] /\ p > 0
    BY <2>1
  <2>3. p \in x..t
    <3>1. UpTo(pending', taken')
      BY TurnKeepsLists DEF Lists
    <3>2. p <= t
      BY <1>3, <2>1, <2>2, <3>1 DEF UpTo
    <3> QED BY <2>1, <2>2, <3>2
  <2>4. PICK b \in 1..l : b = l - (t - p)
    BY <1>6, <2>3
  <2>5. r[b] = p /\ a < b
    BY <1>6, <1>7, <1>8, <2>1, <2>3, <2>4
  <2>6. a \in DOMAIN r /\ b \in DOMAIN r
    BY <1>4, <1>5, <2>1
  <2>7. r[a] < r[b]
    BY <1>4, <2>2, <2>5, <2>6 DEF Ordered
  <2> QED BY <2>2, <2>5, <2>7
<1> QED BY <1>13, <1>14

LEMMA TurnHides ==
    ASSUME FixedLength, StreamType, Lists, HidingInv, NEW n, NEW k, NEW r, Turn(n, k, r),
           k = Stream!SafeFlushLength(r) \/ taken + n = Len(text)
    PROVE  HidingInv'
<1>1. Values' = Values /\ out' = out /\ taken' = taken + n
  BY DEF Turn, Values, Stream!Matches, Stream!Word, Stream!Symbol
<1>2. r \in Seq(Nat)
  BY TurnIs DEF Redacted
<1>3. k \in 0..Len(r) /\ Len(r) \in Nat /\ DOMAIN r = 1..Len(r)
  BY <1>2 DEF Turn
<1>4. First(Nat, r, k, pending') /\ Rest(Nat, r, k, carry')
  BY <1>2, SplitIs DEF Turn
<1>5. /\ \A a \in DOMAIN pending' : a \in DOMAIN r /\ pending'[a] = r[a] /\ pending'[a] \in Nat
      /\ \A a \in DOMAIN carry' : k + a \in DOMAIN r /\ carry'[a] = r[k + a]
  <2>1. ASSUME NEW a \in 1..k PROVE a \in DOMAIN r
    BY <1>3
  <2>2. ASSUME NEW a \in 1..(Len(r) - k) PROVE k + a \in DOMAIN r
    BY <1>3
  <2>3. \A a \in DOMAIN pending' : a \in DOMAIN r /\ pending'[a] = r[a] /\ pending'[a] \in Nat
    BY <1>2, <1>4, <2>1 DEF First
  <2> QED BY <1>4, <2>2, <2>3 DEF Rest
<1>6. UpTo(pending', taken')
  BY TurnKeepsLists DEF Lists
<1>7. ASSUME NEW m \in Values
      PROVE  Held(m)' /\ \A a \in DOMAIN pending' : pending'[a] \notin m[1]..m[2]
  <2>1. Held(m)
    BY DEF HidingInv
  <2>2. PICK c \in Nat, s \in Nat, x \in Nat \ {0}, y \in Nat : Numbers(m, c, s, x, y)
    BY NumbersAre
  <2>3. x < y /\ y <= Len(text) /\ Len(text) \in Nat
    <3>1. MinBody \in Nat \ {0} /\ y = x + MinBody
      BY <2>2, NumbersAre, ValueIs DEF Numbers
    <3>2. m[2] \in 1..Len(text)
      BY ValueIs
    <3> QED BY <2>2, <3>1, <3>2 DEF Numbers, StreamType
  <2>4. PICK t \in Nat : t = taken + n /\ taken' = t
    BY <1>1, <2>2 DEF Turn, Numbers
  <2>5. m[1] = x /\ m[2] = y
    BY <2>2 DEF Numbers
  <2>6. CASE y <= t
    <3>1. ASSUME NEW j \in DOMAIN r PROVE r[j] \notin m[1]..m[2]
      BY <2>1, <2>4, <2>5, <2>6, ValueIsGone
    <3>2. ~(m[1] <= taken' /\ taken' < m[2])
      BY <2>4, <2>5, <2>6
    <3>3. \A a \in DOMAIN carry' : carry'[a] \notin m[1]..m[2]
      BY <1>5, <3>1
    <3> QED BY <1>5, <3>1, <3>2, <3>3 DEF Held
  <2>7. CASE x <= t /\ t < y
    <3>1. k = Stream!SafeFlushLength(r)
      BY <2>3, <2>4, <2>7
    <3> QED BY <2>1, <2>4, <2>5, <2>7, <3>1, PartIsHeld
  <2>8. CASE t < x
    <3>1. ~(m[2] <= taken') /\ ~(m[1] <= taken')
      BY <2>3, <2>4, <2>5, <2>8
    <3>2. \A a \in DOMAIN pending' : pending'[a] \in Nat /\ pending'[a] <= t
      BY <1>5, <1>6, <2>4 DEF UpTo
    <3>3. \A a \in DOMAIN pending' : pending'[a] \notin x..y
      BY <2>8, <3>2
    <3> QED BY <2>5, <3>1, <3>3 DEF Held
  <2> QED BY <2>6, <2>7, <2>8
<1>8. Without(pending') /\ Without(out)
  BY <1>7 DEF Without, HidingInv
<1>9. Without(pending)' /\ Without(out)'
  BY <1>1, <1>8 DEF Without
<1> QED BY <1>1, <1>7, <1>9 DEF HidingInv

LEMMA DrainHides == ASSUME StreamType, HidingInv, Stream!DrainPending PROVE HidingInv'
<1>1. UNCHANGED <<text, taken, carry>>
  BY DEF Stream!DrainPending
<1>2. Values' = Values
  BY <1>1 DEF Values, Stream!Matches, Stream!Word, Stream!Symbol
<1>3. PICK n \in 1..Len(pending) : Drained(n)
  BY DrainIs
<1>4. \A a \in DOMAIN out' : \/ a \in DOMAIN out /\ out'[a] = out[a]
                             \/ a - Len(out) \in DOMAIN pending /\ out'[a] = pending[a - Len(out)]
  BY <1>3, DrainMoves
<1>5. \A a \in DOMAIN pending' : a + n \in DOMAIN pending /\ pending'[a] = pending[a + n]
  BY <1>3, DrainMoves
<1>6. Without(out')
  BY <1>4 DEF HidingInv, Without
<1>7. Without(pending')
  BY <1>5 DEF HidingInv, Without
<1>8. Without(out)' /\ Without(pending)'
  BY <1>2, <1>6, <1>7 DEF Without
<1>9. \A m \in Values : Held(m)'
  BY <1>1 DEF HidingInv, Held
<1> QED BY <1>2, <1>8, <1>9 DEF HidingInv

LEMMA HidingInvHolds == ASSUME FixedLength PROVE Spec => []HidingInv
<1>1. Stream!Init /\ StreamInv => HidingInv
  <2> SUFFICES ASSUME Stream!Init, StreamInv PROVE HidingInv
    OBVIOUS
  <2>1. taken = 0 /\ carry = <<>> /\ pending = <<>> /\ out = <<>> /\ StreamType
    BY DEF Stream!Init, StreamInv
  <2>2. ASSUME NEW m \in Values PROVE Held(m)
    <3>1. PICK c \in Nat, t \in Nat, x \in Nat \ {0}, y \in Nat : Numbers(m, c, t, x, y)
      BY <2>1, NumbersAre
    <3>2. ~(m[1] <= taken)
      BY <2>1, <3>1 DEF Numbers
    <3> QED BY <2>1, <3>2 DEF Held
  <2> QED BY <2>1, <2>2 DEF HidingInv, Without
<1>2. StreamInv /\ HidingInv /\ [Stream!Next]_Stream!vars => HidingInv'
  <2> SUFFICES ASSUME StreamInv, HidingInv, [Stream!Next]_Stream!vars PROVE HidingInv'
    OBVIOUS
  <2>0. StreamType /\ Lists
    BY DEF StreamInv
  <2>1. ASSUME UNCHANGED <<text, taken, carry, out>>, Without(pending') PROVE HidingInv'
    <3>1. Values' = Values
      BY <2>1 DEF Values, Stream!Matches, Stream!Word, Stream!Symbol
    <3>2. Without(out)' /\ Without(pending)'
      BY <2>1, <3>1 DEF HidingInv, Without
    <3>3. \A m \in Values : Held(m)'
      BY <2>1 DEF HidingInv, Held
    <3> QED BY <3>1, <3>2, <3>3 DEF HidingInv
  <2>2. ASSUME UNCHANGED <<text, taken, carry, pending, out>> PROVE HidingInv'
    BY <2>1, <2>2 DEF HidingInv
  <2>3. CASE UNCHANGED Stream!vars
    BY <2>2, <2>3 DEF Stream!vars
  <2>4. CASE Stream!DrainPending
    BY <2>0, <2>4, DrainHides
  <2>5. CASE Stream!ReadChunk
    BY <2>0, <2>5, ReadChunkTurns, TurnHides
  <2>6. CASE Stream!ReadEnd
    <3>1. PICK r \in Seq(Nat) : Turn(0, Len(r), r)
      BY <2>0, <2>6, ReadEndTurns
    <3>2. taken + 0 = Len(text)
      BY <2>0, <2>6, ReadEndTurns DEF StreamType
    <3> QED BY <2>0, <3>1, <3>2, TurnHides
  <2>7. CASE Stream!ReadError
    <3>1. pending' = <<-1>> /\ UNCHANGED <<text, taken, carry, out>>
      BY <2>7 DEF Stream!ReadError, Stream!Placeholder
    <3>2. \A a \in DOMAIN pending' : pending'[a] = -1
      BY <3>1
    <3>3. ASSUME NEW m \in Values PROVE -1 \notin m[1]..m[2]
      <4>1. PICK c \in Nat, t \in Nat, x \in Nat \ {0}, y \in Nat : Numbers(m, c, t, x, y)
        BY <2>0, NumbersAre
      <4> QED BY <4>1 DEF Numbers
    <3> QED BY <2>1, <3>1, <3>2, <3>3 DEF Without
  <2>8. CASE Stream!SourceBreaks
    BY <2>2, <2>8 DEF Stream!SourceBreaks
  <2>9. CASE Stream!Close
    BY <2>2, <2>9 DEF Stream!Close
  <2> QED BY <2>3, <2>4, <2>5, <2>6, <2>7, <2>8, <2>9 DEF Stream!Next
<1>3. Spec => []HidingInv
  BY <1>1, <1>2, StreamMoves, StreamInvHolds, PTL DEF Stream!Spec
<1> QED BY <1>3

\* NothingLeaks: for values of one length that fits in the carry, no part of a value reaches
\* the client however the text is cut into chunks (redactor.go 145-174, 291-307).
THEOREM NothingLeaksHolds == ASSUME FixedLength PROVE Spec => []NothingLeaks
<1>1. HidingInv => NothingLeaks
  BY DEF HidingInv, Without, Values, NothingLeaks, Stream!NothingLeaks, Stream!Sensitive
<1> QED BY <1>1, HidingInvHolds, PTL

-----------------------------------------------------------------------------
(***************************************************************************)
(* The decision before a request is proxied, and the audit producer.       *)
(***************************************************************************)

\* A step of the sum is a step of the preflight, or of the producer, or leaves it alone.
LEMMA PreflightMoves == Spec => Preflight!Spec
<1>1. Init => Preflight!Init
  BY DEF Init
<1>2. [Next]_vars => [Preflight!Next]_Preflight!vars
  BY DEF Next, StreamStep, PreflightStep, ProducerStep, vars, preflightVars, Preflight!vars
<1> QED BY <1>1, <1>2, PTL DEF Spec, Preflight!Spec

LEMMA ProducerMoves == Spec => Producer!Spec
<1>1. Init => Producer!Init
  BY DEF Init
<1>2. [Next]_vars => [Producer!Next]_Producer!vars
  BY DEF Next, StreamStep, PreflightStep, ProducerStep, vars, producerVars, Producer!vars
<1> QED BY <1>1, <1>2, PTL DEF Spec, Producer!Spec

Judgements == Preflight!Decision \union {Preflight!NoDecision}
LEMMA DecisionsAre ==
    ASSUME Preflight!TypeOK, NEW r \in Requests
    PROVE  /\ Preflight!OpaDecision(r) \in Judgements
           /\ Preflight!LocalDecision(r) \in Judgements
           /\ Preflight!WithoutOpa(r) \in Judgements
           /\ Preflight!DefaultDecision \in Judgements
<1>1. verdict[r] \in Preflight!Verdicts
  BY DEF Preflight!TypeOK
<1>2. Preflight!OpaDecision(r) \in Preflight!Decision
  BY <1>1 DEF Preflight!OpaDecision, Preflight!Decision
<1>3. Preflight!LocalDecision(r) \in Preflight!Decision
  BY <1>1 DEF Preflight!LocalDecision, Preflight!Decision
<1>4. Preflight!FailClosed \in Preflight!Decision /\ Preflight!DefaultDecision \in Preflight!Decision
  BY DEF Preflight!FailClosed, Preflight!DefaultDecision, Preflight!Decision, Preflight!Verdicts
<1> QED BY <1>2, <1>3, <1>4 DEF Judgements, Preflight!WithoutOpa

LEMMA PreflightTyped == Spec => []Preflight!TypeOK
<1>0. MaxTime \in Nat /\ BreakTime \in Nat /\ Preflight!NoDecision \in Judgements
  BY PartsAssumption DEF PartsAssumption, Preflight!ConfigAssumption, Judgements
<1>1. Preflight!Init => Preflight!TypeOK
  BY <1>0 DEF Preflight!Init, Preflight!TypeOK, Judgements
<1>2. Preflight!TypeOK /\ [Preflight!Next]_Preflight!vars => Preflight!TypeOK'
  <2> SUFFICES ASSUME Preflight!TypeOK, [Preflight!Next]_Preflight!vars PROVE Preflight!TypeOK'
    OBVIOUS
  <2>1. CASE UNCHANGED Preflight!vars
    BY <2>1 DEF Preflight!TypeOK, Preflight!vars
  <2>2. ASSUME NEW r \in Requests, Preflight!GoAsksOpa(r) PROVE Preflight!TypeOK'
    BY <2>2, DecisionsAre DEF Preflight!TypeOK, Preflight!GoAsksOpa, Preflight!Passed, Judgements
  <2>3. ASSUME NEW r \in Requests, Preflight!GoSkipsOpa(r) PROVE Preflight!TypeOK'
    BY <2>3 DEF Preflight!TypeOK, Preflight!GoSkipsOpa, Preflight!Passed
  <2>4. ASSUME NEW r \in Requests, Preflight!GoAsksBackend(r) PROVE Preflight!TypeOK'
    BY <2>4 DEF Preflight!TypeOK, Preflight!GoAsksBackend
  <2>5. ASSUME NEW r \in Requests, Preflight!GoHears(r) PROVE Preflight!TypeOK'
    BY <2>5 DEF Preflight!TypeOK, Preflight!GoHears, Preflight!Passed
  <2>6. ASSUME NEW r \in Requests, Preflight!GoTimesOut(r) PROVE Preflight!TypeOK'
    BY <2>6 DEF Preflight!TypeOK, Preflight!GoTimesOut, Preflight!Passed
  <2>7. ASSUME NEW r \in Requests, Preflight!GoProxies(r) PROVE Preflight!TypeOK'
    BY <2>7 DEF Preflight!TypeOK, Preflight!GoProxies, Preflight!Passed
  <2>8. ASSUME NEW r \in Requests, Preflight!BackendStarts(r) PROVE Preflight!TypeOK'
    BY <2>8, DecisionsAre DEF Preflight!TypeOK, Preflight!BackendStarts, Preflight!Judge, Judgements
  <2>9. ASSUME NEW r \in Requests, Preflight!BackendAsksOpa(r) PROVE Preflight!TypeOK'
    <3>1. PICK d \in Judgements : Preflight!Judge(r, d)
      BY <2>9, DecisionsAre DEF Preflight!BackendAsksOpa
    <3>2. brokenUntil' = brokenUntil \/ brokenUntil' = now + BreakTime
      BY <2>9 DEF Preflight!BackendAsksOpa
    <3>3. brokenUntil' \in 0..MaxTime + BreakTime
      BY <1>0, <3>2 DEF Preflight!TypeOK
    <3>4. UNCHANGED <<deployment, verdict, clashing, opa, now, gate, answer, recorded>>
      BY <2>9 DEF Preflight!BackendAsksOpa
    <3> QED BY <3>1, <3>3, <3>4 DEF Preflight!TypeOK, Preflight!Judge, Judgements
  <2>10. ASSUME NEW r \in Requests, Preflight!BackendRecords(r) PROVE Preflight!TypeOK'
    BY <2>10 DEF Preflight!TypeOK, Preflight!BackendRecords
  <2>11. ASSUME NEW r \in Requests, Preflight!BackendFails(r) PROVE Preflight!TypeOK'
    BY <2>11 DEF Preflight!TypeOK, Preflight!BackendFails
  <2>12. CASE Preflight!OpaChanges
    BY <2>12 DEF Preflight!TypeOK, Preflight!OpaChanges
  <2>13. CASE Preflight!Tick
    BY <1>0, <2>13 DEF Preflight!TypeOK, Preflight!Tick
  <2> QED BY <2>1, <2>2, <2>3, <2>4, <2>5, <2>6, <2>7, <2>8, <2>9, <2>10, <2>11, <2>12, <2>13
          DEF Preflight!Next, Preflight!Handle
<1> QED BY <1>1, <1>2, PreflightMoves, PTL DEF Preflight!Spec

LEMMA ElementsAre == ASSUME NEW S, NEW q \in Seq(S) PROVE \A i \in DOMAIN q : q[i] \in S
OBVIOUS

LEMMA ProducerTyped == Spec => []Producer!TypeOK
<1>0. Events \in Nat /\ Capacity \in Nat \ {0} /\ MaxAttempts \in Nat \ {0}
  BY PartsAssumption DEF PartsAssumption, Producer!SizesAssumption
<1>1. Producer!Init => Producer!TypeOK
  BY <1>0 DEF Producer!Init, Producer!TypeOK
<1>2. Producer!TypeOK /\ [Producer!Next]_Producer!vars => Producer!TypeOK'
  <2> SUFFICES ASSUME Producer!TypeOK, [Producer!Next]_Producer!vars PROVE Producer!TypeOK'
    OBVIOUS
  <2>1. CASE UNCHANGED Producer!vars
    BY <2>1 DEF Producer!TypeOK, Producer!vars
  <2>2. ASSUME NEW e \in 1..Events, Producer!Publish(e) PROVE Producer!TypeOK'
    <3>1. queue \in Seq(1..Events) /\ Len(queue) \in Nat /\ Len(queue) <= Capacity
      BY DEF Producer!TypeOK
    <3>2. Append(queue, e) \in Seq(1..Events) /\ Len(Append(queue, e)) = Len(queue) + 1
      BY <3>1
    <3>3. queue' \in Seq(1..Events) /\ Len(queue') <= Capacity
      <4>1. CASE Len(queue) < Capacity
        <5>1. queue' = Append(queue, e)
          BY <2>2, <4>1 DEF Producer!Publish
        <5> QED BY <1>0, <3>1, <3>2, <4>1, <5>1
      <4>2. CASE ~(Len(queue) < Capacity)
        BY <2>2, <3>1, <4>2 DEF Producer!Publish
      <4> QED BY <4>1, <4>2
    <3> QED BY <2>2, <3>3 DEF Producer!TypeOK, Producer!Publish
  <2>3. CASE Producer!Take
    BY <1>0, <2>3 DEF Producer!TypeOK, Producer!Take
  <2>a. ASSUME hand # Producer!Idle
        PROVE  /\ hand \in [event : 1..Events, to : {"topic", "dlq"}, attempt : 1..MaxAttempts]
               /\ hand.event \in 1..Events
    BY <2>a DEF Producer!TypeOK
  <2>b. ASSUME hand # Producer!Idle, Producer!Record
        PROVE  topic' \in Seq(1..Events) /\ dlq' \in Seq(1..Events)
    <3>1. PICK e \in 1..Events : e = hand.event
      BY <2>a, <2>b
    <3>2. topic \in Seq(1..Events) /\ dlq \in Seq(1..Events)
      BY DEF Producer!TypeOK
    <3>3. Append(topic, e) \in Seq(1..Events) /\ Append(dlq, e) \in Seq(1..Events)
      BY <3>2
    <3> QED BY <2>b, <3>1, <3>2, <3>3 DEF Producer!Record
  <2>4. CASE Producer!Delivered
    BY <2>b, <2>4 DEF Producer!TypeOK, Producer!Delivered
  <2>5. CASE Producer!Fails
    <3>1. hand # Producer!Idle /\ UNCHANGED <<published, queue>> /\ Producer!NextTry
      BY <2>5 DEF Producer!Fails
    <3>2. topic' \in Seq(1..Events) /\ dlq' \in Seq(1..Events)
      BY <2>b, <2>5 DEF Producer!TypeOK, Producer!Fails
    <3>3. hand' \in {Producer!Idle} \union [event : 1..Events, to : {"topic", "dlq"}, attempt : 1..MaxAttempts]
      <4>1. PICK e \in 1..Events, t \in {"topic", "dlq"}, a \in 1..MaxAttempts :
               hand = [event |-> e, to |-> t, attempt |-> a]
        BY <2>a, <3>1
      <4>2. CASE hand' = Producer!Idle
        BY <4>2
      <4>3. CASE hand.attempt < MaxAttempts /\ hand' = [hand EXCEPT !.attempt = @ + 1]
        <5>1. hand' = [event |-> e, to |-> t, attempt |-> a + 1] /\ a + 1 \in 1..MaxAttempts
          BY <1>0, <4>1, <4>3
        <5> QED BY <5>1
      <4>4. CASE hand' = [hand EXCEPT !.to = "dlq", !.attempt = 1]
        <5>1. hand' = [event |-> e, to |-> "dlq", attempt |-> 1] /\ 1 \in 1..MaxAttempts
          <6>1. 1 \in 1..MaxAttempts
            BY <1>0
          <6>2. PICK h : h = [hand EXCEPT !.to = "dlq"] /\ hand' = [h EXCEPT !.attempt = 1]
            BY <4>4
          <6>3. h = [event |-> e, to |-> "dlq", attempt |-> a]
            BY <4>1, <6>2
          <6>4. [[event |-> e, to |-> "dlq", attempt |-> a] EXCEPT !.attempt = 1]
                  = [event |-> e, to |-> "dlq", attempt |-> 1]
            OBVIOUS
          <6>5. hand' = [event |-> e, to |-> "dlq", attempt |-> 1]
            BY <6>2, <6>3, <6>4
          <6> QED BY <6>1, <6>5
        <5> QED BY <5>1
      <4> QED BY <3>1, <4>2, <4>3, <4>4 DEF Producer!NextTry
    <3>4. gone' \subseteq 1..Events
      BY <2>a, <3>1 DEF Producer!NextTry, Producer!TypeOK
    <3> QED BY <3>1, <3>2, <3>3, <3>4 DEF Producer!TypeOK
  <2>6. CASE Producer!Crash
    <3>1. Producer!Range(queue) \subseteq 1..Events
      <4>1. \A i \in DOMAIN queue : queue[i] \in 1..Events
        BY ElementsAre DEF Producer!TypeOK
      <4> QED BY <4>1 DEF Producer!Range
    <3>2. hand.event \in 0..Events
      <4>1. Producer!Idle.event = 0
        BY DEF Producer!Idle
      <4> QED BY <1>0, <2>a, <4>1
    <3>3. gone' \subseteq 1..Events
      <4>1. gone' = gone \union Producer!Range(queue) \union ({hand.event} \ {0})
        BY <2>6 DEF Producer!Crash
      <4>2. {hand.event} \ {0} \subseteq 1..Events
        BY <1>0, <3>2
      <4>3. gone \subseteq 1..Events
        BY DEF Producer!TypeOK
      <4> QED BY <3>1, <4>1, <4>2, <4>3
    <3>4. queue' \in Seq(1..Events) /\ Len(queue') <= Capacity /\ hand' = Producer!Idle
      BY <1>0, <2>6 DEF Producer!Crash
    <3>5. UNCHANGED <<published, topic, dlq>>
      BY <2>6 DEF Producer!Crash
    <3> QED BY <3>3, <3>4, <3>5 DEF Producer!TypeOK
  <2> QED BY <2>1, <2>2, <2>3, <2>4, <2>5, <2>6 DEF Producer!Next
<1> QED BY <1>1, <1>2, ProducerMoves, PTL DEF Producer!Spec

\* Typed: the variables of the preflight and of the producer keep their types; a decision is
\* one of the policies' or none, and the queue is never over its capacity (server.go 136-250,
\* producer.go 26-86).
THEOREM TypesHold == Spec => []Typed
<1>1. Preflight!TypeOK /\ Producer!TypeOK => Typed
  BY DEF Typed
<1> QED BY <1>1, PreflightTyped, ProducerTyped, PTL

-----------------------------------------------------------------------------
\* The engine lets pass only what it does not block, and decides only where it may.
Good(d, r) ==
    /\ d \in Preflight!Decision
    /\ d.by = "local" => /\ d.allowed => verdict[r] # "BLOCK"
                         /\ deployment.required => "odd" \in deployment.opa

\* The gateway's decision is its own OPA's, or what a shape without a decision is taken for.
Own(r) == /\ deployment.goOpa
          /\ answer[r] = Preflight!OpaDecision(r) \/ "bare" \in deployment.opa

\* Where the two are with a request tells what they have.
Stage(r) ==
    /\ gate[r] \in {"decided", "proxied"} =>
          Good(answer[r], r) /\ (Own(r) \/ (eval[r] = "recorded" /\ answer[r] = judged[r]))
    /\ gate[r] = "proxied" => answer[r].allowed
    /\ eval[r] \in {"judged", "recorded"} => Good(judged[r], r)
    /\ eval[r] = "recorded" => recorded[r] = judged[r]
JudgedInv == \A r \in Requests : Stage(r)

LEMMA GoodDecisions ==
    ASSUME Preflight!TypeOK, NEW r \in Requests
    PROVE  /\ Good(Preflight!OpaDecision(r), r)
           /\ Good(Preflight!DefaultDecision, r)
           /\ opa = "odd" => Good(Preflight!LocalDecision(r), r)
           /\ Good(Preflight!WithoutOpa(r), r)
<1>1. verdict[r] \in Preflight!Verdicts /\ opa \in deployment.opa
  BY DEF Preflight!TypeOK
<1>2. Good(Preflight!OpaDecision(r), r)
  BY <1>1 DEF Preflight!OpaDecision, Preflight!Decision, Good
<1>3. Good(Preflight!DefaultDecision, r)
  BY DEF Preflight!DefaultDecision, Preflight!Decision, Preflight!Verdicts, Good
<1>4. /\ Preflight!LocalDecision(r) \in Preflight!Decision
      /\ Preflight!LocalDecision(r).allowed => verdict[r] # "BLOCK"
  BY <1>1 DEF Preflight!LocalDecision, Preflight!Decision
<1>5. opa = "odd" => Good(Preflight!LocalDecision(r), r)
  BY <1>1, <1>4 DEF Good
<1>6. Preflight!FailClosed \in Preflight!Decision /\ Preflight!FailClosed.by # "local"
  BY DEF Preflight!FailClosed, Preflight!Decision, Preflight!Verdicts
<1>7. Good(Preflight!WithoutOpa(r), r)
  BY <1>4, <1>6 DEF Preflight!WithoutOpa, Good
<1> QED BY <1>2, <1>3, <1>5, <1>7

LEMMA JudgedInvHolds == Spec => []JudgedInv
<1>1. Preflight!Init => JudgedInv
  BY DEF Preflight!Init, JudgedInv, Stage
<1>2. Preflight!TypeOK /\ JudgedInv /\ [Preflight!Next]_Preflight!vars => JudgedInv'
  <2> SUFFICES ASSUME Preflight!TypeOK, JudgedInv, [Preflight!Next]_Preflight!vars, NEW q \in Requests
               PROVE  Stage(q)'
    BY DEF JudgedInv
  <2>0. /\ gate \in [Requests -> {"new", "fallback", "decided", "proxied", "forbidden", "unavailable"}]
        /\ eval \in [Requests -> {"idle", "started", "asking", "judged", "recorded", "failed"}]
        /\ judged \in [Requests -> Judgements] /\ answer \in [Requests -> Judgements]
        /\ recorded \in [Requests -> Judgements] /\ Stage(q)
    BY DEF Preflight!TypeOK, JudgedInv, Judgements
  <2>1. CASE UNCHANGED Preflight!vars
    BY <2>0, <2>1 DEF Stage, Good, Own, Preflight!OpaDecision, Preflight!vars
  <2>2. ASSUME NEW r \in Requests, Preflight!GoAsksOpa(r) PROVE Stage(q)'
    <3>1. UNCHANGED <<deployment, verdict, clashing, eval, judged, recorded>>
      BY <2>2 DEF Preflight!GoAsksOpa, Preflight!Passed
    <3>2. opa \in deployment.opa
      BY DEF Preflight!TypeOK
    <3>3. \/ /\ answer' = [answer EXCEPT ![r] = Preflight!OpaDecision(r)]
             /\ gate' = [gate EXCEPT ![r] = "decided"]
          \/ /\ answer' = [answer EXCEPT ![r] = Preflight!DefaultDecision]
             /\ gate' = [gate EXCEPT ![r] = "decided"] /\ "bare" \in deployment.opa
          \/ /\ gate' = [gate EXCEPT ![r] = "fallback"] /\ answer' = answer
          \/ /\ gate' = [gate EXCEPT ![r] = "unavailable"] /\ answer' = answer
      BY <2>2, <3>2 DEF Preflight!GoAsksOpa, Preflight!Passed
    <3>4. deployment.goOpa
      BY <2>2 DEF Preflight!GoAsksOpa
    <3> QED BY <2>0, <3>1, <3>3, <3>4, GoodDecisions DEF Stage, Good, Own, Preflight!OpaDecision
  <2>3. ASSUME NEW r \in Requests, Preflight!GoSkipsOpa(r) PROVE Stage(q)'
    BY <2>0, <2>3 DEF Stage, Good, Own, Preflight!OpaDecision, Preflight!GoSkipsOpa, Preflight!Passed
  <2>4. ASSUME NEW r \in Requests, Preflight!GoAsksBackend(r) PROVE Stage(q)'
    BY <2>0, <2>4 DEF Stage, Good, Own, Preflight!OpaDecision, Preflight!GoAsksBackend
  <2>5. ASSUME NEW r \in Requests, Preflight!GoHears(r) PROVE Stage(q)'
    BY <2>0, <2>5 DEF Stage, Good, Own, Preflight!OpaDecision, Preflight!GoHears, Preflight!Passed
  <2>6. ASSUME NEW r \in Requests, Preflight!GoTimesOut(r) PROVE Stage(q)'
    BY <2>0, <2>6 DEF Stage, Good, Own, Preflight!OpaDecision, Preflight!GoTimesOut, Preflight!Passed
  <2>7. ASSUME NEW r \in Requests, Preflight!GoProxies(r) PROVE Stage(q)'
    BY <2>0, <2>7 DEF Stage, Good, Own, Preflight!OpaDecision, Preflight!GoProxies, Preflight!Passed
  <2>8. ASSUME NEW r \in Requests, Preflight!BackendStarts(r) PROVE Stage(q)'
    <3>1. UNCHANGED <<deployment, verdict, clashing, gate, answer, recorded>> /\ eval[r] = "started"
      BY <2>8 DEF Preflight!BackendStarts
    <3>2. CASE Preflight!Judge(r, Preflight!WithoutOpa(r))
      <4>1. PICK d : d = Preflight!WithoutOpa(r)
        OBVIOUS
      <4>2. Good(d, r) /\ Preflight!Judge(r, d)
        BY <3>2, <4>1, GoodDecisions
      <4> QED BY <2>0, <3>1, <4>2 DEF Stage, Good, Own, Preflight!OpaDecision, Preflight!Judge
    <3>3. CASE eval' = [eval EXCEPT ![r] = "asking"] /\ UNCHANGED judged
      BY <2>0, <3>1, <3>3 DEF Stage, Good, Own, Preflight!OpaDecision
    <3> QED BY <2>8, <3>2, <3>3 DEF Preflight!BackendStarts
  <2>9. ASSUME NEW r \in Requests, Preflight!BackendAsksOpa(r) PROVE Stage(q)'
    <3>1. PICK d : Good(d, r) /\ Preflight!Judge(r, d)
      BY <2>9, GoodDecisions DEF Preflight!BackendAsksOpa
    <3>2. UNCHANGED <<deployment, verdict, clashing, gate, answer, recorded>> /\ eval[r] = "asking"
      BY <2>9 DEF Preflight!BackendAsksOpa
    <3> QED BY <2>0, <3>1, <3>2 DEF Stage, Good, Own, Preflight!OpaDecision, Preflight!Judge
  <2>10. ASSUME NEW r \in Requests, Preflight!BackendRecords(r) PROVE Stage(q)'
    BY <2>0, <2>10 DEF Stage, Good, Own, Preflight!OpaDecision, Preflight!BackendRecords
  <2>11. ASSUME NEW r \in Requests, Preflight!BackendFails(r) PROVE Stage(q)'
    BY <2>0, <2>11 DEF Stage, Good, Own, Preflight!OpaDecision, Preflight!BackendFails
  <2>12. CASE Preflight!OpaChanges \/ Preflight!Tick
    BY <2>0, <2>12 DEF Stage, Good, Own, Preflight!OpaDecision, Preflight!OpaChanges, Preflight!Tick
  <2> QED BY <2>1, <2>2, <2>3, <2>4, <2>5, <2>6, <2>7, <2>8, <2>9, <2>10, <2>11, <2>12
          DEF Preflight!Next, Preflight!Handle
<1> QED BY <1>1, <1>2, PreflightMoves, PreflightTyped, PTL DEF Preflight!Spec

\* ProxiedIsJudged: what is proxied was let pass by the gateway's own OPA or by the backend,
\* whose very decision is on record, and by the engine only where it may decide and for what it
\* does not block (server.go 136-187, policy.py 339-381, main.py 3651-3679).
THEOREM ProxiedIsJudgedHolds == Spec => []ProxiedIsJudged
<1>1. JudgedInv => ProxiedIsJudged
  <2> SUFFICES ASSUME JudgedInv, NEW r \in Requests, gate[r] = "proxied"
               PROVE  /\ \/ recorded[r] # Preflight!NoDecision /\ recorded[r] = answer[r]
                         \/ deployment.goOpa /\ answer[r] = Preflight!OpaDecision(r)
                         \/ deployment.goOpa /\ "bare" \in deployment.opa
                      /\ answer[r].by = "local" =>
                            /\ verdict[r] # "BLOCK"
                            /\ deployment.required => "odd" \in deployment.opa
    BY DEF ProxiedIsJudged, Preflight!ProxiedIsJudged
  <2>1. Stage(r)
    BY DEF JudgedInv
  <2>2. Preflight!NoDecision \notin Preflight!Decision
    <3>1. Preflight!NoDecision.decision = "none"
      BY DEF Preflight!NoDecision
    <3> QED BY <3>1 DEF Preflight!Decision, Preflight!Verdicts
  <2> QED BY <2>1, <2>2 DEF Stage, Good, Own
<1> QED BY <1>1, JudgedInvHolds, PTL
=============================================================================
