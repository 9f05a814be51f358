--------------------------- MODULE ClockSync_proofs ---------------------------
(***************************************************************************)
(* What holds of the filter for every stream, wherever it ends, and every  *)
(* clock.                                                                  *)
(***************************************************************************)
EXTENDS ClockSync, SequenceTheorems, WellFoundedInduction, TLAPS

-----------------------------------------------------------------------------
(* FlattenSeq is a recursive function under a CHOOSE: that the function     *)
(* exists, and that it is the only one, is shown by induction.              *)

\* Induction, stated of a set: the least number that is not in it has a predecessor.
LEMMA SetInduction ==
  ASSUME NEW S, 0 \in S, \A n \in Nat : n \in S => n + 1 \in S
  PROVE  Nat \subseteq S
<1> SUFFICES ASSUME Nat \ S # {} PROVE FALSE
  OBVIOUS
<1> DEFINE T == Nat \ S
           R == OpToRel(<, Nat)
<1>1. \E x \in T : \A y \in T : ~ (<<y, x>> \in R)
  <2> HIDE DEF R
  <2>1. IsWellFoundedOn(R, Nat)
    BY NatLessThanWellFounded DEF R
  <2> QED
    BY <2>1, WFMin
<1>2. PICK x \in T : \A y \in T : ~ (<<y, x>> \in R)
  BY <1>1
<1>3. x # 0 /\ x - 1 \in Nat
  OBVIOUS
<1>4. x - 1 \in T
  BY <1>3
<1>5. <<x - 1, x>> \in R
  BY <1>3 DEF OpToRel
<1> QED
  BY <1>2, <1>4, <1>5

\* f satisfies the recursion on the first n sequences.
Flattens(f, ss, n) ==
    f = [i \in 1 .. n |-> IF i = 1 THEN ss[i] ELSE f[i - 1] \o ss[i]]

LEMMA FlattenIsChosen ==
  ASSUME NEW ss, Len(ss) # 0
  PROVE  FlattenSeq(ss) = (CHOOSE f : Flattens(f, ss, Len(ss)))[Len(ss)]
BY DEF FlattenSeq, Flattens

\* What satisfies it on n + 1 sequences is what satisfies it on n, and one value more.
LEMMA FlattensExists ==
  ASSUME NEW ss, NEW n \in Nat
  PROVE  \E f : Flattens(f, ss, n)
<1> DEFINE S == { k \in Nat : \E f : Flattens(f, ss, k) }
<1>1. 0 \in S
  <2>1. Flattens([i \in 1 .. 0 |-> 0], ss, 0)
    BY DEF Flattens
  <2> QED
    BY <2>1
<1>2. ASSUME NEW k \in Nat, k \in S PROVE k + 1 \in S
  <2>1. PICK f : Flattens(f, ss, k)
    BY <1>2
  <2> DEFINE g == [i \in 1 .. k + 1 |-> IF i = 1 THEN ss[i] ELSE f[i - 1] \o ss[i]]
  <2>2. \A i \in 1 .. k : f[i] = IF i = 1 THEN ss[i] ELSE f[i - 1] \o ss[i]
    BY <2>1 DEF Flattens
  <2>3. \A i \in 1 .. k : g[i] = f[i]
    BY <2>2
  <2>4. \A i \in 1 .. k + 1 : i # 1 => i - 1 \in 1 .. k
    OBVIOUS
  <2>5. g = [i \in 1 .. k + 1 |-> IF i = 1 THEN ss[i] ELSE g[i - 1] \o ss[i]]
    <3> HIDE DEF g
    <3>1. \A i \in 1 .. k + 1 : (IF i = 1 THEN ss[i] ELSE f[i - 1] \o ss[i])
                                 = (IF i = 1 THEN ss[i] ELSE g[i - 1] \o ss[i])
      BY <2>3, <2>4
    <3>2. g = [i \in 1 .. k + 1 |-> IF i = 1 THEN ss[i] ELSE f[i - 1] \o ss[i]]
      BY DEF g
    <3> QED
      BY <3>1, <3>2
  <2>6. Flattens(g, ss, k + 1)
    BY <2>5 DEF Flattens
  <2> QED
    BY <2>6
<1>3. Nat \subseteq S
  <2> HIDE DEF S
  <2> QED
    BY <1>1, <1>2, SetInduction
<1> QED
  BY <1>3

\* Two such functions agree as far as their sequences do.
LEMMA FlattensAgree ==
  ASSUME NEW ss, NEW tt, NEW m \in Nat, NEW n \in Nat, NEW f, NEW g,
         Flattens(f, ss, m), Flattens(g, tt, n), NEW k \in 1 .. m, k <= n,
         \A i \in 1 .. k : ss[i] = tt[i]
  PROVE  f[k] = g[k]
<1> DEFINE S == { j \in Nat : j + 1 <= k => f[j + 1] = g[j + 1] }
<1>0. /\ \A i \in 1 .. m : f[i] = IF i = 1 THEN ss[i] ELSE f[i - 1] \o ss[i]
      /\ \A i \in 1 .. n : g[i] = IF i = 1 THEN tt[i] ELSE g[i - 1] \o tt[i]
  BY DEF Flattens
<1>1. 0 \in S
  BY <1>0
<1>2. ASSUME NEW j \in Nat, j \in S PROVE j + 1 \in S
  <2> SUFFICES ASSUME j + 2 <= k PROVE f[j + 2] = g[j + 2]
    OBVIOUS
  <2>1. f[j + 1] = g[j + 1]
    BY <1>2
  <2>2. j + 2 \in 1 .. m /\ j + 2 \in 1 .. n /\ j + 2 # 1 /\ (j + 2) - 1 = j + 1
    OBVIOUS
  <2>3. f[j + 2] = f[j + 1] \o ss[j + 2]
    BY <1>0, <2>2
  <2>4. g[j + 2] = g[j + 1] \o tt[j + 2]
    BY <1>0, <2>2
  <2>5. ss[j + 2] = tt[j + 2]
    BY <2>2
  <2> QED
    BY <2>1, <2>3, <2>4, <2>5
<1>3. Nat \subseteq S
  <2> HIDE DEF S
  <2> QED
    BY <1>1, <1>2, SetInduction
<1>4. k - 1 \in S
  BY <1>3
<1> QED
  BY <1>4

\* FlattenSeq as it is meant: by the last of the sequences.
LEMMA FlattenEmpty == FlattenSeq(<<>>) = <<>>
BY DEF FlattenSeq

LEMMA FlattenValue ==
  ASSUME NEW ss, Len(ss) \in Nat \ {0}
  PROVE  \E f : Flattens(f, ss, Len(ss)) /\ FlattenSeq(ss) = f[Len(ss)]
<1>1. \E f : Flattens(f, ss, Len(ss))
  BY FlattensExists
<1> DEFINE g == CHOOSE f : Flattens(f, ss, Len(ss))
<1>2. Flattens(g, ss, Len(ss))
  BY <1>1
<1>3. FlattenSeq(ss) = g[Len(ss)]
  BY FlattenIsChosen
<1> QED
  BY <1>2, <1>3

LEMMA FlattenAppend ==
  ASSUME NEW S, NEW ss \in Seq(Seq(S)), NEW s \in Seq(S)
  PROVE  FlattenSeq(Append(ss, s)) = IF ss = <<>> THEN s ELSE FlattenSeq(ss) \o s
<1> DEFINE n == Len(ss)
           tt == Append(ss, s)
<1>1. n \in Nat /\ Len(tt) = n + 1 /\ tt[n + 1] = s /\ \A i \in 1 .. n : tt[i] = ss[i]
  BY AppendProperties, LenProperties
<1>2. (ss = <<>>) <=> (n = 0)
  BY EmptySeq
<1> HIDE DEF n, tt
<1>3. PICK g : Flattens(g, tt, n + 1) /\ FlattenSeq(tt) = g[n + 1]
  BY <1>1, FlattenValue
<1>4. g[n + 1] = IF n + 1 = 1 THEN tt[n + 1] ELSE g[(n + 1) - 1] \o tt[n + 1]
  <2>1. n + 1 \in 1 .. n + 1
    BY <1>1
  <2>2. \A i \in 1 .. n + 1 : g[i] = IF i = 1 THEN tt[i] ELSE g[i - 1] \o tt[i]
    BY <1>3 DEF Flattens
  <2> QED
    BY <2>1, <2>2
<1>5. CASE n = 0
  BY <1>1, <1>2, <1>3, <1>4, <1>5 DEF tt
<1>6. CASE n # 0
  <2>1. PICK f : Flattens(f, ss, n) /\ FlattenSeq(ss) = f[n]
    BY <1>1, <1>6, FlattenValue DEF n
  <2>2. f[n] = g[n]
    BY <1>1, <1>3, <1>6, <2>1, FlattensAgree
  <2>3. g[n + 1] = g[n] \o s
    BY <1>1, <1>4, <1>6
  <2> QED
    BY <1>2, <1>3, <1>6, <2>1, <2>2, <2>3 DEF tt
<1> QED
  BY <1>1, <1>5, <1>6

LEMMA FlattenType ==
  ASSUME NEW S, NEW ss \in Seq(Seq(S))
  PROVE  FlattenSeq(ss) \in Seq(S)
<1> DEFINE G == { n \in Nat : \A tt \in Seq(Seq(S)) : Len(tt) = n => FlattenSeq(tt) \in Seq(S) }
<1>1. 0 \in G
  <2>1. ASSUME NEW tt \in Seq(Seq(S)), Len(tt) = 0 PROVE FlattenSeq(tt) \in Seq(S)
    <3>1. tt = <<>>
      BY <2>1, EmptySeq
    <3> QED
      BY <3>1, FlattenEmpty, EmptySeq
  <2> QED
    BY <2>1
<1>2. ASSUME NEW n \in Nat, n \in G PROVE n + 1 \in G
  <2>1. ASSUME NEW tt \in Seq(Seq(S)), Len(tt) = n + 1 PROVE FlattenSeq(tt) \in Seq(S)
    <3>0. tt # <<>>
      BY <2>1, EmptySeq
    <3>1. PICK uu \in Seq(Seq(S)), u \in Seq(S) : tt = Append(uu, u)
      BY <3>0, SequenceEmptyOrAppend
    <3>2. Len(uu) = n
      <4>1. Len(tt) = Len(uu) + 1 /\ Len(uu) \in Nat
        BY <3>1, AppendProperties, LenProperties
      <4> QED
        BY <4>1, <2>1
    <3>3. FlattenSeq(uu) \in Seq(S)
      BY <1>2, <3>2
    <3>4. FlattenSeq(uu) \o u \in Seq(S)
      BY <3>3, ConcatProperties
    <3>5. FlattenSeq(tt) = IF uu = <<>> THEN u ELSE FlattenSeq(uu) \o u
      BY <3>1, FlattenAppend
    <3> QED
      BY <3>4, <3>5
  <2> QED
    BY <2>1
<1>3. Nat \subseteq G
  <2> HIDE DEF G
  <2> QED
    BY <1>1, <1>2, SetInduction
<1>4. Len(ss) \in G
  BY <1>3, LenProperties
<1> QED
  BY <1>4

\* One more sequence is appended to what the others make.
LEMMA FlattenOneMore ==
  ASSUME NEW S, NEW ss \in Seq(Seq(S)), NEW s \in Seq(S)
  PROVE  FlattenSeq(Append(ss, s)) = FlattenSeq(ss) \o s
<1>1. CASE ss = <<>>
  <2>1. <<>> \o s = s
    BY ConcatEmptySeq
  <2> QED
    BY <1>1, <2>1, FlattenAppend, FlattenEmpty
<1>2. CASE ss # <<>>
  BY <1>2, FlattenAppend
<1> QED
  BY <1>1, <1>2

-----------------------------------------------------------------------------
(* A stream, and where its tags end.                                        *)

LEMMA Joined ==
  ASSUME NEW s \in Seq(Int), NEW t \in Seq(Int)
  PROVE  /\ s \o t \in Seq(Int) /\ Len(s) \in Nat /\ Len(t) \in Nat
         /\ Len(s \o t) = Len(s) + Len(t)
         /\ \A i \in 1 .. Len(s) : (s \o t)[i] = s[i]
         /\ \A i \in 1 .. Len(t) : (s \o t)[Len(s) + i] = t[i]
<1> DEFINE m == Len(s)
           n == Len(t)
           j == s \o t
<1>1. m \in Nat /\ n \in Nat
  BY LenProperties
<1>2. /\ j \in Seq(Int) /\ Len(j) = m + n
      /\ \A i \in 1 .. m + n : j[i] = IF i <= m THEN s[i] ELSE t[i - m]
  BY ConcatProperties
<1> HIDE DEF m, n, j
<1>3. \A i \in 1 .. m : j[i] = s[i]
  BY <1>1, <1>2
<1>4. \A i \in 1 .. n : j[m + i] = t[i]
  <2> TAKE i \in 1 .. n
  <2>1. m + i \in 1 .. m + n /\ ~(m + i <= m) /\ (m + i) - m = i
    BY <1>1
  <2> QED
    BY <1>2, <2>1
<1> QED
  BY <1>1, <1>2, <1>3, <1>4 DEF m, n, j

LEMMA Ui24Bytes ==
  ASSUME NEW n \in Nat
  PROVE  /\ Ui24(n) \in Seq(Int) /\ Len(Ui24(n)) = 3
         /\ 65536 * Ui24(n)[1] + 256 * Ui24(n)[2] + Ui24(n)[3] = n
<1>1. n \div 65536 \in Int /\ (n \div 256) % 256 \in Int /\ n % 256 \in Int
  OBVIOUS
<1>2. 65536 * (n \div 65536) + 256 * ((n \div 256) % 256) + (n % 256) = n
  OBVIOUS
<1> QED
  BY <1>1, <1>2 DEF Ui24

LEMMA Ui32Bytes ==
  ASSUME NEW n \in Nat
  PROVE  Ui32(n) \in Seq(Int) /\ Len(Ui32(n)) = 4
<1> DEFINE d == n \div 16777216
           m == n % 16777216
<1>1. d \in Int /\ m \in Nat
  BY SMTT(30)
<1>2. Ui32(n) = <<d>> \o Ui24(m)
  BY SMTT(30) DEF Ui32
<1> HIDE DEF d, m
<1>3. Ui24(m) \in Seq(Int) /\ Len(Ui24(m)) = 3
  BY <1>1, Ui24Bytes
<1>4. <<d>> \in Seq(Int) /\ Len(<<d>>) = 1
  BY <1>1
<1>5. /\ <<d>> \o Ui24(m) \in Seq(Int)
      /\ Len(<<d>> \o Ui24(m)) = Len(<<d>>) + Len(Ui24(m))
  <2>1. <<d>> \in Seq(Int) /\ Ui24(m) \in Seq(Int)
    BY <1>3, <1>4
  <2> QED
    BY <2>1, Joined
<1> QED
  BY <1>2, <1>3, <1>4, <1>5

\* What the filter looks at in a tag: its first byte, and the size at its 2nd to 4th.
LEMMA TagBytes ==
  ASSUME NEW tag \in Tags
  PROVE  /\ FlvTag(tag) \in Seq(Int)
         /\ Len(tag.payload) \in Nat /\ Len(FlvTag(tag)) = 15 + Len(tag.payload)
         /\ FlvTag(tag)[1] = tag.type
         /\ PayloadSize(FlvTag(tag)) = Len(tag.payload)
<1> DEFINE p == Len(tag.payload)
           h == <<tag.type>>
           u == Ui24(p)
           f == tag.fields
           l == tag.payload
           v == Ui32(11 + p)
           x == h \o u
           y == x \o f
           z == y \o l
           w == z \o v
<1>1. tag.type \in Int /\ f \in Seq(Bytes) /\ Len(f) = 7 /\ l \in Seq(Bytes)
  <2>1. tag \in [type : Bytes, fields : Seq(Bytes), payload : Seq(Bytes)] /\ Len(tag.fields) = 7
    BY SMTT(30) DEF Tags
  <2>2. tag.type \in Bytes /\ tag.fields \in Seq(Bytes) /\ tag.payload \in Seq(Bytes)
    BY <2>1
  <2>3. Bytes \subseteq Int
    BY DEF Bytes
  <2> QED
    BY <2>1, <2>2, <2>3
<1>2. f \in Seq(Int) /\ l \in Seq(Int) /\ p \in Nat
  <2>1. Bytes \subseteq Int
    BY DEF Bytes
  <2> HIDE DEF f, l
  <2>2. f \in Seq(Int) /\ l \in Seq(Int)
    BY <1>1, <2>1, SeqMonotonic
  <2>3. Len(l) \in Nat
    BY <2>2, LenProperties
  <2> QED
    BY <2>2, <2>3 DEF l
<1>3. FlvTag(tag) = w
  BY SMTT(30) DEF FlvTag
<1> HIDE DEF p, f, l
<1>4. h \in Seq(Int) /\ Len(h) = 1 /\ h[1] = tag.type
  BY <1>1
<1>5. /\ u \in Seq(Int) /\ Len(u) = 3 /\ v \in Seq(Int) /\ Len(v) = 4
      /\ 65536 * u[1] + 256 * u[2] + u[3] = p
  <2>1. u \in Seq(Int) /\ Len(u) = 3 /\ 65536 * u[1] + 256 * u[2] + u[3] = p
    <3>1. p \in Nat
      BY <1>2
    <3> HIDE DEF u
    <3>2. u = Ui24(p)
      BY DEF u
    <3> QED
      BY <3>1, <3>2, Ui24Bytes
  <2>2. 11 + p \in Nat
    BY <1>2
  <2>3. v \in Seq(Int) /\ Len(v) = 4
    BY <2>2, Ui32Bytes
  <2> QED
    BY <2>1, <2>3
<1> HIDE DEF h, u, v
<1>6. /\ x \in Seq(Int) /\ y \in Seq(Int) /\ z \in Seq(Int) /\ w \in Seq(Int)
      /\ Len(x) = Len(h) + Len(u) /\ Len(y) = Len(x) + Len(f)
      /\ Len(z) = Len(y) + Len(l) /\ Len(w) = Len(z) + Len(v)
      /\ \A i \in 1 .. Len(h) : x[i] = h[i]
      /\ \A i \in 1 .. Len(u) : x[Len(h) + i] = u[i]
      /\ \A i \in 1 .. Len(x) : y[i] = x[i]
      /\ \A i \in 1 .. Len(y) : z[i] = y[i]
      /\ \A i \in 1 .. Len(z) : w[i] = z[i]
  <2>1. h \in Seq(Int) /\ u \in Seq(Int) /\ v \in Seq(Int)
    BY <1>4, <1>5
  <2>2. /\ x \in Seq(Int) /\ Len(x) = Len(h) + Len(u)
        /\ \A i \in 1 .. Len(h) : x[i] = h[i]
        /\ \A i \in 1 .. Len(u) : x[Len(h) + i] = u[i]
    BY <2>1, Joined
  <2> HIDE DEF x
  <2>3. y \in Seq(Int) /\ Len(y) = Len(x) + Len(f) /\ \A i \in 1 .. Len(x) : y[i] = x[i]
    <3>1. x \in Seq(Int) /\ f \in Seq(Int)
      BY <1>2, <2>2
    <3> QED
      BY <3>1, Joined
  <2> HIDE DEF y
  <2>4. z \in Seq(Int) /\ Len(z) = Len(y) + Len(l) /\ \A i \in 1 .. Len(y) : z[i] = y[i]
    <3>1. y \in Seq(Int) /\ l \in Seq(Int)
      BY <1>2, <2>3
    <3> QED
      BY <3>1, Joined
  <2> HIDE DEF z
  <2>5. w \in Seq(Int) /\ Len(w) = Len(z) + Len(v) /\ \A i \in 1 .. Len(z) : w[i] = z[i]
    <3>1. z \in Seq(Int) /\ v \in Seq(Int)
      BY <2>1, <2>4
    <3> QED
      BY <3>1, Joined
  <2> HIDE DEF w
  <2> QED
    BY <2>2, <2>3, <2>4, <2>5
<1> HIDE DEF w, z, y, x
<1>7. Len(x) = 4 /\ Len(y) = 11 /\ Len(z) = 11 + p /\ Len(w) = 15 + p
  <2>1. Len(l) = p
    BY DEF l, p
  <2>2. Len(x) = 4 /\ Len(y) = 11
    BY <1>1, <1>4, <1>5, <1>6
  <2>3. Len(z) = 11 + p
    BY <1>6, <2>1, <2>2
  <2>4. Len(w) = (11 + p) + 4
    BY <1>2, <1>5, <1>6, <2>3
  <2> QED
    BY <1>2, <2>2, <2>3, <2>4
<1>8. \A i \in 1 .. 4 : w[i] = x[i]
  <2> TAKE i \in 1 .. 4
  <2>1. i \in 1 .. Len(x) /\ i \in 1 .. Len(y) /\ i \in 1 .. Len(z)
    BY <1>2, <1>7
  <2> QED
    BY <1>6, <2>1
<1>9. w[1] = tag.type /\ w[2] = u[1] /\ w[3] = u[2] /\ w[4] = u[3]
  <2>1. 1 \in 1 .. Len(h) /\ 1 \in 1 .. Len(u) /\ 2 \in 1 .. Len(u) /\ 3 \in 1 .. Len(u)
    BY <1>4, <1>5
  <2>2. x[1] = h[1] /\ x[Len(h) + 1] = u[1] /\ x[Len(h) + 2] = u[2] /\ x[Len(h) + 3] = u[3]
    BY <1>6, <2>1
  <2>3. x[2] = u[1] /\ x[3] = u[2] /\ x[4] = u[3]
    BY <1>4, <2>2
  <2>4. w[1] = x[1] /\ w[2] = x[2] /\ w[3] = x[3] /\ w[4] = x[4]
    BY <1>8
  <2> QED
    BY <1>4, <2>2, <2>3, <2>4
<1>10. PayloadSize(w) = p
  BY <1>5, <1>9 DEF PayloadSize
<1> QED
  BY <1>2, <1>3, <1>6, <1>7, <1>9, <1>10 DEF p

\* The bytes of the tags.
Body(tags) == FlattenSeq([i \in 1 .. Len(tags) |-> FlvTag(tags[i])])

LEMMA TagSequence ==
  ASSUME NEW tags \in Seq(Tags)
  PROVE  /\ [i \in 1 .. Len(tags) |-> FlvTag(tags[i])] \in Seq(Seq(Int))
         /\ Body(tags) \in Seq(Int)
<1>1. \A i \in 1 .. Len(tags) : FlvTag(tags[i]) \in Seq(Int)
  BY TagBytes, ElementOfSeq
<1>2. [i \in 1 .. Len(tags) |-> FlvTag(tags[i])] \in Seq(Seq(Int))
  BY <1>1, LenProperties, IsASeq
<1> QED
  BY <1>2, FlattenType DEF Body

LEMMA BodyGrows ==
  ASSUME NEW tags \in Seq(Tags), NEW tag \in Tags
  PROVE  Body(Append(tags, tag)) = Body(tags) \o FlvTag(tag)
<1> DEFINE ss == [i \in 1 .. Len(tags) |-> FlvTag(tags[i])]
           more == Append(tags, tag)
           tt == [i \in 1 .. Len(more) |-> FlvTag(more[i])]
<1>1. /\ more \in Seq(Tags) /\ Len(more) = Len(tags) + 1 /\ Len(tags) \in Nat
      /\ more[Len(tags) + 1] = tag /\ \A i \in 1 .. Len(tags) : more[i] = tags[i]
  BY AppendProperties, LenProperties
<1>2. ss \in Seq(Seq(Int)) /\ tt \in Seq(Seq(Int)) /\ FlvTag(tag) \in Seq(Int)
  BY <1>1, TagSequence, TagBytes
<1>3. Len(ss) = Len(tags) /\ Len(tt) = Len(tags) + 1
  BY <1>1
<1> HIDE DEF more
<1>4. tt = Append(ss, FlvTag(tag))
  <2>1. /\ Append(ss, FlvTag(tag)) \in Seq(Seq(Int))
        /\ Len(Append(ss, FlvTag(tag))) = Len(ss) + 1
        /\ \A i \in 1 .. Len(ss) : Append(ss, FlvTag(tag))[i] = ss[i]
        /\ Append(ss, FlvTag(tag))[Len(ss) + 1] = FlvTag(tag)
    BY <1>2, AppendProperties
  <2>2. \A i \in 1 .. Len(tags) : ss[i] = FlvTag(tags[i])
    OBVIOUS
  <2>3. \A i \in 1 .. Len(tags) + 1 : tt[i] = FlvTag(more[i])
    BY <1>1
  <2>4. \A i \in 1 .. Len(tags) + 1 : tt[i] = Append(ss, FlvTag(tag))[i]
    <3> HIDE DEF ss, tt
    <3> TAKE i \in 1 .. Len(tags) + 1
    <3>1. CASE i \in 1 .. Len(tags)
      <4>1. tt[i] = FlvTag(tags[i]) /\ ss[i] = FlvTag(tags[i])
        BY <1>1, <2>2, <2>3, <3>1
      <4>2. Append(ss, FlvTag(tag))[i] = ss[i]
        BY <1>3, <2>1, <3>1
      <4> QED
        BY <4>1, <4>2
    <3>2. CASE i = Len(tags) + 1
      BY <1>1, <1>3, <2>1, <2>3, <3>2
    <3>3. i \in 1 .. Len(tags) \/ i = Len(tags) + 1
      BY <1>1
    <3> QED
      BY <3>1, <3>2, <3>3
  <2> HIDE DEF ss, tt
  <2> QED
    BY <1>2, <1>3, <2>1, <2>4, SeqEqual
<1> HIDE DEF ss, tt
<1>5. FlattenSeq(tt) = FlattenSeq(ss) \o FlvTag(tag)
  BY <1>2, <1>4, FlattenOneMore
<1> QED
  BY <1>5 DEF Body, ss, tt, more

LEMMA HeaderBytes ==
  ASSUME NEW flags \in Int
  PROVE  FlvHeader(flags) \in Seq(Int) /\ Len(FlvHeader(flags)) = 13
BY DEF FlvHeader

\* The stream as one sequence of bytes, whatever its flags.
LEMMA FlvBytes ==
  ASSUME NEW flags \in Int, NEW tags \in Seq(Tags)
  PROVE  /\ Flv(flags, tags) = FlvHeader(flags) \o Body(tags)
         /\ Flv(flags, tags) \in Seq(Int)
         /\ Len(Flv(flags, tags)) = 13 + Len(Body(tags)) /\ Len(Body(tags)) \in Nat
         /\ \A i \in 1 .. Len(Flv(flags, tags)) :
              Flv(flags, tags)[i] = IF i <= 13 THEN FlvHeader(flags)[i] ELSE Body(tags)[i - 13]
<1> DEFINE h == FlvHeader(flags)
           b == Body(tags)
           all == Flv(flags, tags)
<1>1. all = h \o b
  BY DEF Flv, Body
<1>2. h \in Seq(Int) /\ b \in Seq(Int)
  BY HeaderBytes, TagSequence
<1>3. Len(h) = 13
  BY HeaderBytes
<1> HIDE DEF h, b, all
<1>4. /\ h \o b \in Seq(Int) /\ Len(b) \in Nat /\ Len(h \o b) = Len(h) + Len(b)
      /\ \A i \in 1 .. Len(h) + Len(b) :
           (h \o b)[i] = IF i <= Len(h) THEN h[i] ELSE b[i - Len(h)]
  BY <1>2, ConcatProperties, LenProperties
<1>5. Len(all) = 13 + Len(b)
  BY <1>1, <1>3, <1>4
<1>6. \A i \in 1 .. Len(all) : all[i] = IF i <= 13 THEN h[i] ELSE b[i - 13]
  BY <1>1, <1>3, <1>4
<1> QED
  BY <1>1, <1>4, <1>5, <1>6 DEF h, b, all

LEMMA FlvGrows ==
  ASSUME NEW flags \in Int, NEW tags \in Seq(Tags), NEW tag \in Tags
  PROVE  Flv(flags, Append(tags, tag)) = Flv(flags, tags) \o FlvTag(tag)
<1>1. Append(tags, tag) \in Seq(Tags)
  BY AppendProperties
<1>2. /\ FlvHeader(flags) \in Seq(Int) /\ Body(tags) \in Seq(Int) /\ FlvTag(tag) \in Seq(Int)
  BY HeaderBytes, TagSequence, TagBytes
<1>3. Flv(flags, Append(tags, tag)) = FlvHeader(flags) \o Body(Append(tags, tag))
  BY <1>1, FlvBytes
<1>4. Flv(flags, tags) = FlvHeader(flags) \o Body(tags)
  BY FlvBytes
<1>5. Body(Append(tags, tag)) = Body(tags) \o FlvTag(tag)
  BY BodyGrows
<1> DEFINE h == FlvHeader(flags)
           b == Body(tags)
           t == FlvTag(tag)
<1>6. h \o (b \o t) = (h \o b) \o t
  <2>1. h \in Seq(Int) /\ b \in Seq(Int) /\ t \in Seq(Int)
    BY <1>2
  <2> HIDE DEF h, b, t
  <2> QED
    BY <2>1, ConcatAssociative, SMTT(30)
<1> QED
  BY <1>3, <1>4, <1>5, <1>6

\* Only the fifth byte tells the flags.
LEMMA FlvFlags ==
  ASSUME NEW tags \in Seq(Tags)
  PROVE  /\ Len(Flv(7, tags)) = Len(Flv(5, tags)) /\ Len(Flv(5, tags)) >= 13
         /\ \A i \in 1 .. Len(Flv(5, tags)) :
              Flv(7, tags)[i] = IF i = 5 THEN 7 ELSE Flv(5, tags)[i]
         /\ SubSeq(Flv(5, tags), 1, 3) = <<70, 76, 86>>
<1>1. \A i \in 1 .. 13 : FlvHeader(7)[i] = IF i = 5 THEN 7 ELSE FlvHeader(5)[i]
  BY DEF FlvHeader
<1>2. /\ Len(Flv(5, tags)) = 13 + Len(Body(tags)) /\ Len(Body(tags)) \in Nat
      /\ \A i \in 1 .. Len(Flv(5, tags)) :
              Flv(5, tags)[i] = IF i <= 13 THEN FlvHeader(5)[i] ELSE Body(tags)[i - 13]
      /\ Flv(5, tags) \in Seq(Int)
  BY FlvBytes
<1>3. /\ Len(Flv(7, tags)) = 13 + Len(Body(tags))
      /\ \A i \in 1 .. Len(Flv(7, tags)) :
              Flv(7, tags)[i] = IF i <= 13 THEN FlvHeader(7)[i] ELSE Body(tags)[i - 13]
  BY FlvBytes
<1>4. SubSeq(Flv(5, tags), 1, 3) = <<70, 76, 86>>
  <2> DEFINE s == Flv(5, tags)
  <2>0. /\ FlvHeader(5)[1] = 70 /\ FlvHeader(5)[2] = 76 /\ FlvHeader(5)[3] = 86
    BY DEF FlvHeader
  <2>00. 1 \in 1 .. Len(s) /\ 2 \in 1 .. Len(s) /\ 3 \in 1 .. Len(s)
    BY <1>2
  <2>1. s[1] = 70 /\ s[2] = 76 /\ s[3] = 86
    BY <1>2, <2>0, <2>00
  <2>2. \A i \in 1 .. 3 : s[i] \in Int
    BY <2>1
  <2> HIDE DEF s
  <2>3. /\ SubSeq(s, 1, 3) \in Seq(Int) /\ Len(SubSeq(s, 1, 3)) = 3
        /\ \A i \in 1 .. 3 : SubSeq(s, 1, 3)[i] = s[i]
    BY <2>2, SubSeqProperties
  <2>4. <<70, 76, 86>> \in Seq(Int) /\ Len(<<70, 76, 86>>) = 3
    OBVIOUS
  <2>5. \A i \in 1 .. 3 : SubSeq(s, 1, 3)[i] = <<70, 76, 86>>[i]
    BY <2>1, <2>3
  <2>6. SubSeq(s, 1, 3) = <<70, 76, 86>>
    BY <2>3, <2>4, <2>5, SeqEqual
  <2> QED
    BY <2>6 DEF s
<1>5. Len(Flv(7, tags)) = Len(Flv(5, tags)) /\ Len(Flv(5, tags)) >= 13
  BY <1>2, <1>3
<1>6. ASSUME NEW i \in 1 .. Len(Flv(5, tags))
      PROVE  Flv(7, tags)[i] = IF i = 5 THEN 7 ELSE Flv(5, tags)[i]
  <2>1. i \in 1 .. Len(Flv(7, tags))
    BY <1>5
  <2>2. CASE i <= 13
    <3>1. Flv(7, tags)[i] = FlvHeader(7)[i] /\ Flv(5, tags)[i] = FlvHeader(5)[i]
      BY <1>2, <1>3, <2>1, <2>2
    <3>2. i \in 1 .. 13
      BY <1>2, <2>2
    <3> QED
      BY <1>1, <3>1, <3>2
  <2>3. CASE ~(i <= 13)
    <3>1. Flv(7, tags)[i] = Body(tags)[i - 13] /\ Flv(5, tags)[i] = Body(tags)[i - 13]
      BY <1>2, <1>3, <2>1, <2>3
    <3>2. i # 5
      BY <2>3
    <3> QED
      BY <3>1, <3>2
  <2> QED
    BY <2>2, <2>3
<1> QED
  BY <1>4, <1>5, <1>6

LEMMA FirstTags ==
  ASSUME NEW tags \in Seq(Tags), NEW n \in 0 .. Len(tags)
  PROVE  /\ SubSeq(tags, 1, n) \in Seq(Tags) /\ Len(SubSeq(tags, 1, n)) = n
         /\ n < Len(tags) => /\ tags[n + 1] \in Tags
                             /\ SubSeq(tags, 1, n + 1) = Append(SubSeq(tags, 1, n), tags[n + 1])
<1>1. Len(tags) \in Nat /\ \A i \in 1 .. Len(tags) : tags[i] \in Tags
  BY LenProperties, ElementOfSeq
<1>2. SubSeq(tags, 1, n) \in Seq(Tags) /\ Len(SubSeq(tags, 1, n)) = n
  <2>1. \A i \in 1 .. n : tags[i] \in Tags
    BY <1>1
  <2>2. /\ SubSeq(tags, 1, n) \in Seq(Tags)
        /\ Len(SubSeq(tags, 1, n)) = IF 1 <= n THEN n - 1 + 1 ELSE 0
    BY <1>1, <2>1, SubSeqProperties
  <2> QED
    BY <1>1, <2>2
<1>3. ASSUME n < Len(tags)
      PROVE  /\ tags[n + 1] \in Tags
             /\ SubSeq(tags, 1, n + 1) = Append(SubSeq(tags, 1, n), tags[n + 1])
  <2>1. n + 1 \in 1 .. Len(tags) /\ 1 \in 1 .. Len(tags) /\ (n + 1) - 1 = n
    BY <1>1, <1>3
  <2>2. SubSeq(tags, 1, n + 1) = SubSeq(tags, 1, n) \o <<tags[n + 1]>>
    BY <2>1, SubSeqRecursiveSecond
  <2> QED
    BY <1>1, <1>2, <2>1, <2>2, AppendIsConcat
<1> QED
  BY <1>2, <1>3

\* Where the first n tags of a stream end.
EndOf(tags, n) == Len(Flv(5, SubSeq(tags, 1, n)))

LEMMA NextFlv ==
  ASSUME NEW flags \in Int, NEW tags \in Seq(Tags), NEW n \in 0 .. Len(tags), n < Len(tags)
  PROVE  Flv(flags, SubSeq(tags, 1, n + 1)) = Flv(flags, SubSeq(tags, 1, n)) \o FlvTag(tags[n + 1])
BY FirstTags, FlvGrows

\* The stream starts with that of its first n tags.
LEMMA FlvPrefix ==
  ASSUME NEW flags \in Int, NEW tags \in Seq(Tags), NEW n \in 0 .. Len(tags)
  PROVE  LET first == Flv(flags, SubSeq(tags, 1, n))
         IN  /\ Len(first) <= Len(Flv(flags, tags))
             /\ \A i \in 1 .. Len(first) : Flv(flags, tags)[i] = first[i]
<1> DEFINE P(k) == Flv(flags, SubSeq(tags, 1, n + k))
           first == Flv(flags, SubSeq(tags, 1, n))
           G == { k \in Nat : n + k <= Len(tags) =>
                    Len(first) <= Len(P(k)) /\ \A i \in 1 .. Len(first) : P(k)[i] = first[i] }
<1>1. Len(tags) \in Nat
  BY LenProperties
<1>2. first \in Seq(Int) /\ Len(first) \in Nat
  BY FirstTags, FlvBytes, LenProperties
<1>3. 0 \in G
  BY <1>1, <1>2
<1>4. ASSUME NEW k \in Nat, k \in G PROVE k + 1 \in G
  <2> SUFFICES ASSUME n + (k + 1) <= Len(tags)
               PROVE  /\ Len(first) <= Len(P(k + 1))
                      /\ \A i \in 1 .. Len(first) : P(k + 1)[i] = first[i]
    OBVIOUS
  <2>1. n + k \in 0 .. Len(tags) /\ n + k < Len(tags) /\ n + (k + 1) = (n + k) + 1
    BY <1>1
  <2>2. Len(first) <= Len(P(k)) /\ \A i \in 1 .. Len(first) : P(k)[i] = first[i]
    BY <1>4, <2>1
  <2>3. P(k + 1) = P(k) \o FlvTag(tags[(n + k) + 1])
    BY <2>1, NextFlv
  <2>4. P(k) \in Seq(Int) /\ FlvTag(tags[(n + k) + 1]) \in Seq(Int)
    BY <2>1, FirstTags, FlvBytes, TagBytes
  <2> DEFINE t == FlvTag(tags[(n + k) + 1])
  <2>5. Len(t) \in Nat /\ Len(P(k)) \in Nat
    BY <2>4, LenProperties
  <2> HIDE DEF P, t, first
  <2>6. /\ Len(P(k) \o t) = Len(P(k)) + Len(t)
        /\ \A i \in 1 .. Len(P(k)) + Len(t) :
             (P(k) \o t)[i] = IF i <= Len(P(k)) THEN P(k)[i] ELSE t[i - Len(P(k))]
    BY <2>4, ConcatProperties DEF t
  <2>7. P(k + 1) = P(k) \o t
    BY <2>3 DEF t
  <2> QED
    BY <1>2, <2>2, <2>5, <2>6, <2>7
<1>5. Nat \subseteq G
  <2> HIDE DEF G
  <2> QED
    BY <1>3, <1>4, SetInduction
<1>6. Len(tags) - n \in G /\ n + (Len(tags) - n) = Len(tags)
  BY <1>1, <1>5
<1>7. SubSeq(tags, 1, Len(tags)) = tags
  BY SubSeqFull
<1>8. P(Len(tags) - n) = Flv(flags, tags)
  BY <1>6, <1>7
<1> HIDE DEF P
<1> QED
  BY <1>1, <1>6, <1>8

LEMMA Ends ==
  ASSUME NEW tags \in Seq(Tags)
  PROVE  EndOf(tags, 0) = 13 /\ EndOf(tags, Len(tags)) = Len(Flv(5, tags))
<1>1. SubSeq(tags, 1, 0) = <<>> /\ SubSeq(tags, 1, Len(tags)) = tags
  BY SubSeqEmpty, SubSeqFull
<1>2. Body(<<>>) = <<>>
  <2>1. [i \in 1 .. Len(<<>>) |-> FlvTag(<<>>[i])] = <<>>
    OBVIOUS
  <2> QED
    BY <2>1, FlattenEmpty DEF Body
<1>3. <<>> \in Seq(Tags) /\ Len(<<>>) = 0
  BY EmptySeq
<1>4. Len(Flv(5, <<>>)) = 13 + Len(Body(<<>>))
  BY <1>3, FlvBytes, 5 \in Int
<1>5. EndOf(tags, 0) = Len(Flv(5, <<>>))
  BY <1>1 DEF EndOf
<1>6. Len(Flv(5, <<>>)) = 13
  <2> DEFINE n == Len(Body(<<>>))
             k == Len(Flv(5, <<>>))
  <2>1. n = 0
    BY <1>2, <1>3
  <2>2. k = 13 + n
    BY <1>4
  <2> HIDE DEF n, k
  <2>3. k = 13
    BY <2>1, <2>2
  <2> QED
    BY <2>3 DEF k
<1> QED
  BY <1>1, <1>5, <1>6 DEF EndOf

\* Up to the end of a tag, what is passed on is itself a stream.
LEMMA UpToEnd ==
  ASSUME NEW tags \in Seq(Tags), NEW n \in 0 .. Len(tags)
  PROVE  /\ EndOf(tags, n) \in Nat /\ EndOf(tags, n) >= 13
         /\ EndOf(tags, n) <= Len(Flv(5, tags))
         /\ SubSeq(Flv(7, tags), 1, EndOf(tags, n)) = Flv(7, SubSeq(tags, 1, n))
<1> DEFINE first == Flv(7, SubSeq(tags, 1, n))
           all == Flv(7, tags)
           e == EndOf(tags, n)
<1>1. SubSeq(tags, 1, n) \in Seq(Tags)
  BY FirstTags
<1>2. first \in Seq(Int) /\ all \in Seq(Int)
  BY <1>1, FlvBytes, 7 \in Int
<1>3. Len(first) = e /\ e >= 13 /\ e \in Nat /\ Len(all) = Len(Flv(5, tags))
  BY <1>1, <1>2, FlvFlags, LenProperties DEF EndOf
<1>4. Len(first) <= Len(all) /\ \A i \in 1 .. Len(first) : all[i] = first[i]
  BY FlvPrefix
<1>5. \A i \in 1 .. Len(first) : first[i] \in Int
  BY <1>2, ElementOfSeq
<1> HIDE DEF first, all, e
<1>6. /\ SubSeq(all, 1, e) \in Seq(Int) /\ Len(SubSeq(all, 1, e)) = e
      /\ \A i \in 1 .. e : SubSeq(all, 1, e)[i] = all[i]
  <2>1. \A i \in 1 .. e : all[i] \in Int
    BY <1>3, <1>4, <1>5
  <2>2. /\ SubSeq(all, 1, e) \in Seq(Int)
        /\ Len(SubSeq(all, 1, e)) = IF 1 <= e THEN e - 1 + 1 ELSE 0
        /\ \A i \in 1 .. e - 1 + 1 : SubSeq(all, 1, e)[i] = all[1 + i - 1]
    BY <1>3, <2>1, SubSeqProperties
  <2> QED
    BY <1>3, <2>2
<1>7. SubSeq(all, 1, e) = first
  BY <1>2, <1>3, <1>4, <1>6, SeqEqual
<1> QED
  BY <1>3, <1>4, <1>7 DEF first, all, e

\* Behind the end of a tag stands the next one.
LEMMA NextTag ==
  ASSUME NEW tags \in Seq(Tags), NEW n \in 0 .. Len(tags), n < Len(tags)
  PROVE  LET tag == FlvTag(tags[n + 1])
         IN  /\ EndOf(tags, n + 1) = EndOf(tags, n) + Len(tag)
             /\ \A i \in 1 .. Len(tag) : Flv(5, tags)[EndOf(tags, n) + i] = tag[i]
<1> DEFINE tag == FlvTag(tags[n + 1])
           first == Flv(5, SubSeq(tags, 1, n))
           next == Flv(5, SubSeq(tags, 1, n + 1))
           e == EndOf(tags, n)
<1>0. Len(tags) \in Nat /\ n + 1 \in 0 .. Len(tags)
  <2>1. Len(tags) \in Nat
    BY LenProperties
  <2> QED
    BY <2>1
<1>1. tag \in Seq(Int) /\ first \in Seq(Int) /\ Len(first) = e
  BY FirstTags, TagBytes, FlvBytes, 5 \in Int DEF EndOf
<1>2. next = first \o tag
  BY NextFlv, 5 \in Int
<1>3. e \in Nat /\ Len(tag) \in Nat /\ EndOf(tags, n + 1) = Len(next)
  BY <1>1, LenProperties DEF EndOf
<1>4. Len(next) <= Len(Flv(5, tags)) /\ \A i \in 1 .. Len(next) : Flv(5, tags)[i] = next[i]
  BY <1>0, FlvPrefix
<1> HIDE DEF tag, first, next, e
<1>5. Len(next) = e + Len(tag) /\ \A i \in 1 .. Len(tag) : next[e + i] = tag[i]
  <2>1. /\ Len(first \o tag) = Len(first) + Len(tag)
        /\ \A i \in 1 .. Len(first) + Len(tag) :
             (first \o tag)[i] = IF i <= Len(first) THEN first[i] ELSE tag[i - Len(first)]
    BY <1>1, ConcatProperties
  <2> QED
    BY <1>1, <1>2, <1>3, <2>1
<1>6. \A i \in 1 .. Len(tag) : Flv(5, tags)[e + i] = tag[i]
  BY <1>3, <1>4, <1>5
<1> QED
  BY <1>3, <1>5, <1>6 DEF tag, e

-----------------------------------------------------------------------------
(* What the loop reads.                                                     *)

\* Where a read ends.
UpTo(in, pos, n) == IF pos + n <= Len(in) THEN pos + n ELSE Len(in)

LEMMA Reads ==
  ASSUME NEW in \in Seq(Int), NEW pos \in Nat, NEW n \in Nat, pos <= Len(in)
  PROVE  LET e == UpTo(in, pos, n)
             bytes == ReadBytes(in, pos, n)
         IN  /\ e \in Nat /\ pos <= e /\ e <= Len(in)
             /\ bytes = SubSeq(in, pos + 1, e) /\ bytes \in Seq(Int) /\ Len(bytes) = e - pos
             /\ \A i \in 1 .. Len(bytes) : bytes[i] = in[pos + i]
<1> DEFINE e == UpTo(in, pos, n)
           bytes == ReadBytes(in, pos, n)
<1>1. Len(in) \in Nat /\ \A i \in 1 .. Len(in) : in[i] \in Int
  BY LenProperties, ElementOfSeq
<1>2. e \in Nat /\ pos <= e /\ e <= Len(in)
  BY <1>1 DEF UpTo
<1>3. bytes = SubSeq(in, pos + 1, e)
  BY DEF ReadBytes, UpTo
<1> HIDE DEF e, bytes
<1>4. /\ bytes \in Seq(Int)
      /\ Len(bytes) = IF pos + 1 <= e THEN e - (pos + 1) + 1 ELSE 0
      /\ \A i \in 1 .. e - (pos + 1) + 1 : bytes[i] = in[(pos + 1) + i - 1]
  <2>1. \A i \in pos + 1 .. e : in[i] \in Int
    BY <1>1, <1>2
  <2>2. pos + 1 \in Int /\ e \in Int
    BY <1>2
  <2> QED
    BY <1>3, <2>1, <2>2, SubSeqProperties
<1>5. Len(bytes) = e - pos
  BY <1>2, <1>4
<1>6. ASSUME NEW i \in 1 .. Len(bytes) PROVE bytes[i] = in[pos + i]
  <2>1. i \in 1 .. e - (pos + 1) + 1 /\ (pos + 1) + i - 1 = pos + i
    BY <1>2, <1>5
  <2> QED
    BY <1>4, <2>1
<1> QED
  BY <1>2, <1>3, <1>4, <1>5, <1>6 DEF e, bytes

\* Two reads are one.
LEMMA ReadsOn ==
  ASSUME NEW in \in Seq(Int), NEW pos \in Nat, NEW n \in Nat, NEW m \in Nat, pos <= Len(in)
  PROVE  ReadBytes(in, pos, n) \o ReadBytes(in, pos + Len(ReadBytes(in, pos, n)), m)
            = ReadBytes(in, pos, n + m)
<1> DEFINE a == ReadBytes(in, pos, n)
           k == UpTo(in, pos, n)
           b == ReadBytes(in, k, m)
           e == UpTo(in, pos, n + m)
<1>1. Len(in) \in Nat
  BY LenProperties
<1>2. k \in Nat /\ pos <= k /\ k <= Len(in) /\ a = SubSeq(in, pos + 1, k) /\ Len(a) = k - pos
  BY Reads
<1>3. e \in Nat /\ e <= Len(in) /\ ReadBytes(in, pos, n + m) = SubSeq(in, pos + 1, e)
  BY Reads, n + m \in Nat
<1>4. UpTo(in, k, m) = e /\ k <= e
  BY <1>1 DEF UpTo
<1> HIDE DEF k
<1>5. b = SubSeq(in, k + 1, UpTo(in, k, m))
  BY <1>2, Reads
<1> HIDE DEF a, e, b
<1>6. SubSeq(in, pos + 1, k) \o SubSeq(in, k + 1, e) = SubSeq(in, pos + 1, e)
  <2>1. pos + 1 \in 1 .. Len(in) + 1 /\ k \in (pos + 1) - 1 .. Len(in) /\ e \in k .. Len(in)
    BY <1>1, <1>2, <1>3, <1>4
  <2> QED
    BY <2>1, ConcatAdjacentSubSeq
<1>7. pos + Len(a) = k
  BY <1>2
<1> QED
  BY <1>2, <1>3, <1>4, <1>5, <1>6, <1>7 DEF a, b

\* What a pass reads for a tag whose header is there: as much as the size in it says,
\* and the header and the previous size.
LEMMA TagReadAtOnce ==
  ASSUME NEW in \in Seq(Int), NEW pos \in Nat, pos + 12 <= Len(in),
         NEW size \in Nat, PayloadSize(ReadBytes(in, pos, 12)) = size
  PROVE  TagReads(in, pos) = ReadBytes(in, pos, 15 + size)
<1> DEFINE h == ReadBytes(in, pos, 12)
           b == ReadBytes(in, pos + 12, size)
           r == ReadBytes(in, (pos + 12) + Len(b), 3)
<1>1. Len(in) \in Nat /\ pos <= Len(in) /\ pos + 12 \in Nat /\ pos + 12 <= Len(in)
  <2>1. Len(in) \in Nat
    BY LenProperties
  <2> QED
    BY <2>1
<1>2. h \in Seq(Int) /\ Len(h) = 12
  <2>1. h \in Seq(Int) /\ Len(h) = UpTo(in, pos, 12) - pos
    BY <1>1, 12 \in Nat, Reads
  <2>2. UpTo(in, pos, 12) = pos + 12
    BY <1>1 DEF UpTo
  <2> HIDE DEF h
  <2> QED
    BY <2>1, <2>2
<1>3. b \in Seq(Int) /\ Len(b) \in Nat /\ (pos + 12) + Len(b) <= Len(in)
  <2>1. b \in Seq(Int) /\ Len(b) = UpTo(in, pos + 12, size) - (pos + 12)
        /\ UpTo(in, pos + 12, size) <= Len(in) /\ UpTo(in, pos + 12, size) \in Nat
    BY <1>1, Reads
  <2>2. Len(b) \in Nat
    BY <2>1, LenProperties
  <2> HIDE DEF b
  <2> QED
    BY <1>1, <2>1, <2>2
<1>4. h \o b = ReadBytes(in, pos, 12 + size)
  <2>1. h \o ReadBytes(in, pos + Len(h), size) = ReadBytes(in, pos, 12 + size)
    BY <1>1, 12 \in Nat, ReadsOn, ZenonT(40)
  <2> QED
    BY <1>2, <2>1
<1>5. Len(h \o b) = 12 + Len(b)
  <2> HIDE DEF h, b
  <2>1. Len(h \o b) = Len(h) + Len(b)
    <3>1. h \in Seq(Int) /\ b \in Seq(Int)
      BY <1>2, <1>3
    <3> QED
      BY <3>1, Joined
  <2> QED
    BY <1>2, <2>1
<1>6. (h \o b) \o ReadBytes(in, pos + Len(h \o b), 3) = ReadBytes(in, pos, (12 + size) + 3)
  <2> DEFINE k == 12 + size
             c == ReadBytes(in, pos, k)
  <2>1. k \in Nat /\ 3 \in Nat
    OBVIOUS
  <2>2. h \o b = c
    BY <1>4
  <2> HIDE DEF h, b, k
  <2>3. \A m \in Nat : c \o ReadBytes(in, pos + Len(c), m) = ReadBytes(in, pos, k + m)
    <3>1. pos <= Len(in)
      BY <1>1
    <3>2. k \in Nat
      BY <2>1
    <3> QED
      BY <3>1, <3>2, ReadsOn, ZenonT(40)
  <2> HIDE DEF c
  <2> QED
    BY <2>1, <2>2, <2>3 DEF k
<1>7. pos + Len(h \o b) = (pos + 12) + Len(b) /\ (12 + size) + 3 = 15 + size
  <2> HIDE DEF h, b
  <2> QED
    BY <1>3, <1>5
<1>8. TagReads(in, pos) = (h \o b) \o r
  BY DEF TagReads
<1> HIDE DEF h, b
<1> QED
  BY <1>6, <1>7, <1>8

LEMMA StdinBytes ==
  ASSUME NEW tags \in Seq(Tags), NEW cut \in Nat, cut <= Len(Flv(5, tags))
  PROVE  LET in == SubSeq(Flv(5, tags), 1, cut)
         IN  in \in Seq(Int) /\ Len(in) = cut /\ \A i \in 1 .. cut : in[i] = Flv(5, tags)[i]
<1> DEFINE all == Flv(5, tags)
           in == SubSeq(all, 1, cut)
<1>1. all \in Seq(Int)
  BY FlvBytes, 5 \in Int
<1>2. Len(all) \in Nat /\ \A i \in 1 .. Len(all) : all[i] \in Int
  BY <1>1, LenProperties, ElementOfSeq
<1> HIDE DEF all
<1>3. /\ in \in Seq(Int) /\ Len(in) = IF 1 <= cut THEN cut - 1 + 1 ELSE 0
      /\ \A i \in 1 .. cut - 1 + 1 : in[i] = all[1 + i - 1]
  <2>1. \A i \in 1 .. cut : all[i] \in Int
    BY <1>2 DEF all
  <2> QED
    BY <2>1, SubSeqProperties
<1> QED
  BY <1>3 DEF all

\* What is read behind the end of a tag is the next tag, or as much as there is of it.
LEMMA TagIsRead ==
  ASSUME NEW tags \in Seq(Tags), NEW cut \in Nat, cut <= Len(Flv(5, tags)),
         NEW n \in 0 .. Len(tags), EndOf(tags, n) + 12 <= cut
  PROVE  LET pos == EndOf(tags, n)
             t == TagReads(SubSeq(Flv(5, tags), 1, cut), pos)
         IN  /\ n < Len(tags)
             /\ t \in Seq(Int) /\ Len(t) \in Nat /\ Len(t) >= 12 /\ pos + Len(t) <= cut
             /\ \A i \in 1 .. Len(t) : t[i] = Flv(5, tags)[pos + i]
             /\ t[1] = tags[n + 1].type
             /\ pos + Len(t) = cut \/ pos + Len(t) = EndOf(tags, n + 1)
<1> DEFINE pos == EndOf(tags, n)
           all == Flv(5, tags)
           in == SubSeq(all, 1, cut)
           t == TagReads(in, pos)
           tag == FlvTag(tags[n + 1])
           size == Len(tags[n + 1].payload)
           head == ReadBytes(in, pos, 12)
<1>1. Len(tags) \in Nat
  BY LenProperties
<1>2. n < Len(tags)
  <2> SUFFICES ASSUME n = Len(tags) PROVE FALSE
    BY <1>1
  <2>1. pos = Len(all)
    BY Ends
  <2>2. Len(all) \in Nat
    BY <2>1, UpToEnd
  <2> HIDE DEF all
  <2> QED
    BY <2>1, <2>2 DEF all
<1>3. tags[n + 1] \in Tags
  BY <1>2, FirstTags
<1>4. /\ tag \in Seq(Int) /\ size \in Nat /\ Len(tag) = 15 + size
      /\ tag[1] = tags[n + 1].type /\ PayloadSize(tag) = size
  BY <1>3, TagBytes
<1>5. pos \in Nat
  BY UpToEnd
<1>6. /\ EndOf(tags, n + 1) = pos + Len(tag)
      /\ \A i \in 1 .. Len(tag) : all[pos + i] = tag[i]
  BY <1>2, NextTag
<1>7. in \in Seq(Int) /\ Len(in) = cut /\ \A i \in 1 .. cut : in[i] = all[i]
  BY StdinBytes
<1>8. pos + 12 <= cut
  OBVIOUS
<1> HIDE DEF pos, all, in, tag, size
<1>9. PayloadSize(head) = size
  <2>1. Len(head) = UpTo(in, pos, 12) - pos /\ \A i \in 1 .. Len(head) : head[i] = in[pos + i]
    <3>1. \A k \in Nat : LET r == ReadBytes(in, pos, k)
                         IN  Len(r) = UpTo(in, pos, k) - pos /\ \A i \in 1 .. Len(r) : r[i] = in[pos + i]
      <4>1. pos <= Len(in)
        BY <1>5, <1>7, <1>8
      <4>2. in \in Seq(Int)
        BY <1>7
      <4> QED
        BY <1>5, <4>1, <4>2, Reads
    <3> QED
      BY <3>1, 12 \in Nat
  <2>2. UpTo(in, pos, 12) = pos + 12
    BY <1>5, <1>7, <1>8 DEF UpTo
  <2> HIDE DEF head
  <2>3. Len(head) = 12
    BY <1>5, <2>1, <2>2
  <2>4. \A i \in 2 .. 4 : head[i] = tag[i]
    <3> TAKE i \in 2 .. 4
    <3>1. i \in 1 .. Len(head) /\ pos + i \in 1 .. cut /\ i \in 1 .. Len(tag)
      BY <1>4, <1>5, <1>8, <2>3
    <3> QED
      BY <1>6, <1>7, <2>1, <3>1
  <2>5. head[2] = tag[2] /\ head[3] = tag[3] /\ head[4] = tag[4]
    BY <2>4
  <2> QED
    BY <1>4, <2>5 DEF PayloadSize
<1>10. t = ReadBytes(in, pos, 15 + size)
  <2>1. in \in Seq(Int) /\ pos + 12 <= Len(in)
    BY <1>7, <1>8
  <2> QED
    BY <1>4, <1>5, <1>9, <2>1, TagReadAtOnce
<1>11. /\ t \in Seq(Int) /\ Len(t) = UpTo(in, pos, 15 + size) - pos
       /\ UpTo(in, pos, 15 + size) \in Nat
       /\ \A i \in 1 .. Len(t) : t[i] = in[pos + i]
  <2> DEFINE k == 15 + size
  <2>1. k \in Nat
    BY <1>4
  <2>2. in \in Seq(Int) /\ pos <= Len(in)
    BY <1>5, <1>7, <1>8
  <2>3. t = ReadBytes(in, pos, k)
    BY <1>10
  <2> HIDE DEF k, t
  <2>4. /\ t \in Seq(Int) /\ Len(t) = UpTo(in, pos, k) - pos
        /\ UpTo(in, pos, k) \in Nat
        /\ \A i \in 1 .. Len(t) : t[i] = in[pos + i]
    BY <1>5, <2>1, <2>2, <2>3, Reads
  <2> QED
    BY <2>4 DEF k
<1> HIDE DEF t
<1>12. UpTo(in, pos, 15 + size) = IF pos + (15 + size) <= cut THEN pos + (15 + size) ELSE cut
  BY <1>7 DEF UpTo
<1>13. Len(t) \in Nat /\ Len(t) >= 12 /\ pos + Len(t) <= cut
  <2> DEFINE u == UpTo(in, pos, 15 + size)
             l == Len(t)
  <2>1. l = u - pos /\ u \in Nat
    BY <1>11
  <2>2. u = IF pos + (15 + size) <= cut THEN pos + (15 + size) ELSE cut
    BY <1>12
  <2>3. size \in Nat
    BY <1>4
  <2> HIDE DEF u, l
  <2>4. l \in Nat /\ l >= 12 /\ pos + l <= cut
    BY <1>5, <1>8, <2>1, <2>2, <2>3
  <2> QED
    BY <2>4 DEF l
<1>14. ASSUME NEW i \in 1 .. Len(t) PROVE t[i] = all[pos + i]
  <2>1. pos + i \in 1 .. cut
    BY <1>5, <1>13
  <2> QED
    BY <1>7, <1>11, <2>1
<1>15. t[1] = tags[n + 1].type
  <2>1. 1 \in 1 .. Len(t) /\ 1 \in 1 .. Len(tag)
    BY <1>4, <1>13
  <2> QED
    BY <1>4, <1>6, <1>14, <2>1
<1>16. pos + Len(t) = cut \/ pos + Len(t) = EndOf(tags, n + 1)
  <2>1. EndOf(tags, n + 1) = pos + (15 + size)
    BY <1>4, <1>6
  <2> HIDE DEF pos
  <2> QED
    BY <1>4, <1>5, <1>11, <1>12, <2>1
<1> QED
  BY <1>2, <1>11, <1>13, <1>14, <1>15, <1>16 DEF pos, all, in, t

\* Bytes of the input behind its header are bytes of what is passed on.
LEMMA PassedOn ==
  ASSUME NEW tags \in Seq(Tags), NEW pos \in Nat, pos >= 13, NEW t \in Seq(Int),
         pos + Len(t) <= Len(Flv(5, tags)),
         \A i \in 1 .. Len(t) : t[i] = Flv(5, tags)[pos + i]
  PROVE  SubSeq(Flv(7, tags), 1, pos) \o t = SubSeq(Flv(7, tags), 1, pos + Len(t))
<1> DEFINE all == Flv(7, tags)
           e == pos + Len(t)
           s == SubSeq(all, pos + 1, e)
<1>1. Len(t) \in Nat
  BY LenProperties
<1>2. /\ Len(all) = Len(Flv(5, tags))
      /\ \A i \in 1 .. Len(Flv(5, tags)) : all[i] = IF i = 5 THEN 7 ELSE Flv(5, tags)[i]
  BY FlvFlags
<1>3. all \in Seq(Int)
  BY FlvBytes, 7 \in Int
<1>4. Len(all) \in Nat /\ \A i \in 1 .. Len(all) : all[i] \in Int
  BY <1>3, LenProperties, ElementOfSeq
<1>5. ASSUME NEW i \in 1 .. Len(t) PROVE t[i] = all[pos + i]
  <2>1. pos + i \in 1 .. Len(Flv(5, tags)) /\ pos + i # 5
    BY <1>1, <1>2, <1>4
  <2>2. all[pos + i] = Flv(5, tags)[pos + i]
    BY <1>2, <2>1
  <2> QED
    BY <2>2
<1>6. e \in Nat /\ pos <= e /\ e <= Len(all)
  BY <1>1, <1>2
<1> HIDE DEF all
<1>7. /\ s \in Seq(Int) /\ Len(s) = IF pos + 1 <= e THEN e - (pos + 1) + 1 ELSE 0
      /\ \A i \in 1 .. e - (pos + 1) + 1 : s[i] = all[(pos + 1) + i - 1]
  <2> HIDE DEF e
  <2>1. \A i \in pos + 1 .. e : all[i] \in Int
    BY <1>4, <1>6
  <2>2. pos + 1 \in Int /\ e \in Int
    BY <1>6
  <2> QED
    BY <2>1, <2>2, SubSeqProperties
<1> HIDE DEF s
<1>8. Len(s) = Len(t)
  BY <1>1, <1>7
<1>9. ASSUME NEW i \in 1 .. Len(s) PROVE s[i] = t[i]
  <2>1. i \in 1 .. Len(t) /\ i \in 1 .. e - (pos + 1) + 1 /\ (pos + 1) + i - 1 = pos + i
    BY <1>1, <1>8
  <2> QED
    BY <1>5, <1>7, <2>1
<1>10. s = t
  BY <1>7, <1>8, <1>9, SeqEqual
<1>11. SubSeq(all, 1, pos) \o SubSeq(all, pos + 1, e) = SubSeq(all, 1, e)
  <2>1. 1 \in 1 .. Len(all) + 1 /\ pos \in 1 - 1 .. Len(all) /\ e \in pos .. Len(all)
    BY <1>4, <1>6
  <2> HIDE DEF e
  <2> QED
    BY <1>3, <2>1, ConcatAdjacentSubSeq
<1> QED
  BY <1>10, <1>11 DEF s, all

-----------------------------------------------------------------------------
(* What the loop writes, one chunk after the other.                         *)

Chunks ==
    [kind : {"copy", "trailer", "torn", "onClockSync", "onMpma", "message"},
     bytes : Seq(Int), video : BOOLEAN, value : Int]

Piece(chunk) == IF chunk.kind = "copy" THEN chunk.bytes ELSE <<>>

LEMMA CopiedPieces ==
  ASSUME NEW out \in Seq(Chunks)
  PROVE  /\ Copied(out) = FlattenSeq([i \in 1 .. Len(out) |-> Piece(out[i])])
         /\ [i \in 1 .. Len(out) |-> Piece(out[i])] \in Seq(Seq(Int))
         /\ Copied(out) \in Seq(Int)
<1>1. Copied(out) = FlattenSeq([i \in 1 .. Len(out) |-> Piece(out[i])])
  BY DEF Copied, Piece
<1>2. ASSUME NEW i \in 1 .. Len(out) PROVE Piece(out[i]) \in Seq(Int)
  <2>1. out[i] \in Chunks
    BY ElementOfSeq
  <2>2. out[i].bytes \in Seq(Int)
    BY <2>1 DEF Chunks
  <2>3. <<>> \in Seq(Int)
    BY EmptySeq
  <2> QED
    BY <2>2, <2>3 DEF Piece
<1>3. [i \in 1 .. Len(out) |-> Piece(out[i])] \in Seq(Seq(Int))
  BY <1>2, LenProperties, IsASeq
<1> QED
  BY <1>1, <1>3, FlattenType

\* A chunk adds its bytes to what was copied.
LEMMA CopiedGrows ==
  ASSUME NEW out \in Seq(Chunks), NEW chunk \in Chunks
  PROVE  Copied(Append(out, chunk)) = Copied(out) \o Piece(chunk)
<1> DEFINE ss == [i \in 1 .. Len(out) |-> Piece(out[i])]
           more == Append(out, chunk)
           tt == [i \in 1 .. Len(more) |-> Piece(more[i])]
<1>1. /\ more \in Seq(Chunks) /\ Len(more) = Len(out) + 1 /\ Len(out) \in Nat
      /\ more[Len(out) + 1] = chunk /\ \A i \in 1 .. Len(out) : more[i] = out[i]
  BY AppendProperties, LenProperties
<1>2. ss \in Seq(Seq(Int)) /\ tt \in Seq(Seq(Int))
  BY <1>1, CopiedPieces
<1>3. Len(ss) = Len(out) /\ Len(tt) = Len(out) + 1
  BY <1>1
<1>4. Piece(chunk) \in Seq(Int)
  <2>1. chunk.bytes \in Seq(Int) /\ <<>> \in Seq(Int)
    BY EmptySeq DEF Chunks
  <2> QED
    BY <2>1 DEF Piece
<1> HIDE DEF more
<1>5. tt = Append(ss, Piece(chunk))
  <2>1. /\ Append(ss, Piece(chunk)) \in Seq(Seq(Int))
        /\ Len(Append(ss, Piece(chunk))) = Len(ss) + 1
        /\ \A i \in 1 .. Len(ss) : Append(ss, Piece(chunk))[i] = ss[i]
        /\ Append(ss, Piece(chunk))[Len(ss) + 1] = Piece(chunk)
    BY <1>2, <1>4, AppendProperties
  <2>2. \A i \in 1 .. Len(out) : ss[i] = Piece(out[i])
    OBVIOUS
  <2>3. \A i \in 1 .. Len(out) + 1 : tt[i] = Piece(more[i])
    BY <1>1
  <2>4. ASSUME NEW i \in 1 .. Len(out) + 1 PROVE tt[i] = Append(ss, Piece(chunk))[i]
    <3> HIDE DEF ss, tt
    <3>1. CASE i \in 1 .. Len(out)
      <4>1. tt[i] = Piece(out[i]) /\ ss[i] = Piece(out[i])
        BY <1>1, <2>2, <2>3, <3>1
      <4>2. Append(ss, Piece(chunk))[i] = ss[i]
        BY <1>3, <2>1, <3>1
      <4> QED
        BY <4>1, <4>2
    <3>2. CASE i = Len(out) + 1
      BY <1>1, <1>3, <2>1, <2>3, <3>2
    <3>3. i \in 1 .. Len(out) \/ i = Len(out) + 1
      BY <1>1
    <3> QED
      BY <3>1, <3>2, <3>3
  <2> HIDE DEF ss, tt
  <2> QED
    BY <1>2, <1>3, <2>1, <2>4, SeqEqual
<1> HIDE DEF ss, tt
<1>6. FlattenSeq(tt) = FlattenSeq(ss) \o Piece(chunk)
  BY <1>2, <1>4, <1>5, FlattenOneMore
<1>7. Copied(out) = FlattenSeq(ss) /\ Copied(more) = FlattenSeq(tt)
  BY <1>1, CopiedPieces DEF ss, tt
<1> QED
  BY <1>6, <1>7 DEF more

\* What TrailersFollowTags says of the trailer at i.
Marks(out, i, tags, cut) ==
    LET before == Copied(SubSeq(out, 1, i))
        ends == { n \in 0 .. Len(tags) : before = Flv(7, SubSeq(tags, 1, n)) }
    IN  \/ Len(before) = cut
        \/ \E n \in ends : out[i - 1].kind = "copy" => n > 0 /\ out[i].video = (tags[n].type = 9)

\* The output of a filter that has read up to the position.
Good(out, pos, tags, cut) ==
    /\ out \in Seq(Chunks)
    /\ out # <<>> /\ out[1].kind # "trailer"
    /\ Copied(out) = SubSeq(Flv(7, tags), 1, pos)
    /\ \A i \in Kinds(out, "trailer") : Marks(out, i, tags, cut)

\* Another chunk changes nothing before it.
LEMMA BeforeStays ==
  ASSUME NEW out \in Seq(Chunks), NEW chunk \in Chunks
  PROVE  /\ Append(out, chunk) \in Seq(Chunks) /\ Append(out, chunk) # <<>>
         /\ Len(out) \in Nat /\ Len(Append(out, chunk)) = Len(out) + 1
         /\ Append(out, chunk)[Len(out) + 1] = chunk
         /\ \A i \in 1 .. Len(out) : /\ Append(out, chunk)[i] = out[i]
                                     /\ SubSeq(Append(out, chunk), 1, i) = SubSeq(out, 1, i)
         /\ SubSeq(Append(out, chunk), 1, Len(out) + 1) = Append(out, chunk)
<1> DEFINE more == Append(out, chunk)
           n == Len(out)
<1>1. /\ more \in Seq(Chunks) /\ more # <<>> /\ n \in Nat /\ Len(more) = n + 1
      /\ more[n + 1] = chunk /\ \A i \in 1 .. n : more[i] = out[i]
  BY AppendProperties, LenProperties
<1>2. \A i \in 1 .. n : out[i] \in Chunks
  BY ElementOfSeq
<1> HIDE DEF more, n
<1>4. ASSUME NEW i \in 1 .. n PROVE SubSeq(more, 1, i) = SubSeq(out, 1, i)
  <2>0. i \in Int /\ 1 <= i
    OBVIOUS
  <2>1. /\ SubSeq(out, 1, i) \in Seq(Chunks)
        /\ Len(SubSeq(out, 1, i)) = IF 1 <= i THEN i - 1 + 1 ELSE 0
        /\ \A j \in 1 .. i - 1 + 1 : SubSeq(out, 1, i)[j] = out[1 + j - 1]
    <3>1. \A j \in 1 .. i : out[j] \in Chunks
      BY <1>1, <1>2
    <3> QED
      BY <2>0, <3>1, SubSeqProperties
  <2>2. /\ SubSeq(more, 1, i) \in Seq(Chunks)
        /\ Len(SubSeq(more, 1, i)) = IF 1 <= i THEN i - 1 + 1 ELSE 0
        /\ \A j \in 1 .. i - 1 + 1 : SubSeq(more, 1, i)[j] = more[1 + j - 1]
    <3>1. \A j \in 1 .. i : more[j] \in Chunks
      BY <1>1, <1>2
    <3> QED
      BY <2>0, <3>1, SubSeqProperties
  <2>3. \A j \in 1 .. i : SubSeq(more, 1, i)[j] = SubSeq(out, 1, i)[j]
    <3> TAKE j \in 1 .. i
    <3>1. j \in 1 .. i - 1 + 1 /\ 1 + j - 1 = j /\ j \in 1 .. n
      BY <1>1
    <3> QED
      BY <1>1, <2>1, <2>2, <3>1
  <2> DEFINE a == SubSeq(more, 1, i)
             b == SubSeq(out, 1, i)
  <2>4. a \in Seq(Chunks) /\ b \in Seq(Chunks) /\ Len(a) = i /\ Len(b) = i
    BY <2>0, <2>1, <2>2
  <2>5. \A j \in 1 .. i : a[j] = b[j]
    BY <2>3
  <2> HIDE DEF a, b
  <2>6. a = b
    BY <2>4, <2>5, SeqEqual
  <2> QED
    BY <2>6 DEF a, b
<1>5. SubSeq(more, 1, n + 1) = more
  BY <1>1, SubSeqFull
<1> QED
  BY <1>1, <1>4, <1>5 DEF more, n

LEMMA KindsGrow ==
  ASSUME NEW out \in Seq(Chunks), NEW chunk \in Chunks, NEW kind
  PROVE  Kinds(Append(out, chunk), kind)
            = Kinds(out, kind) \cup (IF chunk.kind = kind THEN {Len(out) + 1} ELSE {})
<1> DEFINE more == Append(out, chunk)
           n == Len(out)
<1>1. /\ more \in Seq(Chunks) /\ n \in Nat /\ Len(more) = n + 1
      /\ more[n + 1] = chunk /\ \A i \in 1 .. n : more[i] = out[i]
  BY AppendProperties, LenProperties
<1>2. DOMAIN out = 1 .. n /\ DOMAIN more = 1 .. n + 1
  BY <1>1, LenProperties
<1> HIDE DEF more, n
<1>3. \A i \in 1 .. n + 1 : i \in 1 .. n \/ i = n + 1
  BY <1>1
<1>4. \A i \in 1 .. n : i \in 1 .. n + 1
  BY <1>1
<1>5. n + 1 \in 1 .. n + 1
  BY <1>1
<1>6. Kinds(more, kind) = Kinds(out, kind) \cup (IF chunk.kind = kind THEN {n + 1} ELSE {})
  BY <1>1, <1>2, <1>3, <1>4, <1>5 DEF Kinds
<1> QED
  BY <1>6 DEF more, n

LEMMA MarksStay ==
  ASSUME NEW out \in Seq(Chunks), NEW chunk \in Chunks, NEW i \in 1 .. Len(out), i # 1,
         NEW tags, NEW cut, Marks(out, i, tags, cut)
  PROVE  Marks(Append(out, chunk), i, tags, cut)
<1> DEFINE more == Append(out, chunk)
<1>1. i \in 1 .. Len(out) /\ i - 1 \in 1 .. Len(out)
  BY LenProperties
<1>2. more[i] = out[i] /\ more[i - 1] = out[i - 1] /\ SubSeq(more, 1, i) = SubSeq(out, 1, i)
  BY <1>1, BeforeStays
<1> HIDE DEF more
<1> QED
  BY <1>2 DEF Marks, more

\* A chunk that is no trailer.
LEMMA AddOther ==
  ASSUME NEW out, NEW pos, NEW tags, NEW cut, Good(out, pos, tags, cut),
         NEW chunk \in Chunks, chunk.kind # "trailer", NEW to,
         SubSeq(Flv(7, tags), 1, pos) \o Piece(chunk) = SubSeq(Flv(7, tags), 1, to)
  PROVE  Good(Append(out, chunk), to, tags, cut)
<1> DEFINE more == Append(out, chunk)
<1>1. out \in Seq(Chunks) /\ out # <<>> /\ out[1].kind # "trailer"
  BY DEF Good
<1>2. Len(out) \in Nat \ {0}
  BY <1>1, EmptySeq, LenProperties
<1>3. 1 \in 1 .. Len(out)
  BY <1>2
<1>4. more \in Seq(Chunks) /\ more # <<>> /\ more[1].kind # "trailer"
  BY <1>1, <1>3, BeforeStays
<1>5. Copied(more) = SubSeq(Flv(7, tags), 1, to)
  BY <1>1, CopiedGrows DEF Good
<1>6. ASSUME NEW i \in Kinds(more, "trailer") PROVE Marks(more, i, tags, cut)
  <2>1. i \in Kinds(out, "trailer")
    BY <1>1, KindsGrow
  <2>2. i \in 1 .. Len(out) /\ i # 1
    BY <1>1, <2>1, LenProperties DEF Kinds
  <2>3. Marks(out, i, tags, cut)
    BY <2>1 DEF Good
  <2> QED
    BY <1>1, <2>2, <2>3, MarksStay
<1> HIDE DEF more
<1> QED
  BY <1>4, <1>5, <1>6 DEF Good, more

\* Where a trailer may be written: where a tag ends, or at the end of the input.
MayMark(out, video, tags, cut) ==
    \/ Len(Copied(out)) = cut
    \/ \E n \in 0 .. Len(tags) :
         /\ Copied(out) = Flv(7, SubSeq(tags, 1, n))
         /\ out[Len(out)].kind = "copy" => n > 0 /\ video = (tags[n].type = 9)

LEMMA AddTrailer ==
  ASSUME NEW out, NEW pos, NEW tags, NEW cut, Good(out, pos, tags, cut),
         NEW chunk \in Chunks, chunk.kind = "trailer", MayMark(out, chunk.video, tags, cut)
  PROVE  Good(Append(out, chunk), pos, tags, cut)
<1> DEFINE more == Append(out, chunk)
           last == Len(out) + 1
<1>1. out \in Seq(Chunks) /\ out # <<>> /\ out[1].kind # "trailer"
  BY DEF Good
<1>2. Len(out) \in Nat \ {0}
  BY <1>1, EmptySeq, LenProperties
<1>3. 1 \in 1 .. Len(out) /\ Len(out) \in 1 .. Len(out) /\ last - 1 = Len(out)
  BY <1>2
<1>4. more \in Seq(Chunks) /\ more # <<>> /\ more[1].kind # "trailer"
  BY <1>1, <1>3, BeforeStays
<1>5. Copied(more) = Copied(out)
  <2>1. Copied(more) = Copied(out) \o Piece(chunk)
    BY <1>1, CopiedGrows
  <2>2. Piece(chunk) = <<>>
    BY DEF Piece
  <2>3. Copied(out) \in Seq(Int)
    BY <1>1, CopiedPieces
  <2>4. Copied(out) \o <<>> = Copied(out)
    BY <2>3, ConcatEmptySeq
  <2> QED
    BY <2>1, <2>2, <2>4
<1>6. Marks(more, last, tags, cut)
  <2>1. SubSeq(more, 1, last) = more /\ more[last] = chunk
    BY <1>1, BeforeStays
  <2>2. more[last - 1] = out[Len(out)]
    BY <1>1, <1>3, BeforeStays
  <2> HIDE DEF more, last
  <2> QED
    BY <1>5, <2>1, <2>2 DEF Marks, MayMark
<1>7. ASSUME NEW i \in Kinds(more, "trailer") PROVE Marks(more, i, tags, cut)
  <2>1. i \in Kinds(out, "trailer") \/ i = last
    BY <1>1, KindsGrow
  <2>2. ASSUME i \in Kinds(out, "trailer") PROVE Marks(more, i, tags, cut)
    <3>1. i \in 1 .. Len(out) /\ i # 1
      BY <1>1, <2>2, LenProperties DEF Kinds
    <3>2. Marks(out, i, tags, cut)
      BY <2>2 DEF Good
    <3> QED
      BY <1>1, <3>1, <3>2, MarksStay
  <2> QED
    BY <1>6, <2>1, <2>2
<1>8. Copied(out) = SubSeq(Flv(7, tags), 1, pos)
  BY DEF Good
<1> HIDE DEF more
<1> QED
  BY <1>4, <1>5, <1>7, <1>8 DEF Good, more

LEMMA CopyChunk ==
  ASSUME NEW bytes \in Seq(Int)
  PROVE  Copy(bytes) \in Chunks /\ Copy(bytes).kind = "copy" /\ Piece(Copy(bytes)) = bytes
<1> DEFINE c == Copy(bytes)
<1>1. c.kind = "copy" /\ c.bytes = bytes
  BY DEF Copy
<1>2. c \in Chunks
  BY DEF Copy, Chunks
<1> HIDE DEF c
<1>3. Piece(c) = bytes
  BY <1>1 DEF Piece
<1> QED
  BY <1>1, <1>2, <1>3 DEF c

LEMMA ScriptChunk ==
  ASSUME NEW name \in {"onClockSync", "onMpma", "message"}, NEW timestamp \in Int
  PROVE  /\ Script(name, timestamp) \in Chunks /\ Script(name, timestamp).kind = name
         /\ Piece(Script(name, timestamp)) = <<>>
<1>1. <<>> \in Seq(Int)
  BY EmptySeq
<1> DEFINE c == Script(name, timestamp)
<1>2. c.kind = name /\ name # "copy"
  BY DEF Script
<1>3. c \in Chunks
  BY <1>1 DEF Script, Chunks
<1> HIDE DEF c
<1>4. Piece(c) = <<>>
  BY <1>2 DEF Piece
<1> QED
  BY <1>2, <1>3, <1>4 DEF c

LEMMA TrailerChunk ==
  ASSUME NEW video \in BOOLEAN, NEW elapsed \in Int
  PROVE  /\ Trailer(video, elapsed) \in Chunks /\ Trailer(video, elapsed).video = video
         /\ Trailer(video, elapsed).kind = IF Fits(elapsed) THEN "trailer" ELSE "torn"
         /\ Piece(Trailer(video, elapsed)) = <<>>
<1>1. <<>> \in Seq(Int)
  BY EmptySeq
<1>2. elapsed * TrailerRate \in Int
  BY ClockSyncAssumption
<1> DEFINE c == Trailer(video, elapsed)
           k == IF Fits(elapsed) THEN "trailer" ELSE "torn"
<1>3. k \in {"trailer", "torn"}
  OBVIOUS
<1>4. c = [kind |-> k, bytes |-> <<>>, video |-> video, value |-> elapsed * TrailerRate]
  BY DEF Trailer
<1> HIDE DEF k, c
<1>5. c.kind = k /\ c.video = video
  BY <1>4
<1>6. c \in Chunks
  BY <1>1, <1>2, <1>3, <1>4 DEF Chunks
<1>7. Piece(c) = <<>>
  BY <1>3, <1>5 DEF Piece
<1> QED
  BY <1>5, <1>6, <1>7 DEF c, k

LEMMA TimestampType ==
  ASSUME NEW tag \in Seq(Int), NEW n \in Nat, Len(tag) = n, n >= 12
  PROVE  Timestamp(tag) \in Int
<1>1. \A i \in 5 .. 8 : tag[i] \in Int
  BY ElementOfSeq
<1>2. tag[5] \in Int /\ tag[6] \in Int /\ tag[7] \in Int /\ tag[8] \in Int
  BY <1>1
<1> QED
  BY <1>2, SMTT(30) DEF Timestamp

LEMMA Pair ==
  ASSUME NEW out \in Seq(Chunks), NEW a \in Chunks, NEW b \in Chunks
  PROVE  <<a, b>> \in Seq(Chunks) /\ out \o <<a, b>> = Append(Append(out, a), b)
<1>1. <<a, b>> \in Seq(Chunks) /\ <<a>> \in Seq(Chunks) /\ <<b>> \in Seq(Chunks)
  OBVIOUS
<1>2. <<a>> \o <<b>> = <<a, b>>
  <2> DEFINE s == <<a>>
             t == <<b>>
             p == <<a, b>>
  <2>1. /\ s \o t \in Seq(Chunks) /\ Len(s \o t) = Len(s) + Len(t)
        /\ \A i \in 1 .. Len(s) + Len(t) : (s \o t)[i] = IF i <= Len(s) THEN s[i] ELSE t[i - Len(s)]
    <3>1. s \in Seq(Chunks) /\ t \in Seq(Chunks)
      BY <1>1
    <3> HIDE DEF s, t
    <3> QED
      BY <3>1, ConcatProperties
  <2>2. /\ Len(s) = 1 /\ Len(t) = 1 /\ s[1] = a /\ t[1] = b
        /\ Len(p) = 2 /\ p[1] = a /\ p[2] = b /\ p \in Seq(Chunks)
    BY <1>1
  <2> HIDE DEF s, t, p
  <2> DEFINE j == s \o t
  <2>3. j \in Seq(Chunks) /\ Len(j) = 2 /\ j[1] = a /\ j[2] = b
    BY <2>1, <2>2
  <2> HIDE DEF j
  <2>4. \A i \in 1 .. 2 : j[i] = p[i]
    <3> TAKE i \in 1 .. 2
    <3>1. i = 1 \/ i = 2
      OBVIOUS
    <3> QED
      BY <2>2, <2>3, <3>1
  <2>5. j = p
    BY <2>2, <2>3, <2>4, SeqEqual
  <2> QED
    BY <2>5 DEF j, s, t, p
<1>3. (out \o <<a>>) \o <<b>> = out \o (<<a>> \o <<b>>)
  BY <1>1, ConcatAssociative
<1>4. Append(out, a) = out \o <<a>> /\ Append(out, a) \in Seq(Chunks)
  BY AppendIsConcat, AppendProperties
<1>5. Append(Append(out, a), b) = Append(out, a) \o <<b>>
  BY <1>4, AppendIsConcat
<1> QED
  BY <1>1, <1>2, <1>3, <1>4, <1>5

\* A trailer, or what is written of one that cannot be.
LEMMA AddMark ==
  ASSUME NEW out, NEW pos, NEW tags, NEW cut, Good(out, pos, tags, cut),
         Kinds(out, "torn") = {}, NEW video \in BOOLEAN, NEW elapsed \in Int,
         MayMark(out, video, tags, cut)
  PROVE  LET new == Append(out, Trailer(video, elapsed))
         IN  /\ Good(new, pos, tags, cut) /\ Copied(new) = Copied(out)
             /\ Kinds(new, "torn") = IF Fits(elapsed) THEN {} ELSE {Len(new)}
<1> DEFINE chunk == Trailer(video, elapsed)
           new == Append(out, chunk)
<1>1. out \in Seq(Chunks) /\ Copied(out) = SubSeq(Flv(7, tags), 1, pos)
  BY DEF Good
<1>2. /\ chunk \in Chunks /\ chunk.video = video /\ Piece(chunk) = <<>>
      /\ chunk.kind = IF Fits(elapsed) THEN "trailer" ELSE "torn"
  BY TrailerChunk
<1> HIDE DEF chunk
<1>3. Copied(new) = Copied(out) /\ Copied(out) \o <<>> = Copied(out)
  <2>1. Copied(out) \in Seq(Int)
    BY <1>1, CopiedPieces
  <2>2. Copied(out) \o <<>> = Copied(out)
    BY <2>1, ConcatEmptySeq
  <2>3. Copied(new) = Copied(out) \o <<>>
    BY <1>1, <1>2, CopiedGrows
  <2> QED
    BY <2>2, <2>3
<1>4. Kinds(new, "torn") = IF Fits(elapsed) THEN {} ELSE {Len(new)}
  BY <1>1, <1>2, BeforeStays, KindsGrow
<1>5. CASE Fits(elapsed)
  BY <1>2, <1>3, <1>4, <1>5, AddTrailer DEF chunk
<1>6. CASE ~Fits(elapsed)
  <2>1. SubSeq(Flv(7, tags), 1, pos) \o Piece(chunk) = SubSeq(Flv(7, tags), 1, pos)
    BY <1>1, <1>2, <1>3
  <2>2. chunk.kind # "trailer"
    BY <1>2, <1>6
  <2>3. Good(new, pos, tags, cut)
    BY <1>2, <2>1, <2>2, AddOther
  <2> QED
    BY <1>3, <1>4, <2>3 DEF chunk
<1> QED
  BY <1>5, <1>6

\* What a pass writes: a script tag and its trailer, a tag and its trailer; and what is
\* true of an output that ends with a trailer, or with what is written of one.
SyncChunks(name, timestamp, elapsed) == <<Script(name, timestamp), Trailer(FALSE, elapsed)>>

TagChunks(t, elapsed) == <<Copy(t), Trailer(t[1] = 9, elapsed)>>

Marked(new, pos, tags, cut, elapsed) ==
    /\ Good(new, pos, tags, cut)
    /\ Kinds(new, "torn") = IF Fits(elapsed) THEN {} ELSE {Len(new)}

\* A script tag and its trailer, where a tag ends.
LEMMA AddSync ==
  ASSUME NEW out, NEW pos, NEW tags, NEW cut, Good(out, pos, tags, cut),
         Kinds(out, "torn") = {}, NEW elapsed \in Int,
         NEW name \in {"onClockSync", "onMpma"}, NEW timestamp \in Int,
         NEW n \in 0 .. Len(tags), Copied(out) = Flv(7, SubSeq(tags, 1, n))
  PROVE  /\ SyncChunks(name, timestamp, elapsed) \in Seq(Chunks)
         /\ Marked(out \o SyncChunks(name, timestamp, elapsed), pos, tags, cut, elapsed)
<1> DEFINE a == Script(name, timestamp)
           b == Trailer(FALSE, elapsed)
           mid == Append(out, a)
<1>1. out \in Seq(Chunks) /\ Copied(out) = SubSeq(Flv(7, tags), 1, pos)
  BY DEF Good
<1>2. a \in Chunks /\ a.kind = name /\ Piece(a) = <<>>
  BY ScriptChunk
<1>3. b \in Chunks
  BY TrailerChunk
<1> HIDE DEF a
<1>4. Copied(out) \o <<>> = Copied(out)
  BY <1>1, CopiedPieces, ConcatEmptySeq
<1>5. Good(mid, pos, tags, cut)
  <2>1. SubSeq(Flv(7, tags), 1, pos) \o Piece(a) = SubSeq(Flv(7, tags), 1, pos)
    BY <1>1, <1>2, <1>4
  <2>2. a.kind # "trailer"
    BY <1>2
  <2> QED
    BY <1>2, <2>1, <2>2, AddOther
<1>6. Copied(mid) = Copied(out)
  BY <1>1, <1>2, <1>4, CopiedGrows
<1>7. Kinds(mid, "torn") = {} /\ mid[Len(mid)].kind # "copy"
  <2>1. Len(mid) = Len(out) + 1 /\ mid[Len(out) + 1] = a
    BY <1>1, <1>2, BeforeStays
  <2>2. Kinds(mid, "torn") = Kinds(out, "torn") \cup (IF a.kind = "torn" THEN {Len(out) + 1} ELSE {})
    BY <1>1, <1>2, KindsGrow
  <2> HIDE DEF mid
  <2> QED
    BY <1>2, <2>1, <2>2
<1> HIDE DEF mid
<1> DEFINE new == Append(mid, b)
<1>8. MayMark(mid, FALSE, tags, cut)
  BY <1>6, <1>7 DEF MayMark
<1>9. /\ Good(new, pos, tags, cut) /\ Copied(new) = Copied(mid)
      /\ Kinds(new, "torn") = IF Fits(elapsed) THEN {} ELSE {Len(new)}
  <2> DEFINE v == FALSE
  <2>1. v \in BOOLEAN /\ MayMark(mid, v, tags, cut)
    BY <1>8
  <2> HIDE DEF v
  <2>2. LET more == Append(mid, Trailer(v, elapsed))
        IN  /\ Good(more, pos, tags, cut) /\ Copied(more) = Copied(mid)
            /\ Kinds(more, "torn") = IF Fits(elapsed) THEN {} ELSE {Len(more)}
    BY <1>5, <1>7, <2>1, AddMark
  <2> QED
    BY <2>2 DEF v
<1>10. <<a, b>> \in Seq(Chunks) /\ out \o <<a, b>> = new
  BY <1>1, <1>2, <1>3, Pair DEF mid
<1> HIDE DEF new, b
<1> QED
  BY <1>6, <1>9, <1>10 DEF a, b, SyncChunks, Marked

\* A tag that was read up to its end, or to that of the input.
WasRead(t, to, tags, cut) ==
    \/ Len(SubSeq(Flv(7, tags), 1, to)) = cut
    \/ \E n \in 1 .. Len(tags) :
         SubSeq(Flv(7, tags), 1, to) = Flv(7, SubSeq(tags, 1, n)) /\ t[1] = tags[n].type

\* A tag, or as much as there is of it, and its trailer.
LEMMA AddTag ==
  ASSUME NEW out, NEW pos, NEW tags, NEW cut, Good(out, pos, tags, cut),
         Kinds(out, "torn") = {}, NEW elapsed \in Int, NEW t \in Seq(Int), NEW to,
         SubSeq(Flv(7, tags), 1, pos) \o t = SubSeq(Flv(7, tags), 1, to),
         WasRead(t, to, tags, cut)
  PROVE  /\ TagChunks(t, elapsed) \in Seq(Chunks)
         /\ Marked(out \o TagChunks(t, elapsed), to, tags, cut, elapsed)
<1> DEFINE a == Copy(t)
           v == (t[1] = 9)
           b == Trailer(v, elapsed)
           mid == Append(out, a)
<1>0. v \in BOOLEAN
  OBVIOUS
<1> HIDE DEF v
<1>1. out \in Seq(Chunks) /\ Copied(out) = SubSeq(Flv(7, tags), 1, pos)
  BY DEF Good
<1>2. a \in Chunks /\ a.kind = "copy" /\ Piece(a) = t
  BY CopyChunk
<1>3. b \in Chunks
  BY <1>0, TrailerChunk
<1> HIDE DEF a
<1>4. Good(mid, to, tags, cut)
  BY <1>2, AddOther
<1>5. Copied(mid) = SubSeq(Flv(7, tags), 1, to)
  BY <1>4 DEF Good
<1>6. Kinds(mid, "torn") = {}
  <2>1. Kinds(mid, "torn") = Kinds(out, "torn") \cup (IF a.kind = "torn" THEN {Len(out) + 1} ELSE {})
    BY <1>1, <1>2, KindsGrow
  <2> QED
    BY <1>2, <2>1
<1> HIDE DEF mid
<1>7. MayMark(mid, v, tags, cut)
  <2>1. CASE Len(SubSeq(Flv(7, tags), 1, to)) = cut
    BY <1>5, <2>1 DEF MayMark
  <2>2. ASSUME NEW n \in 1 .. Len(tags),
               SubSeq(Flv(7, tags), 1, to) = Flv(7, SubSeq(tags, 1, n)), t[1] = tags[n].type
        PROVE  MayMark(mid, v, tags, cut)
    <3>1. n \in 0 .. Len(tags) /\ n > 0
      OBVIOUS
    <3>2. v = (tags[n].type = 9)
      BY <2>2 DEF v
    <3> QED
      BY <1>5, <2>2, <3>1, <3>2 DEF MayMark
  <2> QED
    BY <2>1, <2>2 DEF WasRead
<1> DEFINE new == Append(mid, b)
<1>8. /\ Good(new, to, tags, cut) /\ Copied(new) = Copied(mid)
      /\ Kinds(new, "torn") = IF Fits(elapsed) THEN {} ELSE {Len(new)}
  BY <1>0, <1>4, <1>6, <1>7, AddMark
<1>9. <<a, b>> \in Seq(Chunks) /\ out \o <<a, b>> = new
  BY <1>1, <1>2, <1>3, Pair DEF mid
<1> HIDE DEF new, b
<1> QED
  BY <1>8, <1>9 DEF a, b, v, TagChunks, Marked

-----------------------------------------------------------------------------
(* The invariant of the filter.                                             *)

\* Where the loop may stand between two passes.
Between(tags, cut, pos) == pos = cut \/ \E n \in 0 .. Len(tags) : pos = EndOf(tags, n)

\* The pass that copies a tag.
LEMMA TagPassed ==
  ASSUME NEW tags \in Seq(Tags), NEW cut \in Nat, cut <= Len(Flv(5, tags)),
         NEW n \in 0 .. Len(tags), NEW pos, pos = EndOf(tags, n), pos + 12 <= cut,
         NEW out, Good(out, pos, tags, cut), Kinds(out, "torn") = {}, NEW elapsed \in Int,
         NEW t, t = TagReads(SubSeq(Flv(5, tags), 1, cut), pos)
  PROVE  LET to == pos + Len(t)
         IN  /\ TagChunks(t, elapsed) \in Seq(Chunks)
             /\ to \in Nat /\ to >= 13 /\ to <= cut /\ Between(tags, cut, to)
             /\ Marked(out \o TagChunks(t, elapsed), to, tags, cut, elapsed)
<1> DEFINE to == pos + Len(t)
<1>1. /\ n < Len(tags) /\ t \in Seq(Int) /\ Len(t) \in Nat /\ to <= cut
      /\ \A i \in 1 .. Len(t) : t[i] = Flv(5, tags)[pos + i]
      /\ t[1] = tags[n + 1].type
      /\ to = cut \/ to = EndOf(tags, n + 1)
  BY TagIsRead
<1>2. pos \in Nat /\ pos >= 13
  BY UpToEnd
<1>3. n + 1 \in 1 .. Len(tags) /\ n + 1 \in 0 .. Len(tags)
  <2>1. Len(tags) \in Nat
    BY LenProperties
  <2> QED
    BY <1>1, <2>1
<1>4. to \in Nat /\ to >= 13
  BY <1>1, <1>2
<1>5. Len(Flv(5, tags)) \in Nat
  BY FlvBytes, 5 \in Int, LenProperties
<1>6. SubSeq(Flv(7, tags), 1, pos) \o t = SubSeq(Flv(7, tags), 1, to)
  <2>1. pos + Len(t) <= Len(Flv(5, tags))
    BY <1>1, <1>4, <1>5
  <2> QED
    BY <1>1, <1>2, <2>1, PassedOn
<1>7. WasRead(t, to, tags, cut)
  <2>1. CASE to = cut
    <3> DEFINE all == Flv(7, tags)
    <3>1. all \in Seq(Int) /\ Len(all) = Len(Flv(5, tags))
      BY FlvFlags, FlvBytes, 7 \in Int
    <3>2. Len(all) \in Nat /\ \A i \in 1 .. Len(all) : all[i] \in Int
      BY <3>1, LenProperties, ElementOfSeq
    <3> HIDE DEF all
    <3>3. \A i \in 1 .. cut : all[i] \in Int
      BY <3>1, <3>2
    <3>4. Len(SubSeq(all, 1, cut)) = IF 1 <= cut THEN cut - 1 + 1 ELSE 0
      BY <3>3, SubSeqProperties
    <3>5. Len(SubSeq(all, 1, cut)) = cut
      BY <3>4
    <3> QED
      BY <2>1, <3>5 DEF all, WasRead
  <2>2. CASE to = EndOf(tags, n + 1)
    <3>1. SubSeq(Flv(7, tags), 1, to) = Flv(7, SubSeq(tags, 1, n + 1))
      BY <1>3, <2>2, UpToEnd
    <3> QED
      BY <1>1, <1>3, <3>1 DEF WasRead
  <2> QED
    BY <1>1, <2>1, <2>2
<1>8. Between(tags, cut, to)
  BY <1>1, <1>3 DEF Between
<1> HIDE DEF to
<1>9. /\ TagChunks(t, elapsed) \in Seq(Chunks)
      /\ Marked(out \o TagChunks(t, elapsed), to, tags, cut, elapsed)
  <2>1. t \in Seq(Int)
    BY <1>1
  <2> QED
    BY <1>6, <1>7, <2>1, AddTag
<1>10. to <= cut
  BY <1>1 DEF to
<1> QED
  BY <1>4, <1>8, <1>9, <1>10 DEF to

\* The two script tags before it, when the time fits.
LEMMA Synced ==
  ASSUME NEW tags \in Seq(Tags), NEW cut \in Nat, NEW n \in 0 .. Len(tags),
         NEW out, Good(out, EndOf(tags, n), tags, cut), Kinds(out, "torn") = {},
         NEW elapsed \in Int, NEW timestamp \in Int
  PROVE  LET pos == EndOf(tags, n)
             sync == SyncChunks("onClockSync", timestamp, elapsed)
             mpma == SyncChunks("onMpma", 0, elapsed)
         IN  /\ sync \in Seq(Chunks) /\ mpma \in Seq(Chunks)
             /\ Marked(out \o sync, pos, tags, cut, elapsed)
             /\ Fits(elapsed) => /\ Good((out \o sync) \o mpma, pos, tags, cut)
                                 /\ Kinds((out \o sync) \o mpma, "torn") = {}
<1> DEFINE pos == EndOf(tags, n)
           zero == 0
           first == "onClockSync"
           second == "onMpma"
           sync == SyncChunks(first, timestamp, elapsed)
           mpma == SyncChunks(second, zero, elapsed)
           mid == out \o sync
           new == mid \o mpma
<1>1. out \in Seq(Chunks) /\ Copied(out) = Flv(7, SubSeq(tags, 1, n))
  BY UpToEnd DEF Good
<1>2. /\ zero \in Int /\ Good(out, pos, tags, cut)
      /\ first \in {"onClockSync", "onMpma"} /\ second \in {"onClockSync", "onMpma"}
  OBVIOUS
<1> HIDE DEF pos, zero, first, second
<1>3. /\ sync \in Seq(Chunks) /\ Marked(mid, pos, tags, cut, elapsed)
      /\ Copied(mid) = Flv(7, SubSeq(tags, 1, n))
  <2>1. sync \in Seq(Chunks)
    BY <1>1, <1>2, AddSync
  <2>2. Marked(mid, pos, tags, cut, elapsed)
    BY <1>1, <1>2, AddSync
  <2>3. Copied(mid) = Flv(7, SubSeq(tags, 1, n))
    BY <1>1, <1>2, <2>2 DEF Marked, Good
  <2> QED
    BY <2>1, <2>2, <2>3
<1>4. mpma \in Seq(Chunks)
  BY <1>1, <1>2, AddSync
<1> HIDE DEF mid, sync
<1>5. ASSUME Fits(elapsed)
      PROVE  Good(new, pos, tags, cut) /\ Kinds(new, "torn") = {}
  <2>1. Good(mid, pos, tags, cut) /\ Kinds(mid, "torn") = {}
    BY <1>3, <1>5 DEF Marked
  <2>2. Marked(new, pos, tags, cut, elapsed)
    BY <1>2, <1>3, <2>1, AddSync
  <2> QED
    BY <1>5, <2>2 DEF Marked
<1> HIDE DEF mpma, new
<1> QED
  BY <1>3, <1>4, <1>5 DEF mid, sync, mpma, new, pos, zero, first, second

LEMMA Regrouped ==
  ASSUME NEW a \in Seq(Chunks), NEW b \in Seq(Chunks), NEW c \in Seq(Chunks),
         NEW d \in Seq(Chunks)
  PROVE  a \o ((b \o c) \o d) = ((a \o b) \o c) \o d
<1>1. b \o c \in Seq(Chunks)
  BY ConcatProperties
<1>2. a \o ((b \o c) \o d) = (a \o (b \o c)) \o d
  BY <1>1, ConcatAssociative
<1>3. a \o (b \o c) = (a \o b) \o c
  BY ConcatAssociative, SMTT(30)
<1> QED
  BY <1>2, <1>3

\* A pass of the loop with a tag: what it writes of it, a clock sync before it, or the
\* half of a clock sync whose time does not fit.
LEMMA PassWrites ==
  ASSUME NEW tags \in Seq(Tags), NEW cut \in Nat, cut <= Len(Flv(5, tags)),
         NEW pos \in Nat, Between(tags, cut, pos), pos + 12 <= cut, pos >= 13,
         NEW out, Good(out, pos, tags, cut), Kinds(out, "torn") = {}, NEW elapsed \in Int,
         NEW t, t = TagReads(SubSeq(Flv(5, tags), 1, cut), pos), NEW due \in BOOLEAN
  PROVE  LET to == IF due /\ ~Fits(elapsed) THEN pos ELSE pos + Len(t)
         IN  /\ to \in Nat /\ to >= 13 /\ to <= cut /\ Between(tags, cut, to)
             /\ Marked(out \o Written(t, due, elapsed), to, tags, cut, elapsed)
<1> DEFINE sync == SyncChunks("onClockSync", Timestamp(t), elapsed)
           mpma == SyncChunks("onMpma", 0, elapsed)
           passed == TagChunks(t, elapsed)
           w == Written(t, due, elapsed)
<1>1. PICK n \in 0 .. Len(tags) : pos = EndOf(tags, n)
  BY DEF Between
<1>2. t \in Seq(Int) /\ Len(t) \in Nat /\ Len(t) >= 12
  BY <1>1, TagIsRead
<1>3. Timestamp(t) \in Int
  BY <1>2, TimestampType
<1>4. /\ passed \in Seq(Chunks)
      /\ pos + Len(t) \in Nat /\ pos + Len(t) >= 13 /\ pos + Len(t) <= cut
      /\ Between(tags, cut, pos + Len(t))
      /\ Marked(out \o passed, pos + Len(t), tags, cut, elapsed)
  BY <1>1, TagPassed
<1>5. /\ sync \in Seq(Chunks) /\ mpma \in Seq(Chunks)
      /\ Marked(out \o sync, pos, tags, cut, elapsed)
      /\ Fits(elapsed) => /\ Good((out \o sync) \o mpma, pos, tags, cut)
                          /\ Kinds((out \o sync) \o mpma, "torn") = {}
  BY <1>1, <1>3, Synced
<1>6. w = IF ~due THEN passed ELSE IF ~Fits(elapsed) THEN sync ELSE (sync \o mpma) \o passed
  BY DEF Written, SyncChunks, TagChunks
<1> HIDE DEF sync, mpma, passed, w
<1>7. CASE ~due
  BY <1>4, <1>6, <1>7 DEF w
<1>8. CASE due /\ ~Fits(elapsed)
  <2>1. w = sync
    BY <1>6, <1>8
  <2>2. pos \in Nat /\ pos <= cut
    OBVIOUS
  <2> QED
    BY <1>5, <1>8, <2>1, <2>2 DEF w
<1>9. CASE due /\ Fits(elapsed)
  <2> DEFINE o == (out \o sync) \o mpma
  <2>1. w = (sync \o mpma) \o passed
    BY <1>6, <1>9
  <2>2. Good(o, pos, tags, cut) /\ Kinds(o, "torn") = {}
    BY <1>5, <1>9
  <2>3. out \in Seq(Chunks)
    BY DEF Good
  <2>4. out \o w = o \o passed
    <3>1. sync \in Seq(Chunks) /\ mpma \in Seq(Chunks) /\ passed \in Seq(Chunks)
      BY <1>4, <1>5
    <3>2. out \o ((sync \o mpma) \o passed) = ((out \o sync) \o mpma) \o passed
      BY ONLY <2>3, <3>1, Regrouped, SMTT(30)
    <3> QED
      BY <2>1, <3>2
  <2> HIDE DEF o
  <2>5. Marked(o \o passed, pos + Len(t), tags, cut, elapsed)
    BY <1>1, <2>2, TagPassed DEF passed
  <2> QED
    BY <1>4, <1>9, <2>4, <2>5 DEF w
<1> QED
  BY <1>7, <1>8, <1>9

\* The end of the input: what is left of it is passed on.
LEMMA RestPassed ==
  ASSUME NEW tags \in Seq(Tags), NEW cut \in Nat, cut <= Len(Flv(5, tags)),
         NEW pos \in Nat, pos >= 13, pos <= cut, pos + 12 > cut,
         NEW out, Good(out, pos, tags, cut), Kinds(out, "torn") = {},
         NEW rest, rest = LastBytes(SubSeq(Flv(5, tags), 1, cut), pos)
  PROVE  /\ Good(Append(out, Copy(rest)), cut, tags, cut)
         /\ Kinds(Append(out, Copy(rest)), "torn") = {}
<1> DEFINE in == SubSeq(Flv(5, tags), 1, cut)
<1>1. in \in Seq(Int) /\ Len(in) = cut /\ \A i \in 1 .. cut : in[i] = Flv(5, tags)[i]
  BY StdinBytes
<1> HIDE DEF in
<1>2. /\ rest \in Seq(Int) /\ Len(rest) = UpTo(in, pos, 12) - pos
      /\ \A i \in 1 .. Len(rest) : rest[i] = in[pos + i]
  <2>1. rest = ReadBytes(in, pos, 12) /\ 12 \in Nat
    BY DEF LastBytes, in
  <2>2. \A k \in Nat : LET r == ReadBytes(in, pos, k)
                       IN  /\ r \in Seq(Int) /\ Len(r) = UpTo(in, pos, k) - pos
                           /\ \A i \in 1 .. Len(r) : r[i] = in[pos + i]
    <3>1. in \in Seq(Int) /\ pos <= Len(in)
      BY <1>1
    <3> QED
      BY <3>1, Reads
  <2> QED
    BY <2>1, <2>2
<1>3. UpTo(in, pos, 12) = cut
  BY <1>1 DEF UpTo
<1>4. pos + Len(rest) = cut
  <2> DEFINE l == Len(rest)
  <2>1. l = cut - pos
    BY <1>2, <1>3
  <2> HIDE DEF l
  <2>2. pos + l = cut
    BY <2>1
  <2> QED
    BY <2>2 DEF l
<1>5. \A i \in 1 .. Len(rest) : rest[i] = Flv(5, tags)[pos + i]
  <2> TAKE i \in 1 .. Len(rest)
  <2>1. pos + i \in 1 .. cut
    BY <1>2, <1>3, <1>4
  <2> QED
    BY <1>1, <1>2, <2>1
<1>6. SubSeq(Flv(7, tags), 1, pos) \o rest = SubSeq(Flv(7, tags), 1, cut)
  <2>1. rest \in Seq(Int) /\ pos + Len(rest) <= Len(Flv(5, tags))
    BY <1>2, <1>4
  <2>2. SubSeq(Flv(7, tags), 1, pos) \o rest = SubSeq(Flv(7, tags), 1, pos + Len(rest))
    BY <1>5, <2>1, PassedOn
  <2> QED
    BY <1>4, <2>2
<1> DEFINE c == Copy(rest)
<1>7. c \in Chunks /\ c.kind = "copy" /\ Piece(c) = rest
  BY <1>2, CopyChunk
<1> HIDE DEF c
<1>8. Good(Append(out, c), cut, tags, cut)
  BY <1>6, <1>7, AddOther
<1>9. Kinds(Append(out, c), "torn") = {}
  <2>1. out \in Seq(Chunks)
    BY DEF Good
  <2>2. Kinds(Append(out, c), "torn")
          = Kinds(out, "torn") \cup (IF c.kind = "torn" THEN {Len(out) + 1} ELSE {})
    BY <1>7, <2>1, KindsGrow
  <2> QED
    BY <1>7, <2>2
<1> QED
  BY <1>8, <1>9 DEF c

\* A read of as many bytes as there are.
LEMMA ReadsAll ==
  ASSUME NEW in \in Seq(Int), NEW pos \in Nat, NEW n \in Nat, pos + n <= Len(in)
  PROVE  /\ ReadBytes(in, pos, n) \in Seq(Int) /\ Len(ReadBytes(in, pos, n)) = n
         /\ \A i \in 1 .. n : ReadBytes(in, pos, n)[i] = in[pos + i]
<1> DEFINE r == ReadBytes(in, pos, n)
<1>1. pos <= Len(in)
  BY LenProperties
<1>2. UpTo(in, pos, n) = pos + n
  BY DEF UpTo
<1>3. /\ r \in Seq(Int) /\ Len(r) = UpTo(in, pos, n) - pos
      /\ \A i \in 1 .. Len(r) : r[i] = in[pos + i]
  BY <1>1, Reads
<1> HIDE DEF r
<1>4. Len(r) = n
  BY <1>2, <1>3
<1> QED
  BY <1>3, <1>4 DEF r

\* The header is read in two parts around its flags, and its signature is looked at.
LEMMA HeaderRead ==
  ASSUME NEW tags \in Seq(Tags), NEW cut \in Nat, cut <= Len(Flv(5, tags)), cut >= 13
  PROVE  LET in == SubSeq(Flv(5, tags), 1, cut)
             head == ReadBytes(in, 0, 4) \o <<7>> \o ReadBytes(in, 5, 8)
         IN  /\ ReadBytes(in, 0, 3) = <<70, 76, 86>>
             /\ head \in Seq(Int) /\ Len(head) = 13 /\ head = SubSeq(Flv(7, tags), 1, 13)
<1> DEFINE all == Flv(7, tags)
           in == SubSeq(Flv(5, tags), 1, cut)
           f == 7
           a == ReadBytes(in, 0, 4)
           b == <<f>>
           c == ReadBytes(in, 5, 8)
           head == (a \o b) \o c
<1>1. in \in Seq(Int) /\ Len(in) = cut /\ \A i \in 1 .. cut : in[i] = Flv(5, tags)[i]
  BY StdinBytes
<1>2. /\ Len(all) = Len(Flv(5, tags))
      /\ \A i \in 1 .. Len(Flv(5, tags)) : all[i] = IF i = 5 THEN f ELSE Flv(5, tags)[i]
      /\ SubSeq(Flv(5, tags), 1, 3) = <<70, 76, 86>>
  BY FlvFlags
<1>3. all \in Seq(Int) /\ Len(all) \in Nat
  BY FlvBytes, LenProperties, 7 \in Int
<1>4. \A i \in 1 .. Len(all) : all[i] \in Int
  BY <1>3, ElementOfSeq
<1>5. \A i \in 1 .. cut : all[i] = IF i = 5 THEN f ELSE in[i]
  BY <1>1, <1>2, <1>3
<1>6. b \in Seq(Int) /\ Len(b) = 1 /\ b[1] = f
  OBVIOUS
<1> HIDE DEF in, all, f, b
<1>7. \A p \in Nat, n \in Nat : p + n <= cut =>
           /\ ReadBytes(in, p, n) \in Seq(Int) /\ Len(ReadBytes(in, p, n)) = n
           /\ \A i \in 1 .. n : ReadBytes(in, p, n)[i] = in[p + i]
  BY <1>1, ReadsAll
<1>8. a \in Seq(Int) /\ Len(a) = 4 /\ \A i \in 1 .. 4 : a[i] = in[0 + i]
  BY <1>7, 0 \in Nat, 4 \in Nat, 0 + 4 <= cut
<1>9. c \in Seq(Int) /\ Len(c) = 8 /\ \A i \in 1 .. 8 : c[i] = in[5 + i]
  BY <1>7, 5 \in Nat, 8 \in Nat, 5 + 8 <= cut
<1> HIDE DEF a, c
<1> DEFINE ab == a \o b
<1>10. /\ ab \in Seq(Int) /\ Len(ab) = Len(a) + Len(b)
       /\ \A i \in 1 .. Len(a) : ab[i] = a[i]
       /\ \A i \in 1 .. Len(b) : ab[Len(a) + i] = b[i]
  <2>1. a \in Seq(Int) /\ b \in Seq(Int)
    BY <1>6, <1>8
  <2> QED
    BY <2>1, Joined
<1> HIDE DEF ab
<1> DEFINE j == ab \o c
<1>11. /\ j \in Seq(Int) /\ Len(j) = Len(ab) + Len(c)
       /\ \A i \in 1 .. Len(ab) : j[i] = ab[i]
       /\ \A i \in 1 .. Len(c) : j[Len(ab) + i] = c[i]
  <2>1. ab \in Seq(Int) /\ c \in Seq(Int)
    BY <1>9, <1>10
  <2> QED
    BY <2>1, Joined
<1> HIDE DEF j
<1>12. Len(ab) = 5
  BY <1>6, <1>8, <1>10
<1>13. Len(j) = 13
  BY <1>9, <1>11, <1>12
<1>14. ASSUME NEW i \in 1 .. 13 PROVE j[i] = all[i]
  <2>0. all[i] = IF i = 5 THEN f ELSE in[i]
    BY <1>5
  <2>1. CASE i <= 4
    <3>0. i \in 1 .. Len(ab)
      BY <1>12, <2>1
    <3>1. j[i] = ab[i]
      BY <1>11, <3>0
    <3>2. ab[i] = a[i]
      BY <1>8, <1>10, <2>1
    <3>3. a[i] = in[i]
      BY <1>8, <2>1
    <3> QED
      BY <2>0, <2>1, <3>1, <3>2, <3>3
  <2>2. CASE i = 5
    <3>1. j[5] = ab[5]
      BY <1>11, <1>12
    <3>2. ab[5] = b[1]
      BY <1>6, <1>8, <1>10
    <3> QED
      BY <1>6, <2>0, <2>2, <3>1, <3>2
  <2>3. CASE i >= 6
    <3>1. i - 5 \in 1 .. 8 /\ 5 + (i - 5) = i
      BY <2>3
    <3>2. j[5 + (i - 5)] = c[i - 5]
      BY <1>9, <1>11, <1>12, <3>1
    <3>3. c[i - 5] = in[5 + (i - 5)]
      BY <1>9, <3>1
    <3> QED
      BY <2>0, <2>3, <3>1, <3>2, <3>3
  <2> QED
    BY <2>1, <2>2, <2>3
<1>15. /\ SubSeq(all, 1, 13) \in Seq(Int) /\ Len(SubSeq(all, 1, 13)) = 13
       /\ \A i \in 1 .. 13 : SubSeq(all, 1, 13)[i] = all[i]
  <2>1. \A i \in 1 .. 13 : all[i] \in Int
    BY <1>2, <1>3, <1>4, SMTT(30)
  <2> QED
    BY <2>1, SubSeqProperties
<1>16. j = SubSeq(all, 1, 13)
  <2> DEFINE s == SubSeq(all, 1, 13)
             k == Len(j)
  <2>1. s \in Seq(Int) /\ Len(s) = k /\ \A i \in 1 .. k : s[i] = j[i]
    BY <1>13, <1>14, <1>15
  <2> HIDE DEF s
  <2>2. j = s
    BY <1>11, <2>1, SeqEqual
  <2> QED
    BY <2>2 DEF s
<1>17. ReadBytes(in, 0, 3) = <<70, 76, 86>>
  <2> DEFINE r == ReadBytes(in, 0, 3)
             s == SubSeq(Flv(5, tags), 1, 3)
  <2>1. r \in Seq(Int) /\ Len(r) = 3 /\ \A i \in 1 .. 3 : r[i] = in[0 + i]
    BY <1>7, 0 \in Nat, 3 \in Nat, 0 + 3 <= cut
  <2>2. /\ s \in Seq(Int) /\ Len(s) = 3 /\ \A i \in 1 .. 3 : s[i] = Flv(5, tags)[i]
    <3>1. \A i \in 1 .. 3 : Flv(5, tags)[i] \in Int
      BY FlvBytes, LenProperties, ElementOfSeq, 5 \in Int
    <3> QED
      BY <3>1, SubSeqProperties
  <2> HIDE DEF r, s
  <2>3. \A i \in 1 .. 3 : r[i] = s[i]
    BY <1>1, <2>1, <2>2
  <2>4. r = s
    BY <2>1, <2>2, <2>3, SeqEqual
  <2> QED
    BY <1>2, <2>4 DEF r, s
<1> QED
  BY <1>11, <1>13, <1>16, <1>17 DEF in, all, a, b, c, ab, j, f

\* The first thing the filter writes.
LEMMA FirstChunk ==
  ASSUME NEW chunk \in Chunks, chunk.kind \in {"copy", "message"}, NEW pos, NEW tags, NEW cut,
         Piece(chunk) = SubSeq(Flv(7, tags), 1, pos)
  PROVE  Good(<<chunk>>, pos, tags, cut) /\ Kinds(<<chunk>>, "torn") = {}
<1> DEFINE none == <<>>
           out == Append(none, chunk)
<1>1. none \in Seq(Chunks) /\ Len(none) = 0 /\ out = <<chunk>>
  OBVIOUS
<1>2. Copied(none) = <<>>
  <2>1. [i \in 1 .. Len(none) |-> Piece(none[i])] = <<>>
    BY <1>1
  <2> QED
    BY <1>1, <2>1, CopiedPieces, FlattenEmpty
<1>3. Piece(chunk) \in Seq(Int)
  <2>1. chunk.bytes \in Seq(Int) /\ <<>> \in Seq(Int)
    BY EmptySeq DEF Chunks
  <2> QED
    BY <2>1 DEF Piece
<1>4. Kinds(none, "torn") = {} /\ Kinds(none, "trailer") = {}
  BY <1>1 DEF Kinds
<1> HIDE DEF none
<1>5. Copied(out) = Piece(chunk)
  <2>1. Copied(out) = Copied(none) \o Piece(chunk)
    BY <1>1, CopiedGrows
  <2> QED
    BY <1>2, <1>3, <2>1, ConcatEmptySeq
<1>6. Kinds(out, "torn") = {} /\ Kinds(out, "trailer") = {}
  <2>1. /\ Kinds(out, "torn")
             = Kinds(none, "torn") \cup (IF chunk.kind = "torn" THEN {Len(none) + 1} ELSE {})
        /\ Kinds(out, "trailer")
             = Kinds(none, "trailer") \cup (IF chunk.kind = "trailer" THEN {Len(none) + 1} ELSE {})
    BY <1>1, KindsGrow
  <2> QED
    BY <1>4, <2>1
<1>7. out \in Seq(Chunks) /\ out # <<>> /\ out[1].kind # "trailer"
  <2>1. out \in Seq(Chunks) /\ out # <<>> /\ out[Len(none) + 1] = chunk
    BY <1>1, BeforeStays
  <2> QED
    BY <1>1, <2>1
<1> HIDE DEF out
<1>8. Good(out, pos, tags, cut)
  BY <1>5, <1>6, <1>7 DEF Good
<1> QED
  BY <1>1, <1>6, <1>8

-----------------------------------------------------------------------------
(* The invariant of the filter.                                             *)

\* What the filter has written is right as far as it has read, but for what one that died
\* in a clock sync had read and did not write; a filter that runs has
\* read its header, stands where a tag ends, or at the end of its input, and has torn no
\* trailer.
FilterInv ==
    /\ input \in [tags : Seq(Tags), cut : Nat]
    /\ input.cut <= Len(Flv(5, input.tags))
    /\ filter \in [pos : Nat, start : Int, last : Int, now : Int, out : Seq(Chunks),
                   running : BOOLEAN]
    /\ filter.pos <= input.cut
    /\ \/ Good(filter.out, filter.pos - Withheld(filter.out), input.tags, input.cut)
       \/ filter.out = <<>> /\ filter.pos = 0
    /\ filter.running =>
         /\ filter.pos >= 13 /\ Kinds(filter.out, "torn") = {}
         /\ Good(filter.out, filter.pos, input.tags, input.cut)
         /\ Between(input.tags, input.cut, filter.pos)
    /\ DiesOnlyOfItsClock

\* Nothing is withheld by a filter that has torn no trailer, nor by one that died behind
\* a tag it had passed on.
LEMMA NothingWithheld ==
  ASSUME NEW out \in Seq(Chunks), Kinds(out, "torn") = {}
  PROVE  Withheld(out) = 0
<1>1. Len(out) \in Nat
  BY LenProperties
<1>2. Len(out) > 1 => Len(out) \in DOMAIN out
  BY <1>1
<1> QED
  BY <1>2 DEF Withheld, Kinds

LEMMA WithheldBehind ==
  ASSUME NEW out \in Seq(Chunks), out # <<>>, NEW a \in Chunks, NEW b \in Chunks
  PROVE  /\ a.kind # "onClockSync" => Withheld(out \o <<a, b>>) = 0
         /\ a.kind = "onClockSync" /\ b.kind = "torn" => Withheld(out \o <<a, b>>) = 12
<1> DEFINE pair == <<a, b>>
           new == out \o pair
           n == Len(out)
<1>1. pair \in Seq(Chunks) /\ Len(pair) = 2 /\ pair[1] = a /\ pair[2] = b
  OBVIOUS
<1>2. n \in Nat /\ n > 0
  BY EmptySeq, LenProperties
<1> HIDE DEF pair
<1>3. Len(new) = n + 2 /\ new[n + 1] = a /\ new[n + 2] = b
  BY <1>1, <1>2, ConcatProperties
<1> HIDE DEF new, n
<1>4. Len(new) > 1 /\ new[Len(new) - 1] = a /\ new[Len(new)] = b
  BY <1>2, <1>3
<1> QED
  BY <1>4 DEF Withheld, new, pair

\* It holds of the filter that has read its header, of one that was given no input, and
\* of a process that is none.
LEMMA FilterStartsInv ==
  ASSUME NEW now \in Int, FilterStarts(now)
  PROVE  FilterInv
<1> DEFINE tags == input.tags
           cut == input.cut
<1>1. PICK list \in TagLists : input \in [tags : {list}, cut : {0} \cup 13 .. Len(Flv(5, list))]
  BY DEF FilterStarts
<1>2. list \in Seq(Tags)
  BY ClockSyncAssumption
<1>3. Len(Flv(5, list)) \in Nat
  BY <1>2, FlvBytes, 5 \in Int, LenProperties
<1>4. /\ tags = list /\ cut \in {0} \cup 13 .. Len(Flv(5, list))
      /\ input = [tags |-> tags, cut |-> cut]
  BY <1>1
<1>5. tags \in Seq(Tags) /\ cut \in Nat /\ cut <= Len(Flv(5, tags)) /\ (cut = 0 \/ cut >= 13)
  BY <1>2, <1>3, <1>4
<1>6. input \in [tags : Seq(Tags), cut : Nat]
  BY <1>4, <1>5
<1>7. filter = Begin(SubSeq(Flv(5, tags), 1, cut), now)
  BY DEF FilterStarts, Stdin
<1> HIDE DEF tags, cut
<1> DEFINE in == SubSeq(Flv(5, tags), 1, cut)
<1>8. CASE cut = 0
  <2> DEFINE c == Script("message", 0)
  <2>1. in = <<>> /\ SubSeq(Flv(7, tags), 1, 0) = <<>>
    BY <1>8, SubSeqEmpty
  <2>2. ReadBytes(<<>>, 0, 3) = <<>>
    BY SubSeqEmpty DEF ReadBytes
  <2>3. <<>> # <<70, 76, 86>> /\ Len(<<>>) = 0
    OBVIOUS
  <2>4. filter = [pos |-> 0, start |-> now, last |-> now, now |-> now,
                  out |-> <<c>>, running |-> FALSE]
    BY <1>7, <2>1, <2>2, <2>3 DEF Begin
  <2>5. c \in Chunks /\ c.kind \in {"copy", "message"} /\ Piece(c) = <<>>
    BY ScriptChunk, 0 \in Int
  <2> HIDE DEF c
  <2>6. Good(<<c>>, 0, tags, cut) /\ Kinds(<<c>>, "torn") = {}
    BY <2>1, <2>5, FirstChunk
  <2>7. <<c>> \in Seq(Chunks)
    BY <2>5
  <2>8. filter.out = <<c>> /\ filter.pos = 0 /\ filter.running = FALSE
    BY <2>4
  <2>9. filter \in [pos : Nat, start : Int, last : Int, now : Int, out : Seq(Chunks),
                    running : BOOLEAN]
    BY <2>4, <2>7
  <2>10. DiesOnlyOfItsClock
    BY <1>8, <2>6, <2>8 DEF DiesOnlyOfItsClock, cut
  <2>11. Good(filter.out, filter.pos - Withheld(filter.out), tags, cut)
    <3>1. Withheld(<<c>>) = 0
      BY <2>7, <2>6, NothingWithheld
    <3>2. filter.pos - Withheld(filter.out) = 0 /\ filter.out = <<c>>
      BY <2>8, <3>1
    <3> QED
      BY ONLY <2>6, <3>2
  <2> QED
    BY <1>5, <1>6, <1>8, <2>8, <2>9, <2>10, <2>11 DEF FilterInv, tags, cut
<1>9. CASE cut >= 13
  <2> DEFINE head == ReadBytes(in, 0, 4) \o <<7>> \o ReadBytes(in, 5, 8)
             c == Copy(head)
  <2>1. /\ ReadBytes(in, 0, 3) = <<70, 76, 86>>
        /\ head \in Seq(Int) /\ Len(head) = 13 /\ head = SubSeq(Flv(7, tags), 1, 13)
    BY <1>5, <1>9, HeaderRead
  <2>2. filter = [pos |-> Len(head), start |-> now, last |-> now, now |-> now,
                  out |-> <<c>>, running |-> TRUE]
    BY <1>7, <2>1 DEF Begin
  <2> HIDE DEF head
  <2>3. c \in Chunks /\ c.kind \in {"copy", "message"} /\ Piece(c) = head
    BY <2>1, CopyChunk
  <2> HIDE DEF c
  <2>4. Good(<<c>>, 13, tags, cut) /\ Kinds(<<c>>, "torn") = {}
    BY <2>1, <2>3, FirstChunk
  <2>5. <<c>> \in Seq(Chunks)
    BY <2>3
  <2>6. filter.out = <<c>> /\ filter.pos = 13 /\ filter.running = TRUE
    BY <2>1, <2>2
  <2>7. filter \in [pos : Nat, start : Int, last : Int, now : Int, out : Seq(Chunks),
                    running : BOOLEAN]
    BY <2>1, <2>2, <2>5
  <2>8. Between(tags, cut, 13)
    <3>1. EndOf(tags, 0) = 13 /\ 0 \in 0 .. Len(tags)
      BY <1>5, Ends, LenProperties
    <3> QED
      BY <3>1 DEF Between
  <2>9. DiesOnlyOfItsClock
    BY <2>4, <2>6 DEF DiesOnlyOfItsClock
  <2>10. Good(filter.out, filter.pos - Withheld(filter.out), tags, cut)
    <3>1. Withheld(<<c>>) = 0
      BY <2>5, <2>4, NothingWithheld
    <3>2. filter.pos - Withheld(filter.out) = 13 /\ filter.out = <<c>>
      BY <2>6, <3>1
    <3> QED
      BY ONLY <2>4, <3>2
  <2> QED
    BY <1>5, <1>6, <1>9, <2>4, <2>6, <2>7, <2>8, <2>9, <2>10 DEF FilterInv, tags, cut
<1> QED
  BY <1>5, <1>8, <1>9

LEMMA NoFilterInv ==
  ASSUME NEW now \in Int, input = [tags |-> <<>>, cut |-> 0],
         filter = [pos |-> 0, start |-> now, last |-> now, now |-> now, out |-> <<>>,
                   running |-> FALSE]
  PROVE  FilterInv
<1>1. <<>> \in Seq(Tags) /\ <<>> \in Seq(Chunks)
  BY EmptySeq
<1>2. Len(Flv(5, <<>>)) \in Nat
  BY <1>1, FlvBytes, 5 \in Int, LenProperties
<1>3. input \in [tags : Seq(Tags), cut : Nat] /\ input.cut = 0 /\ input.tags = <<>>
  BY <1>1
<1>4. filter \in [pos : Nat, start : Int, last : Int, now : Int, out : Seq(Chunks),
                  running : BOOLEAN]
  BY <1>1
<1>5. filter.pos = 0 /\ filter.out = <<>> /\ filter.running = FALSE
  OBVIOUS
<1>6. Kinds(<<>>, "torn") = {}
  BY DEF Kinds
<1>7. DiesOnlyOfItsClock
  BY <1>3, <1>5, <1>6 DEF DiesOnlyOfItsClock
<1> QED
  BY <1>2, <1>3, <1>4, <1>5, <1>7 DEF FilterInv

LEMMA InputEndsInv ==
  ASSUME FilterInv, InputEnds
  PROVE  FilterInv'
<1> DEFINE tags == input.tags
           cut == input.cut
           pos == filter.pos
           out == filter.out
           rest == LastBytes(SubSeq(Flv(5, tags), 1, cut), pos)
           new == Append(out, Copy(rest))
<1>1. /\ tags \in Seq(Tags) /\ cut \in Nat /\ cut <= Len(Flv(5, tags))
      /\ pos \in Nat /\ pos >= 13 /\ pos <= cut /\ pos + 12 > cut
      /\ Good(out, pos, tags, cut) /\ Kinds(out, "torn") = {}
  BY DEF FilterInv, InputEnds
<1>2. Good(new, cut, tags, cut) /\ Kinds(new, "torn") = {}
  BY <1>1, RestPassed
<1>3. filter' = [filter EXCEPT !.pos = cut, !.running = FALSE, !.out = new] /\ input' = input
  BY DEF InputEnds, Stdin
<1>4. new \in Seq(Chunks)
  BY <1>2 DEF Good
<1> HIDE DEF new
<1>5. filter \in [pos : Nat, start : Int, last : Int, now : Int, out : Seq(Chunks),
                  running : BOOLEAN]
  BY DEF FilterInv
<1>6. /\ filter' \in [pos : Nat, start : Int, last : Int, now : Int, out : Seq(Chunks),
                      running : BOOLEAN]
      /\ filter'.pos = cut /\ filter'.out = new /\ filter'.running = FALSE
  BY <1>1, <1>3, <1>4, <1>5
<1>7. DiesOnlyOfItsClock'
  BY <1>2, <1>3, <1>6 DEF DiesOnlyOfItsClock
<1>8. cut - Withheld(new) = cut
  BY <1>1, <1>2, <1>4, NothingWithheld
<1> QED
  BY <1>1, <1>2, <1>3, <1>6, <1>7, <1>8 DEF FilterInv

LEMMA PassTagInv ==
  ASSUME FilterInv, NEW now \in Times, PassTag(now)
  PROVE  FilterInv'
<1> DEFINE tags == input.tags
           cut == input.cut
           pos == filter.pos
           out == filter.out
           t == TagReads(SubSeq(Flv(5, tags), 1, cut), pos)
           elapsed == now - filter.start
           due == (now - filter.last >= SyncPeriod)
           to == IF due /\ ~Fits(elapsed) THEN pos ELSE pos + Len(t)
           at == pos + (IF due /\ ~Fits(elapsed) THEN 12 ELSE Len(t))
           new == out \o Written(t, due, elapsed)
<1>1. /\ tags \in Seq(Tags) /\ cut \in Nat /\ cut <= Len(Flv(5, tags))
      /\ pos \in Nat /\ pos >= 13 /\ pos + 12 <= cut /\ Between(tags, cut, pos)
      /\ Good(out, pos, tags, cut) /\ Kinds(out, "torn") = {}
  BY DEF FilterInv, PassTag
<1>2. filter \in [pos : Nat, start : Int, last : Int, now : Int, out : Seq(Chunks),
                  running : BOOLEAN]
  BY DEF FilterInv
<1>3. elapsed \in Int /\ due \in BOOLEAN /\ now \in Int /\ Fits(elapsed) \in BOOLEAN
  BY <1>2, ClockSyncAssumption DEF Fits
<1>4. /\ filter' = [filter EXCEPT !.pos = at, !.last = IF due THEN now ELSE @, !.now = now,
                                  !.out = new, !.running = Fits(elapsed)]
      /\ input' = input
  BY DEF PassTag, Stdin
<1> HIDE DEF due, t
<1>5. /\ to \in Nat /\ to >= 13 /\ to <= cut /\ Between(tags, cut, to)
      /\ Marked(new, to, tags, cut, elapsed)
  BY <1>1, <1>3, PassWrites DEF t
<1>6. /\ Good(new, to, tags, cut)
      /\ Kinds(new, "torn") = IF Fits(elapsed) THEN {} ELSE {Len(new)}
  BY <1>5 DEF Marked
<1>7. new \in Seq(Chunks)
  BY <1>6 DEF Good
<1>11. /\ at \in Nat /\ at <= cut /\ at - Withheld(new) = to
       /\ Fits(elapsed) => at = to
  <2>1. CASE Fits(elapsed)
    <3>1. at = to /\ Withheld(new) = 0
      BY <1>6, <1>7, <2>1, NothingWithheld
    <3> QED
      BY <1>5, <3>1
  <2>2. CASE ~Fits(elapsed)
    <3> DEFINE b == Trailer(t[1] = 9, elapsed)
               c == Trailer(FALSE, elapsed)
               tag == Copy(t)
               script == Script("onClockSync", Timestamp(t))
    <3>1. out \in Seq(Chunks) /\ out # <<>>
      BY <1>1 DEF Good
    <3>2. t \in Seq(Int) /\ Len(t) \in Nat
      <4>1. PICK n \in 0 .. Len(tags) : pos = EndOf(tags, n)
        BY <1>1 DEF Between
      <4> QED
        BY <1>1, <4>1, TagIsRead DEF t
    <3>3. /\ tag \in Chunks /\ tag.kind = "copy"
          /\ script \in Chunks /\ script.kind = "onClockSync"
      <4>1. Timestamp(t) \in Int
        <5>1. PICK n \in 0 .. Len(tags) : pos = EndOf(tags, n)
          BY <1>1 DEF Between
        <5>2. Len(t) >= 12
          BY <1>1, <5>1, TagIsRead DEF t
        <5> QED
          BY <3>2, <5>2, TimestampType
      <4> QED
        BY <3>2, <4>1, CopyChunk, ScriptChunk
    <3>4. b \in Chunks /\ c \in Chunks /\ c.kind = "torn"
      BY <1>3, <2>2, TrailerChunk DEF Trailer
    <3>7. new = IF due THEN out \o <<script, c>> ELSE out \o <<tag, b>>
      BY <2>2 DEF Written
    <3> HIDE DEF new, b, c, tag, script
    <3>5. CASE due
      <4>1. new = out \o <<script, c>>
        BY <3>5, <3>7
      <4>2. Withheld(new) = 12
        BY <3>1, <3>3, <3>4, <4>1, WithheldBehind
      <4>3. at = pos + 12 /\ to = pos
        BY <2>2, <3>5
      <4> QED
        BY <1>1, <2>2, <4>2, <4>3
    <3>6. CASE ~due
      <4>1. new = out \o <<tag, b>>
        BY <3>6, <3>7
      <4>2. Withheld(new) = 0
        BY <3>1, <3>3, <3>4, <4>1, WithheldBehind
      <4>3. at = pos + Len(t) /\ to = pos + Len(t)
        BY <3>6
      <4> QED
        BY <1>5, <2>2, <4>2, <4>3
    <3> QED
      BY <3>5, <3>6
  <2> QED
    BY <2>1, <2>2
<1> HIDE DEF new, to, at
<1>8. /\ filter' \in [pos : Nat, start : Int, last : Int, now : Int, out : Seq(Chunks),
                      running : BOOLEAN]
      /\ filter'.pos = at /\ filter'.out = new /\ filter'.running = Fits(elapsed)
      /\ filter'.now - filter'.start = elapsed
  BY <1>2, <1>3, <1>4, <1>7, <1>11
<1>9. DiesOnlyOfItsClock'
  <2>1. CASE Fits(elapsed)
    BY <1>6, <1>8, <2>1 DEF DiesOnlyOfItsClock
  <2>2. CASE ~Fits(elapsed)
    <3>1. Kinds(new, "torn") = {Len(new)} /\ ~filter'.running
      BY <1>6, <1>8, <2>2
    <3>2. (filter'.now - filter'.start) * TrailerRate \notin 0 .. TrailerMax
      BY <1>8, <2>2 DEF Fits
    <3> QED
      BY <1>8, <3>1, <3>2 DEF DiesOnlyOfItsClock
  <2> QED
    BY <2>1, <2>2
<1>10. filter'.running => Kinds(new, "torn") = {}
  BY <1>6, <1>8
<1>12. Good(filter'.out, filter'.pos - Withheld(filter'.out), tags, cut)
  BY <1>6, <1>8, <1>11
<1>13. Withheld(filter.out)' = Withheld(filter'.out)
  BY DEF Withheld
<1>14. filter'.running => Good(new, filter'.pos, tags, cut) /\ Between(tags, cut, filter'.pos)
  BY <1>5, <1>6, <1>8, <1>11
<1>15. filter'.running => filter'.pos >= 13
  BY <1>5, <1>8, <1>11
<1> QED
  BY <1>1, <1>4, <1>8, <1>9, <1>10, <1>11, <1>12, <1>13, <1>14, <1>15 DEF FilterInv

\* Every step of the filter keeps it, and every step that leaves the filter alone.
LEMMA FilterStepInv ==
  ASSUME FilterInv, FilterStep \/ UNCHANGED clockSync
  PROVE  FilterInv'
<1>1. CASE InputEnds
  BY <1>1, InputEndsInv
<1>2. ASSUME NEW now \in Times, PassTag(now) PROVE FilterInv'
  BY <1>2, PassTagInv
<1>3. CASE UNCHANGED clockSync
  BY <1>3 DEF FilterInv, Withheld, DiesOnlyOfItsClock, clockSync
<1> QED
  BY <1>1, <1>2, <1>3 DEF FilterStep

\* What the three properties say follows from it.
LEMMA FilterInvIsEnough ==
  ASSUME FilterInv
  PROVE  CopiesWhatItReads /\ TrailersFollowTags /\ DiesOnlyOfItsClock
<1>1. /\ input.tags \in Seq(Tags) /\ filter.out \in Seq(Chunks)
  BY DEF FilterInv
<1>2. CASE Good(filter.out, filter.pos - Withheld(filter.out), input.tags, input.cut)
  <2>1. CopiesWhatItReads
    BY <1>2 DEF Good, CopiesWhatItReads
  <2>2. TrailersFollowTags
    BY <1>2 DEF Good, Marks, TrailersFollowTags
  <2> QED
    BY <2>1, <2>2 DEF FilterInv
<1>3. CASE filter.out = <<>> /\ filter.pos = 0
  <2>1. Kinds(<<>>, "trailer") = {} /\ <<>> \in Seq(Chunks)
    BY DEF Kinds
  <2>2. Copied(<<>>) = <<>>
    <3>1. [i \in 1 .. Len(<<>>) |-> Piece(<<>>[i])] = <<>>
      OBVIOUS
    <3> QED
      BY <2>1, <3>1, CopiedPieces, FlattenEmpty
  <2>3. SubSeq(Flv(7, input.tags), 1, 0) = <<>>
    BY SubSeqEmpty
  <2>4. CopiesWhatItReads
    <3>1. Withheld(<<>>) = 0
      BY DEF Withheld
    <3>2. filter.pos - Withheld(filter.out) = 0
      BY <1>3, <3>1
    <3> QED
      BY ONLY <1>3, <2>2, <2>3, <3>2 DEF CopiesWhatItReads
  <2>5. TrailersFollowTags
    BY <1>3, <2>1 DEF TrailersFollowTags
  <2> QED
    BY <2>4, <2>5 DEF FilterInv
<1> QED
  BY <1>2, <1>3 DEF FilterInv
=============================================================================
