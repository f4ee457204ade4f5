-------------------------- MODULE TextUtilsProofs --------------------------
(***************************************************************************)
(* What the text utilities promise holds of texts of any length, proved    *)
(* with TLAPS.                                                             *)
(*                                                                         *)
(* The induction theorems of the library take an operator as a parameter.  *)
(* Here what a theorem is about is a set, and induction is the existence   *)
(* of a least element (LeastOf) of the set of sizes at which it fails.     *)
(* Recursion derives from it that a recursive function has the values its  *)
(* definition says.                                                        *)
(***************************************************************************)
EXTENDS TextUtils, SequenceTheorems, FunctionTheorems, FiniteSetTheorems,
        WellFoundedInduction, TLAPS

(* A set of natural numbers that is not empty has a least element.         *)
LEMMA LeastOf ==
  ASSUME NEW S \in SUBSET Nat, S # {}
  PROVE  \E n \in S : \A m \in S : n <= m
<1>1. \E n \in S : \A m \in S : ~ (<<m, n>> \in OpToRel(<, Nat))
  BY WFMin, NatLessThanWellFounded
<1>2. PICK n \in S : \A m \in S : ~ (<<m, n>> \in OpToRel(<, Nat))
  BY <1>1
<1>3. \A m \in S : ~ (m < n)
  BY <1>2 DEF OpToRel
<1> QED
  BY <1>3

(* A function from S to T is defined by its values on the base, and by     *)
(* making the value of an element out of that of one whose size is less.   *)
Defines(S, T, size, base, value, rest, make) ==
  /\ size \in [S -> Nat]
  /\ base \in SUBSET S /\ value \in [base -> T]
  /\ rest \in [S \ base -> S] /\ make \in [S \ base -> [T -> T]]
  /\ \A s \in S \ base : size[rest[s]] < size[s]

(* There is a function with these values.                                   *)
LEMMA Recursion ==
  ASSUME NEW S, NEW T, NEW size, NEW base, NEW value, NEW rest, NEW make,
         Defines(S, T, size, base, value, rest, make)
  PROVE  \E f \in [S -> T] :
           \A s \in S : f[s] = IF s \in base THEN value[s] ELSE make[s][f[rest[s]]]
<1> USE DEF Defines
<1> DEFINE Below(n) == {s \in S : size[s] < n}
           Right(g, s) == IF s \in base THEN value[s] ELSE make[s][g[rest[s]]]
           Solves(g, n) == g \in [Below(n) -> T] /\ \A s \in Below(n) : g[s] = Right(g, s)
           bad == {n \in Nat : ~ \E g : Solves(g, n)}
<1>1. bad = {}
  <2> SUFFICES ASSUME bad # {} PROVE FALSE
    OBVIOUS
  <2>1. PICK n \in bad : \A k \in bad : n <= k
    <3>1. bad \in SUBSET Nat
      OBVIOUS
    <3> HIDE DEF bad
    <3> QED BY <3>1, LeastOf
  <2>2. n # 0
    <3> DEFINE g == [s \in {} |-> {}]
    <3>1. Below(0) = {}
      OBVIOUS
    <3>2. Solves(g, 0)
      BY <3>1
    <3>3. \E x : Solves(x, 0)
      <4> HIDE DEF Solves, g
      <4> QED BY <3>2
    <3> HIDE DEF Solves
    <3> QED BY <3>3
  <2>3. PICK g : Solves(g, n - 1)
    <3>1. n - 1 \in Nat /\ ~(n <= n - 1)
      BY <2>2
    <3>2. n - 1 \notin bad
      <4> HIDE DEF bad
      <4> QED BY <2>1, <3>1
    <3> HIDE DEF Solves
    <3> QED BY <3>1, <3>2
  <2> DEFINE h == [s \in Below(n) |-> Right(g, s)]
  <2>4. \A s \in Below(n) \ base : rest[s] \in Below(n - 1)
    OBVIOUS
  <2>5. \A s \in Below(n - 1) : s \in Below(n) /\ h[s] = g[s]
    BY <2>3
  <2>6. \A s \in Below(n) : Right(g, s) \in T
    BY <2>3, <2>4
  <2>7. \A s \in Below(n) : h[s] = Right(h, s)
    BY <2>4, <2>5
  <2>8. Solves(h, n)
    BY <2>6, <2>7
  <2> QED BY <2>8
<1>2. ASSUME NEW n \in Nat, NEW k \in Nat, NEW g, NEW h, Solves(g, n), Solves(h, k),
             NEW s \in S, size[s] < n, size[s] < k
      PROVE  g[s] = h[s]
  <2> DEFINE differ == {t \in S : size[t] < n /\ size[t] < k /\ g[t] # h[t]}
             sizes == {size[t] : t \in differ}
  <2>1. ASSUME differ # {} PROVE FALSE
    <3>1. sizes \in SUBSET Nat /\ sizes # {}
      <4> \A t \in differ : size[t] \in Nat
        OBVIOUS
      <4> HIDE DEF differ
      <4> QED BY <2>1
    <3>2. PICK l \in sizes : \A j \in sizes : l <= j
      <4> HIDE DEF sizes
      <4> QED BY <3>1, LeastOf
    <3>3. PICK t \in differ : l = size[t]
      BY <3>2
    <3>4. g[t] = Right(g, t) /\ h[t] = Right(h, t) /\ t \in S
      BY <1>2, <3>3
    <3>5. t \notin base
      BY <3>3, <3>4
    <3>6. rest[t] \in S /\ size[rest[t]] < size[t] /\ size[rest[t]] \in Nat
      BY <3>4, <3>5
    <3>7. rest[t] \notin differ
      <4>1. ~(size[t] <= size[rest[t]]) /\ size[t] \in Nat
        BY <3>4, <3>6
      <4>2. size[rest[t]] \notin sizes
        <5> HIDE DEF sizes
        <5> QED BY <3>2, <3>3, <4>1
      <4> HIDE DEF differ
      <4> QED BY <4>2
    <3>8. size[rest[t]] < n /\ size[rest[t]] < k
      BY <3>3, <3>6
    <3>9. g[rest[t]] = h[rest[t]]
      BY <3>6, <3>7, <3>8
    <3> QED BY <3>3, <3>4, <3>5, <3>9
  <2> QED BY <1>2, <2>1
<1> DEFINE G == [n \in Nat |-> CHOOSE g : Solves(g, n)]
           f == [s \in S |-> G[size[s] + 1][s]]
<1>3. \A n \in Nat : Solves(G[n], n)
  BY <1>1
<1> HIDE DEF G
<1>4. f \in [S -> T]
  <2> SUFFICES ASSUME NEW s \in S PROVE G[size[s] + 1][s] \in T
    OBVIOUS
  <2>1. size[s] + 1 \in Nat /\ s \in Below(size[s] + 1)
    OBVIOUS
  <2>2. G[size[s] + 1] \in [Below(size[s] + 1) -> T]
    BY <1>3, <2>1
  <2> HIDE DEF Below
  <2> QED BY <2>1, <2>2
<1>5. ASSUME NEW s \in S PROVE f[s] = Right(f, s)
  <2>1. size[s] + 1 \in Nat /\ s \in Below(size[s] + 1)
    OBVIOUS
  <2>2. G[size[s] + 1][s] = Right(G[size[s] + 1], s)
    BY <1>3, <2>1
  <2>3. ASSUME s \notin base PROVE G[size[s] + 1][rest[s]] = f[rest[s]]
    <3>1. rest[s] \in S /\ size[rest[s]] < size[s] /\ size[rest[s]] \in Nat
      BY <2>3
    <3>2. size[rest[s]] + 1 \in Nat /\ size[rest[s]] < size[s] + 1 /\ size[rest[s]] < size[rest[s]] + 1
      BY <3>1
    <3> HIDE DEF Solves
    <3>3. G[size[s] + 1][rest[s]] = G[size[rest[s]] + 1][rest[s]]
      BY <1>2, <1>3, <2>1, <3>1, <3>2
    <3> QED BY <3>1, <3>3
  <2> QED BY <2>2, <2>3
<1> QED BY <1>4, <1>5

-----------------------------------------------------------------------------
(* What is behind the first characters of a text is shorter.               *)
LEMMA FromTyped ==
  ASSUME NEW s \in Seq(Nat), NEW i \in Nat \ {0, 1}, s # <<>>
  PROVE  /\ From(s, i) \in Seq(Nat)
         /\ Len(From(s, i)) < Len(s)
         /\ Len(s) \in Nat \ {0}
<1>1. Len(s) \in Nat \ {0}
  BY EmptySeq
<1>2. CASE i <= Len(s)
  BY <1>1, <1>2, SubSeqProperties DEF From
<1>3. CASE i > Len(s)
  BY <1>1, <1>3, SubSeqEmpty DEF From
<1> QED BY <1>1, <1>2, <1>3

(* The byte of an escape sequence is a number, whatever is behind the      *)
(* percent sign.                                                           *)
LEMMA HexByteTyped ==
  ASSUME NEW c \in Nat, NEW d \in Nat
  PROVE  HexByte(c, d) \in Nat
<1> USE DEF HexDigits, DigitBytes
<1>1. \A x \in HexDigits : DigitValue(x) \in 0 .. 15
  BY DEF DigitValue
<1>2. \A x \in HexDigits : (256 - DigitValue(x)) % 256 \in Nat
  BY <1>1
<1> HIDE DEF HexDigits
<1> QED BY <1>1, <1>2 DEF HexByte

(* What holds of a text if it holds of all that are shorter holds of all.  *)
LEMMA TextInduction ==
  ASSUME NEW good \in SUBSET Seq(Nat),
         \A s \in Seq(Nat) :
           (\A t \in Seq(Nat) : Len(t) < Len(s) => t \in good) => s \in good
  PROVE  good = Seq(Nat)
<1> DEFINE sizes == {Len(s) : s \in Seq(Nat) \ good}
<1>1. ASSUME Seq(Nat) \ good # {} PROVE FALSE
  <2>1. sizes \in SUBSET Nat /\ sizes # {}
    <3>1. ASSUME NEW n \in sizes PROVE n \in Nat
      BY <3>1
    <3>2. PICK s : s \in Seq(Nat) \ good
      BY <1>1
    <3>3. Len(s) \in sizes
      BY <3>2
    <3> HIDE DEF sizes
    <3> QED BY <3>1, <3>3
  <2>2. PICK n \in sizes : \A k \in sizes : n <= k
    <3> HIDE DEF sizes
    <3> QED BY <2>1, LeastOf
  <2>3. PICK s \in Seq(Nat) \ good : n = Len(s)
    BY <2>2
  <2>4. ASSUME NEW t \in Seq(Nat), Len(t) < Len(s) PROVE t \in good
    <3>1. ~(Len(s) <= Len(t))
      BY <2>4
    <3>2. Len(t) \notin sizes
      <4> HIDE DEF sizes
      <4> QED BY <2>2, <2>3, <3>1
    <3> QED BY <3>2
  <2> QED BY <2>3, <2>4
<1> QED BY <1>1

(* The byte the front of a text is decoded to, and what is left then.      *)
FirstDecoded(v) ==
  IF Escape(v) THEN HexByte(v[2], v[3]) ELSE IF v[1] = PlusByte THEN SpaceByte ELSE v[1]

RestEncoded(v) == IF Escape(v) THEN From(v, 4) ELSE From(v, 2)

(* The front is decoded to one byte, and the rest is shorter.              *)
LEMMA FirstTyped ==
  ASSUME NEW v \in Seq(Nat), v # <<>>
  PROVE  /\ FirstDecoded(v) \in Nat
         /\ RestEncoded(v) \in Seq(Nat) /\ Len(RestEncoded(v)) < Len(v)
<1>1. Len(v) \in Nat \ {0}
  BY EmptySeq
<1>2. v[1] \in Nat
  BY <1>1
<1>3. Escape(v) => v[2] \in Nat /\ v[3] \in Nat
  BY <1>1 DEF Escape
<1>4. FirstDecoded(v) \in Nat
  BY <1>2, <1>3, HexByteTyped DEF FirstDecoded, SpaceByte
<1>5. /\ From(v, 4) \in Seq(Nat) /\ Len(From(v, 4)) < Len(v)
      /\ From(v, 2) \in Seq(Nat) /\ Len(From(v, 2)) < Len(v)
  BY FromTyped
<1> QED BY <1>4, <1>5 DEF RestEncoded

(* urlDecode is defined for every text.                                    *)
LEMMA UrlDecodeUnfolds ==
  /\ urlDecode[<<>>] = <<>>
  /\ \A v \in Seq(Nat) :
       v # <<>> => urlDecode[v] = <<FirstDecoded(v)>> \o urlDecode[RestEncoded(v)]
  /\ \A v \in Seq(Nat) : urlDecode[v] \in Seq(Nat)
<1> DEFINE T == Seq(Nat)
           size == [v \in T |-> Len(v)]
           base == {<<>>}
           value == [v \in base |-> <<>>]
           rest == [v \in T \ base |-> RestEncoded(v)]
           make == [v \in T \ base |-> [t \in T |-> <<FirstDecoded(v)>> \o t]]
           Right(g, v) == IF v = <<>> THEN <<>> ELSE <<FirstDecoded(v)>> \o g[RestEncoded(v)]
           Solves(g) == g = [v \in Seq(Nat) |-> Right(g, v)]
<1>1. Defines(T, T, size, base, value, rest, make)
  <2>1. size \in [T -> Nat] /\ base \in SUBSET T /\ value \in [base -> T]
    BY EmptySeq
  <2>2. rest \in [T \ base -> T] /\ \A v \in T \ base : size[rest[v]] < size[v]
    BY FirstTyped
  <2>3. make \in [T \ base -> [T -> T]]
    BY FirstTyped
  <2> HIDE DEF T, size, base, value, rest, make
  <2> QED BY <2>1, <2>2, <2>3 DEF Defines
<1>2. PICK f \in [T -> T] :
        \A v \in T : f[v] = IF v \in base THEN value[v] ELSE make[v][f[rest[v]]]
  <2> HIDE DEF T, size, base, value, rest, make
  <2> QED BY <1>1, Recursion
<1>3. Solves(f)
  <2> SUFFICES ASSUME NEW v \in T PROVE f[v] = Right(f, v)
    BY <1>2
  <2>1. CASE v = <<>>
    BY <1>2, <2>1
  <2>2. CASE v # <<>>
    <3>1. rest[v] = RestEncoded(v) /\ f[rest[v]] \in T
      BY <1>2, <2>2, FirstTyped
    <3>2. make[v][f[rest[v]]] = <<FirstDecoded(v)>> \o f[rest[v]]
      BY <2>2, <3>1
    <3> QED BY <1>2, <2>2, <3>1, <3>2
  <2> QED BY <2>1, <2>2
<1>4. urlDecode = CHOOSE g : Solves(g)
  BY DEF urlDecode, FirstDecoded, RestEncoded
<1>5. Solves(urlDecode)
  <2> HIDE DEF Solves
  <2> QED BY <1>3, <1>4
<1>6. \A v \in T : urlDecode[v] = Right(urlDecode, v)
  <2> HIDE DEF Right
  <2> QED BY <1>5
<1> DEFINE good == {v \in T : urlDecode[v] \in T}
<1>7. good = T
  <2> SUFFICES ASSUME NEW v \in T, \A t \in T : Len(t) < Len(v) => t \in good
               PROVE  v \in good
    <3>1. good \in SUBSET T
      OBVIOUS
    <3> HIDE DEF good
    <3> QED BY <3>1, TextInduction
  <2>1. CASE v = <<>>
    BY <1>6, <2>1
  <2>2. CASE v # <<>>
    <3>1. urlDecode[RestEncoded(v)] \in T /\ FirstDecoded(v) \in Nat
      BY <2>2, FirstTyped
    <3>2. urlDecode[v] = <<FirstDecoded(v)>> \o urlDecode[RestEncoded(v)]
      BY <1>6, <2>2
    <3>3. urlDecode[v] \in T
      BY <3>1, <3>2
    <3> QED BY <3>3
  <2> QED BY <2>1, <2>2
<1>8. \A v \in T : v # <<>> => urlDecode[v] = <<FirstDecoded(v)>> \o urlDecode[RestEncoded(v)]
  BY <1>6
<1>9. urlDecode[<<>>] = <<>>
  <2>1. <<>> \in T
    BY EmptySeq
  <2> QED BY <1>6, <2>1
<1> QED BY <1>7, <1>8, <1>9

-----------------------------------------------------------------------------
(* What holds of a number, and of the next if it holds of one, holds up to *)
(* n.                                                                      *)
LEMMA UpTo ==
  ASSUME NEW a \in Nat, NEW n \in Nat, NEW good \in SUBSET (a .. n),
         a <= n => a \in good,
         \A i \in good : i < n => i + 1 \in good
  PROVE  good = a .. n
<1> DEFINE bad == (a .. n) \ good
<1>1. ASSUME bad # {} PROVE FALSE
  <2>1. PICK m \in bad : \A k \in bad : m <= k
    <3>1. bad \in SUBSET Nat
      OBVIOUS
    <3> HIDE DEF bad
    <3> QED BY <1>1, <3>1, LeastOf
  <2>2. m \in a .. n /\ m # a
    OBVIOUS
  <2>3. m - 1 \in a .. n /\ ~(m <= m - 1)
    BY <2>2
  <2>4. m - 1 \in good
    BY <2>1, <2>3
  <2>5. m - 1 + 1 \in good
    BY <2>2, <2>4
  <2> QED BY <2>2, <2>5
<1> QED BY <1>1

(* FlattenSeq puts one sequence behind the other.                          *)
PiecesOf(S, n) == [1 .. n -> Seq(S)]

Concatenates(f, s, n) ==
  /\ f[1] = s[1]
  /\ \A i \in 1 .. n : i < n => f[i + 1] = f[i] \o s[i + 1]
  /\ FlattenSeq(s) = f[n]

(* FlattenSeq finds its result in a function of the numbers of sequences.  *)
LEMMA FlattenFunction ==
  ASSUME NEW S, NEW n \in Nat, n # 0, NEW s \in PiecesOf(S, n)
  PROVE  \E f \in PiecesOf(S, n) : Concatenates(f, s, n)
<1> USE DEF PiecesOf
<1> DEFINE D == 1 .. n
           T == Seq(S)
           size == [i \in D |-> i]
           base == {1}
           value == [i \in base |-> s[1]]
           rest == [i \in D \ base |-> i - 1]
           make == [i \in D \ base |-> [t \in T |-> t \o s[i]]]
           Right(g, i) == IF i = 1 THEN s[i] ELSE g[i - 1] \o s[i]
           Solves(g) == g = [i \in 1 .. Len(s) |-> Right(g, i)]
           g == CHOOSE g : Solves(g)
<1>1. Defines(D, T, size, base, value, rest, make)
  <2>1. size \in [D -> Nat] /\ base \in SUBSET D /\ value \in [base -> T]
    OBVIOUS
  <2>2. rest \in [D \ base -> D] /\ \A i \in D \ base : size[rest[i]] < size[i]
    OBVIOUS
  <2>3. make \in [D \ base -> [T -> T]]
    OBVIOUS
  <2> HIDE DEF D, T, size, base, value, rest, make
  <2> QED BY <2>1, <2>2, <2>3 DEF Defines
<1>2. PICK f \in [D -> T] :
        \A i \in D : f[i] = IF i \in base THEN value[i] ELSE make[i][f[rest[i]]]
  <2> HIDE DEF D, T, size, base, value, rest, make
  <2> QED BY <1>1, Recursion
<1>3. Len(s) = n
  BY LenProperties, IsASeq
<1>4. Solves(f)
  <2> SUFFICES ASSUME NEW i \in D PROVE f[i] = Right(f, i)
    BY <1>2, <1>3, SMTT(30)
  <2>1. CASE i = 1
    BY <1>2, <2>1
  <2>2. CASE i # 1
    <3>1. rest[i] = i - 1 /\ f[i - 1] \in T /\ i \notin base
      BY <1>2, <2>2
    <3>2. make[i][f[i - 1]] = f[i - 1] \o s[i]
      BY <2>2, <3>1
    <3> QED BY <1>2, <2>2, <3>1, <3>2
  <2> QED BY <2>1, <2>2
<1>5. Solves(g)
  <2> HIDE DEF Solves
  <2> QED BY <1>4
<1>6. FlattenSeq(s) = g[n]
  BY <1>3 DEF FlattenSeq
<1> HIDE DEF g
<1>7. \A i \in D : g[i] = Right(g, i)
  BY <1>3, <1>5
<1>8. g[1] = s[1] /\ \A i \in 1 .. n : i < n => g[i + 1] = g[i] \o s[i + 1]
  <2>1. ASSUME NEW i \in 1 .. n, i < n PROVE g[i + 1] = g[i] \o s[i + 1]
    <3>1. i + 1 \in D /\ i + 1 # 1 /\ i + 1 - 1 = i
      BY <2>1
    <3> DEFINE j == i + 1
    <3>2. g[j] = Right(g, j)
      <4> HIDE DEF Right, D, j
      <4> QED BY <1>7, <3>1 DEF j
    <3>3. j # 1 /\ j - 1 = i
      BY <3>1
    <3>4. g[j] = g[i] \o s[j]
      <4> HIDE DEF j
      <4> QED BY <3>2, <3>3
    <3> QED BY <3>4
  <2>2. g[1] = s[1]
    BY <1>7
  <2> QED BY <2>1, <2>2
<1> DEFINE good == {i \in D : g[i] \in T}
<1>9. good = D
  <2>1. 1 \in good
    BY <1>8
  <2>2. ASSUME NEW i \in good, i < n PROVE i + 1 \in good
    <3>1. i + 1 \in D /\ s[i + 1] \in T /\ g[i] \in T
      BY <2>2
    <3>2. g[i + 1] = g[i] \o s[i + 1]
      BY <1>8, <2>2
    <3>3. g[i + 1] \in T
      BY <3>1, <3>2
    <3> QED BY <3>1, <3>3
  <2>3. good \in SUBSET D /\ n \in Nat
    OBVIOUS
  <2> HIDE DEF good
  <2> QED BY <2>1, <2>2, <2>3, UpTo
<1>10. g \in PiecesOf(S, n)
  <2>1. \A i \in D : g[i] \in T
    BY <1>9
  <2>2. g = [i \in D |-> Right(g, i)]
    BY <1>3, <1>5
  <2> HIDE DEF Right
  <2> QED BY <2>1, <2>2
<1>11. Concatenates(g, s, n)
  BY <1>6, <1>8 DEF Concatenates
<1> QED BY <1>10, <1>11

(* FlattenSeq puts the last sequence behind the others.                    *)
LEMMA FlattenStep ==
  ASSUME NEW S, NEW n \in Nat, NEW s \in PiecesOf(S, n + 1)
  PROVE  /\ FlattenSeq([i \in 1 .. n |-> s[i]]) \in Seq(S)
         /\ FlattenSeq(s) = FlattenSeq([i \in 1 .. n |-> s[i]]) \o s[n + 1]
         /\ n = 0 => FlattenSeq([i \in 1 .. n |-> s[i]]) = <<>>
<1> DEFINE r == [i \in 1 .. n |-> s[i]]
<1>1. PICK f \in PiecesOf(S, n + 1) : Concatenates(f, s, n + 1)
  <2>1. n + 1 \in Nat /\ n + 1 # 0
    OBVIOUS
  <2> QED BY <2>1, FlattenFunction
<1>2. CASE n = 0
  <2>1. r = <<>>
    BY <1>2
  <2>2. FlattenSeq(r) = <<>>
    BY <2>1 DEF FlattenSeq
  <2>3. f[1] = s[1] /\ FlattenSeq(s) = f[1] /\ s[1] \in Seq(S)
    BY <1>1, <1>2 DEF Concatenates, PiecesOf
  <2> HIDE DEF r
  <2>4. FlattenSeq(s) = FlattenSeq(r) \o s[n + 1]
    BY <1>2, <2>2, <2>3, ConcatEmptySeq
  <2> QED BY <2>2, <2>4 DEF r
<1>3. CASE n # 0
  <2>1. r \in PiecesOf(S, n)
    BY DEF PiecesOf
  <2>2. PICK g \in PiecesOf(S, n) : Concatenates(g, r, n)
    <3> HIDE DEF r
    <3> QED BY <1>3, <2>1, FlattenFunction
  <2>3. /\ f[1] = s[1] /\ FlattenSeq(s) = f[n + 1]
        /\ \A i \in 1 .. n : f[i + 1] = f[i] \o s[i + 1]
    <3>1. \A i \in 1 .. n : i \in 1 .. n + 1 /\ i < n + 1
      OBVIOUS
    <3> QED BY <1>1, <3>1, Zenon DEF Concatenates
  <2>4. /\ g[1] = s[1] /\ FlattenSeq(r) = g[n] /\ g[n] \in Seq(S)
        /\ \A i \in 1 .. n : i < n => g[i + 1] = g[i] \o r[i + 1]
        /\ \A i \in 1 .. n : i < n => i + 1 \in 1 .. n
    <3>1. n \in 1 .. n /\ 1 \in 1 .. n /\ r[1] = s[1]
      BY <1>3
    <3>2. \A i \in 1 .. n : i < n => i + 1 \in 1 .. n
      OBVIOUS
    <3>3. g[n] \in Seq(S)
      BY <2>2, <3>1 DEF PiecesOf
    <3> QED BY <2>2, <3>1, <3>2, <3>3, Zenon DEF Concatenates
  <2> DEFINE good == {i \in 1 .. n : f[i] = g[i]}
  <2>5. good = 1 .. n
    <3>1. 1 \in good
      BY <1>3, <2>3, <2>4
    <3>2. ASSUME NEW i \in good, i < n PROVE i + 1 \in good
      <4>1. i + 1 \in 1 .. n
        BY <3>2
      <4>2. f[i] = g[i] /\ r[i + 1] = s[i + 1]
        BY <3>2, <4>1
      <4>3. f[i + 1] = f[i] \o s[i + 1] /\ g[i + 1] = g[i] \o r[i + 1]
        <5> HIDE DEF r
        <5> QED BY <2>3, <2>4, <3>2
      <4> QED BY <4>1, <4>2, <4>3
    <3>3. good \in SUBSET (1 .. n)
      OBVIOUS
    <3> HIDE DEF good
    <3> QED BY <3>1, <3>2, <3>3, UpTo
  <2>6. f[n] = g[n]
    BY <1>3, <2>5
  <2>7. f[n + 1] = f[n] \o s[n + 1]
    <3>1. n \in 1 .. n
      BY <1>3
    <3> QED BY <2>3, <3>1
  <2> HIDE DEF r
  <2> QED BY <1>3, <2>3, <2>4, <2>6, <2>7 DEF r
<1> QED BY <1>2, <1>3

-----------------------------------------------------------------------------
(* An encoded byte is decoded to what it was, and to no more.              *)
LEMMA Division == ASSUME NEW c \in Int PROVE c = 16 * (c \div 16) + (c % 16)
OBVIOUS

(* The two digits of a byte are read as that byte.                         *)
LEMMA HexDigitsReadBack ==
  ASSUME NEW c \in Byte
  PROVE  HexByte(UpperHexDigit(c \div 16), UpperHexDigit(c % 16)) = c
<1>1. \A d \in 0 .. 15 : /\ UpperHexDigit(d) \in HexDigits
                         /\ DigitValue(UpperHexDigit(d)) = d
  <2> SUFFICES ASSUME NEW d \in 0 .. 15
               PROVE  UpperHexDigit(d) \in HexDigits /\ DigitValue(UpperHexDigit(d)) = d
    OBVIOUS
  <2>1. CASE d < 10
    BY <2>1 DEF UpperHexDigit, HexDigits, DigitValue, DigitBytes
  <2>2. CASE d >= 10
    BY <2>2 DEF UpperHexDigit, HexDigits, DigitValue, DigitBytes
  <2> QED BY <2>1, <2>2
<1> DEFINE h == c \div 16
           l == c % 16
<1>2. h \in 0 .. 15 /\ l \in 0 .. 15 /\ 16 * h + l = c
  <2>1. c \in 0 .. 255
    BY DEF Byte
  <2>2. c \div 16 \in Int /\ c % 16 \in 0 .. 15
    BY <2>1
  <2>3. c = 16 * h + l
    <3>1. c \in Int
      BY <2>1
    <3> QED BY <3>1, Division
  <2> HIDE DEF h, l
  <2> QED BY <2>1, <2>2, <2>3 DEF h, l
<1> HIDE DEF h, l
<1>3. /\ UpperHexDigit(h) \in HexDigits /\ UpperHexDigit(l) \in HexDigits
      /\ DigitValue(UpperHexDigit(h)) = h /\ DigitValue(UpperHexDigit(l)) = l
  BY <1>1, <1>2
<1>4. HexByte(UpperHexDigit(h), UpperHexDigit(l)) = c
  BY <1>2, <1>3 DEF HexByte
<1> QED BY <1>4 DEF h, l

(* Texts behind texts.                                                     *)
LEMMA TextConcat ==
  ASSUME NEW r \in Seq(Nat), NEW s \in Seq(Nat), NEW t \in Seq(Nat)
  PROVE  /\ (r \o s) \o t = r \o (s \o t)
         /\ r \o s \in Seq(Nat)
         /\ <<>> \o r = r /\ r \o <<>> = r
<1>1. (r \o s) \o t = r \o (s \o t)
  BY ConcatAssociative, SMTT(60)
<1>2. r \o s \in Seq(Nat)
  OBVIOUS
<1>3. <<>> \o r = r /\ r \o <<>> = r
  BY ConcatEmptySeq
<1> QED BY <1>1, <1>2, <1>3

(* The order of concatenations does not show.                              *)
LEMMA TextAssociative ==
  ASSUME NEW r \in Seq(Nat), NEW s \in Seq(Nat), NEW t \in Seq(Nat)
  PROVE  (r \o s) \o t = r \o (s \o t)
BY ConcatAssociative, SMTT(60)

(* Bytes are numbers.                                                      *)
LEMMA BytesAreText == ASSUME NEW s \in Seq(Byte) PROVE s \in Seq(Nat)
<1>1. Byte \in SUBSET Nat
  BY DEF Byte
<1> HIDE DEF Byte
<1> QED BY <1>1, SeqMonotonic

(* What is behind the first of two texts is the second.                    *)
LEMMA BehindConcat ==
  ASSUME NEW s \in Seq(Nat), NEW t \in Seq(Nat)
  PROVE  From(s \o t, Len(s) + 1) = t
<1>1. SubSeq(s \o t, Len(s) + 1, Len(s) + Len(t)) = t
  BY SubSeqOfConcat2
<1>2. Len(s \o t) = Len(s) + Len(t)
  BY ConcatProperties
<1> QED BY <1>1, <1>2 DEF From

(* An encoded byte is decoded to that byte, and the rest on its own.       *)
LEMMA EncodedByteDecodes ==
  ASSUME NEW c \in Byte, NEW t \in Seq(Nat)
  PROVE  /\ EncodedByte(c) \in Seq(Nat)
         /\ urlDecode[EncodedByte(c) \o t] = <<c>> \o urlDecode[t]
<1> DEFINE e == EncodedByte(c) \o t
<1>1. CASE Unreserved(c)
  <2>1. EncodedByte(c) = <<c>> /\ <<c>> \in Seq(Nat)
    BY <1>1 DEF EncodedByte, Byte
  <2>2. e \in Seq(Nat) /\ Len(e) = Len(t) + 1 /\ e[1] = c /\ e # <<>>
    BY <2>1
  <2>3. c # PercentByte /\ c # PlusByte
    BY <1>1 DEF Unreserved, AlnumBytes, DigitBytes, PercentByte, PlusByte, MinusByte
  <2>4. ~Escape(e) /\ FirstDecoded(e) = c
    BY <2>2, <2>3 DEF Escape, FirstDecoded
  <2>5. From(e, 2) = t
    <3>1. Len(<<c>>) + 1 = 2
      OBVIOUS
    <3> QED BY <2>1, <3>1, BehindConcat
  <2>6. RestEncoded(e) = t
    BY <2>4, <2>5 DEF RestEncoded
  <2> HIDE DEF e
  <2> QED BY <2>1, <2>2, <2>4, <2>6, UrlDecodeUnfolds DEF e
<1>2. CASE ~Unreserved(c)
  <2> DEFINE u == UpperHexDigit(c \div 16)
             l == UpperHexDigit(c % 16)
  <2>1. u \in Nat /\ l \in Nat
    <3>1. c \div 16 \in Nat /\ c % 16 \in Nat
      BY DEF Byte
    <3> QED BY <3>1 DEF UpperHexDigit
  <2>2. HexByte(u, l) = c
    BY HexDigitsReadBack
  <2>3. EncodedByte(c) = <<PercentByte, u, l>>
    BY <1>2 DEF EncodedByte
  <2> HIDE DEF u, l
  <2>4. <<PercentByte, u, l>> \in Seq(Nat)
    BY <2>1 DEF PercentByte
  <2>5. /\ e \in Seq(Nat) /\ Len(e) = Len(t) + 3 /\ e # <<>>
        /\ e[1] = PercentByte /\ e[2] = u /\ e[3] = l
    BY <2>3, <2>4
  <2>6. Escape(e) /\ FirstDecoded(e) = c
    BY <2>2, <2>5 DEF Escape, FirstDecoded
  <2>7. From(e, 4) = t
    <3>1. Len(<<PercentByte, u, l>>) + 1 = 4
      OBVIOUS
    <3> QED BY <2>3, <2>4, <3>1, BehindConcat
  <2>8. RestEncoded(e) = t
    BY <2>6, <2>7 DEF RestEncoded
  <2> HIDE DEF e
  <2> QED BY <2>3, <2>4, <2>5, <2>6, <2>8, UrlDecodeUnfolds DEF e
<1> QED BY <1>1, <1>2

(* urlEncode goes on from what it has encoded before.                      *)
LEMMA UrlEncodeStep ==
  ASSUME NEW w \in Seq(Byte), NEW c \in Byte
  PROVE  /\ urlEncode(w) \in Seq(Nat)
         /\ urlEncode(Append(w, c)) = urlEncode(w) \o EncodedByte(c)
         /\ w = <<>> => urlEncode(w) = <<>>
<1> DEFINE n == Len(w)
           v == Append(w, c)
           s == [i \in DOMAIN v |-> EncodedByte(v[i])]
           r == [i \in 1 .. n |-> s[i]]
<1>1. /\ n \in Nat /\ v \in Seq(Byte) /\ Len(v) = n + 1 /\ DOMAIN v = 1 .. n + 1
      /\ v[n + 1] = c /\ \A i \in 1 .. n : v[i] = w[i]
      /\ \A i \in 1 .. n + 1 : v[i] \in Byte
      /\ DOMAIN w = 1 .. n
  <2>1. n \in Nat /\ DOMAIN w = 1 .. n
    OBVIOUS
  <2>2. /\ v \in Seq(Byte) /\ Len(v) = n + 1 /\ v[n + 1] = c
        /\ \A i \in 1 .. n : v[i] = w[i]
    BY AppendProperties
  <2> HIDE DEF v, n
  <2> QED BY <2>1, <2>2
<1>2. s \in PiecesOf(Nat, n + 1)
  <2>1. \A i \in 1 .. n + 1 : EncodedByte(v[i]) \in Seq(Nat)
    <3>1. <<>> \in Seq(Nat)
      BY EmptySeq
    <3> HIDE DEF v
    <3> QED BY <1>1, <3>1, EncodedByteDecodes
  <2> HIDE DEF v
  <2> QED BY <1>1, <2>1 DEF PiecesOf
<1>3. r = [i \in DOMAIN w |-> EncodedByte(w[i])]
  <2> HIDE DEF v
  <2> QED BY <1>1
<1>4. s[n + 1] = EncodedByte(c)
  <2> HIDE DEF v
  <2> QED BY <1>1
<1>5. w = <<>> => n = 0
  OBVIOUS
<1> HIDE DEF n
<1>6. /\ FlattenSeq(r) \in Seq(Nat)
      /\ FlattenSeq(s) = FlattenSeq(r) \o s[n + 1]
      /\ n = 0 => FlattenSeq(r) = <<>>
  <2>1. n \in Nat
    BY <1>1
  <2> HIDE DEF s
  <2> QED BY <1>2, <2>1, FlattenStep
<1> HIDE DEF r
<1>7. urlEncode(v) = FlattenSeq(s) /\ urlEncode(w) = FlattenSeq(r)
  BY <1>3 DEF urlEncode
<1> QED BY <1>4, <1>5, <1>6, <1>7

(* An encoded text is decoded to that text, and the rest on its own.       *)
LEMMA EncodingDecodes ==
  ASSUME NEW w \in Seq(Byte), NEW t \in Seq(Nat)
  PROVE  urlDecode[urlEncode(w) \o t] = w \o urlDecode[t]
<1> DEFINE good == {v \in Seq(Nat) : v \in Seq(Byte) =>
              \A r \in Seq(Nat) : urlDecode[urlEncode(v) \o r] = v \o urlDecode[r]}
<1>1. good = Seq(Nat)
  <2> SUFFICES ASSUME NEW v \in Seq(Nat), \A r \in Seq(Nat) : Len(r) < Len(v) => r \in good
               PROVE  v \in good
    <3>1. good \in SUBSET Seq(Nat)
      OBVIOUS
    <3> HIDE DEF good
    <3> QED BY <3>1, TextInduction
  <2> SUFFICES ASSUME v \in Seq(Byte), NEW r \in Seq(Nat)
               PROVE  urlDecode[urlEncode(v) \o r] = v \o urlDecode[r]
    OBVIOUS
  <2>1. urlDecode[r] \in Seq(Nat)
    BY UrlDecodeUnfolds
  <2>2. CASE v = <<>>
    <3>1. 0 \in Byte
      BY DEF Byte
    <3>2. urlEncode(v) = <<>>
      BY <2>2, <3>1, UrlEncodeStep
    <3>3. urlEncode(v) \o r = r /\ v \o urlDecode[r] = urlDecode[r]
      BY <2>1, <2>2, <3>2, TextConcat
    <3> QED BY <3>3
  <2>3. CASE v # <<>>
    <3>1. PICK w1 \in Seq(Byte), c \in Byte : v = Append(w1, c)
      BY <2>3, SequenceEmptyOrAppend
    <3>2. w1 \in Seq(Nat) /\ Len(w1) < Len(v) /\ c \in Nat /\ <<c>> \in Seq(Nat)
      BY <3>1 DEF Byte
    <3>3. \A x \in Seq(Nat) : urlDecode[urlEncode(w1) \o x] = w1 \o urlDecode[x]
      BY <3>2
    <3>4. /\ urlEncode(v) = urlEncode(w1) \o EncodedByte(c)
          /\ urlEncode(w1) \in Seq(Nat)
          /\ EncodedByte(c) \in Seq(Nat)
          /\ urlDecode[EncodedByte(c) \o r] = <<c>> \o urlDecode[r]
      BY <3>1, UrlEncodeStep, EncodedByteDecodes
    <3>5. (urlEncode(w1) \o EncodedByte(c)) \o r = urlEncode(w1) \o (EncodedByte(c) \o r)
      BY <3>4, TextAssociative, SMTT(60)
    <3>6. EncodedByte(c) \o r \in Seq(Nat)
      BY <3>4
    <3>7. urlDecode[(urlEncode(w1) \o EncodedByte(c)) \o r] = w1 \o (<<c>> \o urlDecode[r])
      BY <3>3, <3>4, <3>5, <3>6
    <3>8. (w1 \o <<c>>) \o urlDecode[r] = w1 \o (<<c>> \o urlDecode[r])
      <4> DEFINE u == <<c>>
                 d == urlDecode[r]
      <4>1. u \in Seq(Nat) /\ d \in Seq(Nat) /\ w1 \in Seq(Nat)
        BY <2>1, <3>2
      <4> HIDE DEF u, d
      <4>2. (w1 \o u) \o d = w1 \o (u \o d)
        BY <4>1, TextAssociative, SMTT(60)
      <4> QED BY <4>2 DEF u, d
    <3>9. w1 \o <<c>> = v
      BY <3>1, <3>2, AppendIsConcat
    <3> QED BY <3>4, <3>7, <3>8, <3>9
  <2> QED BY <2>2, <2>3
<1>2. w \in Seq(Nat)
  BY BytesAreText
<1> QED BY <1>1, <1>2

-----------------------------------------------------------------------------
(* replace never changes the template it was given.                        *)
LEMMA TemplateTyped == Spec => [](template \in Seq(Byte))
<1>1. Init => template \in Seq(Byte)
  BY CallsAssumption DEF Init
<1>2. template \in Seq(Byte) /\ [Next]_vars => (template \in Seq(Byte))'
  BY DEF Next, Take, Substitute, LeaveLoop, vars
<1> QED BY <1>1, <1>2, PTL DEF Spec

(* urlDecode undoes urlEncode, in front of whatever text.                  *)
THEOREM Decodes == Spec => []EncodedDecodes
<1>1. template \in Seq(Byte) => EncodedDecodes
  <2> SUFFICES ASSUME template \in Seq(Byte), NEW t \in Endings
               PROVE  urlDecode[urlEncode(template) \o t] = template \o urlDecode[t]
    BY DEF EncodedDecodes
  <2>1. t \in Seq(Nat)
    BY TextUtilsAssumption, BytesAreText
  <2> QED BY <2>1, EncodingDecodes
<1> QED BY <1>1, TemplateTyped, PTL

-----------------------------------------------------------------------------
(* The character a text has at i, if it has one.                           *)
CharacterAt(s, i) == IF i <= Len(s) THEN <<s[i]>> ELSE <<>>

Lesser(a, b) == IF a <= b THEN a ELSE b

(* The first rounds of interleaveSaltWithData.                             *)
Interleaved(data, salt, n) ==
  FlattenSeq([i \in 1 .. n |-> CharacterAt(data, i) \o CharacterAt(salt, i)])

(* Where character j of the data is found again.                           *)
PlaceOf(j, salt) == IF j <= Len(salt) THEN 2 * j - 1 ELSE Len(salt) + j

(* A round writes at most one character of each text.                      *)
LEMMA CharacterTyped ==
  ASSUME NEW s \in Seq(Nat), NEW i \in Nat \ {0}
  PROVE  /\ CharacterAt(s, i) \in Seq(Nat)
         /\ Len(CharacterAt(s, i)) = IF i <= Len(s) THEN 1 ELSE 0
         /\ i <= Len(s) => CharacterAt(s, i)[1] = s[i]
<1>1. CASE i <= Len(s)
  BY <1>1 DEF CharacterAt
<1>2. CASE ~(i <= Len(s))
  BY <1>2, EmptySeq DEF CharacterAt
<1> QED BY <1>1, <1>2

(* A round goes on from those before.                                      *)
LEMMA InterleavedStep ==
  ASSUME NEW data \in Seq(Nat), NEW salt \in Seq(Nat), NEW n \in Nat
  PROVE  /\ Interleaved(data, salt, n) \in Seq(Nat)
         /\ Interleaved(data, salt, n + 1) =
              Interleaved(data, salt, n) \o (CharacterAt(data, n + 1) \o CharacterAt(salt, n + 1))
         /\ Interleaved(data, salt, 0) = <<>>
<1> DEFINE piece(i) == CharacterAt(data, i) \o CharacterAt(salt, i)
           s == [i \in 1 .. n + 1 |-> piece(i)]
           r == [i \in 1 .. n |-> s[i]]
<1>1. \A i \in Nat \ {0} : piece(i) \in Seq(Nat)
  BY CharacterTyped
<1>2. s \in PiecesOf(Nat, n + 1)
  <2> HIDE DEF piece
  <2> QED BY <1>1 DEF PiecesOf
<1>3. r = [i \in 1 .. n |-> piece(i)]
  <2> HIDE DEF piece
  <2> QED OBVIOUS
<1>4. s[n + 1] = piece(n + 1)
  <2> HIDE DEF piece
  <2> QED OBVIOUS
<1>5. /\ FlattenSeq(r) \in Seq(Nat)
      /\ FlattenSeq(s) = FlattenSeq(r) \o s[n + 1]
  <2> HIDE DEF s
  <2> QED BY <1>2, FlattenStep
<1>6. Interleaved(data, salt, n) = FlattenSeq(r) /\ Interleaved(data, salt, n + 1) = FlattenSeq(s)
  <2> HIDE DEF r
  <2> QED BY <1>3 DEF Interleaved
<1>7. Interleaved(data, salt, 0) = <<>>
  <2> DEFINE e == [i \in 1 .. 0 |-> piece(i)]
  <2>1. e = <<>>
    OBVIOUS
  <2>2. Interleaved(data, salt, 0) = FlattenSeq(e)
    BY DEF Interleaved
  <2> HIDE DEF e
  <2> QED BY <2>1, <2>2 DEF FlattenSeq
<1> HIDE DEF r, s
<1> QED BY <1>4, <1>5, <1>6, <1>7

(* How many characters of a text the first rounds have written.            *)
LEMMA LesserStep ==
  ASSUME NEW s \in Seq(Nat), NEW k \in Nat
  PROVE  Lesser(k + 1, Len(s)) = Lesser(k, Len(s)) + (IF k + 1 <= Len(s) THEN 1 ELSE 0)
<1>1. Len(s) \in Nat
  OBVIOUS
<1> DEFINE n == Len(s)
<1>2. n \in Nat
  BY <1>1
<1> HIDE DEF n
<1>3. Lesser(k + 1, n) = Lesser(k, n) + (IF k + 1 <= n THEN 1 ELSE 0)
  <2>1. CASE k + 1 <= n
    BY <1>2, <2>1 DEF Lesser
  <2>2. CASE k = n
    BY <1>2, <2>2 DEF Lesser
  <2>3. CASE k > n
    BY <1>2, <2>3 DEF Lesser
  <2> QED BY <1>2, <2>1, <2>2, <2>3
<1> QED BY <1>3 DEF n

(* The characters of the data are where PlaceOf says after each round.     *)
LEMMA InterleavedKeeps ==
  ASSUME NEW data \in Seq(Nat), NEW salt \in Seq(Nat), NEW n \in Nat
  PROVE  /\ Len(Interleaved(data, salt, n)) = Lesser(n, Len(data)) + Lesser(n, Len(salt))
         /\ \A j \in 1 .. Lesser(n, Len(data)) :
              Interleaved(data, salt, n)[PlaceOf(j, salt)] = data[j]
<1> DEFINE Keeps(k) ==
             /\ Len(Interleaved(data, salt, k)) = Lesser(k, Len(data)) + Lesser(k, Len(salt))
             /\ \A j \in 1 .. Lesser(k, Len(data)) :
                  Interleaved(data, salt, k)[PlaceOf(j, salt)] = data[j]
           good == {k \in 0 .. n : Keeps(k)}
<1>1. Len(data) \in Nat /\ Len(salt) \in Nat
  OBVIOUS
<1>2. Keeps(0)
  <2>1. Lesser(0, Len(data)) = 0 /\ Lesser(0, Len(salt)) = 0
    BY <1>1 DEF Lesser
  <2>2. Interleaved(data, salt, 0) = <<>>
    <3>1. 0 \in Nat
      OBVIOUS
    <3> QED BY <3>1, InterleavedStep
  <2> QED BY <2>1, <2>2
<1>3. ASSUME NEW k \in 0 .. n, k < n, Keeps(k) PROVE Keeps(k + 1)
  <2> DEFINE a == CharacterAt(data, k + 1)
             b == CharacterAt(salt, k + 1)
             m == Interleaved(data, salt, k)
             w == Interleaved(data, salt, k + 1)
  <2>0. k \in Nat /\ k + 1 \in Nat \ {0}
    OBVIOUS
  <2>1. m \in Seq(Nat) /\ w = m \o (a \o b)
    BY <2>0, InterleavedStep
  <2>2. /\ a \in Seq(Nat) /\ b \in Seq(Nat)
        /\ Len(a) = (IF k + 1 <= Len(data) THEN 1 ELSE 0)
        /\ Len(b) = (IF k + 1 <= Len(salt) THEN 1 ELSE 0)
        /\ k + 1 <= Len(data) => a[1] = data[k + 1]
    BY <2>0, CharacterTyped
  <2>3. /\ Len(m) = Lesser(k, Len(data)) + Lesser(k, Len(salt))
        /\ \A j \in 1 .. Lesser(k, Len(data)) : m[PlaceOf(j, salt)] = data[j]
    BY <1>3
  <2> HIDE DEF a, b, m, w
  <2>4. /\ Len(w) = Len(m) + Len(a) + Len(b)
        /\ \A i \in 1 .. Len(m) : w[i] = m[i]
        /\ Len(a) = 1 => w[Len(m) + 1] = a[1]
    <3>1. /\ a \o b \in Seq(Nat) /\ Len(a \o b) = Len(a) + Len(b)
          /\ Len(a) = 1 => (a \o b)[1] = a[1]
      <4>1. a \in Seq(Nat) /\ b \in Seq(Nat)
        BY <2>2
      <4>2. a \o b \in Seq(Nat) /\ Len(a \o b) = Len(a) + Len(b)
        BY <4>1, ConcatProperties
      <4>3. (a \o b)[1] = a[1] \/ Len(a) # 1
        <5>1. ASSUME Len(a) = 1 PROVE 1 \in 1 .. Len(a) + Len(b)
          BY <4>1, <5>1
        <5> QED BY <4>1, <5>1, ConcatProperties
      <4> QED BY <4>2, <4>3
    <3> DEFINE c == a \o b
    <3> HIDE DEF c
    <3>2. c \in Seq(Nat) /\ Len(c) = Len(a) + Len(b) /\ (Len(a) = 1 => c[1] = a[1]) /\ w = m \o c
      BY <2>1, <3>1 DEF c
    <3>3. Len(a) \in Nat /\ Len(b) \in Nat /\ Len(m) \in Nat
      BY <2>1, <2>2
    <3>4. Len(w) = Len(m) + Len(c) /\ \A i \in 1 .. Len(m) + Len(c) :
                     w[i] = IF i <= Len(m) THEN m[i] ELSE c[i - Len(m)]
      <4>1. m \in Seq(Nat) /\ c \in Seq(Nat)
        BY <2>1, <3>2
      <4>2. Len(m \o c) = Len(m) + Len(c)
        BY <4>1, ConcatProperties
      <4>3. \A i \in 1 .. Len(m) + Len(c) :
              (m \o c)[i] = IF i <= Len(m) THEN m[i] ELSE c[i - Len(m)]
        BY <4>1, ConcatProperties
      <4> QED BY <3>2, <4>2, <4>3
    <3>5. ASSUME Len(a) = 1 PROVE w[Len(m) + 1] = c[1]
      <4>1. Len(m) + 1 \in 1 .. Len(m) + Len(c) /\ ~(Len(m) + 1 <= Len(m))
            /\ Len(m) + 1 - Len(m) = 1
        BY <3>2, <3>3, <3>5
      <4> QED BY <3>4, <4>1
    <3>6. \A i \in 1 .. Len(m) : w[i] = m[i]
      <4> SUFFICES ASSUME NEW i \in 1 .. Len(m) PROVE w[i] = m[i]
        OBVIOUS
      <4>1. i \in 1 .. Len(m) + Len(c) /\ i <= Len(m)
        BY <3>2, <3>3
      <4> QED BY <3>4, <4>1
    <3>7. Len(w) = Len(m) + Len(a) + Len(b)
      BY <3>2, <3>3, <3>4
    <3> QED BY <3>2, <3>5, <3>6, <3>7
  <2>5. Lesser(k + 1, Len(data)) = Lesser(k, Len(data)) + Len(a)
    BY <2>0, <2>2, LesserStep
  <2>6. Lesser(k + 1, Len(salt)) = Lesser(k, Len(salt)) + Len(b)
    BY <2>0, <2>2, LesserStep
  <2>7. Len(w) = Lesser(k + 1, Len(data)) + Lesser(k + 1, Len(salt))
    <3>1. /\ Lesser(k, Len(data)) \in Nat /\ Lesser(k, Len(salt)) \in Nat
          /\ Len(a) \in Nat /\ Len(b) \in Nat
      BY <1>1, <2>2 DEF Lesser
    <3>2. Len(w) = Len(m) + Len(a) + Len(b)
      BY <2>4
    <3>3. Len(m) = Lesser(k, Len(data)) + Lesser(k, Len(salt))
      BY <2>3
    <3> DEFINE d == Lesser(k, Len(data))
               f == Lesser(k, Len(salt))
               x == Len(a)
               y == Len(b)
    <3>4. d \in Nat /\ f \in Nat /\ x \in Nat /\ y \in Nat /\ Len(w) = d + f + x + y
      BY <3>1, <3>2, <3>3
    <3>5. Lesser(k + 1, Len(data)) = d + x /\ Lesser(k + 1, Len(salt)) = f + y
      BY <2>5, <2>6
    <3> HIDE DEF d, f, x, y
    <3> QED BY <3>4, <3>5
  <2>8. ASSUME NEW j \in 1 .. Lesser(k + 1, Len(data)) PROVE w[PlaceOf(j, salt)] = data[j]
    <3>1. CASE j <= Lesser(k, Len(data))
      <4>1. j \in 1 .. Lesser(k, Len(data))
        BY <1>1, <3>1 DEF Lesser
      <4>2. PlaceOf(j, salt) \in 1 .. Len(m)
        <5>1. j \in Nat /\ j >= 1 /\ j <= k /\ j <= Len(data)
          BY <1>1, <4>1 DEF Lesser
        <5>2. Lesser(k, Len(data)) >= j /\ Lesser(k, Len(data)) \in Nat
          BY <1>1, <5>1 DEF Lesser
        <5>3. CASE j <= Len(salt)
          <6>1. Lesser(k, Len(salt)) >= j /\ Lesser(k, Len(salt)) \in Nat
            BY <1>1, <5>1, <5>3 DEF Lesser
          <6> QED BY <2>3, <5>1, <5>2, <5>3, <6>1 DEF PlaceOf
        <5>4. CASE ~(j <= Len(salt))
          <6>1. Lesser(k, Len(salt)) = Len(salt)
            BY <1>1, <5>1, <5>4 DEF Lesser
          <6> QED BY <1>1, <2>3, <5>1, <5>2, <5>4, <6>1 DEF PlaceOf
        <5> QED BY <5>3, <5>4
      <4> QED BY <2>3, <2>4, <4>1, <4>2
    <3>2. CASE ~(j <= Lesser(k, Len(data)))
      <4>1. j = k + 1 /\ Len(a) = 1 /\ k + 1 <= Len(data)
        BY <1>1, <2>2, <2>5, <3>2 DEF Lesser
      <4>2. PlaceOf(j, salt) = Len(m) + 1
        <5>1. Lesser(k, Len(data)) = k
          BY <1>1, <4>1 DEF Lesser
        <5>2. CASE k + 1 <= Len(salt)
          <6>1. Lesser(k, Len(salt)) = k
            BY <1>1, <5>2 DEF Lesser
          <6> QED BY <2>3, <4>1, <5>1, <5>2, <6>1 DEF PlaceOf
        <5>3. CASE ~(k + 1 <= Len(salt))
          <6>1. Lesser(k, Len(salt)) = Len(salt)
            BY <1>1, <5>3 DEF Lesser
          <6> QED BY <1>1, <2>3, <4>1, <5>1, <5>3, <6>1 DEF PlaceOf
        <5> QED BY <5>2, <5>3
      <4> QED BY <2>2, <2>4, <4>1, <4>2
    <3> QED BY <3>1, <3>2
  <2> QED BY <2>7, <2>8 DEF w
<1>4. good = 0 .. n
  <2>1. 0 \in good
    BY <1>2
  <2>2. ASSUME NEW i \in good, i < n PROVE i + 1 \in good
    <3>1. i \in 0 .. n /\ Keeps(i)
      OBVIOUS
    <3>2. Keeps(i + 1) /\ i + 1 \in 0 .. n
      <4> HIDE DEF Keeps, good
      <4> QED BY <1>3, <2>2, <3>1
    <3> QED BY <3>2
  <2>3. good \in SUBSET (0 .. n)
    OBVIOUS
  <2> HIDE DEF good
  <2> QED BY <2>1, <2>2, <2>3, UpTo
<1>5. Keeps(n)
  <2>1. n \in 0 .. n
    OBVIOUS
  <2> HIDE DEF Keeps
  <2> QED BY <1>4, <2>1
<1> QED BY <1>5

(* The data can be read back from what interleaveSaltWithData returns.     *)
LEMMA InterleavingReadsBack ==
  ASSUME NEW data \in Seq(Nat), NEW salt \in Seq(Nat)
  PROVE  LET mixed == interleaveSaltWithData(data, salt) IN
         /\ Len(mixed) = Len(data) + Len(salt)
         /\ DataOf(mixed, Len(data), Len(salt)) = data
<1> DEFINE n == Largest(Len(data), Len(salt))
           mixed == Interleaved(data, salt, n)
<1>1. interleaveSaltWithData(data, salt) = mixed
  BY DEF interleaveSaltWithData, Interleaved, CharacterAt
<1>2. /\ Len(data) \in Nat /\ Len(salt) \in Nat /\ n \in Nat
      /\ Lesser(n, Len(data)) = Len(data) /\ Lesser(n, Len(salt)) = Len(salt)
  BY DEF Largest, Lesser
<1> HIDE DEF n
<1>3. /\ Len(mixed) = Len(data) + Len(salt)
      /\ \A j \in 1 .. Len(data) : mixed[PlaceOf(j, salt)] = data[j]
  BY <1>2, InterleavedKeeps
<1> HIDE DEF mixed
<1>4. DataOf(mixed, Len(data), Len(salt)) = [j \in 1 .. Len(data) |-> data[j]]
  BY <1>3 DEF DataOf, PlaceOf
<1> QED BY <1>1, <1>3, <1>4

(* The login string can be read back from what is hashed with the salt.    *)
THEOREM Separates == Spec => []InterleavingSeparates
<1>1. template \in Seq(Byte) => InterleavingSeparates
  BY TextUtilsAssumption, BytesAreText, InterleavingReadsBack DEF InterleavingSeparates
<1> QED BY <1>1, TemplateTyped, PTL

-----------------------------------------------------------------------------
(* The front of a text of digits is one, and shorter.                      *)
LEMMA FrontTyped ==
  ASSUME NEW s \in Seq(DigitBytes), s # <<>>
  PROVE  /\ Front(s) \in Seq(DigitBytes) /\ Len(Front(s)) < Len(s)
         /\ DigitValue(Last(s)) \in Nat
<1>1. Len(s) \in Nat \ {0} /\ \A i \in 1 .. Len(s) : s[i] \in DigitBytes
  BY EmptySeq
<1>2. Front(s) \in Seq(DigitBytes) /\ Len(Front(s)) = Len(s) - 1
  <2> DEFINE n == Len(s)
  <2>1. n \in Nat \ {0} /\ \A i \in 1 .. n : s[i] \in DigitBytes
    BY <1>1
  <2> HIDE DEF n
  <2>2. \A i \in 1 .. n - 1 : s[i] \in DigitBytes
    BY <2>1
  <2>3. /\ 1 \in Int /\ n - 1 \in Int
        /\ (IF 1 <= n - 1 THEN n - 1 - 1 + 1 ELSE 0) = n - 1
    BY <2>1
  <2>4. /\ SubSeq(s, 1, n - 1) \in Seq(DigitBytes)
        /\ Len(SubSeq(s, 1, n - 1)) = IF 1 <= n - 1 THEN n - 1 - 1 + 1 ELSE 0
    BY <2>2, <2>3, SubSeqProperties
  <2> QED BY <2>3, <2>4 DEF Front, n
<1>3. Last(s) \in DigitBytes
  BY <1>1 DEF Last
<1>4. \A c \in DigitBytes : DigitValue(c) = c - 48 /\ c - 48 \in Nat
  <2> SUFFICES ASSUME NEW c \in DigitBytes PROVE DigitValue(c) = c - 48 /\ c - 48 \in Nat
    OBVIOUS
  <2>1. c \in 48 .. 57 /\ c \notin 65 .. 70 /\ c \notin 97 .. 102
    BY DEF DigitBytes
  <2>2. c - 48 \in Nat
    BY <2>1
  <2>3. DigitValue(c) = c - 48
    BY <2>1 DEF DigitValue
  <2> QED BY <2>2, <2>3
<1> QED BY <1>1, <1>2, <1>3, <1>4

(* ValueOf is defined for every text of digits, and a natural number.      *)
LEMMA ValueIsNatural == \A s \in Seq(DigitBytes) : ValueOf[s] \in Nat
<1> DEFINE T == Seq(DigitBytes)
           size == [v \in T |-> Len(v)]
           base == {<<>>}
           value == [v \in base |-> 0]
           rest == [v \in T \ base |-> Front(v)]
           make == [v \in T \ base |-> [t \in Nat |-> 10 * t + DigitValue(Last(v))]]
           Right(g, v) == IF v = <<>> THEN 0 ELSE 10 * g[Front(v)] + DigitValue(Last(v))
           Solves(g) == g = [v \in Seq(DigitBytes) |-> Right(g, v)]
<1>1. Defines(T, Nat, size, base, value, rest, make)
  <2>1. size \in [T -> Nat] /\ base \in SUBSET T /\ value \in [base -> Nat]
    BY EmptySeq
  <2>2. rest \in [T \ base -> T] /\ \A v \in T \ base : size[rest[v]] < size[v]
    BY FrontTyped
  <2>3. make \in [T \ base -> [Nat -> Nat]]
    BY FrontTyped
  <2> HIDE DEF T, size, base, value, rest, make
  <2> QED BY <2>1, <2>2, <2>3 DEF Defines
<1>2. PICK f \in [T -> Nat] :
        \A v \in T : f[v] = IF v \in base THEN value[v] ELSE make[v][f[rest[v]]]
  <2> HIDE DEF T, size, base, value, rest, make
  <2> QED BY <1>1, Recursion
<1>3. Solves(f)
  <2> SUFFICES ASSUME NEW v \in T PROVE f[v] = Right(f, v)
    BY <1>2
  <2>1. CASE v = <<>>
    BY <1>2, <2>1
  <2>2. CASE v # <<>>
    <3>1. rest[v] = Front(v) /\ f[Front(v)] \in Nat
      BY <1>2, <2>2, FrontTyped
    <3>2. make[v][f[Front(v)]] = 10 * f[Front(v)] + DigitValue(Last(v))
      BY <2>2, <3>1
    <3> QED BY <1>2, <2>2, <3>1, <3>2
  <2> QED BY <2>1, <2>2
<1>4. ValueOf = CHOOSE g : Solves(g)
  BY DEF ValueOf
<1>5. Solves(ValueOf)
  <2> HIDE DEF Solves
  <2> QED BY <1>3, <1>4
<1>6. \A v \in T : ValueOf[v] = Right(ValueOf, v)
  <2> HIDE DEF Right
  <2> QED BY <1>5
<1> DEFINE bad == {v \in T : ValueOf[v] \notin Nat}
           sizes == {Len(v) : v \in bad}
<1>7. ASSUME bad # {} PROVE FALSE
  <2>1. sizes \in SUBSET Nat /\ sizes # {}
    <3>1. \A v \in bad : Len(v) \in Nat
      OBVIOUS
    <3> HIDE DEF bad
    <3> QED BY <1>7, <3>1
  <2>2. PICK n \in sizes : \A k \in sizes : n <= k
    <3> HIDE DEF sizes
    <3> QED BY <2>1, LeastOf
  <2>3. PICK v \in bad : n = Len(v)
    BY <2>2
  <2>4. v \in T /\ v # <<>>
    BY <1>6, <2>3
  <2>5. /\ Front(v) \in T /\ Len(Front(v)) \in Nat /\ Len(v) \in Nat
        /\ Len(Front(v)) < Len(v) /\ DigitValue(Last(v)) \in Nat
    BY <2>4, FrontTyped
  <2>6. Len(Front(v)) \notin sizes
    <3>1. ~(n <= Len(Front(v)))
      BY <2>3, <2>5
    <3> HIDE DEF sizes
    <3> QED BY <2>2, <3>1
  <2>7. ValueOf[Front(v)] \in Nat
    BY <2>5, <2>6
  <2>8. ValueOf[v] = 10 * ValueOf[Front(v)] + DigitValue(Last(v))
    BY <1>6, <2>4
  <2> QED BY <2>3, <2>5, <2>7, <2>8
<1> QED BY <1>7

(* A text of digits only is what std::stoi reads of it.                    *)
LEMMA OnlyDigitsRead ==
  ASSUME NEW s \in Seq(DigitBytes), s # <<>>
  PROVE  DigitsOf(s) = s /\ SignOf(s) = 1
<1>1. /\ Len(s) \in Nat \ {0} /\ \A i \in 1 .. Len(s) : s[i] \in DigitBytes
      /\ SubSeq(s, 1, Len(s)) = s
  BY EmptySeq, SubSeqFull
<1>2. s[1] \notin SpaceBytes /\ s[1] \notin SignBytes /\ s[1] # MinusByte
  BY <1>1, SMTT(30) DEF DigitBytes, SpaceBytes, SpaceByte, SignBytes, PlusByte, MinusByte
<1>3. Run(s, SpaceBytes) = 0
  <2> DEFINE Fits(n) == /\ \A i \in 1 .. n : s[i] \in SpaceBytes
                        /\ n < Len(s) => s[n + 1] \notin SpaceBytes
  <2>1. 0 \in 0 .. Len(s) /\ Fits(0)
    BY <1>1, <1>2
  <2>2. \A n \in 0 .. Len(s) : Fits(n) => n = 0
    BY <1>1, <1>2
  <2>3. Run(s, SpaceBytes) = CHOOSE n \in 0 .. Len(s) : Fits(n)
    BY DEF Run
  <2> HIDE DEF Fits
  <2> QED BY <2>1, <2>2, <2>3
<1>4. Unspaced(s) = s
  BY <1>1, <1>3 DEF Unspaced, From
<1>5. Run(s, DigitBytes) = Len(s)
  <2> DEFINE Fits(n) == /\ \A i \in 1 .. n : s[i] \in DigitBytes
                        /\ n < Len(s) => s[n + 1] \notin DigitBytes
  <2>1. Len(s) \in 0 .. Len(s) /\ Fits(Len(s))
    BY <1>1
  <2>2. ASSUME NEW n \in 0 .. Len(s), Fits(n) PROVE n = Len(s)
    <3>1. CASE n < Len(s)
      <4>1. n + 1 \in 1 .. Len(s)
        BY <1>1, <3>1
      <4> QED BY <1>1, <2>2, <3>1, <4>1
    <3>2. Len(s) \in Nat /\ n \in 0 .. Len(s)
      BY <1>1
    <3> HIDE DEF Fits
    <3> QED BY <3>1, <3>2
  <2>3. Run(s, DigitBytes) = CHOOSE n \in 0 .. Len(s) : Fits(n)
    BY DEF Run
  <2> HIDE DEF Fits
  <2> QED BY <2>1, <2>2, <2>3
<1>6. Unsigned(s) = s
  BY <1>2 DEF Unsigned
<1> QED BY <1>1, <1>2, <1>4, <1>5, <1>6 DEF DigitsOf, SignOf

(* An int is not changed by being cut to the width of one.                 *)
LEMMA IntIsKept ==
  ASSUME NEW v \in Nat, NEW m \in Nat, v <= m
  PROVE  ((1 * v + m + 1) % (2 * m + 2)) - m - 1 = v
<1> DEFINE a == 1 * v + m + 1
           w == 2 * m + 2
<1>1. a \in Nat /\ w \in Nat /\ a < w /\ w > 0 /\ a = v + m + 1
  OBVIOUS
<1> HIDE DEF a, w
<1>2. a % w = a
  BY <1>1
<1>3. (a % w) - m - 1 = v
  BY <1>1, <1>2
<1> QED BY <1>3 DEF a, w

(* However large the number, the action of a text of digits is that number *)
(* or unknown.                                                             *)
THEOREM Exact == Spec => []NumbersAreExact
<1>1. template \in Seq(Byte) => NumbersAreExact
  <2> SUFFICES ASSUME template \in Seq(Byte), OnlyDigits
               PROVE  StringToEnum(template, UNKNOWN_ACTION, VALID_ACTIONTYPE_VALUES) =
                        IF ValueOf[template] \in VALID_ACTIONTYPE_VALUES THEN ValueOf[template]
                        ELSE UNKNOWN_ACTION
    BY DEF NumbersAreExact
  <2> DEFINE v == ValueOf[template]
  <2>1. template \in Seq(DigitBytes) /\ template # <<>>
    <3>1. \A i \in 1 .. Len(template) : template[i] \in DigitBytes
      BY DEF OnlyDigits, ToSet
    <3>2. template \in [1 .. Len(template) -> DigitBytes] /\ Len(template) \in Nat
      BY <3>1
    <3> QED BY <3>2 DEF OnlyDigits
  <2>2. v \in Nat
    BY <2>1, ValueIsNatural
  <2>3. DigitsOf(template) = template /\ SignOf(template) = 1
    BY <2>1, OnlyDigitsRead
  <2>4. VALID_ACTIONTYPE_VALUES \in SUBSET (-IntMax - 1 .. IntMax) /\ IntMax \in Nat
    BY TextUtilsAssumption, IntAssumption
  <2> HIDE DEF v
  <2>5. StoiReturns(template) <=> v <= IntMax
    <3>1. StoiReturns(template) <=> 1 * v \in -IntMax - 1 .. IntMax
      BY <2>1, <2>3 DEF StoiReturns, v
    <3> QED BY <2>2, <2>4, <3>1
  <2>6. CASE v <= IntMax
    <3>1. Stoi(template) = v
      <4>1. Stoi(template) = ((1 * v + IntMax + 1) % (2 * IntMax + 2)) - IntMax - 1
        BY <2>3 DEF Stoi, v
      <4> QED BY <2>2, <2>4, <2>6, <4>1, IntIsKept
    <3> QED BY <2>5, <2>6, <3>1 DEF StringToEnum, v
  <2>7. CASE ~(v <= IntMax)
    <3>1. v \notin VALID_ACTIONTYPE_VALUES
      BY <2>2, <2>4, <2>7
    <3> QED BY <2>5, <2>7, <3>1 DEF StringToEnum, v
  <2> QED BY <2>6, <2>7
<1> QED BY <1>1, TemplateTyped, PTL

-----------------------------------------------------------------------------
(* FlattenSeq puts the first sequence in front of the others.              *)
LEMMA FlattenFront ==
  ASSUME NEW S, NEW n \in Nat, NEW s \in PiecesOf(S, n + 1)
  PROVE  FlattenSeq(s) = s[1] \o FlattenSeq([i \in 1 .. n |-> s[i + 1]])
<1> DEFINE Upto(k) == [i \in 1 .. k |-> s[i]]
           Behind(k) == [i \in 1 .. k |-> s[i + 1]]
           good == {k \in 0 .. n : /\ FlattenSeq(Behind(k)) \in Seq(S)
                                   /\ FlattenSeq(Upto(k + 1)) = s[1] \o FlattenSeq(Behind(k))}
<1>1. \A i \in 1 .. n + 1 : s[i] \in Seq(S)
  BY DEF PiecesOf
<1>2. ASSUME NEW k \in 0 .. n
      PROVE  /\ FlattenSeq(Upto(k)) \in Seq(S)
             /\ FlattenSeq(Upto(k + 1)) = FlattenSeq(Upto(k)) \o s[k + 1]
             /\ k = 0 => FlattenSeq(Upto(k)) = <<>>
  <2> DEFINE u == Upto(k + 1)
             r == [i \in 1 .. k |-> u[i]]
  <2>1. u \in PiecesOf(S, k + 1)
    BY <1>1 DEF PiecesOf
  <2>0. k \in Nat
    OBVIOUS
  <2>2. r = Upto(k) /\ u[k + 1] = s[k + 1]
    OBVIOUS
  <2>3. /\ FlattenSeq(r) \in Seq(S)
        /\ FlattenSeq(u) = FlattenSeq(r) \o u[k + 1]
        /\ k = 0 => FlattenSeq(r) = <<>>
    <3> HIDE DEF u
    <3> QED BY <2>0, <2>1, FlattenStep
  <2> HIDE DEF r, Upto
  <2> QED BY <2>2, <2>3
<1>3. ASSUME NEW k \in 0 .. n, k < n
      PROVE  /\ FlattenSeq(Behind(k + 1)) \in Seq(S)
             /\ FlattenSeq(Behind(k + 1)) = FlattenSeq(Behind(k)) \o s[k + 2]
  <2> DEFINE u == Behind(k + 2)
             v == Behind(k + 1)
             r == [i \in 1 .. k |-> v[i]]
  <2>1. v \in PiecesOf(S, k + 1)
    BY <1>1, <1>3 DEF PiecesOf
  <2>2. r = Behind(k) /\ v[k + 1] = s[k + 2] /\ k \in Nat
    BY <1>3
  <2>3. s[k + 2] \in Seq(S)
    BY <1>1, <1>3
  <2>4. FlattenSeq(r) \in Seq(S) /\ FlattenSeq(v) = FlattenSeq(r) \o v[k + 1]
    <3> HIDE DEF v
    <3> QED BY <2>1, <2>2, FlattenStep
  <2> HIDE DEF r, v
  <2>5. FlattenSeq(r) \o s[k + 2] \in Seq(S)
    <3> DEFINE x == FlattenSeq(r)
               y == s[k + 2]
    <3>1. x \in Seq(S) /\ y \in Seq(S)
      BY <2>3, <2>4
    <3> HIDE DEF x, y
    <3>2. x \o y \in Seq(S)
      BY <3>1, ConcatProperties
    <3> QED BY <3>2 DEF x, y
  <2>6. FlattenSeq(v) = FlattenSeq(Behind(k)) \o s[k + 2] /\ FlattenSeq(v) \in Seq(S)
    <3> HIDE DEF Behind
    <3> QED BY <2>2, <2>4, <2>5
  <2> HIDE DEF Behind
  <2> QED BY <2>6 DEF v
<1>4. good = 0 .. n
  <2>1. 0 \in good
    <3>1. Behind(0) = <<>>
      OBVIOUS
    <3>2. FlattenSeq(Behind(0)) = <<>>
      <4> HIDE DEF Behind
      <4> QED BY <3>1 DEF FlattenSeq
    <3>3. 0 \in 0 .. n /\ 0 + 1 = 1 /\ s[1] \in Seq(S) /\ <<>> \in Seq(S)
      BY <1>1, EmptySeq
    <3>4. FlattenSeq(Upto(1)) = <<>> \o s[1]
      <4> HIDE DEF Upto
      <4> QED BY <1>2, <3>3
    <3>5. <<>> \o s[1] = s[1] /\ s[1] \o <<>> = s[1]
      BY <3>3, ConcatEmptySeq
    <3> HIDE DEF Upto, Behind
    <3> QED BY <3>2, <3>3, <3>4, <3>5
  <2>2. ASSUME NEW k \in good, k < n PROVE k + 1 \in good
    <3> DEFINE a == FlattenSeq(Behind(k))
    <3>1. k \in 0 .. n /\ k + 1 \in 0 .. n /\ k + 1 + 1 = k + 2
      BY <2>2
    <3>2. a \in Seq(S) /\ FlattenSeq(Upto(k + 1)) = s[1] \o a
      OBVIOUS
    <3>3. /\ FlattenSeq(Behind(k + 1)) \in Seq(S)
          /\ FlattenSeq(Behind(k + 1)) = a \o s[k + 2]
      <4> HIDE DEF Behind
      <4> QED BY <1>3, <2>2, <3>1
    <3>4. FlattenSeq(Upto(k + 1 + 1)) = FlattenSeq(Upto(k + 1)) \o s[k + 1 + 1]
      <4> HIDE DEF Upto
      <4> QED BY <1>2, <3>1
    <3>5. s[1] \in Seq(S) /\ s[k + 2] \in Seq(S)
      BY <1>1, <2>2
    <3> HIDE DEF a
    <3>6. (s[1] \o a) \o s[k + 2] = s[1] \o (a \o s[k + 2])
      <4> DEFINE x == s[1]
                 y == s[k + 2]
      <4>1. x \in Seq(S) /\ y \in Seq(S) /\ a \in Seq(S)
        BY <3>2, <3>5
      <4> HIDE DEF x, y
      <4>2. (x \o a) \o y = x \o (a \o y)
        BY <4>1, ConcatAssociative, SMTT(60)
      <4> QED BY <4>2 DEF x, y
    <3>7. FlattenSeq(Upto(k + 1 + 1)) = s[1] \o FlattenSeq(Behind(k + 1))
      <4> HIDE DEF Upto, Behind
      <4> QED BY <3>1, <3>2, <3>3, <3>4, <3>6
    <3> HIDE DEF Upto, Behind
    <3> QED BY <3>1, <3>3, <3>7
  <2>3. good \in SUBSET (0 .. n)
    OBVIOUS
  <2> HIDE DEF good
  <2> QED BY <2>1, <2>2, <2>3, UpTo
<1>5. FlattenSeq(Upto(n + 1)) = s[1] \o FlattenSeq(Behind(n))
  <2>1. n \in good
    <3>1. n \in 0 .. n
      OBVIOUS
    <3> HIDE DEF good
    <3> QED BY <1>4, <3>1
  <2> QED BY <2>1
<1>6. Upto(n + 1) = s
  BY DEF PiecesOf
<1> HIDE DEF Upto
<1> QED BY <1>5, <1>6

(* The token in front of a list, and what getline leaves behind it.        *)
TokenOf(str, d) == SubSeq(str, 1, Line(str, d))
BehindToken(str, d) == From(str, Line(str, d) + 2)

(* A list is its first token, a delimiter and the rest, or only the token. *)
LEMMA TokenTyped ==
  ASSUME NEW str \in Seq(Nat), str # <<>>, NEW d \in Nat
  PROVE  /\ TokenOf(str, d) \in Seq(Nat)
         /\ BehindToken(str, d) \in Seq(Nat) /\ Len(BehindToken(str, d)) < Len(str)
         /\ \/ str = TokenOf(str, d) /\ BehindToken(str, d) = <<>>
            \/ str = (TokenOf(str, d) \o <<d>>) \o BehindToken(str, d)
<1> DEFINE n == Len(str)
           ends == {i \in DOMAIN str : str[i] = d}
           k == Line(str, d)
<1>1. n \in Nat \ {0} /\ DOMAIN str = 1 .. n /\ \A i \in 1 .. n : str[i] \in Nat
  BY EmptySeq
<1>2. CASE ends = {}
  <2>1. k = n
    BY <1>2 DEF Line
  <2>2. TokenOf(str, d) = str
    BY <2>1, SubSeqFull DEF TokenOf
  <2>3. BehindToken(str, d) = <<>>
    <3>1. n + 2 \in Int /\ n \in Int /\ n < n + 2
      BY <1>1
    <3>2. SubSeq(str, n + 2, n) = <<>>
      <4> HIDE DEF n
      <4> QED BY <3>1, SubSeqEmpty
    <3> QED BY <2>1, <3>2 DEF BehindToken, From
  <2>4. <<>> \in Seq(Nat) /\ Len(<<>>) < n
    BY <1>1, EmptySeq
  <2> QED BY <2>2, <2>3, <2>4
<1>3. CASE ends # {}
  <2> DEFINE e == CHOOSE i \in ends : \A j \in ends : i <= j
  <2>1. e \in ends
    <3>1. ends \in SUBSET Nat
      BY <1>1
    <3>2. \E i \in ends : \A j \in ends : i <= j
      <4> HIDE DEF ends
      <4> QED BY <1>3, <3>1, LeastOf
    <3> HIDE DEF ends
    <3> QED BY <3>2
  <2>2. k = e - 1
    BY <1>3 DEF Line
  <2> HIDE DEF e, k
  <2>3. e \in 1 .. n /\ str[e] = d /\ k \in 0 .. n - 1 /\ k + 1 = e
    BY <1>1, <2>1, <2>2
  <2> HIDE DEF n, ends
  <2>4. /\ TokenOf(str, d) \in Seq(Nat) /\ Len(TokenOf(str, d)) = k
        /\ \A i \in 1 .. k : TokenOf(str, d)[i] = str[i]
    <3>1. /\ 1 \in Int /\ k \in Int /\ \A i \in 1 .. k : str[i] \in Nat
          /\ (IF 1 <= k THEN k - 1 + 1 ELSE 0) = k
          /\ \A i \in 1 .. k : i \in 1 .. k - 1 + 1 /\ 1 + i - 1 = i
      BY <1>1, <2>3
    <3>2. /\ SubSeq(str, 1, k) \in Seq(Nat)
          /\ Len(SubSeq(str, 1, k)) = IF 1 <= k THEN k - 1 + 1 ELSE 0
          /\ \A i \in 1 .. k - 1 + 1 : SubSeq(str, 1, k)[i] = str[1 + i - 1]
      BY <3>1, SubSeqProperties
    <3> QED BY <3>1, <3>2 DEF TokenOf, k
  <2>5. /\ BehindToken(str, d) \in Seq(Nat) /\ Len(BehindToken(str, d)) = n - (k + 1)
        /\ \A i \in 1 .. n - (k + 1) : BehindToken(str, d)[i] = str[k + 1 + i]
    <3>1. /\ k + 2 \in Int /\ n \in Int /\ \A i \in k + 2 .. n : str[i] \in Nat
          /\ (IF k + 2 <= n THEN n - (k + 2) + 1 ELSE 0) = n - (k + 1)
          /\ \A i \in 1 .. n - (k + 1) :
               i \in 1 .. n - (k + 2) + 1 /\ k + 2 + i - 1 = k + 1 + i
      BY <1>1, <2>3
    <3>2. /\ SubSeq(str, k + 2, n) \in Seq(Nat)
          /\ Len(SubSeq(str, k + 2, n)) = IF k + 2 <= n THEN n - (k + 2) + 1 ELSE 0
          /\ \A i \in 1 .. n - (k + 2) + 1 : SubSeq(str, k + 2, n)[i] = str[k + 2 + i - 1]
      BY <3>1, SubSeqProperties
    <3> QED BY <3>1, <3>2 DEF BehindToken, From, k, n
  <2> DEFINE a == TokenOf(str, d)
             b == BehindToken(str, d)
             c == a \o <<d>>
             w == c \o b
  <2>6. c \in Seq(Nat) /\ Len(c) = k + 1 /\ \A i \in 1 .. k + 1 : c[i] = str[i]
    <3>1. c = Append(a, d)
      BY <2>4, AppendIsConcat
    <3>2. Append(a, d) \in Seq(Nat) /\ Len(Append(a, d)) = k + 1 /\ Append(a, d)[k + 1] = d
          /\ \A i \in 1 .. k : Append(a, d)[i] = a[i]
      <4> HIDE DEF a
      <4>1. a \in Seq(Nat) /\ Len(a) = k
        BY <2>4 DEF a
      <4> QED BY <4>1, AppendProperties
    <3>3. \A i \in 1 .. k + 1 : i \in 1 .. k \/ i = k + 1
      BY <2>3
    <3> HIDE DEF c
    <3> QED BY <2>3, <2>4, <3>1, <3>2, <3>3
  <2> HIDE DEF a, b, c
  <2>7. b \in Seq(Nat) /\ Len(b) = n - (k + 1) /\ \A i \in 1 .. n - (k + 1) : b[i] = str[k + 1 + i]
    BY <2>5 DEF b
  <2>8. w \in Seq(Nat) /\ Len(w) = n /\ \A i \in 1 .. n : w[i] = str[i]
    <3>1. k + 1 + (n - (k + 1)) = n
      BY <1>1, <2>3
    <3>2. /\ w \in Seq(Nat) /\ Len(w) = Len(c) + Len(b)
          /\ \A i \in 1 .. Len(c) + Len(b) :
               w[i] = IF i <= Len(c) THEN c[i] ELSE b[i - Len(c)]
      BY <2>6, <2>7, ConcatProperties
    <3>3. ASSUME NEW i \in 1 .. n PROVE w[i] = str[i]
      <4>1. CASE i <= k + 1
        <5>1. i \in 1 .. k + 1
          BY <4>1, <2>3
        <5> QED BY <2>6, <2>7, <3>1, <3>2, <4>1, <5>1
      <4>2. CASE ~(i <= k + 1)
        <5>1. i - (k + 1) \in 1 .. n - (k + 1) /\ k + 1 + (i - (k + 1)) = i
          BY <4>2, <1>1, <2>3
        <5>2. w[i] = b[i - (k + 1)]
          BY <2>6, <2>7, <3>1, <3>2, <4>2
        <5> QED BY <2>7, <5>1, <5>2
      <4> QED BY <4>1, <4>2
    <3> QED BY <2>6, <2>7, <3>1, <3>2, <3>3
  <2>9. w = str
    <3> HIDE DEF w
    <3> QED BY <2>8, SeqEqual DEF n
  <2>10. Len(b) < Len(str)
    BY <1>1, <2>3, <2>7 DEF n
  <2> QED BY <2>4, <2>7, <2>9, <2>10 DEF a, b, c
<1> QED BY <1>2, <1>3

(* The tokens of a list, one by one.                                       *)
LEMMA SplitUnfolds ==
  ASSUME NEW d \in Nat, NEW V, NEW converter,
         \A t \in DOMAIN converter : converter[t] \in V
  PROVE  /\ splitStringToVector(<<>>, d, converter) = <<>>
         /\ \A str \in Seq(Nat) : str # <<>> =>
              splitStringToVector(str, d, converter) =
                SplitOff(TokenOf(str, d),
                         splitStringToVector(BehindToken(str, d), d, converter), converter)
         /\ \A str \in Seq(Nat) : splitStringToVector(str, d, converter) \in Seq(V)
<1> DEFINE S == Seq(Nat)
           T == Seq(V)
           size == [v \in S |-> Len(v)]
           base == {<<>>}
           value == [v \in base |-> <<>>]
           rest == [v \in S \ base |-> BehindToken(v, d)]
           make == [v \in S \ base |-> [t \in T |-> SplitOff(TokenOf(v, d), t, converter)]]
           Right(g, v) == IF v = <<>> THEN <<>> ELSE SplitOff(TokenOf(v, d), g[BehindToken(v, d)], converter)
           Solves(g) == g = [v \in Seq(Nat) |-> Right(g, v)]
           split == CHOOSE g : Solves(g)
<1>0. \A x : \A t \in T : SplitOff(x, t, converter) \in T
  <2> SUFFICES ASSUME NEW x, NEW t \in T PROVE SplitOff(x, t, converter) \in T
    OBVIOUS
  <2>1. CASE x \in DOMAIN converter
    <3> DEFINE u == <<converter[x]>>
    <3>1. u \in Seq(V) /\ t \in Seq(V)
      BY <2>1
    <3>2. SplitOff(x, t, converter) = u \o t
      BY <2>1 DEF SplitOff
    <3> HIDE DEF u
    <3>3. u \o t \in Seq(V)
      BY <3>1, ConcatProperties
    <3> QED BY <3>2, <3>3
  <2>2. CASE x \notin DOMAIN converter
    BY <2>2 DEF SplitOff
  <2> QED BY <2>1, <2>2
<1>1. Defines(S, T, size, base, value, rest, make)
  <2>1. size \in [S -> Nat] /\ base \in SUBSET S /\ value \in [base -> T]
    BY EmptySeq
  <2>2. rest \in [S \ base -> S] /\ \A v \in S \ base : size[rest[v]] < size[v]
    BY TokenTyped
  <2>3. make \in [S \ base -> [T -> T]]
    <3> HIDE DEF S, T, base
    <3> QED BY <1>0
  <2> HIDE DEF S, T, size, base, value, rest, make
  <2> QED BY <2>1, <2>2, <2>3 DEF Defines
<1>2. PICK f \in [S -> T] :
        \A v \in S : f[v] = IF v \in base THEN value[v] ELSE make[v][f[rest[v]]]
  <2> HIDE DEF S, T, size, base, value, rest, make
  <2> QED BY <1>1, Recursion
<1>3. Solves(f)
  <2> SUFFICES ASSUME NEW v \in S PROVE f[v] = Right(f, v)
    BY <1>2
  <2>1. CASE v = <<>>
    BY <1>2, <2>1
  <2>2. CASE v # <<>>
    <3>1. rest[v] = BehindToken(v, d) /\ f[BehindToken(v, d)] \in T
      BY <1>2, <2>2, TokenTyped
    <3>2. make[v][f[BehindToken(v, d)]] = SplitOff(TokenOf(v, d), f[BehindToken(v, d)], converter)
      <4> HIDE DEF T
      <4> QED BY <2>2, <3>1
    <3> QED BY <1>2, <2>2, <3>1, <3>2
  <2> QED BY <2>1, <2>2
<1>4. \A str : splitStringToVector(str, d, converter) = split[str]
  BY DEF splitStringToVector, TokenOf, BehindToken
<1>5. Solves(split)
  <2> HIDE DEF Solves
  <2> QED BY <1>3
<1> HIDE DEF split
<1>6. \A v \in S : split[v] = Right(split, v)
  <2> HIDE DEF Right
  <2> QED BY <1>5
<1> DEFINE good == {v \in S : split[v] \in T}
<1>7. good = S
  <2> SUFFICES ASSUME NEW v \in S, \A t \in S : Len(t) < Len(v) => t \in good
               PROVE  v \in good
    <3>1. good \in SUBSET S
      OBVIOUS
    <3> HIDE DEF good
    <3> QED BY <3>1, TextInduction
  <2>1. CASE v = <<>>
    <3>1. split[v] = <<>> /\ <<>> \in T
      BY <1>6, <2>1, EmptySeq
    <3> QED BY <3>1
  <2>2. CASE v # <<>>
    <3>1. split[BehindToken(v, d)] \in T
      BY <2>2, TokenTyped
    <3>2. split[v] = SplitOff(TokenOf(v, d), split[BehindToken(v, d)], converter)
      BY <1>6, <2>2
    <3>3. split[v] \in T
      <4> HIDE DEF T
      <4> QED BY <1>0, <2>2, <3>1, <3>2
    <3> QED BY <3>3
  <2> QED BY <2>1, <2>2
<1>8. \A v \in S : v # <<>> => split[v] = SplitOff(TokenOf(v, d), split[BehindToken(v, d)], converter)
  BY <1>6
<1>9. split[<<>>] = <<>>
  <2>1. <<>> \in S
    BY EmptySeq
  <2> QED BY <1>6, <2>1
<1> QED BY <1>4, <1>7, <1>8, <1>9

(* What a function makes of tokens, one behind the other.                  *)
Flattened(f, tokens) == FlattenSeq([i \in DOMAIN tokens |-> f[tokens[i]]])

(* It is a sequence.                                                       *)
LEMMA FlattenedTyped ==
  ASSUME NEW V, NEW f \in [Seq(Nat) -> Seq(V)], NEW tokens \in Seq(Seq(Nat))
  PROVE  Flattened(f, tokens) \in Seq(V)
<1> DEFINE n == Len(tokens)
           s == [i \in DOMAIN tokens |-> f[tokens[i]]]
<1>1. n \in Nat /\ DOMAIN tokens = 1 .. n /\ \A i \in 1 .. n : tokens[i] \in Seq(Nat)
  OBVIOUS
<1> HIDE DEF n
<1>2. s \in PiecesOf(V, n)
  BY <1>1 DEF PiecesOf
<1>3. CASE n = 0
  <2>1. s = <<>>
    BY <1>1, <1>3
  <2> HIDE DEF s
  <2>2. FlattenSeq(s) = <<>>
    BY <2>1 DEF FlattenSeq
  <2> QED BY <2>2, EmptySeq DEF s, Flattened
<1>4. CASE n # 0
  <2> HIDE DEF s
  <2>1. PICK g \in PiecesOf(V, n) : Concatenates(g, s, n)
    BY <1>1, <1>2, <1>4, FlattenFunction
  <2>2. FlattenSeq(s) \in Seq(V)
    BY <1>1, <1>4, <2>1 DEF Concatenates, PiecesOf
  <2> QED BY <2>2 DEF s, Flattened
<1> QED BY <1>3, <1>4

(* A token in front of others.                                             *)
LEMMA TokensLonger ==
  ASSUME NEW token \in Seq(Nat), NEW tokens \in Seq(Seq(Nat))
  PROVE  <<token>> \o tokens \in Seq(Seq(Nat))
<1> DEFINE S == Seq(Nat)
           u == <<token>>
<1>1. u \in Seq(S) /\ tokens \in Seq(S)
  OBVIOUS
<1> HIDE DEF u, S
<1>2. u \o tokens \in Seq(S)
  BY <1>1, ConcatProperties
<1> QED BY <1>2 DEF u, S

(* The first token's part comes first.                                     *)
LEMMA FlattenedStep ==
  ASSUME NEW V, NEW f \in [Seq(Nat) -> Seq(V)],
         NEW token \in Seq(Nat), NEW tokens \in Seq(Seq(Nat))
  PROVE  /\ Flattened(f, <<>>) = <<>>
         /\ Flattened(f, <<token>> \o tokens) = f[token] \o Flattened(f, tokens)
<1> DEFINE S == Seq(Nat)
           n == Len(tokens)
           u == <<token>>
           w == u \o tokens
           s == [i \in DOMAIN w |-> f[w[i]]]
<1>1. Flattened(f, <<>>) = <<>>
  <2> DEFINE e == [i \in DOMAIN <<>> |-> f[<<>>[i]]]
  <2>1. e = <<>>
    OBVIOUS
  <2>2. Flattened(f, <<>>) = FlattenSeq(e)
    BY DEF Flattened
  <2> HIDE DEF e
  <2> QED BY <2>1, <2>2 DEF FlattenSeq
<1>2. /\ u \in Seq(S) /\ Len(u) = 1 /\ u[1] = token
      /\ tokens \in Seq(S) /\ n \in Nat /\ DOMAIN tokens = 1 .. n
  OBVIOUS
<1> HIDE DEF u, S
<1>3. /\ w \in Seq(S) /\ Len(w) = 1 + n
      /\ \A i \in 1 .. 1 + n : w[i] = IF i <= 1 THEN u[i] ELSE tokens[i - 1]
  <2>1. u \in Seq(S) /\ tokens \in Seq(S)
    BY <1>2
  <2>2. /\ w \in Seq(S) /\ Len(w) = Len(u) + Len(tokens)
        /\ \A i \in 1 .. Len(u) + Len(tokens) :
             w[i] = IF i <= Len(u) THEN u[i] ELSE tokens[i - Len(u)]
    BY <2>1, ConcatProperties
  <2>3. Len(u) = 1
    BY <1>2
  <2> HIDE DEF w
  <2> QED BY <2>2, <2>3
<1> HIDE DEF w, n
<1>4. /\ DOMAIN w = 1 .. n + 1 /\ w[1] = token /\ \A i \in 1 .. n + 1 : w[i] \in S
      /\ \A i \in 1 .. n : w[i + 1] = tokens[i]
  <2>1. 1 + n = n + 1 /\ DOMAIN w = 1 .. Len(w) /\ 1 \in 1 .. n + 1
    BY <1>2, <1>3
  <2>2. ASSUME NEW i \in 1 .. n PROVE w[i + 1] = tokens[i]
    <3>1. i + 1 \in 1 .. 1 + n /\ ~(i + 1 <= 1) /\ i + 1 - 1 = i
      BY <1>2
    <3> QED BY <1>3, <3>1
  <2>3. \A i \in 1 .. n + 1 : w[i] \in S
    BY <1>3, <2>1
  <2>4. w[1] = token
    BY <1>2, <1>3, <2>1
  <2> QED BY <1>3, <2>1, <2>2, <2>3, <2>4
<1>5. s \in PiecesOf(V, n + 1)
  <2>1. \A i \in 1 .. n + 1 : f[w[i]] \in Seq(V)
    BY <1>4 DEF S
  <2>2. s = [i \in 1 .. n + 1 |-> f[w[i]]]
    BY <1>4
  <2> HIDE DEF s
  <2> QED BY <2>1, <2>2 DEF PiecesOf
<1> DEFINE r == [i \in 1 .. n |-> s[i + 1]]
<1>6. s[1] = f[token] /\ r = [i \in DOMAIN tokens |-> f[tokens[i]]]
  <2>1. \A i \in 1 .. n : i + 1 \in 1 .. n + 1 /\ 1 \in 1 .. n + 1
    BY <1>2
  <2>2. \A i \in 1 .. n : s[i + 1] = f[tokens[i]]
    BY <1>4, <2>1
  <2>3. s[1] = f[token]
    <3>1. 1 \in 1 .. n + 1
      BY <1>2
    <3> QED BY <1>4, <3>1
  <2> HIDE DEF s
  <2> QED BY <1>2, <2>2, <2>3
<1>7. FlattenSeq(s) = s[1] \o FlattenSeq(r)
  <2>1. n \in Nat
    BY <1>2
  <2> HIDE DEF s
  <2> QED BY <1>5, <2>1, FlattenFront
<1>8. Flattened(f, w) = FlattenSeq(s) /\ Flattened(f, tokens) = FlattenSeq(r)
  <2> HIDE DEF r
  <2> QED BY <1>6 DEF Flattened
<1> HIDE DEF s, r
<1> QED BY <1>1, <1>6, <1>7, <1>8 DEF w, u

(* The list of a token and others is the token, a comma and their list.    *)
LEMMA JoinedStep ==
  ASSUME NEW token \in Seq(Nat), NEW tokens \in Seq(Seq(Nat))
  PROVE  /\ Joined(<<>>) = <<>>
         /\ Joined(<<token>> \o tokens) = (token \o <<CommaByte>>) \o Joined(tokens)
<1> DEFINE c == <<CommaByte>>
           f == [t \in Seq(Nat) |-> t \o c]
           w == <<token>> \o tokens
<1>1. c \in Seq(Nat)
  BY DEF CommaByte
<1> HIDE DEF c
<1>2. f \in [Seq(Nat) -> Seq(Nat)]
  <2> SUFFICES ASSUME NEW t \in Seq(Nat) PROVE t \o c \in Seq(Nat)
    OBVIOUS
  <2> QED BY <1>1, ConcatProperties
<1>3. ASSUME NEW v \in Seq(Seq(Nat)) PROVE Joined(v) = Flattened(f, v)
  <2>1. \A i \in DOMAIN v : f[v[i]] = v[i] \o c
    OBVIOUS
  <2> HIDE DEF f
  <2>2. [i \in DOMAIN v |-> f[v[i]]] = [i \in DOMAIN v |-> v[i] \o c]
    BY <2>1
  <2> QED BY <2>2 DEF Joined, Flattened, c
<1>4. w \in Seq(Seq(Nat)) /\ <<>> \in Seq(Seq(Nat))
  BY TokensLonger, EmptySeq
<1>5. f[token] = token \o c
  OBVIOUS
<1> HIDE DEF f
<1>6. Flattened(f, <<>>) = <<>> /\ Flattened(f, w) = f[token] \o Flattened(f, tokens)
  BY <1>2, FlattenedStep
<1> HIDE DEF w
<1>7. Joined(<<>>) = <<>> /\ Joined(w) = (token \o c) \o Joined(tokens)
  BY <1>3, <1>4, <1>5, <1>6
<1> QED BY <1>7 DEF w, c

(* What a converter makes of a token and others is what it makes of the    *)
(* others, behind what it makes of the token unless it throws.             *)
LEMMA ConvertedStep ==
  ASSUME NEW converter, NEW token \in Seq(Nat), NEW tokens \in Seq(Seq(Nat))
  PROVE  /\ Converted(<<>>, converter) = <<>>
         /\ Converted(<<token>> \o tokens, converter)
              = SplitOff(token, Converted(tokens, converter), converter)
<1> DEFINE V == {converter[t] : t \in DOMAIN converter}
           Of(t) == IF t \in DOMAIN converter THEN <<converter[t]>> ELSE <<>>
           f == [t \in Seq(Nat) |-> Of(t)]
           w == <<token>> \o tokens
<1>1. \A t : Of(t) \in Seq(V)
  <2> SUFFICES ASSUME NEW t PROVE Of(t) \in Seq(V)
    OBVIOUS
  <2>1. t \in DOMAIN converter => converter[t] \in V
    OBVIOUS
  <2> HIDE DEF V
  <2> QED BY <2>1, EmptySeq
<1> HIDE DEF V
<1>2. f \in [Seq(Nat) -> Seq(V)]
  <2> HIDE DEF Of
  <2> QED BY <1>1
<1>3. ASSUME NEW v \in Seq(Seq(Nat)) PROVE Converted(v, converter) = Flattened(f, v)
  <2>1. \A i \in DOMAIN v : f[v[i]] = Of(v[i])
    <3> HIDE DEF Of
    <3> QED OBVIOUS
  <2> HIDE DEF f
  <2>2. [i \in DOMAIN v |-> f[v[i]]] = [i \in DOMAIN v |-> Of(v[i])]
    <3> HIDE DEF Of
    <3> QED BY <2>1
  <2> QED BY <2>2 DEF Converted, Flattened
<1>4. w \in Seq(Seq(Nat)) /\ <<>> \in Seq(Seq(Nat))
  BY TokensLonger, EmptySeq
<1>5. f[token] = Of(token)
  <2> HIDE DEF Of
  <2> QED OBVIOUS
<1> HIDE DEF f
<1>6. Flattened(f, <<>>) = <<>> /\ Flattened(f, w) = f[token] \o Flattened(f, tokens)
  BY <1>2, FlattenedStep
<1> DEFINE rest == Converted(tokens, converter)
<1>7. rest \in Seq(V)
  <2>1. tokens = <<>> \/ tokens # <<>>
    OBVIOUS
  <2> QED BY <1>2, <1>3, FlattenedTyped
<1>8. Of(token) \o rest = SplitOff(token, rest, converter)
  <2> HIDE DEF rest
  <2>1. CASE token \in DOMAIN converter
    BY <2>1 DEF SplitOff
  <2>2. CASE token \notin DOMAIN converter
    <3>1. <<>> \o rest = rest
      BY <1>7, ConcatEmptySeq
    <3> QED BY <2>2, <3>1 DEF SplitOff
  <2> QED BY <2>1, <2>2
<1> HIDE DEF w, rest, Of
<1>9. Converted(<<>>, converter) = <<>> /\ Converted(w, converter) = Of(token) \o rest
  <2>1. Converted(tokens, converter) = Flattened(f, tokens)
    BY <1>3
  <2> QED BY <1>3, <1>4, <1>5, <1>6, <2>1 DEF rest
<1> QED BY <1>8, <1>9 DEF w, rest

(* The tokens of a list as texts: none is dropped.                         *)
LEMMA TextsUnfold ==
  ASSUME NEW d \in Nat
  PROVE  /\ splitStringToVector(<<>>, d, string2string_converter) = <<>>
         /\ \A str \in Seq(Nat) : str # <<>> =>
              splitStringToVector(str, d, string2string_converter) =
                <<TokenOf(str, d)>>
                  \o splitStringToVector(BehindToken(str, d), d, string2string_converter)
         /\ \A str \in Seq(Nat) :
              splitStringToVector(str, d, string2string_converter) \in Seq(Seq(Nat))
<1>1. /\ DOMAIN string2string_converter = Seq(Nat)
      /\ \A t \in Seq(Nat) : string2string_converter[t] = t
  BY DEF string2string_converter
<1>2. \A t \in DOMAIN string2string_converter : string2string_converter[t] \in Seq(Nat)
  BY <1>1
<1>3. ASSUME NEW t \in Seq(Nat), NEW rest
      PROVE  SplitOff(t, rest, string2string_converter) = <<t>> \o rest
  BY <1>1 DEF SplitOff
<1>4. \A str \in Seq(Nat) : str # <<>> => TokenOf(str, d) \in Seq(Nat)
  BY TokenTyped
<1> DEFINE Texts(str) == splitStringToVector(str, d, string2string_converter)
<1>5. /\ Texts(<<>>) = <<>>
      /\ \A str \in Seq(Nat) : str # <<>> =>
           Texts(str) =
             SplitOff(TokenOf(str, d), Texts(BehindToken(str, d)), string2string_converter)
      /\ \A str \in Seq(Nat) : Texts(str) \in Seq(Seq(Nat))
  <2> DEFINE V == Seq(Nat)
  <2>1. \A t \in DOMAIN string2string_converter : string2string_converter[t] \in V
    BY <1>2
  <2> HIDE DEF V
  <2>2. /\ Texts(<<>>) = <<>>
        /\ \A str \in Seq(Nat) : str # <<>> =>
             Texts(str) =
               SplitOff(TokenOf(str, d), Texts(BehindToken(str, d)), string2string_converter)
        /\ \A str \in Seq(Nat) : Texts(str) \in Seq(V)
    BY <2>1, SplitUnfolds
  <2> QED BY <2>2 DEF V
<1> HIDE DEF Texts
<1>6. \A str \in Seq(Nat) : str # <<>> =>
        Texts(str) = <<TokenOf(str, d)>> \o Texts(BehindToken(str, d))
  BY <1>3, <1>4, <1>5
<1> QED BY <1>5, <1>6 DEF Texts

(* The tokens of any list make that list, up to a comma at its end.        *)
LEMMA SplitIsJoined ==
  ASSUME NEW list \in Seq(Nat)
  PROVE  Joined(splitStringToVector(list, CommaByte, string2string_converter)) \in {list, list \o <<CommaByte>>}
<1> DEFINE c == <<CommaByte>>
           Again(v) == Joined(splitStringToVector(v, CommaByte, string2string_converter)) \in {v, v \o c}
           good == {v \in Seq(Nat) : Again(v)}
<1>1. good = Seq(Nat)
  <2> SUFFICES ASSUME NEW v \in Seq(Nat), \A t \in Seq(Nat) : Len(t) < Len(v) => t \in good
               PROVE  v \in good
    <3>1. good \in SUBSET Seq(Nat)
      OBVIOUS
    <3> HIDE DEF good
    <3> QED BY <3>1, TextInduction
  <2>1. CommaByte \in Nat /\ c \in Seq(Nat) /\ <<>> \in Seq(Nat) /\ <<>> \in Seq(Seq(Nat))
    BY EmptySeq DEF CommaByte
  <2>2. CASE v = <<>>
    <3>1. splitStringToVector(v, CommaByte, string2string_converter) = <<>>
      BY <2>1, <2>2, TextsUnfold
    <3>2. Joined(<<>>) = <<>>
      BY <2>1, JoinedStep
    <3> QED BY <2>2, <3>1, <3>2
  <2>3. CASE v # <<>>
    <3> DEFINE a == TokenOf(v, CommaByte)
               b == BehindToken(v, CommaByte)
               s == splitStringToVector(b, CommaByte, string2string_converter)
               j == Joined(s)
    <3>1. /\ a \in Seq(Nat) /\ b \in Seq(Nat) /\ Len(b) < Len(v)
          /\ (v = a /\ b = <<>>) \/ v = (a \o c) \o b
      BY <2>1, <2>3, TokenTyped
    <3>2. splitStringToVector(v, CommaByte, string2string_converter) = <<a>> \o s /\ s \in Seq(Seq(Nat))
      BY <2>1, <2>3, <3>1, TextsUnfold
    <3>3. b \in good
      <4> HIDE DEF good, b
      <4> QED BY <3>1
    <3>4. j \in {b, b \o c}
      BY <3>3
    <3> HIDE DEF a, b, s
    <3>5. Joined(<<a>> \o s) = (a \o c) \o j
      BY <3>1, <3>2, JoinedStep
    <3> HIDE DEF j, c
    <3>6. CASE v = a /\ b = <<>>
      <4>1. splitStringToVector(b, CommaByte, string2string_converter) = <<>>
        BY <2>1, <3>6, TextsUnfold
      <4>2. j = <<>>
        <5>1. Joined(<<>>) = <<>>
          BY <2>1, JoinedStep
        <5> QED BY <4>1, <5>1 DEF j, s
      <4>3. a \o c \in Seq(Nat)
        BY <2>1, <3>1, ConcatProperties
      <4>4. (a \o c) \o <<>> = a \o c
        <5> DEFINE d == a \o c
        <5>1. d \in Seq(Nat)
          BY <4>3
        <5> HIDE DEF d
        <5>2. d \o <<>> = d
          BY <5>1, ConcatEmptySeq
        <5> QED BY <5>2 DEF d
      <4> QED BY <3>2, <3>5, <3>6, <4>2, <4>4
    <3>7. CASE v = (a \o c) \o b
      <4> DEFINE d == a \o c
      <4>1. d \in Seq(Nat)
        BY <2>1, <3>1, ConcatProperties
      <4>2. v = d \o b /\ Joined(<<a>> \o s) = d \o j
        BY <3>5, <3>7
      <4> HIDE DEF d
      <4>3. d \o (b \o c) = (d \o b) \o c
        <5>1. b \in Seq(Nat) /\ c \in Seq(Nat)
          BY <2>1, <3>1
        <5>2. (d \o b) \o c = d \o (b \o c)
          BY <4>1, <5>1, TextAssociative, ZenonT(30)
        <5> QED BY <5>2
      <4> QED BY <3>2, <3>4, <4>2, <4>3
    <3> QED BY <3>1, <3>6, <3>7
  <2> QED BY <2>2, <2>3
<1>2. Again(list)
  BY <1>1
<1> QED BY <1>2

(* The tokens of any list under any converter are what it makes of them.   *)
LEMMA SplitIsConverted ==
  ASSUME NEW list \in Seq(Nat), NEW converter
  PROVE  splitStringToVector(list, CommaByte, converter) =
           Converted(splitStringToVector(list, CommaByte, string2string_converter), converter)
<1> DEFINE V == {converter[t] : t \in DOMAIN converter}
           Texts(v) == splitStringToVector(v, CommaByte, string2string_converter)
           Tokens(v) == splitStringToVector(v, CommaByte, converter)
           good == {v \in Seq(Nat) : Tokens(v) = Converted(Texts(v), converter)}
<1>1. \A t \in DOMAIN converter : converter[t] \in V
  OBVIOUS
<1> HIDE DEF V
<1>2. CommaByte \in Nat
  BY DEF CommaByte
<1>3. /\ Texts(<<>>) = <<>>
      /\ \A v \in Seq(Nat) : v # <<>> =>
           Texts(v) = <<TokenOf(v, CommaByte)>> \o Texts(BehindToken(v, CommaByte))
      /\ \A v \in Seq(Nat) : Texts(v) \in Seq(Seq(Nat))
  BY <1>2, TextsUnfold
<1>4. /\ Tokens(<<>>) = <<>>
      /\ \A v \in Seq(Nat) : v # <<>> =>
           Tokens(v) =
             SplitOff(TokenOf(v, CommaByte), Tokens(BehindToken(v, CommaByte)), converter)
  BY <1>1, <1>2, SplitUnfolds
<1> HIDE DEF Texts, Tokens
<1>5. good = Seq(Nat)
  <2> SUFFICES ASSUME NEW v \in Seq(Nat), \A t \in Seq(Nat) : Len(t) < Len(v) => t \in good
               PROVE  v \in good
    <3>1. good \in SUBSET Seq(Nat)
      OBVIOUS
    <3> HIDE DEF good
    <3> QED BY <3>1, TextInduction
  <2>1. CASE v = <<>>
    <3>1. Converted(<<>>, converter) = <<>>
      BY EmptySeq, ConvertedStep
    <3> QED BY <1>3, <1>4, <2>1, <3>1
  <2>2. CASE v # <<>>
    <3> DEFINE a == TokenOf(v, CommaByte)
               b == BehindToken(v, CommaByte)
    <3>1. a \in Seq(Nat) /\ b \in Seq(Nat) /\ Len(b) < Len(v)
      BY <1>2, <2>2, TokenTyped
    <3>2. Tokens(v) = SplitOff(a, Tokens(b), converter) /\ Texts(v) = <<a>> \o Texts(b)
      BY <1>3, <1>4, <2>2
    <3> HIDE DEF a, b
    <3>3. Tokens(b) = Converted(Texts(b), converter)
      <4>1. b \in good
        <5> HIDE DEF good
        <5> QED BY <3>1
      <4> QED BY <4>1
    <3>4. Converted(<<a>> \o Texts(b), converter) =
            SplitOff(a, Converted(Texts(b), converter), converter)
      BY <1>3, <3>1, ConvertedStep
    <3> QED BY <3>2, <3>3, <3>4
  <2> QED BY <2>1, <2>2
<1>6. list \in good
  BY <1>5
<1> QED BY <1>6 DEF Texts, Tokens

(* A list is put together again from its tokens, up to a comma at its end, *)
(* and the numbers of a list are those of its tokens that are numbers.     *)
THEOREM Rejoins == Spec => []SplitRejoins
<1>1. template \in Seq(Byte) => SplitRejoins
  BY BytesAreText, SplitIsJoined, SplitIsConverted DEF SplitRejoins
<1> QED BY <1>1, TemplateTyped, PTL

-----------------------------------------------------------------------------
(* The parser of a command line between two bytes.                         *)
Readings == [args : Seq(Seq(Nat)), buf : Seq(Nat), inQuote : BOOLEAN, escaped : BOOLEAN]

(* What the parser does with a byte.                                       *)
LEMMA ReadByteCases ==
  ASSUME NEW s \in Readings, NEW c \in Nat
  PROVE  /\ s.escaped => ReadByte(s, c) = [s EXCEPT !.buf = Append(@, c), !.escaped = FALSE]
         /\ ~s.escaped /\ c = QuoteByte => ReadByte(s, c) = [s EXCEPT !.inQuote = ~@]
         /\ ~s.escaped /\ ~s.inQuote /\ c = SpaceByte =>
              ReadByte(s, c) = [s EXCEPT !.args = Append(@, s.buf), !.buf = <<>>]
         /\ ~s.escaped /\ c = BackslashByte => ReadByte(s, c) = [s EXCEPT !.escaped = TRUE]
         /\ ~s.escaped /\ c \notin {QuoteByte, BackslashByte} /\ (s.inQuote \/ c # SpaceByte) =>
              ReadByte(s, c) = [s EXCEPT !.buf = Append(@, c)]
<1> USE DEF QuoteByte, SpaceByte, BackslashByte
<1>0. s.escaped \in BOOLEAN /\ s.inQuote \in BOOLEAN
  BY DEF Readings
<1>1. ASSUME s.escaped
      PROVE  ReadByte(s, c) = [s EXCEPT !.buf = Append(@, c), !.escaped = FALSE]
  BY <1>0, <1>1 DEF ReadByte
<1>2. ASSUME ~s.escaped, c = QuoteByte PROVE ReadByte(s, c) = [s EXCEPT !.inQuote = ~@]
  BY <1>0, <1>2 DEF ReadByte
<1>3. ASSUME ~s.escaped, ~s.inQuote, c = SpaceByte
      PROVE  ReadByte(s, c) = [s EXCEPT !.args = Append(@, s.buf), !.buf = <<>>]
  BY <1>0, <1>3 DEF ReadByte
<1>4. ASSUME ~s.escaped, c = BackslashByte PROVE ReadByte(s, c) = [s EXCEPT !.escaped = TRUE]
  BY <1>0, <1>4 DEF ReadByte
<1>5. ASSUME ~s.escaped, c \notin {QuoteByte, BackslashByte}, s.inQuote \/ c # SpaceByte
      PROVE  ReadByte(s, c) = [s EXCEPT !.buf = Append(@, c)]
  BY <1>0, <1>5 DEF ReadByte
<1> QED BY <1>1, <1>2, <1>3, <1>4, <1>5

(* What the parser keeps has its type after each byte.                     *)
LEMMA ReadByteTyped == ASSUME NEW s \in Readings, NEW c \in Nat PROVE ReadByte(s, c) \in Readings
<1>1. /\ s.escaped \in BOOLEAN /\ s.inQuote \in BOOLEAN
      /\ s.args \in Seq(Seq(Nat)) /\ s.buf \in Seq(Nat)
  BY DEF Readings
<1>2. Append(s.buf, c) \in Seq(Nat) /\ Append(s.args, s.buf) \in Seq(Seq(Nat))
      /\ <<>> \in Seq(Nat)
  <2>1. Append(s.buf, c) \in Seq(Nat)
    BY <1>1, AppendProperties
  <2>2. Append(s.args, s.buf) \in Seq(Seq(Nat))
    BY <1>1, AppendProperties
  <2> QED BY <2>1, <2>2, EmptySeq
<1>3. CASE s.escaped
  <2>1. ReadByte(s, c) = [s EXCEPT !.buf = Append(@, c), !.escaped = FALSE]
    BY <1>3, ReadByteCases
  <2>2. [s EXCEPT !.buf = Append(@, c), !.escaped = FALSE] \in Readings
    BY <1>1, <1>2 DEF Readings
  <2> QED BY <2>1, <2>2
<1>4. CASE ~s.escaped /\ c = QuoteByte
  <2>1. ReadByte(s, c) = [s EXCEPT !.inQuote = ~@]
    BY <1>4, ReadByteCases
  <2>2. [s EXCEPT !.inQuote = ~@] \in Readings
    BY <1>1, <1>2 DEF Readings
  <2> QED BY <2>1, <2>2
<1>5. CASE ~s.escaped /\ ~s.inQuote /\ c = SpaceByte
  <2>1. ReadByte(s, c) = [s EXCEPT !.args = Append(@, s.buf), !.buf = <<>>]
    BY <1>5, ReadByteCases
  <2>2. [s EXCEPT !.args = Append(@, s.buf), !.buf = <<>>] \in Readings
    BY <1>1, <1>2 DEF Readings
  <2> QED BY <2>1, <2>2
<1>6. CASE ~s.escaped /\ c = BackslashByte
  <2>1. ReadByte(s, c) = [s EXCEPT !.escaped = TRUE]
    BY <1>6, ReadByteCases
  <2>2. [s EXCEPT !.escaped = TRUE] \in Readings
    BY <1>1, <1>2 DEF Readings
  <2> QED BY <2>1, <2>2
<1>7. CASE ~s.escaped /\ c \notin {QuoteByte, BackslashByte} /\ (s.inQuote \/ c # SpaceByte)
  <2>1. ReadByte(s, c) = [s EXCEPT !.buf = Append(@, c)]
    BY <1>7, ReadByteCases
  <2>2. [s EXCEPT !.buf = Append(@, c)] \in Readings
    BY <1>1, <1>2 DEF Readings
  <2> QED BY <2>1, <2>2
<1> QED BY <1>1, <1>3, <1>4, <1>5, <1>6, <1>7

(* The greatest element of a set of positions.                             *)
LEMMA GreatestOf ==
  ASSUME NEW n \in Nat, NEW S \in SUBSET (1 .. n), S # {}
  PROVE  /\ Max(S) \in S /\ \A i \in S : i <= Max(S)
         /\ S \ {Max(S)} \in SUBSET (1 .. n)
<1> DEFINE gaps == {n - i : i \in S}
<1>1. gaps \in SUBSET Nat /\ gaps # {}
  <2>1. \A i \in S : n - i \in Nat
    OBVIOUS
  <2>2. PICK i \in S : TRUE
    OBVIOUS
  <2>3. n - i \in gaps
    OBVIOUS
  <2> QED BY <2>1, <2>3
<1>2. PICK g \in gaps : \A h \in gaps : g <= h
  <2> HIDE DEF gaps
  <2> QED BY <1>1, LeastOf
<1>3. PICK m \in S : g = n - m
  BY <1>2
<1>4. \A i \in S : i <= m
  <2> SUFFICES ASSUME NEW i \in S PROVE i <= m
    OBVIOUS
  <2>1. n - m <= n - i
    BY <1>2, <1>3
  <2> QED BY <2>1
<1>5. \A i \in S : m >= i
  BY <1>4
<1>6. Max(S) \in S /\ \A i \in S : Max(S) >= i
  BY <1>5 DEF Max
<1> QED BY <1>6

(* What the parser has read after each byte.                               *)
ReadsOf(n) == [0 .. n -> Readings]

ReadsOneByOne(h, t) ==
  /\ h[0] = Unread
  /\ \A k \in 1 .. Len(t) : h[k] = ReadByte(h[k - 1], t[k])
  /\ Read(t) = h[Len(t)]

(* The fold of ReadByte over a text finds its result in a function of the  *)
(* number of bytes read.                                                   *)
LEMMA ReadFunction ==
  ASSUME NEW t \in Seq(Nat)
  PROVE  \E h \in ReadsOf(Len(t)) : ReadsOneByOne(h, t)
<1> DEFINE n == Len(t)
           D == SUBSET (1 .. n)
           T == Readings
           size == [S \in D |-> IF S = {} THEN 0 ELSE Max(S)]
           base == {{}}
           value == [S \in base |-> Unread]
           rest == [S \in D \ base |-> S \ {Max(S)}]
           make == [S \in D \ base |-> [r \in T |-> ReadByte(r, t[Max(S)])]]
           Right(g, S) == IF S = {} THEN Unread ELSE ReadByte(g[S \ {Max(S)}], t[Max(S)])
           Solves(g) == g = [S \in SUBSET (DOMAIN t) |-> Right(g, S)]
           iter == CHOOSE g : Solves(g)
<1>1. n \in Nat /\ DOMAIN t = 1 .. n /\ \A i \in 1 .. n : t[i] \in Nat
  OBVIOUS
<1>2. \A S \in D \ base : /\ Max(S) \in S /\ Max(S) \in 1 .. n
                          /\ S \ {Max(S)} \in D
                          /\ \A i \in S : i <= Max(S)
  <2> SUFFICES ASSUME NEW S \in D \ base
               PROVE  /\ Max(S) \in S /\ Max(S) \in 1 .. n
                      /\ S \ {Max(S)} \in D
                      /\ \A i \in S : i <= Max(S)
    OBVIOUS
  <2>1. S \in SUBSET (1 .. n) /\ S # {}
    OBVIOUS
  <2> HIDE DEF n
  <2>2. Max(S) \in S /\ (\A i \in S : i <= Max(S)) /\ S \ {Max(S)} \in SUBSET (1 .. n)
    BY <1>1, <2>1, GreatestOf
  <2> QED BY <2>1, <2>2
<1> HIDE DEF n
<1>3. Unread \in T
  BY EmptySeq DEF Unread, Readings
<1>4. Defines(D, T, size, base, value, rest, make)
  <2>1. size \in [D -> Nat]
    BY <1>2
  <2>2. base \in SUBSET D /\ value \in [base -> T]
    BY <1>3
  <2>3. rest \in [D \ base -> D]
    BY <1>2
  <2>4. ASSUME NEW S \in D \ base PROVE size[rest[S]] < size[S]
    <3> DEFINE R == S \ {Max(S)}
    <3>1. rest[S] = R /\ R \in D /\ size[S] = Max(S) /\ Max(S) \in 1 .. n
      BY <1>2
    <3>2. CASE R = {}
      BY <3>1, <3>2
    <3>3. CASE R # {}
      <4>1. R \in D \ base
        BY <3>1, <3>3
      <4>2. Max(R) \in R /\ Max(R) \in 1 .. n
        <5> HIDE DEF R, D, base
        <5> QED BY <1>2, <4>1
      <4>3. size[R] = Max(R)
        BY <3>1, <3>3
      <4>4. Max(R) \in S /\ Max(R) # Max(S)
        BY <4>2
      <4>5. Max(R) <= Max(S)
        BY <1>2, <4>4
      <4> HIDE DEF R, size, rest
      <4> QED BY <3>1, <4>2, <4>3, <4>4, <4>5
    <3> QED BY <3>2, <3>3
  <2>5. make \in [D \ base -> [T -> T]]
    <3>1. \A S \in D \ base : \A r \in T : ReadByte(r, t[Max(S)]) \in T
      BY <1>1, <1>2, ReadByteTyped
    <3> HIDE DEF D, T, base
    <3> QED BY <3>1
  <2> HIDE DEF D, T, size, base, value, rest, make
  <2> QED BY <2>1, <2>2, <2>3, <2>4, <2>5 DEF Defines
<1>5. PICK f \in [D -> T] :
        \A S \in D : f[S] = IF S \in base THEN value[S] ELSE make[S][f[rest[S]]]
  <2> HIDE DEF D, T, size, base, value, rest, make
  <2> QED BY <1>4, Recursion
<1>6. Solves(f)
  <2> SUFFICES ASSUME NEW S \in D PROVE f[S] = Right(f, S)
    BY <1>1, <1>5
  <2>1. CASE S = {}
    BY <1>5, <2>1
  <2>2. CASE S # {}
    <3> DEFINE R == S \ {Max(S)}
    <3>1. rest[S] = R /\ f[R] \in T
      BY <1>2, <1>5, <2>2
    <3> HIDE DEF R, T, rest
    <3>2. make[S][f[R]] = ReadByte(f[R], t[Max(S)])
      BY <2>2, <3>1
    <3>3. f[S] = make[S][f[rest[S]]]
      BY <1>5, <2>2
    <3> HIDE DEF make
    <3> QED BY <2>2, <3>1, <3>2, <3>3 DEF R
  <2> QED BY <2>1, <2>2
<1>7. Read(t) = iter[DOMAIN t]
  BY DEF Read, FoldLeft, MapThenFoldSet
<1>8. Solves(iter)
  <2> HIDE DEF Solves
  <2> QED BY <1>6
<1> HIDE DEF iter
<1>9. \A S \in D : iter[S] = Right(iter, S)
  <2> HIDE DEF Right
  <2> QED BY <1>1, <1>8
<1> DEFINE h == [k \in 0 .. n |-> iter[1 .. k]]
<1>10. h[0] = Unread
  <2>1. 1 .. 0 = {} /\ {} \in D /\ h[0] = iter[1 .. 0]
    BY <1>1
  <2> QED BY <1>9, <2>1
<1>11. ASSUME NEW k \in 1 .. n PROVE h[k] = ReadByte(h[k - 1], t[k])
  <2> DEFINE S == 1 .. k
  <2>1. S \in D /\ S \in D \ base /\ S # {}
    <3>1. k \in S /\ \A i \in S : i \in 1 .. n
      BY <1>1
    <3> HIDE DEF S
    <3> QED BY <3>1
  <2>2. Max(S) = k
    <3>1. Max(S) \in S /\ \A i \in S : i <= Max(S)
      <4> HIDE DEF S, D, base
      <4> QED BY <1>2, <2>1
    <3>2. k \in S
      BY <1>1
    <3>3. Max(S) <= k /\ k <= Max(S) /\ Max(S) \in Int
      <4>1. Max(S) \in 1 .. k
        BY <3>1
      <4> QED BY <3>1, <3>2, <4>1
    <3> QED BY <1>1, <3>3
  <2>3. S \ {k} = 1 .. k - 1
    BY <1>1
  <2>4. iter[S] = ReadByte(iter[1 .. k - 1], t[k])
    <3> HIDE DEF S, D
    <3> QED BY <1>9, <2>1, <2>2, <2>3
  <2>5. h[k] = iter[S] /\ h[k - 1] = iter[1 .. k - 1]
    <3>1. k \in 0 .. n /\ k - 1 \in 0 .. n
      BY <1>1
    <3> QED BY <3>1
  <2> QED BY <2>4, <2>5
<1>12. Read(t) = h[n]
  BY <1>1, <1>7
<1> DEFINE good == {k \in 0 .. n : h[k] \in Readings}
<1> HIDE DEF h
<1>13. good = 0 .. n
  <2>1. 0 \in good
    BY <1>1, <1>3, <1>10
  <2>2. ASSUME NEW k \in good, k < n PROVE k + 1 \in good
    <3>1. k + 1 \in 1 .. n /\ k + 1 - 1 = k /\ k + 1 \in 0 .. n
      BY <1>1, <2>2
    <3>2. h[k + 1] = ReadByte(h[k], t[k + 1])
      BY <1>11, <3>1
    <3>3. h[k] \in Readings /\ t[k + 1] \in Nat
      BY <1>1, <3>1
    <3>4. h[k + 1] \in Readings
      BY <3>2, <3>3, ReadByteTyped
    <3> QED BY <3>1, <3>4
  <2>3. good \in SUBSET (0 .. n)
    OBVIOUS
  <2> HIDE DEF good
  <2> QED BY <1>1, <2>1, <2>2, <2>3, UpTo
<1>14. h \in ReadsOf(n)
  <2>1. \A k \in 0 .. n : h[k] \in Readings
    BY <1>13
  <2> QED BY <2>1 DEF ReadsOf, h
<1>15. ReadsOneByOne(h, t)
  BY <1>10, <1>11, <1>12 DEF ReadsOneByOne, n
<1> QED BY <1>14, <1>15 DEF n

(* The parser goes on from what it has read before.                        *)
LEMMA ReadStep ==
  ASSUME NEW w \in Seq(Nat), NEW c \in Nat
  PROVE  /\ Read(w) \in Readings
         /\ Read(Append(w, c)) = ReadByte(Read(w), c)
         /\ w = <<>> => Read(w) = Unread
<1> DEFINE n == Len(w)
           v == Append(w, c)
<1>1. /\ n \in Nat /\ v \in Seq(Nat) /\ Len(v) = n + 1 /\ v[n + 1] = c
      /\ \A i \in 1 .. n : v[i] = w[i]
  <2>1. n \in Nat
    OBVIOUS
  <2>2. v \in Seq(Nat) /\ Len(v) = n + 1 /\ v[n + 1] = c /\ \A i \in 1 .. n : v[i] = w[i]
    BY AppendProperties
  <2> QED BY <2>1, <2>2
<1> HIDE DEF v
<1>2. PICK g \in ReadsOf(n) : ReadsOneByOne(g, w)
  BY ReadFunction
<1>3. PICK h \in ReadsOf(Len(v)) : ReadsOneByOne(h, v)
  BY <1>1, ReadFunction
<1>4. w = <<>> => n = 0
  OBVIOUS
<1>5. /\ g[0] = Unread /\ Read(w) = g[n]
      /\ \A k \in 1 .. n : g[k] = ReadByte(g[k - 1], w[k])
  BY <1>2 DEF ReadsOneByOne
<1>6. /\ h[0] = Unread /\ Read(v) = h[n + 1]
      /\ \A k \in 1 .. n + 1 : h[k] = ReadByte(h[k - 1], v[k])
  BY <1>1, <1>3 DEF ReadsOneByOne
<1> HIDE DEF n
<1> DEFINE good == {k \in 0 .. n : g[k] = h[k]}
<1>7. good = 0 .. n
  <2>1. 0 \in good
    BY <1>1, <1>5, <1>6
  <2>2. ASSUME NEW k \in good, k < n PROVE k + 1 \in good
    <3> DEFINE j == k + 1
    <3>1. j \in 1 .. n /\ j \in 1 .. n + 1 /\ j - 1 = k /\ j \in 0 .. n /\ g[k] = h[k]
      BY <1>1, <2>2
    <3> HIDE DEF j
    <3>2. g[j] = ReadByte(g[k], w[j]) /\ h[j] = ReadByte(h[k], v[j]) /\ v[j] = w[j]
      BY <1>1, <1>5, <1>6, <3>1
    <3>3. j \in good
      BY <3>1, <3>2
    <3> QED BY <3>3 DEF j
  <2>3. good \in SUBSET (0 .. n)
    OBVIOUS
  <2> HIDE DEF good
  <2> QED BY <1>1, <2>1, <2>2, <2>3, UpTo
<1>8. g[n] = h[n] /\ g[n] \in Readings
  <2>1. n \in 0 .. n
    BY <1>1
  <2>2. n \in good
    BY <1>7, <2>1
  <2>3. g[n] \in Readings
    BY <1>2, <2>1 DEF ReadsOf
  <2> QED BY <2>2, <2>3
<1>9. Read(v) = ReadByte(h[n], c)
  <2>1. n + 1 \in 1 .. n + 1 /\ n + 1 - 1 = n
    BY <1>1
  <2> QED BY <1>1, <1>6, <2>1
<1> QED BY <1>4, <1>5, <1>8, <1>9 DEF v

(* The same for one byte behind a text.                                    *)
LEMMA ReadBehind ==
  ASSUME NEW w \in Seq(Nat), NEW c \in Nat
  PROVE  /\ w \o <<c>> \in Seq(Nat)
         /\ Read(w) \in Readings /\ Read(w \o <<c>>) \in Readings
         /\ Read(w \o <<c>>) = ReadByte(Read(w), c)
<1>1. w \o <<c>> = Append(w, c) /\ Append(w, c) \in Seq(Nat)
  BY AppendIsConcat, AppendProperties
<1>2. Read(w) \in Readings /\ Read(Append(w, c)) = ReadByte(Read(w), c)
  BY ReadStep
<1>3. ReadByte(Read(w), c) \in Readings
  BY <1>2, ReadByteTyped
<1> QED BY <1>1, <1>2, <1>3

(* Between quotes, a protected byte is read as that byte.                  *)
InQuotes(r) == r.inQuote /\ ~r.escaped

(* What is read of it goes to the end of the argument.                      *)
LEMMA ProtectedIsRead ==
  ASSUME NEW w \in Seq(Nat), NEW c \in Nat, InQuotes(Read(w))
  PROVE  /\ Protected(c) \in Seq(Nat)
         /\ InQuotes(Read(w \o Protected(c)))
         /\ Read(w \o Protected(c)).args = Read(w).args
         /\ Read(w \o Protected(c)).buf = Read(w).buf \o <<c>>
<1> DEFINE r == Read(w)
           z == Read(w \o Protected(c))
<1>1. r \in Readings /\ r.inQuote = TRUE /\ r.escaped = FALSE /\ r.buf \in Seq(Nat)
  <2>1. Read(w) \in Readings
    BY ReadBehind
  <2> QED BY <2>1 DEF InQuotes, Readings
<1>2. CASE c \in {QuoteByte, BackslashByte}
  <2> DEFINE b == BackslashByte
             x == <<b>>
             v == w \o x
             y == Read(v)
  <2>1. Protected(c) = <<b, c>> /\ <<b, c>> \in Seq(Nat) /\ b \in Nat /\ b # QuoteByte
    BY <1>2 DEF Protected, BackslashByte, QuoteByte
  <2>2. v \in Seq(Nat) /\ y = ReadByte(r, b)
    <3> HIDE DEF b
    <3> QED BY <2>1, ReadBehind
  <2>3. y = [r EXCEPT !.escaped = TRUE]
    BY <1>1, <2>1, <2>2, ReadByteCases
  <2>4. w \o <<b, c>> = v \o <<c>>
    <3>1. <<b, c>> = x \o <<c>>
      OBVIOUS
    <3> DEFINE u == <<c>>
    <3>2. x \in Seq(Nat) /\ u \in Seq(Nat)
      BY <2>1
    <3> HIDE DEF x, u
    <3>3. (w \o x) \o u = w \o (x \o u)
      BY <3>2, TextAssociative, ZenonT(30)
    <3> QED BY <3>1, <3>3 DEF u
  <2>5. y \in Readings /\ y.escaped = TRUE /\ y.args = r.args /\ y.buf = r.buf /\ y.inQuote = TRUE
    <3>1. y \in Readings
      <4> HIDE DEF v
      <4> QED BY <2>2, ReadBehind
    <3> HIDE DEF r, y
    <3> QED BY <1>1, <2>3, <3>1 DEF Readings
  <2>6. z = ReadByte(y, c)
    <3> HIDE DEF v
    <3> QED BY <2>1, <2>2, <2>4, ReadBehind
  <2> HIDE DEF y, r, z
  <2>7. z = [y EXCEPT !.buf = Append(@, c), !.escaped = FALSE]
    BY <2>5, <2>6, ReadByteCases
  <2>8. /\ z.args = r.args /\ z.buf = Append(r.buf, c)
        /\ z.inQuote = TRUE /\ z.escaped = FALSE
    BY <2>5, <2>7 DEF Readings
  <2>9. Append(r.buf, c) = r.buf \o <<c>>
    BY <1>1, AppendIsConcat
  <2> QED BY <2>1, <2>8, <2>9 DEF InQuotes, z, r
<1>3. CASE c \notin {QuoteByte, BackslashByte}
  <2>1. Protected(c) = <<c>> /\ <<c>> \in Seq(Nat)
    BY <1>3 DEF Protected
  <2>2. z = ReadByte(r, c)
    BY <2>1, ReadBehind
  <2> HIDE DEF r, z
  <2>3. z = [r EXCEPT !.buf = Append(@, c)]
    BY <1>1, <1>3, <2>2, ReadByteCases
  <2>4. /\ z.args = r.args /\ z.buf = Append(r.buf, c)
        /\ z.inQuote = TRUE /\ z.escaped = FALSE
    BY <1>1, <2>3 DEF Readings
  <2>5. Append(r.buf, c) = r.buf \o <<c>>
    BY <1>1, AppendIsConcat
  <2> QED BY <2>1, <2>4, <2>5 DEF InQuotes, z, r
<1> QED BY <1>2, <1>3

-----------------------------------------------------------------------------
(* What is between the quotes of an argument.                              *)
Inside(t) == FlattenSeq([i \in DOMAIN t |-> Protected(t[i])])

(* A protected byte is a text.                                             *)
LEMMA ProtectedTyped == ASSUME NEW c \in Nat PROVE Protected(c) \in Seq(Nat)
<1>1. BackslashByte \in Nat
  BY DEF BackslashByte
<1>2. <<BackslashByte, c>> \in Seq(Nat) /\ <<c>> \in Seq(Nat)
  BY <1>1
<1> QED BY <1>2 DEF Protected

(* The bytes of an argument are protected one by one.                      *)
LEMMA InsideStep ==
  ASSUME NEW w \in Seq(Nat), NEW c \in Nat
  PROVE  /\ Inside(w) \in Seq(Nat)
         /\ Inside(Append(w, c)) = Inside(w) \o Protected(c)
         /\ w = <<>> => Inside(w) = <<>>
<1> DEFINE n == Len(w)
           v == Append(w, c)
           s == [i \in DOMAIN v |-> Protected(v[i])]
           r == [i \in 1 .. n |-> s[i]]
<1>1. /\ n \in Nat /\ v \in Seq(Nat) /\ Len(v) = n + 1 /\ DOMAIN v = 1 .. n + 1
      /\ v[n + 1] = c /\ \A i \in 1 .. n : v[i] = w[i]
      /\ \A i \in 1 .. n + 1 : v[i] \in Nat
      /\ DOMAIN w = 1 .. n
  <2>1. n \in Nat /\ DOMAIN w = 1 .. n
    OBVIOUS
  <2>2. /\ v \in Seq(Nat) /\ Len(v) = n + 1 /\ v[n + 1] = c
        /\ \A i \in 1 .. n : v[i] = w[i]
    BY AppendProperties
  <2> HIDE DEF v, n
  <2> QED BY <2>1, <2>2
<1>2. s \in PiecesOf(Nat, n + 1)
  <2>1. \A i \in 1 .. n + 1 : Protected(v[i]) \in Seq(Nat)
    <3> HIDE DEF v
    <3> QED BY <1>1, ProtectedTyped
  <2> HIDE DEF v
  <2> QED BY <1>1, <2>1 DEF PiecesOf
<1>3. r = [i \in DOMAIN w |-> Protected(w[i])]
  <2> HIDE DEF v
  <2> QED BY <1>1
<1>4. s[n + 1] = Protected(c)
  <2> HIDE DEF v
  <2> QED BY <1>1
<1>5. w = <<>> => n = 0
  OBVIOUS
<1> HIDE DEF n
<1>6. /\ FlattenSeq(r) \in Seq(Nat)
      /\ FlattenSeq(s) = FlattenSeq(r) \o s[n + 1]
      /\ n = 0 => FlattenSeq(r) = <<>>
  <2>1. n \in Nat
    BY <1>1
  <2> HIDE DEF s
  <2> QED BY <1>2, <2>1, FlattenStep
<1> HIDE DEF r
<1>7. Inside(v) = FlattenSeq(s) /\ Inside(w) = FlattenSeq(r)
  BY <1>3 DEF Inside
<1> QED BY <1>4, <1>5, <1>6, <1>7

(* Between quotes, protected bytes are read as those bytes.                *)
LEMMA InsideIsRead ==
  ASSUME NEW w \in Seq(Nat), NEW t \in Seq(Nat), InQuotes(Read(w))
  PROVE  /\ Inside(t) \in Seq(Nat) /\ w \o Inside(t) \in Seq(Nat)
         /\ InQuotes(Read(w \o Inside(t)))
         /\ Read(w \o Inside(t)).args = Read(w).args
         /\ Read(w \o Inside(t)).buf = Read(w).buf \o t
<1> DEFINE IsRead(v) == /\ InQuotes(Read(w \o Inside(v)))
                        /\ Read(w \o Inside(v)).args = Read(w).args
                        /\ Read(w \o Inside(v)).buf = Read(w).buf \o v
           good == {v \in Seq(Nat) : IsRead(v)}
<1>0. Read(w).buf \in Seq(Nat)
  <2>1. 0 \in Nat
    OBVIOUS
  <2>2. Read(w) \in Readings
    BY <2>1, ReadStep
  <2> QED BY <2>2 DEF Readings
<1>1. good = Seq(Nat)
  <2> SUFFICES ASSUME NEW v \in Seq(Nat), \A r \in Seq(Nat) : Len(r) < Len(v) => r \in good
               PROVE  v \in good
    <3>1. good \in SUBSET Seq(Nat)
      OBVIOUS
    <3> HIDE DEF good
    <3> QED BY <3>1, TextInduction
  <2>1. CASE v = <<>>
    <3>1. Inside(v) = <<>>
      <4>1. 0 \in Nat
        OBVIOUS
      <4> QED BY <2>1, <4>1, InsideStep
    <3>2. w \o Inside(v) = w
      BY <3>1, ConcatEmptySeq
    <3> DEFINE b == Read(w).buf
    <3>3. b \in Seq(Nat)
      BY <1>0
    <3> HIDE DEF b
    <3>4. b \o v = b
      BY <2>1, <3>3, ConcatEmptySeq
    <3>5. IsRead(v)
      BY <3>2, <3>4 DEF b
    <3> QED BY <3>5
  <2>2. CASE v # <<>>
    <3>1. PICK u \in Seq(Nat), c \in Nat : v = Append(u, c)
      BY <2>2, SequenceEmptyOrAppend
    <3>2. Len(u) < Len(v)
      BY <3>1
    <3>3. IsRead(u)
      <4>1. u \in good
        <5> HIDE DEF good
        <5> QED BY <3>2
      <4> QED BY <4>1
    <3> DEFINE i == Inside(u)
               p == Protected(c)
               x == w \o i
               b == Read(w).buf
    <3>4. Inside(v) = i \o p /\ i \in Seq(Nat) /\ p \in Seq(Nat)
      BY <3>1, InsideStep, ProtectedTyped
    <3> HIDE DEF i, p
    <3>5. x \in Seq(Nat) /\ w \o (i \o p) = x \o p
      <4>1. w \o i \in Seq(Nat)
        BY <3>4, TextConcat
      <4>2. (w \o i) \o p = w \o (i \o p)
        BY <3>4, TextAssociative, SMTT(60)
      <4> QED BY <4>1, <4>2
    <3>6. InQuotes(Read(x)) /\ Read(x).args = Read(w).args /\ Read(x).buf = b \o u
      BY <3>3 DEF i
    <3> HIDE DEF x
    <3>7. /\ InQuotes(Read(x \o p)) /\ Read(x \o p).args = Read(x).args
          /\ Read(x \o p).buf = Read(x).buf \o <<c>>
      BY <3>5, <3>6, ProtectedIsRead DEF p
    <3>8. (b \o u) \o <<c>> = b \o v
      <4> DEFINE e == <<c>>
      <4>1. e \in Seq(Nat) /\ b \in Seq(Nat)
        BY <1>0
      <4>2. v = u \o e
        BY <3>1, AppendIsConcat
      <4> HIDE DEF e, b
      <4>3. (b \o u) \o e = b \o (u \o e)
        BY <4>1, TextAssociative, SMTT(60)
      <4> QED BY <4>2, <4>3 DEF e
    <3>9. IsRead(v)
      BY <3>4, <3>5, <3>6, <3>7, <3>8
    <3> QED BY <3>9
  <2> QED BY <2>1, <2>2
<1>2. IsRead(t)
  BY <1>1
<1>3. Inside(t) \in Seq(Nat) /\ w \o Inside(t) \in Seq(Nat)
  <2>1. 0 \in Nat
    OBVIOUS
  <2>2. Inside(t) \in Seq(Nat)
    BY <2>1, InsideStep
  <2> QED BY <2>2, TextConcat
<1> QED BY <1>2, <1>3

(* Outside quotes, a quoted text is read as that text.                     *)
OutOfQuotes(r) == ~r.inQuote /\ ~r.escaped

(* A quote begins or ends what is quoted, and adds nothing.                *)
LEMMA QuoteIsRead ==
  ASSUME NEW w \in Seq(Nat), ~Read(w).escaped
  PROVE  LET z == Read(w \o <<QuoteByte>>) IN
         /\ w \o <<QuoteByte>> \in Seq(Nat)
         /\ z = [Read(w) EXCEPT !.inQuote = ~@]
         /\ z.args = Read(w).args /\ z.buf = Read(w).buf /\ ~z.escaped
         /\ z.inQuote <=> ~Read(w).inQuote
<1> DEFINE q == QuoteByte
           r == Read(w)
           z == Read(w \o <<q>>)
<1>1. q \in Nat
  BY DEF QuoteByte
<1>2. w \o <<q>> \in Seq(Nat) /\ r \in Readings /\ z = ReadByte(r, q)
  <2> HIDE DEF q
  <2> QED BY <1>1, ReadBehind
<1> HIDE DEF r, z
<1>3. z = [r EXCEPT !.inQuote = ~@]
  BY <1>1, <1>2, ReadByteCases DEF r
<1>4. /\ z.args = r.args /\ z.buf = r.buf /\ z.escaped = r.escaped
      /\ z.inQuote = ~r.inQuote
  BY <1>2, <1>3 DEF Readings
<1>5. r.inQuote \in BOOLEAN
  BY <1>2 DEF Readings
<1> QED BY <1>2, <1>3, <1>4, <1>5 DEF r, z

(* A quoted text is added to the argument as it was.                       *)
LEMMA QuotedIsRead ==
  ASSUME NEW w \in Seq(Nat), NEW t \in Seq(Nat), OutOfQuotes(Read(w)), Read(w).buf = <<>>
  PROVE  /\ w \o Quoted(t) \in Seq(Nat)
         /\ OutOfQuotes(Read(w \o Quoted(t)))
         /\ Read(w \o Quoted(t)).args = Read(w).args
         /\ Read(w \o Quoted(t)).buf = t
<1> DEFINE q == <<QuoteByte>>
           i == Inside(t)
           x == w \o q
           y == x \o i
<1>1. q \in Seq(Nat)
  BY DEF QuoteByte
<1>2. /\ x \in Seq(Nat) /\ InQuotes(Read(x))
      /\ Read(x).args = Read(w).args /\ Read(x).buf = <<>>
  BY QuoteIsRead DEF OutOfQuotes, InQuotes
<1> HIDE DEF x
<1>3. /\ i \in Seq(Nat) /\ y \in Seq(Nat) /\ InQuotes(Read(y))
      /\ Read(y).args = Read(x).args /\ Read(y).buf = Read(x).buf \o t
  BY <1>2, InsideIsRead
<1>4. <<>> \o t = t
  BY ConcatEmptySeq
<1> HIDE DEF y
<1>5. /\ y \o <<QuoteByte>> \in Seq(Nat) /\ OutOfQuotes(Read(y \o <<QuoteByte>>))
      /\ Read(y \o <<QuoteByte>>).args = Read(y).args /\ Read(y \o <<QuoteByte>>).buf = Read(y).buf
  BY <1>3, QuoteIsRead DEF OutOfQuotes, InQuotes
<1>6. Quoted(t) = (q \o i) \o q
  BY DEF Quoted, Inside
<1> HIDE DEF q, i
<1>7. w \o ((q \o i) \o q) = y \o q
  <2>1. q \o i \in Seq(Nat)
    BY <1>1, <1>3, TextConcat
  <2> DEFINE p == q \o i
  <2>2. w \o p = y
    <3>1. w \o (q \o i) = (w \o q) \o i
      BY <1>1, <1>3, TextAssociative, ZenonT(30)
    <3> QED BY <3>1 DEF x, y
  <2> HIDE DEF p
  <2>3. (w \o p) \o q = w \o (p \o q)
    BY <1>1, <2>1, TextAssociative, ZenonT(30) DEF p
  <2> QED BY <2>2, <2>3 DEF p
<1>8. y \o q = y \o <<QuoteByte>>
  BY DEF q
<1> QED BY <1>2, <1>3, <1>4, <1>5, <1>6, <1>7, <1>8

(* Two quoted texts with a space between them are two arguments.           *)
LEMMA BothAreRead ==
  ASSUME NEW s \in Seq(Nat), NEW t \in Seq(Nat)
  PROVE  LET line == Quoted(s) \o <<SpaceByte>> \o Quoted(t) IN
         /\ ParsesText(line)
         /\ ArgumentsOf(line) = <<s>> \o (IF t = <<>> THEN <<>> ELSE <<t>>)
<1> DEFINE e == <<>>
           a == Quoted(s)
           x == a \o <<SpaceByte>>
           line == x \o Quoted(t)
<1>1. e \in Seq(Nat) /\ Read(e) = Unread
  <2>1. e \in Seq(Nat) /\ 0 \in Nat
    BY EmptySeq
  <2> QED BY <2>1, ReadStep
<1>2. Read(e).args = <<>> /\ Read(e).buf = <<>> /\ OutOfQuotes(Read(e))
  BY <1>1 DEF Unread, OutOfQuotes
<1>3. e \o Quoted(s) = Quoted(s) /\ Quoted(s) \in Seq(Nat)
  <2>1. QuoteByte \in Nat /\ <<QuoteByte>> \in Seq(Nat) /\ 0 \in Nat
    BY DEF QuoteByte
  <2>2. Inside(s) \in Seq(Nat)
    BY <2>1, InsideStep
  <2> DEFINE q == <<QuoteByte>>
             i == Inside(s)
             qi == q \o i
  <2>3. Quoted(s) = qi \o q
    BY DEF Quoted, Inside
  <2>4. q \in Seq(Nat) /\ i \in Seq(Nat)
    BY <2>1, <2>2
  <2> HIDE DEF q, i
  <2>5. qi \in Seq(Nat)
    BY <2>4, ConcatProperties
  <2> HIDE DEF qi
  <2>6. qi \o q \in Seq(Nat)
    BY <2>4, <2>5, ConcatProperties
  <2> QED BY <2>3, <2>6, ConcatEmptySeq
<1>4. OutOfQuotes(Read(a)) /\ Read(a).args = <<>> /\ Read(a).buf = s
  <2> HIDE DEF e
  <2>1. /\ OutOfQuotes(Read(e \o Quoted(s))) /\ Read(e \o Quoted(s)).args = Read(e).args
        /\ Read(e \o Quoted(s)).buf = s
    BY <1>1, <1>2, QuotedIsRead DEF e
  <2> QED BY <1>2, <1>3, <2>1
<1> HIDE DEF a
<1>5. x \in Seq(Nat) /\ Read(a) \in Readings /\ Read(x) = ReadByte(Read(a), SpaceByte)
  <2>1. SpaceByte \in Nat /\ a \in Seq(Nat)
    BY <1>3 DEF SpaceByte, a
  <2> QED BY <2>1, ReadBehind
<1>6. Read(x) = [Read(a) EXCEPT !.args = Append(@, Read(a).buf), !.buf = <<>>]
  <2>1. SpaceByte \in Nat
    BY DEF SpaceByte
  <2> HIDE DEF x
  <2> QED BY <1>4, <1>5, <2>1, ReadByteCases DEF OutOfQuotes
<1>7. Read(x).args = <<s>> /\ Read(x).buf = <<>> /\ OutOfQuotes(Read(x))
  <2> DEFINE r == Read(a)
             z == Read(x)
  <2>1. r \in Readings /\ r.args = <<>> /\ r.buf = s /\ ~r.inQuote /\ ~r.escaped
    BY <1>4, <1>5 DEF OutOfQuotes
  <2>2. z = [r EXCEPT !.args = Append(@, r.buf), !.buf = <<>>]
    BY <1>6
  <2> HIDE DEF r, z
  <2>3. /\ z.args = Append(r.args, r.buf) /\ z.buf = <<>>
        /\ z.inQuote = r.inQuote /\ z.escaped = r.escaped
    BY <2>1, <2>2 DEF Readings
  <2>4. Append(<<>>, s) = <<s>>
    OBVIOUS
  <2> QED BY <2>1, <2>3, <2>4 DEF OutOfQuotes, z
<1> HIDE DEF x
<1>8. OutOfQuotes(Read(line)) /\ Read(line).args = <<s>> /\ Read(line).buf = t
  BY <1>5, <1>7, QuotedIsRead
<1> HIDE DEF line
<1>9. ParsesText(line)
  BY <1>8 DEF ParsesText, OutOfQuotes
<1>10. ArgumentsOf(line) = <<s>> \o (IF t = <<>> THEN <<>> ELSE <<t>>)
  BY <1>8 DEF ArgumentsOf
<1> QED BY <1>9, <1>10 DEF line, x, a

(* Two quoted texts come out of a command line as they were put into it.   *)
THEOREM Survive == Spec => []QuotedArgumentsSurvive
<1>1. template \in Seq(Byte) => QuotedArgumentsSurvive
  <2> SUFFICES ASSUME template \in Seq(Byte), NEW t \in SecondTexts
               PROVE  LET line == Quoted(template) \o <<SpaceByte>> \o Quoted(t) IN
                      /\ ParsesText(line)
                      /\ ArgumentsOf(line) = <<template>> \o (IF t = <<>> THEN <<>> ELSE <<t>>)
    BY DEF QuotedArgumentsSurvive
  <2>1. template \in Seq(Nat) /\ t \in Seq(Nat)
    BY TextUtilsAssumption, BytesAreText
  <2> QED BY <2>1, BothAreRead
<1> QED BY <1>1, TemplateTyped, PTL

-----------------------------------------------------------------------------
(* Where a text has another in it.                                         *)
LEMMA OccurrenceMeans ==
  ASSUME NEW part \in Seq(Nat), NEW s \in Seq(Nat), part # <<>>
  PROVE  /\ Occurrences(part, s) \in SUBSET Nat
         /\ \A i \in Occurrences(part, s) :
              /\ i >= 1 /\ i + Len(part) - 1 <= Len(s)
              /\ \A j \in 1 .. Len(part) : s[i + j - 1] = part[j]
         /\ \A i \in Nat :
              /\ i >= 1 /\ i + Len(part) - 1 <= Len(s)
              /\ \A j \in 1 .. Len(part) : s[i + j - 1] = part[j]
              => i \in Occurrences(part, s)
<1> DEFINE m == Len(part)
           n == Len(s)
<1>1. /\ m \in Nat \ {0} /\ n \in Nat /\ \A i \in 1 .. n : s[i] \in Nat
      /\ \A j \in 1 .. m : part[j] \in Nat
  BY EmptySeq
<1>2. ASSUME NEW i \in 1 .. n + 1 - m
      PROVE  /\ SubSeq(s, i, i + m - 1) \in Seq(Nat)
             /\ Len(SubSeq(s, i, i + m - 1)) = m
             /\ \A j \in 1 .. m : SubSeq(s, i, i + m - 1)[j] = s[i + j - 1]
  <2> DEFINE k == i + m - 1
  <2> HIDE DEF m, n
  <2>1. /\ i \in Int /\ k \in Int /\ \A j \in i .. k : s[j] \in Nat
        /\ (IF i <= k THEN k - i + 1 ELSE 0) = m
        /\ k - i + 1 = m
    BY <1>1
  <2> HIDE DEF k
  <2>2. /\ SubSeq(s, i, k) \in Seq(Nat)
        /\ Len(SubSeq(s, i, k)) = IF i <= k THEN k - i + 1 ELSE 0
        /\ \A j \in 1 .. k - i + 1 : SubSeq(s, i, k)[j] = s[i + j - 1]
    BY <2>1, SubSeqProperties
  <2>3. /\ SubSeq(s, i, k) \in Seq(Nat)
        /\ Len(SubSeq(s, i, k)) = m
        /\ \A j \in 1 .. m : SubSeq(s, i, k)[j] = s[i + j - 1]
    BY <2>1, <2>2
  <2> QED BY <2>3 DEF k
<1>3. \A i \in Occurrences(part, s) :
        /\ i \in Nat /\ i >= 1 /\ i + m - 1 <= n
        /\ \A j \in 1 .. m : s[i + j - 1] = part[j]
  <2> SUFFICES ASSUME NEW i \in Occurrences(part, s)
               PROVE  /\ i \in Nat /\ i >= 1 /\ i + m - 1 <= n
                      /\ \A j \in 1 .. m : s[i + j - 1] = part[j]
    OBVIOUS
  <2>1. i \in 1 .. n + 1 - m /\ SubSeq(s, i, i + m - 1) = part
    BY DEF Occurrences
  <2> HIDE DEF m, n
  <2>2. i \in Nat /\ i >= 1 /\ i + m - 1 <= n
    BY <1>1, <2>1
  <2>3. \A j \in 1 .. m : s[i + j - 1] = part[j]
    BY <1>2, <2>1
  <2> QED BY <2>2, <2>3
<1>4. ASSUME NEW i \in Nat, i >= 1, i + m - 1 <= n, \A j \in 1 .. m : s[i + j - 1] = part[j]
      PROVE  i \in Occurrences(part, s)
  <2> DEFINE r == SubSeq(s, i, i + m - 1)
  <2>1. i \in 1 .. n + 1 - m
    <3> HIDE DEF m, n
    <3> QED BY <1>1, <1>4
  <2>2. r \in Seq(Nat) /\ Len(r) = Len(part) /\ \A j \in 1 .. Len(part) : r[j] = part[j]
    <3>1. \A j \in 1 .. m : r[j] = s[i + j - 1]
      BY <1>2, <2>1
    <3>2. r \in Seq(Nat) /\ Len(r) = m
      BY <1>2, <2>1
    <3> HIDE DEF r
    <3> QED BY <1>4, <3>1, <3>2
  <2>3. r = part
    <3> HIDE DEF r
    <3> QED BY <2>2, SeqEqual
  <2> QED BY <2>1, <2>3 DEF Occurrences
<1> QED BY <1>3, <1>4

(* A part of m characters of s at p is replaced by v in t.                 *)
Replaced(s, p, m, v, t) ==
  /\ p \in Nat \ {0} /\ m \in Nat /\ p + m - 1 <= Len(s)
  /\ Len(t) = Len(s) - m + Len(v)
  /\ \A i \in 1 .. p - 1 : t[i] = s[i]
  /\ \A i \in 1 .. Len(v) : t[p + i - 1] = v[i]
  /\ \A i \in 1 .. Len(s) - m - p + 1 : t[p + Len(v) + i - 1] = s[p + m + i - 1]
  /\ From(t, p) = v \o From(s, p + m)

(* The characters from a place on.                                         *)
LEMMA FromMeans ==
  ASSUME NEW s \in Seq(Nat), NEW i \in Nat \ {0}, i <= Len(s) + 1
  PROVE  /\ From(s, i) \in Seq(Nat)
         /\ Len(From(s, i)) = Len(s) - i + 1
         /\ \A j \in 1 .. Len(s) - i + 1 : From(s, i)[j] = s[i + j - 1]
<1> DEFINE n == Len(s)
<1>1. n \in Nat /\ \A j \in 1 .. n : s[j] \in Nat
  OBVIOUS
<1>2. i <= n + 1
  OBVIOUS
<1> HIDE DEF n
<1>3. /\ i \in Int /\ n \in Int /\ \A j \in i .. n : s[j] \in Nat
      /\ (IF i <= n THEN n - i + 1 ELSE 0) = n - i + 1
  BY <1>1, <1>2
<1>4. /\ SubSeq(s, i, n) \in Seq(Nat)
      /\ Len(SubSeq(s, i, n)) = IF i <= n THEN n - i + 1 ELSE 0
      /\ \A j \in 1 .. n - i + 1 : SubSeq(s, i, n)[j] = s[i + j - 1]
  BY <1>3, SubSeqProperties
<1> QED BY <1>3, <1>4 DEF From, n

(* What putting v in the place of m characters does to each character.     *)
LEMMA PutMeans ==
  ASSUME NEW s \in Seq(Nat), NEW v \in Seq(Nat), NEW p \in Nat \ {0}, NEW m \in Nat,
         p + m - 1 <= Len(s)
  PROVE  /\ SubSeq(s, 1, p - 1) \o v \o From(s, p + m) \in Seq(Nat)
         /\ SubSeq(s, 1, p - 1) \in Seq(Nat) /\ From(s, p + m) \in Seq(Nat)
         /\ Replaced(s, p, m, v, SubSeq(s, 1, p - 1) \o v \o From(s, p + m))
<1> DEFINE n == Len(s)
           l == Len(v)
           a == SubSeq(s, 1, p - 1)
           b == From(s, p + m)
           w == v \o b
           t == a \o w
<1>1. n \in Nat /\ l \in Nat /\ p \in Nat /\ p >= 1 /\ m \in Nat /\ p + m - 1 <= n
  OBVIOUS
<1>2. \A i \in 1 .. n : s[i] \in Nat
  OBVIOUS
<1>3. a \in Seq(Nat) /\ Len(a) = p - 1 /\ \A i \in 1 .. p - 1 : a[i] = s[i]
  <2> HIDE DEF n
  <2>1. /\ 1 \in Int /\ p - 1 \in Int /\ \A i \in 1 .. p - 1 : s[i] \in Nat
        /\ (IF 1 <= p - 1 THEN p - 1 - 1 + 1 ELSE 0) = p - 1
        /\ p - 1 - 1 + 1 = p - 1
        /\ \A i \in 1 .. p - 1 : 1 + i - 1 = i
    BY <1>1, <1>2
  <2>2. /\ SubSeq(s, 1, p - 1) \in Seq(Nat)
        /\ Len(SubSeq(s, 1, p - 1)) = IF 1 <= p - 1 THEN p - 1 - 1 + 1 ELSE 0
        /\ \A i \in 1 .. p - 1 - 1 + 1 : SubSeq(s, 1, p - 1)[i] = s[1 + i - 1]
    BY <2>1, SubSeqProperties
  <2> QED BY <2>1, <2>2
<1>4. /\ b \in Seq(Nat) /\ Len(b) = n - (p + m) + 1
      /\ \A i \in 1 .. n - (p + m) + 1 : b[i] = s[p + m + i - 1]
  <2>1. p + m \in Nat \ {0} /\ p + m <= Len(s) + 1
    BY <1>1
  <2> DEFINE k == p + m
  <2> HIDE DEF k
  <2> QED BY <2>1, FromMeans
<1> HIDE DEF a, b
<1>5. /\ w \in Seq(Nat) /\ Len(w) = l + Len(b)
      /\ \A i \in 1 .. l + Len(b) : w[i] = IF i <= l THEN v[i] ELSE b[i - l]
  BY <1>4, ConcatProperties
<1> HIDE DEF w
<1>6. /\ t \in Seq(Nat) /\ Len(t) = Len(a) + Len(w)
      /\ \A i \in 1 .. Len(a) + Len(w) : t[i] = IF i <= Len(a) THEN a[i] ELSE w[i - Len(a)]
  <2>1. a \in Seq(Nat) /\ w \in Seq(Nat)
    BY <1>3, <1>5
  <2> QED BY <2>1, ConcatProperties
<1>7. (a \o v) \o b = t
  <2>1. a \in Seq(Nat) /\ b \in Seq(Nat)
    BY <1>3, <1>4
  <2>2. (a \o v) \o b = a \o (v \o b)
    BY <2>1, TextAssociative, SMTT(60)
  <2> QED BY <2>2 DEF w
<1> HIDE DEF t, n, l
<1>8. Len(t) = n - m + l /\ Len(w) = l + (n - (p + m) + 1) /\ Len(a) + Len(w) = n - m + l
  <2>1. Len(a) = p - 1 /\ Len(b) = n - (p + m) + 1
    BY <1>3, <1>4
  <2>2. Len(w) = l + Len(b) /\ Len(t) = Len(a) + Len(w)
    BY <1>5, <1>6
  <2>3. p - 1 + (l + (n - (p + m) + 1)) = n - m + l
    BY <1>1
  <2> QED BY <2>1, <2>2, <2>3
<1>9. \A i \in 1 .. p - 1 : t[i] = s[i]
  <2> SUFFICES ASSUME NEW i \in 1 .. p - 1 PROVE t[i] = s[i]
    OBVIOUS
  <2>1. i \in 1 .. Len(a) + Len(w) /\ i <= Len(a)
    BY <1>1, <1>3, <1>8
  <2> QED BY <1>3, <1>6, <2>1
<1>10. \A i \in 1 .. l : t[p + i - 1] = v[i]
  <2> SUFFICES ASSUME NEW i \in 1 .. l PROVE t[p + i - 1] = v[i]
    OBVIOUS
  <2> DEFINE k == p + i - 1
  <2>1. k \in 1 .. Len(a) + Len(w) /\ ~(k <= Len(a)) /\ k - Len(a) = i
    BY <1>1, <1>3, <1>8
  <2>2. i \in 1 .. l + Len(b) /\ i <= l
    BY <1>1, <1>4
  <2> HIDE DEF k
  <2>3. t[k] = w[i]
    BY <1>6, <2>1
  <2>4. w[i] = v[i]
    BY <1>5, <2>2
  <2> QED BY <2>3, <2>4 DEF k
<1>11. \A i \in 1 .. n - m - p + 1 : t[p + l + i - 1] = s[p + m + i - 1]
  <2> SUFFICES ASSUME NEW i \in 1 .. n - m - p + 1 PROVE t[p + l + i - 1] = s[p + m + i - 1]
    OBVIOUS
  <2> DEFINE j == l + i
  <2> DEFINE k == p + l + i - 1
  <2>1. k \in 1 .. Len(a) + Len(w) /\ ~(k <= Len(a)) /\ k - Len(a) = j
    BY <1>1, <1>3, <1>8
  <2>2. j \in 1 .. l + Len(b) /\ ~(j <= l) /\ j - l = i /\ i \in 1 .. n - (p + m) + 1
    BY <1>1, <1>4
  <2> HIDE DEF j, k
  <2>3. t[k] = w[j]
    BY <1>6, <2>1
  <2>4. w[j] = b[i]
    BY <1>5, <2>2
  <2>5. b[i] = s[p + m + i - 1]
    BY <1>4, <2>2
  <2> QED BY <2>3, <2>4, <2>5 DEF k
<1>12. From(t, p) = w
  <2>1. Len(a) + 1 = p
    BY <1>1, <1>3
  <2> QED BY <1>3, <1>5, <2>1, BehindConcat DEF t
<1>13. Replaced(s, p, m, v, t)
  BY <1>1, <1>8, <1>9, <1>10, <1>11, <1>12 DEF Replaced, n, l, w, b
<1> QED BY <1>3, <1>4, <1>6, <1>7, <1>13 DEF a, b

(* What ReplaceSubSeqAt does to each character.                            *)
LEMMA ReplaceMeans ==
  ASSUME NEW s \in Seq(Nat), NEW part \in Seq(Nat), NEW v \in Seq(Nat), part # <<>>,
         NEW p \in Occurrences(part, s)
  PROVE  /\ ReplaceSubSeqAt(p, v, part, s) \in Seq(Nat)
         /\ Replaced(s, p, Len(part), v, ReplaceSubSeqAt(p, v, part, s))
<1> DEFINE m == Len(part)
<1>1. p \in Nat \ {0} /\ m \in Nat /\ p + m - 1 <= Len(s)
  BY OccurrenceMeans
<1>2. ReplaceSubSeqAt(p, v, part, s) = SubSeq(s, 1, p - 1) \o v \o From(s, p + m)
  BY DEF ReplaceSubSeqAt, From
<1> HIDE DEF m
<1>3. /\ SubSeq(s, 1, p - 1) \o v \o From(s, p + m) \in Seq(Nat)
      /\ Replaced(s, p, m, v, SubSeq(s, 1, p - 1) \o v \o From(s, p + m))
  BY <1>1, PutMeans
<1> QED BY <1>2, <1>3 DEF m

(* A part of the new text that has nothing of what was put in was there    *)
(* before, and what was in front is still there.                           *)
LEMMA OccurrencesMove ==
  ASSUME NEW part \in Seq(Nat), part # <<>>,
         NEW s \in Seq(Nat), NEW t \in Seq(Nat), NEW v \in Seq(Nat), v # <<>>,
         NEW p, NEW m, Replaced(s, p, m, v, t),
         ToSet(v) \cap ToSet(part) = {}
  PROVE  /\ \A i \in Occurrences(part, t) :
              \/ i + Len(part) <= p /\ i \in Occurrences(part, s)
              \/ i >= p + Len(v) /\ i - Len(v) + m \in Occurrences(part, s)
         /\ \A i \in Occurrences(part, s) :
              i + Len(part) <= p => i \in Occurrences(part, t)
<1> DEFINE n == Len(s)
           k == Len(part)
           l == Len(v)
<1>1. k \in Nat \ {0} /\ n \in Nat /\ l \in Nat \ {0}
  BY EmptySeq
<1>2. /\ p \in Nat \ {0} /\ m \in Nat /\ p + m - 1 <= n
      /\ Len(t) = n - m + l
      /\ \A i \in 1 .. p - 1 : t[i] = s[i]
      /\ \A i \in 1 .. l : t[p + i - 1] = v[i]
      /\ \A i \in 1 .. n - m - p + 1 : t[p + l + i - 1] = s[p + m + i - 1]
  BY DEF Replaced
<1>3. \A i \in 1 .. l : \A j \in 1 .. k : v[i] # part[j]
  <2>1. DOMAIN v = 1 .. l /\ DOMAIN part = 1 .. k
    OBVIOUS
  <2>2. \A i \in 1 .. l : v[i] \in ToSet(v)
    BY <2>1 DEF ToSet
  <2>3. \A j \in 1 .. k : part[j] \in ToSet(part)
    BY <2>1 DEF ToSet
  <2> HIDE DEF l, k
  <2> QED BY <2>2, <2>3
<1>4. \A i \in Occurrences(part, t) :
        /\ i \in Nat /\ i >= 1 /\ i + k - 1 <= n - m + l
        /\ \A j \in 1 .. k : t[i + j - 1] = part[j]
  <2>1. \A i \in Occurrences(part, t) :
          /\ i \in Nat /\ i >= 1 /\ i + k - 1 <= Len(t)
          /\ \A j \in 1 .. k : t[i + j - 1] = part[j]
    BY OccurrenceMeans
  <2> HIDE DEF n, k, l
  <2> QED BY <1>2, <2>1
<1>5. /\ \A i \in Occurrences(part, s) :
           /\ i \in Nat /\ i >= 1 /\ i + k - 1 <= n
           /\ \A j \in 1 .. k : s[i + j - 1] = part[j]
      /\ \A i \in Nat :
           /\ i >= 1 /\ i + k - 1 <= n
           /\ \A j \in 1 .. k : s[i + j - 1] = part[j]
           => i \in Occurrences(part, s)
  BY OccurrenceMeans
<1>6. \A i \in Nat :
        /\ i >= 1 /\ i + k - 1 <= n - m + l
        /\ \A j \in 1 .. k : t[i + j - 1] = part[j]
        => i \in Occurrences(part, t)
  BY <1>2, OccurrenceMeans
<1> HIDE DEF n, k, l
<1>7. ASSUME NEW i \in Occurrences(part, t)
      PROVE  \/ i + k <= p /\ i \in Occurrences(part, s)
             \/ i >= p + l /\ i - l + m \in Occurrences(part, s)
  <2>1. /\ i \in Nat /\ i >= 1 /\ i + k - 1 <= n - m + l
        /\ \A j \in 1 .. k : t[i + j - 1] = part[j]
    BY <1>4
  <2>2. CASE i + k <= p
    <3>1. ASSUME NEW j \in 1 .. k PROVE s[i + j - 1] = part[j]
      <4> DEFINE e == i + j - 1
      <4>1. e \in 1 .. p - 1
        BY <1>1, <1>2, <2>1, <2>2
      <4>2. t[e] = part[j]
        BY <2>1
      <4> HIDE DEF e
      <4>3. s[e] = part[j]
        BY <1>2, <4>1, <4>2
      <4> QED BY <4>3 DEF e
    <3>2. i + k - 1 <= n
      BY <1>1, <1>2, <2>1, <2>2
    <3> QED BY <1>5, <2>1, <2>2, <3>1, <3>2
  <2>3. CASE i >= p + l
    <3> DEFINE h == i - l + m
    <3>1. h \in Nat /\ h >= 1 /\ h + k - 1 <= n
      BY <1>1, <1>2, <2>1, <2>3
    <3>2. ASSUME NEW j \in 1 .. k PROVE s[h + j - 1] = part[j]
      <4> DEFINE e == i + j - p - l
      <4>1. e \in 1 .. n - m - p + 1 /\ p + l + e - 1 = i + j - 1 /\ p + m + e - 1 = h + j - 1
        BY <1>1, <1>2, <2>1, <2>3
      <4>2. t[i + j - 1] = part[j]
        BY <2>1
      <4> HIDE DEF e, h
      <4>3. t[p + l + e - 1] = s[p + m + e - 1]
        BY <1>2, <4>1
      <4> QED BY <4>1, <4>2, <4>3
    <3> HIDE DEF h
    <3>3. h \in Occurrences(part, s)
      BY <1>5, <3>1, <3>2
    <3> QED BY <2>3, <3>3 DEF h
  <2>4. CASE ~(i + k <= p) /\ ~(i >= p + l)
    <3> DEFINE c == IF i <= p THEN p ELSE i
               a == c - p + 1
               b == c - i + 1
    <3>1. a \in 1 .. l /\ b \in 1 .. k /\ p + a - 1 = c /\ i + b - 1 = c
      <4>1. CASE i <= p
        BY <1>1, <1>2, <2>1, <2>4, <4>1
      <4>2. CASE ~(i <= p)
        BY <1>1, <1>2, <2>1, <2>4, <4>2
      <4> QED BY <4>1, <4>2
    <3> HIDE DEF a, b, c
    <3>2. t[p + a - 1] = v[a]
      BY <1>2, <3>1
    <3>3. t[i + b - 1] = part[b]
      BY <2>1, <3>1
    <3> QED BY <1>3, <3>1, <3>2, <3>3
  <2> QED BY <2>2, <2>3, <2>4
<1>8. ASSUME NEW i \in Occurrences(part, s), i + k <= p
      PROVE  i \in Occurrences(part, t)
  <2>1. /\ i \in Nat /\ i >= 1 /\ i + k - 1 <= n
        /\ \A j \in 1 .. k : s[i + j - 1] = part[j]
    BY <1>5
  <2>2. ASSUME NEW j \in 1 .. k PROVE t[i + j - 1] = part[j]
    <3> DEFINE e == i + j - 1
    <3>1. e \in 1 .. p - 1
      BY <1>1, <1>2, <2>1, <1>8
    <3>2. s[e] = part[j]
      BY <2>1
    <3> HIDE DEF e
    <3>3. t[e] = part[j]
      BY <1>2, <3>1, <3>2
    <3> QED BY <3>3 DEF e
  <2>3. i + k - 1 <= n - m + l
    BY <1>1, <1>2, <2>1, <1>8
  <2> QED BY <1>6, <2>1, <2>2, <2>3
<1> QED BY <1>7, <1>8 DEF k, l

(* A map of variables: its names and its values are texts.                 *)
MapTyped(map) == \A n \in DOMAIN map : n \in Seq(Nat) /\ map[n] \in Seq(Nat)

(* A macro has the four characters of its marks at least.                  *)
LEMMA MacroTyped ==
  ASSUME NEW n \in Seq(Nat)
  PROVE  Macro(n) \in Seq(Nat) /\ Macro(n) # <<>> /\ Len(Macro(n)) \in Nat \ {0}
<1> DEFINE a == Marks \o n
<1>1. Marks \in Seq(Nat) /\ Len(Marks) = 2
  BY DEF Marks
<1>2. a \in Seq(Nat) /\ Len(a) = 2 + Len(n)
  <2>1. a \in Seq(Nat) /\ Len(a) = Len(Marks) + Len(n)
    BY <1>1, ConcatProperties
  <2> QED BY <1>1, <2>1
<1> HIDE DEF a
<1>3. a \o Marks \in Seq(Nat) /\ Len(a \o Marks) = Len(a) + Len(Marks)
  BY <1>1, <1>2, ConcatProperties
<1>4. Macro(n) = a \o Marks
  BY DEF Macro, a
<1>5. Len(n) \in Nat /\ Len(<<>>) = 0
  OBVIOUS
<1> HIDE DEF Marks
<1>6. Len(Macro(n)) = Len(n) + 4
  BY <1>1, <1>2, <1>3, <1>4, <1>5
<1> QED BY <1>3, <1>4, <1>5, <1>6

(* What stands at the front of a text, and what it is rendered to.         *)
Here(map, s) == {n \in DOMAIN map : 1 \in Occurrences(Macro(n), s)}
NameOf(map, s) == CHOOSE n \in Here(map, s) : TRUE
FrontRendered(map, s) == IF Here(map, s) = {} THEN <<Head(s)>> ELSE map[NameOf(map, s)]
RestRaw(map, s) ==
  IF Here(map, s) = {} THEN Tail(s)
  ELSE SubSeq(s, Len(Macro(NameOf(map, s))) + 1, Len(s))

(* Rendering makes a text of the front and leaves a shorter one.           *)
LEMMA FrontRenderedTyped ==
  ASSUME NEW map, MapTyped(map), NEW s \in Seq(Nat), s # <<>>
  PROVE  /\ FrontRendered(map, s) \in Seq(Nat)
         /\ RestRaw(map, s) \in Seq(Nat) /\ Len(RestRaw(map, s)) < Len(s)
<1>1. CASE Here(map, s) = {}
  <2>1. Head(s) \in Nat /\ Tail(s) \in Seq(Nat) /\ Len(Tail(s)) = Len(s) - 1 /\ Len(s) \in Nat
    BY HeadTailProperties
  <2> QED BY <1>1, <2>1 DEF FrontRendered, RestRaw
<1>2. CASE Here(map, s) # {}
  <2> DEFINE n == NameOf(map, s)
             m == Macro(n)
             i == Len(m) + 1
  <2>1. n \in DOMAIN map
    BY <1>2 DEF NameOf, Here
  <2>2. n \in Seq(Nat) /\ map[n] \in Seq(Nat)
    BY <2>1 DEF MapTyped
  <2> HIDE DEF n
  <2>3. i \in Nat \ {0, 1}
    <3>1. Len(m) \in Nat \ {0}
      BY <2>2, MacroTyped
    <3> HIDE DEF m
    <3> QED BY <3>1
  <2> HIDE DEF i
  <2>4. From(s, i) \in Seq(Nat) /\ Len(From(s, i)) < Len(s)
    BY <2>3, FromTyped
  <2>5. FrontRendered(map, s) = map[n] /\ RestRaw(map, s) = From(s, i)
    BY <1>2 DEF FrontRendered, RestRaw, From, n, m, i
  <2> QED BY <2>2, <2>4, <2>5
<1> QED BY <1>1, <1>2

(* Rendered is defined for every text.                                     *)
LEMMA RenderedUnfolds ==
  ASSUME NEW map, MapTyped(map)
  PROVE  /\ Rendered(map, <<>>) = <<>>
         /\ \A s \in Seq(Nat) : s # <<>> =>
              Rendered(map, s) = FrontRendered(map, s) \o Rendered(map, RestRaw(map, s))
         /\ \A s \in Seq(Nat) : Rendered(map, s) \in Seq(Nat)
<1> DEFINE T == Seq(Nat)
           size == [v \in T |-> Len(v)]
           base == {<<>>}
           value == [v \in base |-> <<>>]
           rest == [v \in T \ base |-> RestRaw(map, v)]
           make == [v \in T \ base |-> [t \in T |-> FrontRendered(map, v) \o t]]
           Right(g, v) == IF v = <<>> THEN <<>> ELSE FrontRendered(map, v) \o g[RestRaw(map, v)]
           Original(g, s) ==
             LET here == {n \in DOMAIN map : 1 \in Occurrences(Macro(n), s)}
                 n == CHOOSE m \in here : TRUE
             IN IF s = <<>> THEN <<>>
                ELSE IF here = {} THEN <<Head(s)>> \o g[Tail(s)]
                ELSE map[n] \o g[SubSeq(s, Len(Macro(n)) + 1, Len(s))]
           Solves(g) == g = [v \in Seq(Nat) |-> Original(g, v)]
           rendered == CHOOSE g : Solves(g)
<1>0. ASSUME NEW v \in T \ base, NEW t \in T PROVE FrontRendered(map, v) \o t \in T
  <2>1. FrontRendered(map, v) \in Seq(Nat)
    BY FrontRenderedTyped
  <2> QED BY <2>1, TextConcat
<1>1. Defines(T, T, size, base, value, rest, make)
  <2>1. size \in [T -> Nat] /\ base \in SUBSET T /\ value \in [base -> T]
    BY EmptySeq
  <2>2. rest \in [T \ base -> T] /\ \A v \in T \ base : size[rest[v]] < size[v]
    BY FrontRenderedTyped
  <2>3. make \in [T \ base -> [T -> T]]
    <3> HIDE DEF T, base
    <3> QED BY <1>0
  <2> HIDE DEF T, size, base, value, rest, make
  <2> QED BY <2>1, <2>2, <2>3 DEF Defines
<1>2. PICK f \in [T -> T] :
        \A v \in T : f[v] = IF v \in base THEN value[v] ELSE make[v][f[rest[v]]]
  <2> HIDE DEF T, size, base, value, rest, make
  <2> QED BY <1>1, Recursion
<1>3. \A v \in T : f[v] = Right(f, v)
  <2> SUFFICES ASSUME NEW v \in T PROVE f[v] = Right(f, v)
    OBVIOUS
  <2>1. CASE v = <<>>
    BY <1>2, <2>1
  <2>2. CASE v # <<>>
    <3>1. rest[v] = RestRaw(map, v) /\ f[RestRaw(map, v)] \in T
      BY <1>2, <2>2, FrontRenderedTyped
    <3>2. make[v][f[RestRaw(map, v)]] = FrontRendered(map, v) \o f[RestRaw(map, v)]
      BY <2>2, <3>1
    <3> QED BY <1>2, <2>2, <3>1, <3>2
  <2> QED BY <2>1, <2>2
<1>4. \A g, v : Original(g, v) = Right(g, v)
  <2> SUFFICES ASSUME NEW g, NEW v PROVE Original(g, v) = Right(g, v)
    OBVIOUS
  <2>1. CASE v = <<>>
    BY <2>1
  <2>2. CASE v # <<>> /\ Here(map, v) = {}
    BY <2>2 DEF Here, FrontRendered, RestRaw
  <2>3. CASE v # <<>> /\ Here(map, v) # {}
    <3> DEFINE here == {n \in DOMAIN map : 1 \in Occurrences(Macro(n), v)}
               n == CHOOSE m \in here : TRUE
    <3>1. here = Here(map, v) /\ n = NameOf(map, v)
      BY DEF Here, NameOf
    <3>2. Original(g, v) = map[n] \o g[SubSeq(v, Len(Macro(n)) + 1, Len(v))]
      BY <2>3, <3>1
    <3>3. Right(g, v) = map[n] \o g[SubSeq(v, Len(Macro(n)) + 1, Len(v))]
      <4> HIDE DEF n
      <4> QED BY <2>3, <3>1 DEF FrontRendered, RestRaw
    <3> QED BY <3>2, <3>3
  <2> QED BY <2>1, <2>2, <2>3
<1>5. \A s : Rendered(map, s) = rendered[s]
  BY DEF Rendered
<1>6. Solves(rendered)
  <2>1. Solves(f)
    <3> HIDE DEF Original, Right
    <3> QED BY <1>2, <1>3, <1>4
  <2> HIDE DEF Solves
  <2> QED BY <2>1
<1> HIDE DEF rendered
<1>7. \A v \in T : rendered[v] = Right(rendered, v)
  <2> HIDE DEF Original, Right
  <2> QED BY <1>4, <1>6
<1> DEFINE good == {v \in T : rendered[v] \in T}
<1>8. good = T
  <2> SUFFICES ASSUME NEW v \in T, \A t \in T : Len(t) < Len(v) => t \in good
               PROVE  v \in good
    <3>1. good \in SUBSET T
      OBVIOUS
    <3> HIDE DEF good
    <3> QED BY <3>1, TextInduction
  <2>1. CASE v = <<>>
    <3>1. rendered[v] = <<>> /\ <<>> \in T
      BY <1>7, <2>1, EmptySeq
    <3> QED BY <3>1
  <2>2. CASE v # <<>>
    <3>1. rendered[RestRaw(map, v)] \in T
      BY <2>2, FrontRenderedTyped
    <3>2. rendered[v] = FrontRendered(map, v) \o rendered[RestRaw(map, v)]
      BY <1>7, <2>2
    <3>3. rendered[v] \in T
      <4> HIDE DEF T
      <4> QED BY <1>0, <2>2, <3>1, <3>2
    <3> QED BY <3>3
  <2> QED BY <2>1, <2>2
<1>9. \A v \in T : v # <<>> => rendered[v] = FrontRendered(map, v) \o rendered[RestRaw(map, v)]
  BY <1>7
<1>10. rendered[<<>>] = <<>>
  <2>1. <<>> \in T
    BY EmptySeq
  <2> QED BY <1>7, <2>1
<1>11. \A v \in T : rendered[v] \in T
  BY <1>8
<1> QED BY <1>5, <1>9, <1>10, <1>11

-----------------------------------------------------------------------------
(* From a place on, and again from a place on.                             *)
LEMMA FromFrom ==
  ASSUME NEW s \in Seq(Nat), NEW i \in Nat \ {0}, NEW j \in Nat \ {0}, i + j - 1 <= Len(s) + 1
  PROVE  From(From(s, i), j) = From(s, i + j - 1)
<1> DEFINE n == Len(s)
           a == From(s, i)
           b == From(a, j)
           k == i + j - 1
           c == From(s, k)
<1>1. /\ n \in Nat /\ i <= n + 1 /\ k \in Nat \ {0} /\ k <= n + 1
      /\ j <= n - i + 1 + 1 /\ n - k + 1 = n - i + 1 - j + 1
  OBVIOUS
<1>2. a \in Seq(Nat) /\ Len(a) = n - i + 1 /\ \A e \in 1 .. n - i + 1 : a[e] = s[i + e - 1]
  <2> HIDE DEF k
  <2> QED BY <1>1, FromMeans
<1>3. c \in Seq(Nat) /\ Len(c) = n - k + 1 /\ \A e \in 1 .. n - k + 1 : c[e] = s[k + e - 1]
  <2> HIDE DEF k
  <2> QED BY <1>1, FromMeans
<1> HIDE DEF a, c
<1>4. /\ b \in Seq(Nat) /\ Len(b) = Len(a) - j + 1
      /\ \A e \in 1 .. Len(a) - j + 1 : b[e] = a[j + e - 1]
  <2>1. a \in Seq(Nat) /\ j <= Len(a) + 1
    BY <1>1, <1>2
  <2> QED BY <2>1, FromMeans
<1> HIDE DEF b, n
<1>5. Len(b) = Len(c)
  BY <1>1, <1>2, <1>3, <1>4
<1>6. \A e \in 1 .. Len(b) : b[e] = c[e]
  <2> SUFFICES ASSUME NEW e \in 1 .. Len(b) PROVE b[e] = c[e]
    OBVIOUS
  <2> DEFINE d == j + e - 1
  <2>1. /\ e \in 1 .. Len(a) - j + 1 /\ d \in 1 .. n - i + 1 /\ e \in 1 .. n - k + 1
        /\ i + d - 1 = k + e - 1
    BY <1>1, <1>2, <1>4
  <2> HIDE DEF d, k
  <2>2. b[e] = a[d]
    BY <1>4, <2>1 DEF d
  <2>3. a[d] = s[i + d - 1]
    BY <1>2, <2>1
  <2>4. c[e] = s[k + e - 1]
    BY <1>3, <2>1
  <2> QED BY <2>1, <2>2, <2>3, <2>4
<1>7. b = c
  BY <1>3, <1>4, <1>5, <1>6, SeqEqual
<1> QED BY <1>7 DEF a, b, c

(* The variables whose macros begin at i, and the one that is rendered.    *)
StartingAt(map, s, i) == {n \in DOMAIN map : i \in Occurrences(Macro(n), s)}
NameAt(map, s, i) == CHOOSE n \in StartingAt(map, s, i) : TRUE

(* The macros at the front of what is behind i are those that begin at i.  *)
LEMMA HereIsStarting ==
  ASSUME NEW map, MapTyped(map), NEW s \in Seq(Nat), NEW i \in 1 .. Len(s) + 1
  PROVE  Here(map, From(s, i)) = StartingAt(map, s, i)
<1> DEFINE n == Len(s)
           a == From(s, i)
<1>1. /\ n \in Nat /\ i \in Nat \ {0} /\ i <= n + 1
      /\ a \in Seq(Nat) /\ Len(a) = n - i + 1 /\ \A j \in 1 .. n - i + 1 : a[j] = s[i + j - 1]
  <2>1. n \in Nat /\ i \in Nat \ {0} /\ i <= n + 1
    OBVIOUS
  <2> QED BY <2>1, FromMeans
<1> HIDE DEF a
<1>2. ASSUME NEW x \in DOMAIN map
      PROVE  1 \in Occurrences(Macro(x), a) <=> i \in Occurrences(Macro(x), s)
  <2> DEFINE part == Macro(x)
             k == Len(part)
  <2>1. part \in Seq(Nat) /\ part # <<>> /\ k \in Nat \ {0}
    BY MacroTyped DEF MapTyped
  <2> HIDE DEF part
  <2>2. /\ 1 \in Occurrences(part, a) =>
             1 + k - 1 <= Len(a) /\ \A j \in 1 .. k : a[1 + j - 1] = part[j]
        /\ (1 + k - 1 <= Len(a) /\ \A j \in 1 .. k : a[1 + j - 1] = part[j])
             => 1 \in Occurrences(part, a)
    <3>1. 1 \in Nat /\ 1 >= 1
      OBVIOUS
    <3> QED BY <1>1, <2>1, <3>1, OccurrenceMeans
  <2>3. /\ i \in Occurrences(part, s) =>
             i + k - 1 <= n /\ \A j \in 1 .. k : s[i + j - 1] = part[j]
        /\ (i + k - 1 <= n /\ \A j \in 1 .. k : s[i + j - 1] = part[j])
             => i \in Occurrences(part, s)
    <3>1. i \in Nat /\ i >= 1
      OBVIOUS
    <3> QED BY <1>1, <2>1, <3>1, OccurrenceMeans
  <2> HIDE DEF k, n
  <2>4. 1 + k - 1 <= Len(a) <=> i + k - 1 <= n
    BY <1>1, <2>1
  <2>5. ASSUME i + k - 1 <= n, NEW j \in 1 .. k PROVE a[1 + j - 1] = s[i + j - 1]
    <3>1. j \in 1 .. n - i + 1 /\ 1 + j - 1 = j
      BY <1>1, <2>1, <2>5
    <3> QED BY <1>1, <3>1
  <2> QED BY <2>2, <2>3, <2>4, <2>5 DEF part
<1> QED BY <1>2 DEF Here, StartingAt, a

(* The first character and what is behind it.                              *)
LEMMA HeadTailIs ==
  ASSUME NEW s \in Seq(Nat), s # <<>>
  PROVE  /\ Head(s) = s[1] /\ Head(s) \in Nat
         /\ Tail(s) \in Seq(Nat) /\ Tail(s) = SubSeq(s, 2, Len(s)) /\ Tail(s) = From(s, 2)
<1> DEFINE n == Len(s)
           a == Tail(s)
           b == From(s, 2)
<1>1. n \in Nat \ {0}
  BY EmptySeq
<1>2. Head(s) = s[1] /\ Head(s) \in Nat
  BY <1>1
<1>3. a \in Seq(Nat) /\ Len(a) = n - 1 /\ \A i \in 1 .. n - 1 : a[i] = s[i + 1]
  BY <1>1
<1>4. b \in Seq(Nat) /\ Len(b) = n - 2 + 1 /\ \A i \in 1 .. n - 2 + 1 : b[i] = s[2 + i - 1]
  <2>1. 2 \in Nat \ {0} /\ 2 <= n + 1
    BY <1>1
  <2> QED BY <2>1, FromMeans
<1> HIDE DEF n, a, b
<1>5. Len(a) = Len(b) /\ \A i \in 1 .. Len(a) : a[i] = b[i]
  <2>1. n - 1 = n - 2 + 1 /\ \A i \in 1 .. n - 1 : 2 + i - 1 = i + 1
    BY <1>1
  <2> QED BY <1>3, <1>4, <2>1
<1>6. a = b
  BY <1>3, <1>4, <1>5, SeqEqual
<1> QED BY <1>2, <1>3, <1>6 DEF a, b, n, From

(* Rendering goes on from the place it has come to.                        *)
LEMMA RenderedFrom ==
  ASSUME NEW map, MapTyped(map), NEW s \in Seq(Nat), NEW i \in 1 .. Len(s)
  PROVE  /\ From(s, i) \in Seq(Nat) /\ From(s, i) # <<>> /\ From(s, i)[1] = s[i]
         /\ Here(map, From(s, i)) = StartingAt(map, s, i)
         /\ NameOf(map, From(s, i)) = NameAt(map, s, i)
         /\ \A j \in Nat \ {0} : i + j <= Len(s) + 1 => From(From(s, i), j + 1) = From(s, i + j)
         /\ Rendered(map, From(s, i)) =
              FrontRendered(map, From(s, i)) \o Rendered(map, RestRaw(map, From(s, i)))
<1> DEFINE a == From(s, i)
<1>1. /\ Len(s) \in Nat /\ i \in Nat \ {0} /\ i <= Len(s) /\ i <= Len(s) + 1
      /\ i \in 1 .. Len(s) + 1 /\ 1 \in 1 .. Len(s) - i + 1 /\ i + 1 - 1 = i
  OBVIOUS
<1>2. a \in Seq(Nat) /\ Len(a) = Len(s) - i + 1 /\ a[1] = s[i] /\ a # <<>>
  <2>1. /\ a \in Seq(Nat) /\ Len(a) = Len(s) - i + 1
        /\ \A j \in 1 .. Len(s) - i + 1 : a[j] = s[i + j - 1]
    BY <1>1, FromMeans
  <2>2. a[1] = s[i]
    BY <1>1, <2>1
  <2>3. Len(a) # 0
    BY <1>1, <2>1
  <2> HIDE DEF a
  <2>4. a # <<>>
    BY <2>3
  <2> QED BY <2>1, <2>2, <2>4
<1>3. Here(map, a) = StartingAt(map, s, i) /\ NameOf(map, a) = NameAt(map, s, i)
  <2>1. Here(map, a) = StartingAt(map, s, i)
    BY <1>1, HereIsStarting
  <2> QED BY <2>1 DEF NameOf, NameAt
<1>4. \A j \in Nat \ {0} : i + j <= Len(s) + 1 => From(a, j + 1) = From(s, i + j)
  <2> SUFFICES ASSUME NEW j \in Nat \ {0}, i + j <= Len(s) + 1
               PROVE  From(a, j + 1) = From(s, i + j)
    OBVIOUS
  <2> DEFINE e == j + 1
  <2>1. e \in Nat \ {0} /\ i + e - 1 = i + j /\ i + e - 1 <= Len(s) + 1
    BY <1>1
  <2> HIDE DEF e
  <2>2. From(From(s, i), e) = From(s, i + e - 1)
    BY <1>1, <2>1, FromFrom
  <2> QED BY <2>1, <2>2 DEF e
<1> HIDE DEF a
<1>5. Rendered(map, a) = FrontRendered(map, a) \o Rendered(map, RestRaw(map, a))
  BY <1>2, RenderedUnfolds
<1> QED BY <1>2, <1>3, <1>4, <1>5 DEF a

(* A character at which no macro begins is rendered to itself.             *)
LEMMA RenderedPassed ==
  ASSUME NEW map, MapTyped(map), NEW s \in Seq(Nat), NEW i \in 1 .. Len(s),
         StartingAt(map, s, i) = {}
  PROVE  Rendered(map, From(s, i)) = <<s[i]>> \o Rendered(map, From(s, i + 1))
<1> DEFINE a == From(s, i)
<1>1. /\ a \in Seq(Nat) /\ a # <<>> /\ a[1] = s[i]
      /\ Here(map, a) = {}
      /\ \A j \in Nat \ {0} : i + j <= Len(s) + 1 => From(a, j + 1) = From(s, i + j)
      /\ Rendered(map, a) = FrontRendered(map, a) \o Rendered(map, RestRaw(map, a))
  BY RenderedFrom
<1> HIDE DEF a
<1>2. Head(a) = s[i] /\ Tail(a) = From(a, 2)
  BY <1>1, HeadTailIs
<1>3. From(a, 2) = From(s, i + 1)
  <2>1. 1 \in Nat \ {0} /\ i + 1 <= Len(s) + 1 /\ 1 + 1 = 2
    OBVIOUS
  <2> QED BY <1>1, <2>1
<1>4. FrontRendered(map, a) = <<s[i]>> /\ RestRaw(map, a) = From(s, i + 1)
  BY <1>1, <1>2, <1>3 DEF FrontRendered, RestRaw
<1> QED BY <1>1, <1>4 DEF a

(* The macro of n at i is rendered to the value of n.                      *)
RenderedAt(map, s, i, n) ==
  /\ n \in DOMAIN map /\ i \in Occurrences(Macro(n), s)
  /\ Rendered(map, From(s, i)) = map[n] \o Rendered(map, From(s, i + Len(Macro(n))))

(* A macro is rendered to the value of its variable.                       *)
LEMMA RenderedMacro ==
  ASSUME NEW map, MapTyped(map), NEW s \in Seq(Nat), NEW i \in 1 .. Len(s),
         StartingAt(map, s, i) # {}
  PROVE  RenderedAt(map, s, i, NameAt(map, s, i))
<1> DEFINE a == From(s, i)
           n == NameAt(map, s, i)
           m == Len(Macro(n))
<1>1. /\ a \in Seq(Nat)
      /\ Here(map, a) # {} /\ NameOf(map, a) = n
      /\ \A j \in Nat \ {0} : i + j <= Len(s) + 1 => From(a, j + 1) = From(s, i + j)
      /\ Rendered(map, a) = FrontRendered(map, a) \o Rendered(map, RestRaw(map, a))
  BY RenderedFrom
<1>2. n \in DOMAIN map /\ i \in Occurrences(Macro(n), s)
  BY DEF NameAt, StartingAt
<1> HIDE DEF a, n
<1>3. Macro(n) \in Seq(Nat) /\ Macro(n) # <<>> /\ m \in Nat \ {0}
  BY <1>2, MacroTyped DEF MapTyped
<1>4. i + m - 1 <= Len(s)
  BY <1>2, <1>3, OccurrenceMeans
<1>5. From(a, m + 1) = From(s, i + m)
  <2> HIDE DEF m
  <2>1. i + m <= Len(s) + 1
    BY <1>3, <1>4
  <2> QED BY <1>1, <1>3, <2>1
<1>6. FrontRendered(map, a) = map[n] /\ RestRaw(map, a) = From(a, m + 1)
  BY <1>1 DEF FrontRendered, RestRaw, From
<1>7. RenderedAt(map, s, i, n)
  BY <1>1, <1>2, <1>5, <1>6 DEF RenderedAt, a
<1> QED BY <1>7 DEF n

(* A character in front of a text.                                         *)
LEMMA PutInFront ==
  ASSUME NEW x \in Nat, NEW a \in Seq(Nat)
  PROVE  LET e == <<x>> \o a IN e # <<>> /\ Head(e) = x /\ Tail(e) = a /\ e[1] = x
OBVIOUS

(* Nothing is rendered of a text that is part of no macro.                 *)
LEMMA InertPassed ==
  ASSUME NEW map, MapTyped(map), NEW v \in Seq(Nat), NEW b \in Seq(Nat),
         \A n \in DOMAIN map : ToSet(v) \cap ToSet(Macro(n)) = {}
  PROVE  Rendered(map, v \o b) = v \o Rendered(map, b)
<1> DEFINE Strange(w) == \A n \in DOMAIN map : ToSet(w) \cap ToSet(Macro(n)) = {}
           good == {w \in Seq(Nat) : Strange(w) => Rendered(map, w \o b) = w \o Rendered(map, b)}
<1>0. Rendered(map, b) \in Seq(Nat)
  BY RenderedUnfolds
<1>1. good = Seq(Nat)
  <2> SUFFICES ASSUME NEW w \in Seq(Nat), \A r \in Seq(Nat) : Len(r) < Len(w) => r \in good
               PROVE  w \in good
    <3>1. good \in SUBSET Seq(Nat)
      OBVIOUS
    <3> HIDE DEF good
    <3> QED BY <3>1, TextInduction
  <2> SUFFICES ASSUME Strange(w) PROVE Rendered(map, w \o b) = w \o Rendered(map, b)
    OBVIOUS
  <2> HIDE DEF Strange
  <2>1. CASE w = <<>>
    <3>1. w \o b = b /\ w \o Rendered(map, b) = Rendered(map, b)
      BY <1>0, <2>1, ConcatEmptySeq
    <3> QED BY <3>1
  <2>2. CASE w # <<>>
    <3> DEFINE c == <<Head(w)>>
               r == Tail(w)
               a == r \o b
               e == w \o b
    <3>1. /\ Head(w) \in Nat /\ c \in Seq(Nat) /\ r \in Seq(Nat)
          /\ Len(r) < Len(w) /\ w = c \o r /\ Head(w) = w[1]
          /\ DOMAIN w = 1 .. Len(w) /\ 1 \in DOMAIN w
          /\ DOMAIN r = 1 .. Len(w) - 1 /\ \A i \in DOMAIN r : r[i] = w[i + 1]
      <4>1. Len(w) \in Nat \ {0} /\ Head(w) \in Nat /\ r \in Seq(Nat) /\ Len(r) = Len(w) - 1
        BY <2>2, EmptySeq, HeadTailProperties
      <4>2. /\ Head(w) = w[1] /\ DOMAIN w = 1 .. Len(w) /\ 1 \in DOMAIN w
            /\ DOMAIN r = 1 .. Len(w) - 1 /\ \A i \in DOMAIN r : r[i] = w[i + 1]
        BY <2>2, <4>1
      <4>3. c \in Seq(Nat)
        BY <4>1
      <4>4. w = c \o r
        BY <2>2
      <4> QED BY <4>1, <4>2, <4>3, <4>4
    <3>2. Strange(r)
      <4>1. ToSet(r) \subseteq ToSet(w)
        BY <3>1 DEF ToSet
      <4> QED BY <4>1 DEF Strange
    <3>3. Rendered(map, a) = r \o Rendered(map, b)
      <4>1. r \in good
        <5> HIDE DEF good, r
        <5> QED BY <3>1
      <4> QED BY <3>2, <4>1
    <3>4. e \in Seq(Nat) /\ e = c \o a /\ a \in Seq(Nat)
      <4> HIDE DEF c, r
      <4>0. c \in Seq(Nat) /\ r \in Seq(Nat)
        BY <3>1
      <4>1. (c \o r) \o b = c \o (r \o b)
        BY <4>0, TextAssociative, SMTT(60)
      <4>2. w \o b \in Seq(Nat) /\ r \o b \in Seq(Nat)
        BY <3>1, TextConcat
      <4> QED BY <3>1, <4>1, <4>2
    <3>5. e # <<>> /\ Head(e) = Head(w) /\ Tail(e) = a /\ e[1] = Head(w)
      <4> DEFINE x == Head(w)
      <4>1. e = <<x>> \o a
        BY <3>4
      <4> HIDE DEF x, e, a
      <4>2. x \in Nat /\ a \in Seq(Nat)
        BY <3>1, <3>4 DEF x
      <4>3. e # <<>> /\ Head(e) = x /\ Tail(e) = a /\ e[1] = x
        BY <4>1, <4>2, PutInFront
      <4> QED BY <4>3 DEF x
    <3>6. Here(map, e) = {}
      <4> HIDE DEF e, c, a, r
      <4> SUFFICES ASSUME NEW n \in DOMAIN map, 1 \in Occurrences(Macro(n), e) PROVE FALSE
        BY DEF Here
      <4>1. Macro(n) \in Seq(Nat) /\ Macro(n) # <<>> /\ Len(Macro(n)) \in Nat \ {0}
        BY MacroTyped DEF MapTyped
      <4> DEFINE m == Macro(n)
      <4>2. 1 \in 1 .. Len(m) /\ DOMAIN m = 1 .. Len(m) /\ 1 + 1 - 1 = 1
        BY <4>1
      <4>3. \A j \in 1 .. Len(m) : e[1 + j - 1] = m[j]
        <5>1. m \in Seq(Nat) /\ m # <<>> /\ 1 \in Occurrences(m, e) /\ e \in Seq(Nat)
          BY <3>4, <4>1
        <5> HIDE DEF m
        <5> QED BY <5>1, OccurrenceMeans
      <4>4. e[1] = m[1]
        <5> HIDE DEF m
        <5>1. e[1 + 1 - 1] = m[1]
          BY <4>2, <4>3
        <5> QED BY <5>1, <4>2
      <4>5. m[1] \in ToSet(m) /\ w[1] \in ToSet(w)
        BY <3>1, <4>2 DEF ToSet
      <4> QED BY <3>1, <3>5, <4>4, <4>5 DEF Strange
    <3>7. Rendered(map, e) = c \o Rendered(map, a)
      <4>1. FrontRendered(map, e) = c /\ RestRaw(map, e) = a
        BY <3>5, <3>6 DEF FrontRendered, RestRaw
      <4> HIDE DEF e, c, a
      <4>2. e \in Seq(Nat) /\ e # <<>>
        BY <3>4, <3>5
      <4>3. Rendered(map, e) = FrontRendered(map, e) \o Rendered(map, RestRaw(map, e))
        BY <4>2, RenderedUnfolds
      <4> QED BY <4>1, <4>3
    <3>8. c \o (r \o Rendered(map, b)) = w \o Rendered(map, b)
      <4> DEFINE d == Rendered(map, b)
      <4>1. d \in Seq(Nat)
        BY <1>0
      <4> HIDE DEF c, r, d
      <4>0. c \in Seq(Nat) /\ r \in Seq(Nat)
        BY <3>1
      <4>2. (c \o r) \o d = c \o (r \o d)
        BY <4>0, <4>1, TextAssociative, SMTT(60)
      <4> QED BY <3>1, <4>2 DEF d
    <3> HIDE DEF c, r
    <3> QED BY <3>3, <3>7, <3>8
  <2> QED BY <2>1, <2>2
<1>2. Strange(v)
  OBVIOUS
<1> QED BY <1>1, <1>2

-----------------------------------------------------------------------------
(* From the first character on, a text is the whole text.                  *)
LEMMA FromOne == ASSUME NEW s \in Seq(Nat) PROVE From(s, 1) = s
<1> DEFINE b == From(s, 1)
<1>1. /\ b \in Seq(Nat) /\ Len(b) = Len(s) - 1 + 1
      /\ \A i \in 1 .. Len(s) - 1 + 1 : b[i] = s[1 + i - 1]
  <2>1. 1 \in Nat \ {0} /\ 1 <= Len(s) + 1
    OBVIOUS
  <2> QED BY <2>1, FromMeans
<1> HIDE DEF b
<1>2. Len(b) = Len(s) /\ \A i \in 1 .. Len(b) : b[i] = s[i]
  <2> DEFINE n == Len(s)
  <2>1. n \in Nat
    OBVIOUS
  <2> HIDE DEF n
  <2>2. n - 1 + 1 = n /\ \A i \in 1 .. n : 1 + i - 1 = i
    BY <2>1
  <2> QED BY <1>1, <2>2 DEF n
<1>3. b = s
  BY <1>1, <1>2, SeqEqual
<1> QED BY <1>3 DEF b

(* What the loop may assume of the text and of the variables.              *)
Tidy(map, s) ==
  /\ MapTyped(map)
  /\ s \in Seq(Nat)
  /\ Separate(DOMAIN map, s)
  /\ \A n \in DOMAIN map : Inert(DOMAIN map, map[n])

(* The text t is s, with the value of x in the place of its macro at p.    *)
Filled(map, s, x, p, t) ==
  /\ x \in DOMAIN map
  /\ p \in Occurrences(Macro(x), s)
  /\ t = ReplaceSubSeqAt(p, map[x], Macro(x), s)

(* Filling in a macro makes no macro, and moves those behind it.           *)
LEMMA FilledMeans ==
  ASSUME NEW map, NEW s, NEW x, NEW p, NEW t, Tidy(map, s), Filled(map, s, x, p, t)
  PROVE  /\ t \in Seq(Nat) /\ map[x] \in Seq(Nat) /\ map[x] # <<>>
         /\ Macro(x) \in Seq(Nat) /\ Macro(x) # <<>> /\ Len(Macro(x)) \in Nat \ {0}
         /\ Replaced(s, p, Len(Macro(x)), map[x], t)
         /\ \A n \in DOMAIN map :
              /\ Macro(n) \in Seq(Nat) /\ Len(Macro(n)) \in Nat \ {0}
              /\ ToSet(map[x]) \cap ToSet(Macro(n)) = {}
              /\ \A i \in Occurrences(Macro(n), t) :
                   \/ i + Len(Macro(n)) <= p /\ i \in Occurrences(Macro(n), s)
                   \/ /\ i >= p + Len(map[x])
                      /\ i - Len(map[x]) + Len(Macro(x)) \in Occurrences(Macro(n), s)
              /\ \A i \in Occurrences(Macro(n), s) :
                   i + Len(Macro(n)) <= p => i \in Occurrences(Macro(n), t)
<1>1. /\ x \in DOMAIN map /\ p \in Occurrences(Macro(x), s) /\ s \in Seq(Nat)
      /\ t = ReplaceSubSeqAt(p, map[x], Macro(x), s)
      /\ map[x] \in Seq(Nat) /\ map[x] # <<>>
  BY DEF Tidy, Filled, MapTyped, Inert
<1>2. \A n \in DOMAIN map :
        Macro(n) \in Seq(Nat) /\ Macro(n) # <<>> /\ Len(Macro(n)) \in Nat \ {0}
  BY MacroTyped DEF Tidy, MapTyped
<1> DEFINE part == Macro(x)
           v == map[x]
<1>3. part \in Seq(Nat) /\ part # <<>> /\ Len(part) \in Nat \ {0} /\ v \in Seq(Nat)
  BY <1>1, <1>2
<1> HIDE DEF part, v
<1>4. t \in Seq(Nat) /\ Replaced(s, p, Len(part), v, t)
  <2>1. p \in Occurrences(part, s) /\ t = ReplaceSubSeqAt(p, v, part, s)
    BY <1>1 DEF part, v
  <2> QED BY <1>1, <1>3, <2>1, ReplaceMeans
<1>5. \A n \in DOMAIN map : ToSet(v) \cap ToSet(Macro(n)) = {}
  BY <1>1 DEF Tidy, Inert, v
<1>6. ASSUME NEW n \in DOMAIN map
      PROVE  /\ \A i \in Occurrences(Macro(n), t) :
                  \/ i + Len(Macro(n)) <= p /\ i \in Occurrences(Macro(n), s)
                  \/ /\ i >= p + Len(v)
                     /\ i - Len(v) + Len(part) \in Occurrences(Macro(n), s)
             /\ \A i \in Occurrences(Macro(n), s) :
                  i + Len(Macro(n)) <= p => i \in Occurrences(Macro(n), t)
  <2> DEFINE w == Macro(n)
             m == Len(part)
  <2>1. /\ w \in Seq(Nat) /\ w # <<>> /\ s \in Seq(Nat) /\ t \in Seq(Nat) /\ v \in Seq(Nat)
        /\ v # <<>> /\ Replaced(s, p, m, v, t) /\ ToSet(v) \cap ToSet(w) = {}
    BY <1>1, <1>2, <1>4, <1>5 DEF v
  <2> HIDE DEF w, m
  <2>2. /\ \A i \in Occurrences(w, t) :
             \/ i + Len(w) <= p /\ i \in Occurrences(w, s)
             \/ i >= p + Len(v) /\ i - Len(v) + m \in Occurrences(w, s)
        /\ \A i \in Occurrences(w, s) : i + Len(w) <= p => i \in Occurrences(w, t)
    BY <2>1, OccurrencesMove
  <2> QED BY <2>2 DEF w, m
<1> QED BY <1>1, <1>2, <1>3, <1>4, <1>5, <1>6 DEF part, v

(* A macro that was nowhere appears nowhere, and macros stay apart.        *)
LEMMA FilledStaysTidy ==
  ASSUME NEW map, NEW s, NEW x, NEW p, NEW t, Tidy(map, s), Filled(map, s, x, p, t)
  PROVE  /\ Tidy(map, t)
         /\ \A n \in DOMAIN map :
              Occurrences(Macro(n), s) = {} => Occurrences(Macro(n), t) = {}
<1> DEFINE l == Len(map[x])
           m == Len(Macro(x))
           Size(n) == Len(Macro(n))
           In(n, r) == Occurrences(Macro(n), r)
<1>1. l \in Nat /\ m \in Nat /\ p \in Nat /\ \A n \in DOMAIN map : Size(n) \in Nat \ {0}
  <2>1. p \in Nat
    BY FilledMeans DEF Replaced
  <2>2. map[x] \in Seq(Nat) /\ m \in Nat
    BY FilledMeans
  <2>3. l \in Nat
    BY <2>2
  <2>4. \A n \in DOMAIN map : Size(n) \in Nat \ {0}
    BY FilledMeans
  <2> QED BY <2>1, <2>2, <2>3, <2>4
<1>2. \A n \in DOMAIN map : \A i \in In(n, t) :
        \/ i + Size(n) <= p /\ i \in In(n, s)
        \/ i >= p + l /\ i - l + m \in In(n, s)
  BY FilledMeans
<1>3. \A n \in DOMAIN map : \A i \in In(n, t) : i \in Nat
  <2> SUFFICES ASSUME NEW n \in DOMAIN map PROVE \A i \in In(n, t) : i \in Nat
    OBVIOUS
  <2>1. Macro(n) \in Seq(Nat) /\ Macro(n) # <<>> /\ t \in Seq(Nat)
    <3>1. Macro(n) \in Seq(Nat) /\ t \in Seq(Nat)
      BY FilledMeans
    <3>2. n \in Seq(Nat)
      BY DEF Tidy, MapTyped
    <3> QED BY <3>1, <3>2, MacroTyped
  <2> QED BY <2>1, OccurrenceMeans
<1>4. \A a, b \in DOMAIN map : \A i \in In(a, s), j \in In(b, s) :
        (a = b /\ i = j) \/ i + Size(a) <= j \/ j + Size(b) <= i
  BY DEF Tidy, Separate
<1> HIDE DEF l, m, Size, In
<1>5. ASSUME NEW a \in DOMAIN map, NEW b \in DOMAIN map, NEW i \in In(a, t), NEW j \in In(b, t)
      PROVE  (a = b /\ i = j) \/ i + Size(a) <= j \/ j + Size(b) <= i
  <2>1. /\ i \in Nat /\ j \in Nat /\ Size(a) \in Nat \ {0} /\ Size(b) \in Nat \ {0}
    BY <1>1, <1>3
  <2>2. CASE i + Size(a) <= p /\ i \in In(a, s) /\ j + Size(b) <= p /\ j \in In(b, s)
    BY <1>4, <2>2
  <2>3. CASE i + Size(a) <= p /\ j >= p + l
    BY <1>1, <2>1, <2>3
  <2>4. CASE j + Size(b) <= p /\ i >= p + l
    BY <1>1, <2>1, <2>4
  <2>5. CASE i - l + m \in In(a, s) /\ j - l + m \in In(b, s)
    <3> DEFINE e == i - l + m
               f == j - l + m
    <3>1. (a = b /\ e = f) \/ e + Size(a) <= f \/ f + Size(b) <= e
      <4>1. e \in In(a, s) /\ f \in In(b, s)
        BY <2>5
      <4> HIDE DEF e, f
      <4> QED BY <1>4, <4>1
    <3> QED BY <1>1, <2>1, <3>1
  <2> QED BY <1>2, <2>2, <2>3, <2>4, <2>5
<1>6. Separate(DOMAIN map, t)
  BY <1>5 DEF Separate, In, Size
<1>7. t \in Seq(Nat)
  BY FilledMeans
<1>8. Tidy(map, t)
  BY <1>6, <1>7 DEF Tidy
<1>9. \A n \in DOMAIN map : In(n, s) = {} => In(n, t) = {}
  BY <1>2
<1> QED BY <1>8, <1>9 DEF In

(* Filling in a macro changes nothing of what the text is rendered to.     *)
LEMMA FilledRendersAlike ==
  ASSUME NEW map, NEW s, NEW x, NEW p, NEW t, Tidy(map, s), Filled(map, s, x, p, t)
  PROVE  Rendered(map, t) = Rendered(map, s)
<1> DEFINE v == map[x]
           l == Len(v)
           m == Len(Macro(x))
           Same(i) == Rendered(map, From(t, i)) = Rendered(map, From(s, i))
<1>1. /\ MapTyped(map) /\ s \in Seq(Nat) /\ t \in Seq(Nat) /\ v \in Seq(Nat) /\ l \in Nat
      /\ m \in Nat \ {0} /\ x \in DOMAIN map /\ p \in Occurrences(Macro(x), s)
  <2>1. t \in Seq(Nat) /\ v \in Seq(Nat) /\ m \in Nat \ {0}
    BY FilledMeans
  <2> HIDE DEF m
  <2> QED BY <2>1 DEF Tidy, Filled
<1>2. /\ p \in Nat \ {0} /\ p + m - 1 <= Len(s) /\ Len(t) = Len(s) - m + l
      /\ \A i \in 1 .. p - 1 : t[i] = s[i]
      /\ From(t, p) = v \o From(s, p + m)
  <2>1. Replaced(s, p, Len(Macro(x)), map[x], t)
    BY FilledMeans
  <2>2. Replaced(s, p, m, v, t)
    BY <2>1
  <2> HIDE DEF m, v
  <2>3. /\ p \in Nat \ {0} /\ p + m - 1 <= Len(s) /\ Len(t) = Len(s) - m + Len(v)
        /\ \A i \in 1 .. p - 1 : t[i] = s[i]
        /\ From(t, p) = v \o From(s, p + m)
    BY <2>2 DEF Replaced
  <2> QED BY <2>3
<1>3. \A n \in DOMAIN map :
        /\ Len(Macro(n)) \in Nat \ {0}
        /\ ToSet(v) \cap ToSet(Macro(n)) = {}
        /\ \A i \in Occurrences(Macro(n), t) :
             \/ i + Len(Macro(n)) <= p /\ i \in Occurrences(Macro(n), s)
             \/ i >= p + l
        /\ \A i \in Occurrences(Macro(n), s) :
             i + Len(Macro(n)) <= p => i \in Occurrences(Macro(n), t)
  BY FilledMeans
<1>4. \A n \in DOMAIN map : \A i \in Occurrences(Macro(n), s) :
        (n = x /\ i = p) \/ i + Len(Macro(n)) <= p \/ p + m <= i
  BY <1>1 DEF Tidy, Separate
<1> HIDE DEF v, l, m
<1>5. Same(p)
  <2>1. StartingAt(map, s, p) = {x}
    <3>1. x \in StartingAt(map, s, p)
      BY <1>1 DEF StartingAt
    <3>2. ASSUME NEW n \in StartingAt(map, s, p) PROVE n = x
      <4>1. n \in DOMAIN map /\ p \in Occurrences(Macro(n), s)
        BY <3>2 DEF StartingAt
      <4>2. (n = x /\ p = p) \/ p + Len(Macro(n)) <= p \/ p + m <= p
        BY <1>4, <4>1
      <4>3. Len(Macro(n)) \in Nat \ {0}
        BY <1>3, <4>1
      <4> QED BY <1>1, <1>2, <4>2, <4>3
    <3> QED BY <3>1, <3>2
  <2>2. NameAt(map, s, p) = x
    BY <2>1 DEF NameAt
  <2>3. p \in 1 .. Len(s)
    BY <1>1, <1>2
  <2>4. Rendered(map, From(s, p)) = v \o Rendered(map, From(s, p + m))
    <3>1. MapTyped(map) /\ s \in Seq(Nat) /\ StartingAt(map, s, p) # {}
      BY <1>1, <2>1
    <3>2. Rendered(map, From(s, p)) = map[x] \o Rendered(map, From(s, p + Len(Macro(x))))
      <4>1. RenderedAt(map, s, p, NameAt(map, s, p))
        BY <2>3, <3>1, RenderedMacro
      <4> QED BY <2>2, <4>1 DEF RenderedAt
    <3> QED BY <3>2 DEF v, m
  <2>5. From(s, p + m) \in Seq(Nat)
    <3> DEFINE k == p + m
    <3>1. k \in Nat \ {0} /\ k <= Len(s) + 1
      BY <1>1, <1>2
    <3> HIDE DEF k
    <3>2. From(s, k) \in Seq(Nat)
      BY <1>1, <3>1, FromMeans
    <3> QED BY <3>2 DEF k
  <2>6. Rendered(map, v \o From(s, p + m)) = v \o Rendered(map, From(s, p + m))
    BY <1>1, <1>3, <2>5, InertPassed
  <2> QED BY <1>2, <2>4, <2>6
<1>6. ASSUME NEW i \in 1 .. p - 1, \A j \in i + 1 .. p : Same(j)
      PROVE  Same(i)
  <2>1. StartingAt(map, t, i) = StartingAt(map, s, i)
    <3>1. ASSUME NEW n \in DOMAIN map
          PROVE  i \in Occurrences(Macro(n), t) <=> i \in Occurrences(Macro(n), s)
      <4>1. ASSUME i \in Occurrences(Macro(n), t) PROVE i \in Occurrences(Macro(n), s)
        <5>1. ~(i >= p + l)
          <6>1. l \in Nat /\ p \in Nat
            BY <1>1, <1>2
          <6> QED BY <6>1
        <5> QED BY <1>3, <4>1, <5>1
      <4>2. ASSUME i \in Occurrences(Macro(n), s) PROVE i \in Occurrences(Macro(n), t)
        <5>1. i # p /\ ~(p + m <= i)
          <6>1. m \in Nat /\ p \in Nat
            BY <1>1, <1>2
          <6> QED BY <6>1
        <5>2. i + Len(Macro(n)) <= p
          BY <1>4, <4>2, <5>1
        <5> QED BY <1>3, <4>2, <5>2
      <4> QED BY <4>1, <4>2
    <3> QED BY <3>1 DEF StartingAt
  <2>2. i \in 1 .. Len(s) /\ i \in 1 .. Len(t) /\ t[i] = s[i] /\ i + 1 \in i + 1 .. p
    <3> DEFINE n == Len(s)
    <3>1. n \in Nat
      BY <1>1
    <3>2. t[i] = s[i] /\ Len(t) = n - m + l /\ p + m - 1 <= n
      BY <1>2
    <3> HIDE DEF n
    <3>3. i \in 1 .. n /\ i \in 1 .. n - m + l /\ i + 1 \in i + 1 .. p
      BY <1>1, <1>2, <3>1, <3>2
    <3> QED BY <3>2, <3>3 DEF n
  <2>0. MapTyped(map) /\ s \in Seq(Nat) /\ t \in Seq(Nat)
    BY <1>1
  <2>3. CASE StartingAt(map, s, i) = {}
    <3>1. Rendered(map, From(s, i)) = <<s[i]>> \o Rendered(map, From(s, i + 1))
      BY <2>0, <2>2, <2>3, RenderedPassed
    <3>2. Rendered(map, From(t, i)) = <<t[i]>> \o Rendered(map, From(t, i + 1))
      BY <2>0, <2>1, <2>2, <2>3, RenderedPassed
    <3>3. Same(i + 1)
      BY <1>6, <2>2
    <3> QED BY <2>2, <3>1, <3>2, <3>3
  <2>4. CASE StartingAt(map, s, i) # {}
    <3> DEFINE n == NameAt(map, s, i)
               k == Len(Macro(n))
    <3>1. /\ n \in DOMAIN map /\ i \in Occurrences(Macro(n), s)
          /\ Rendered(map, From(s, i)) = map[n] \o Rendered(map, From(s, i + k))
      <4>1. RenderedAt(map, s, i, n)
        BY <2>0, <2>2, <2>4, RenderedMacro
      <4> HIDE DEF n
      <4> QED BY <4>1 DEF RenderedAt
    <3>2. n = NameAt(map, t, i)
      BY <2>1 DEF NameAt
    <3>3. Rendered(map, From(t, i)) = map[n] \o Rendered(map, From(t, i + k))
      <4>1. StartingAt(map, t, i) # {}
        BY <2>1, <2>4
      <4>2. RenderedAt(map, t, i, NameAt(map, t, i))
        BY <2>0, <2>2, <4>1, RenderedMacro
      <4> HIDE DEF n
      <4> QED BY <3>2, <4>2 DEF RenderedAt
    <3>4. k \in Nat \ {0}
      BY <1>3, <3>1
    <3>5. i + k <= p
      <4>1. i # p /\ ~(p + m <= i)
        BY <1>1, <1>2
      <4> HIDE DEF n
      <4> QED BY <1>4, <3>1, <4>1
    <3> HIDE DEF n, k
    <3>6. i + k \in i + 1 .. p
      BY <1>2, <3>4, <3>5
    <3>7. Same(i + k)
      BY <1>6, <3>6
    <3> QED BY <3>1, <3>3, <3>7
  <2> QED BY <2>3, <2>4
<1> HIDE DEF Same
<1>7. \A i \in 1 .. p : Same(i)
  <2> SUFFICES ASSUME NEW i \in 1 .. p, ~Same(i) PROVE FALSE
    OBVIOUS
  <2> DEFINE Bad == {k \in Nat : k < p /\ ~Same(p - k)}
  <2>1. Bad \in SUBSET Nat /\ Bad # {}
    <3>1. p - i \in Nat /\ p - i < p /\ p - (p - i) = i
      BY <1>2
    <3> QED BY <3>1
  <2> HIDE DEF Bad
  <2>2. PICK k \in Bad : \A h \in Bad : k <= h
    BY <2>1, LeastOf
  <2>3. k \in Nat /\ k < p /\ ~Same(p - k)
    BY DEF Bad
  <2>4. k # 0
    BY <1>2, <1>5, <2>3
  <2> DEFINE a == p - k
  <2>5. a \in 1 .. p - 1
    BY <1>2, <2>3, <2>4
  <2>6. ASSUME NEW j \in a + 1 .. p PROVE Same(j)
    <3>1. p - j \in Nat /\ p - j < k /\ p - j < p /\ p - (p - j) = j
      BY <1>2, <2>3
    <3>2. p - j \notin Bad
      BY <2>2, <2>3, <3>1
    <3> QED BY <3>1, <3>2 DEF Bad
  <2> HIDE DEF a
  <2>7. Same(a)
    BY <1>6, <2>5, <2>6
  <2> QED BY <2>3, <2>7 DEF a
<1>8. Same(1)
  BY <1>2, <1>7
<1> QED BY <1>1, <1>8, FromOne DEF Same

(* A text in which no macro is left is rendered to itself.                 *)
LEMMA NothingToRender ==
  ASSUME NEW map, MapTyped(map), NEW s \in Seq(Nat),
         \A n \in DOMAIN map : Occurrences(Macro(n), s) = {}
  PROVE  Rendered(map, s) = s
<1> DEFINE n == Len(s)
           Same(i) == Rendered(map, From(s, i)) = From(s, i)
<1>1. n \in Nat
  OBVIOUS
<1>2. Same(n + 1)
  <2> DEFINE b == From(s, n + 1)
  <2>1. n + 1 \in Nat \ {0} /\ n + 1 <= Len(s) + 1 /\ Len(s) - (n + 1) + 1 = 0
    OBVIOUS
  <2>2. b \in Seq(Nat) /\ Len(b) = 0
    <3> DEFINE e == n + 1
    <3>1. e \in Nat \ {0} /\ e <= Len(s) + 1 /\ Len(s) - e + 1 = 0
      BY <2>1
    <3> HIDE DEF e
    <3>2. From(s, e) \in Seq(Nat) /\ Len(From(s, e)) = 0
      BY <3>1, FromMeans
    <3> QED BY <3>2 DEF e
  <2> HIDE DEF b
  <2>3. b = <<>>
    BY <2>2
  <2>4. Rendered(map, b) = b
    BY <2>3, RenderedUnfolds
  <2> QED BY <2>4 DEF b
<1>3. ASSUME NEW i \in 1 .. n, Same(i + 1)
      PROVE  Same(i)
  <2>1. StartingAt(map, s, i) = {}
    BY DEF StartingAt
  <2>2. Rendered(map, From(s, i)) = <<s[i]>> \o Rendered(map, From(s, i + 1))
    BY <2>1, RenderedPassed
  <2>3. From(s, i) = <<s[i]>> \o From(s, i + 1)
    <3> DEFINE a == From(s, i)
    <3>1. /\ a \in Seq(Nat) /\ Len(a) = n - i + 1
          /\ \A j \in 1 .. n - i + 1 : a[j] = s[i + j - 1]
      <4>1. i \in Nat \ {0} /\ i <= Len(s) + 1
        OBVIOUS
      <4> QED BY <4>1, FromMeans
    <3>2. From(a, 2) = From(s, i + 1)
      <4>1. /\ i \in Nat \ {0} /\ 2 \in Nat \ {0} /\ i + 2 - 1 <= Len(s) + 1
            /\ i + 2 - 1 = i + 1
        OBVIOUS
      <4> QED BY <4>1, FromFrom
    <3> HIDE DEF a, n
    <3>3. a # <<>> /\ a[1] = s[i]
      <4>1. 1 \in 1 .. n - i + 1 /\ n - i + 1 # 0 /\ i + 1 - 1 = i
        BY <1>1
      <4> QED BY <3>1, <4>1
    <3>4. Head(a) = a[1] /\ Tail(a) = From(a, 2)
      BY <3>1, <3>3, HeadTailIs
    <3>5. a = <<Head(a)>> \o Tail(a)
      BY <3>1, <3>3
    <3> QED BY <3>2, <3>3, <3>4, <3>5 DEF a
  <2> QED BY <1>3, <2>2, <2>3
<1> HIDE DEF Same, n
<1>4. \A i \in 1 .. n + 1 : Same(i)
  <2> SUFFICES ASSUME NEW i \in 1 .. n + 1, ~Same(i) PROVE FALSE
    OBVIOUS
  <2> DEFINE Bad == {k \in Nat : k <= n /\ ~Same(n + 1 - k)}
  <2>1. Bad \in SUBSET Nat /\ Bad # {}
    <3>1. n + 1 - i \in Nat /\ n + 1 - i <= n /\ n + 1 - (n + 1 - i) = i
      BY <1>1
    <3> QED BY <3>1
  <2> HIDE DEF Bad
  <2>2. PICK k \in Bad : \A h \in Bad : k <= h
    BY <2>1, LeastOf
  <2>3. k \in Nat /\ k <= n /\ ~Same(n + 1 - k)
    BY DEF Bad
  <2>4. k # 0
    BY <1>1, <1>2, <2>3
  <2>5. k - 1 \in Nat /\ k - 1 < k /\ k - 1 <= n /\ n + 1 - (k - 1) = n + 1 - k + 1
    BY <1>1, <2>3, <2>4
  <2>6. k - 1 \notin Bad
    BY <2>2, <2>3, <2>5
  <2>7. Same(n + 1 - k + 1)
    BY <2>5, <2>6 DEF Bad
  <2>8. n + 1 - k \in 1 .. n
    BY <1>1, <2>3, <2>4
  <2> QED BY <1>3, <2>3, <2>7, <2>8
<1>5. Same(1)
  BY <1>1, <1>4
<1> QED BY <1>5, FromOne DEF Same

-----------------------------------------------------------------------------
(* The arguments keep their types, and the loop takes each variable once.  *)
LoopTyped ==
  /\ template \in Seq(Nat) /\ text \in Seq(Nat)
  /\ MapTyped(values)
  /\ todo \subseteq DOMAIN values
  /\ NoName \notin DOMAIN values
  /\ name \in DOMAIN values \cup {NoName}

(* A variable the loop is done with is nowhere in the text.                *)
Gone(n) == n \notin todo /\ n # name => Occurrences(Macro(n), text) = {}

(* What is still in the text makes it the same in the end.                 *)
RendersSoFar ==
  Renderable =>
    /\ Separate(DOMAIN values, text)
    /\ Rendered(values, text) = Rendered(values, template)
    /\ \A n \in DOMAIN values : Gone(n)

(* The place of the first macro is the place of one.                       *)
LEMMA FirstIsThere ==
  ASSUME NEW part \in Seq(Nat), part # <<>>, NEW s \in Seq(Nat), Occurrences(part, s) # {}
  PROVE  First(Occurrences(part, s)) \in Occurrences(part, s)
<1>1. Occurrences(part, s) \in SUBSET Nat
  BY OccurrenceMeans
<1>2. \E i \in Occurrences(part, s) : \A j \in Occurrences(part, s) : i <= j
  BY <1>1, LeastOf
<1> QED BY <1>2 DEF First

(* The types of the arguments and of the loop are kept by every step.      *)
LEMMA LoopStaysTyped == Spec => []LoopTyped
<1>1. Init => LoopTyped
  <2> SUFFICES ASSUME Init PROVE LoopTyped
    OBVIOUS
  <2>1. PICK c \in Calls :
          /\ template = c.template /\ text = c.template
          /\ values = c.values /\ todo = DOMAIN c.values
          /\ name = NoName
    BY DEF Init
  <2>2. /\ c.template \in Seq(Byte) /\ NoName \notin DOMAIN c.values
        /\ \A n \in DOMAIN c.values : n \in Seq(Byte) /\ c.values[n] \in Seq(Byte)
    BY CallsAssumption
  <2> QED BY <2>1, <2>2, BytesAreText DEF LoopTyped, MapTyped
<1>2. LoopTyped /\ [Next]_vars => LoopTyped'
  <2> SUFFICES ASSUME LoopTyped, [Next]_vars PROVE LoopTyped'
    OBVIOUS
  <2>1. ASSUME NEW n \in todo, Take(n) PROVE LoopTyped'
    BY <2>1 DEF LoopTyped, MapTyped, Take
  <2>2. CASE Substitute
    <3>1. text' \in Seq(Nat)
      <4> DEFINE part == Macro(name)
                 v == values[name]
                 p == First(Occurrences(part, text))
      <4>1. part \in Seq(Nat) /\ part # <<>> /\ v \in Seq(Nat) /\ text \in Seq(Nat)
        BY <2>2, MacroTyped DEF Substitute, LoopTyped, MapTyped
      <4>2. Occurrences(part, text) # {} /\ text' = ReplaceSubSeqAt(p, v, part, text)
        BY <2>2 DEF Substitute
      <4> HIDE DEF part, v
      <4>3. p \in Occurrences(part, text)
        BY <4>1, <4>2, FirstIsThere
      <4> QED BY <4>1, <4>2, <4>3, ReplaceMeans
    <3> QED BY <2>2, <3>1 DEF LoopTyped, MapTyped, Substitute
  <2>3. CASE LeaveLoop
    BY <2>3 DEF LoopTyped, MapTyped, LeaveLoop
  <2>4. CASE UNCHANGED vars
    BY <2>4 DEF LoopTyped, MapTyped, vars
  <2> QED BY <2>1, <2>2, <2>3, <2>4 DEF Next
<1> QED BY <1>1, <1>2, PTL DEF Spec

(* A substitution keeps what the text is rendered to.                      *)
LEMMA RenderingStep ==
  ASSUME LoopTyped, RendersSoFar, Substitute PROVE RendersSoFar'
<1> SUFFICES ASSUME Renderable'
             PROVE  /\ Separate(DOMAIN values, text)'
                    /\ (Rendered(values, text) = Rendered(values, template))'
                    /\ \A n \in DOMAIN values' : Gone(n)'
  BY DEF RendersSoFar
<1> DEFINE p == First(Occurrences(Macro(name), text))
<1>1. /\ name # NoName /\ Occurrences(Macro(name), text) # {}
      /\ text' = ReplaceSubSeqAt(p, values[name], Macro(name), text)
      /\ template' = template /\ values' = values /\ todo' = todo /\ name' = name
  BY DEF Substitute
<1>2. name \in DOMAIN values /\ MapTyped(values) /\ text \in Seq(Nat)
  BY <1>1 DEF LoopTyped
<1>3. Renderable
  BY <1>1 DEF Renderable
<1>4. /\ Separate(DOMAIN values, text)
      /\ Rendered(values, text) = Rendered(values, template)
      /\ \A n \in DOMAIN values : Gone(n)
  BY <1>3 DEF RendersSoFar
<1>5. Tidy(values, text)
  BY <1>2, <1>3, <1>4 DEF Tidy, Renderable
<1>6. Filled(values, text, name, p, text')
  <2>1. Macro(name) \in Seq(Nat) /\ Macro(name) # <<>>
    BY <1>2, MacroTyped DEF MapTyped
  <2>2. p \in Occurrences(Macro(name), text)
    BY <1>1, <1>2, <2>1, FirstIsThere
  <2> QED BY <1>1, <1>2, <2>2 DEF Filled
<1> HIDE DEF p
<1>7. /\ Tidy(values, text')
      /\ \A n \in DOMAIN values :
           Occurrences(Macro(n), text) = {} => Occurrences(Macro(n), text') = {}
  BY <1>5, <1>6, FilledStaysTidy
<1>8. Rendered(values, text') = Rendered(values, text)
  BY <1>5, <1>6, FilledRendersAlike
<1>9. Separate(DOMAIN values, text)'
  BY <1>1, <1>7 DEF Tidy
<1>10. (Rendered(values, text) = Rendered(values, template))'
  BY <1>1, <1>4, <1>8
<1>11. \A n \in DOMAIN values' : Gone(n)'
  BY <1>1, <1>4, <1>7 DEF Gone
<1> QED BY <1>9, <1>10, <1>11

(* Whatever the order of the map: the text the loop returns is the         *)
(* template with every macro replaced once, from left to right.            *)
THEOREM Renders == Spec => []RendersTemplate
<1>1. Init /\ LoopTyped => RendersSoFar
  BY DEF Init, LoopTyped, RendersSoFar, Renderable, Gone
<1>2. LoopTyped /\ RendersSoFar /\ [Next]_vars => RendersSoFar'
  <2> SUFFICES ASSUME LoopTyped, RendersSoFar, [Next]_vars PROVE RendersSoFar'
    OBVIOUS
  <2>1. ASSUME NEW n \in todo, Take(n) PROVE RendersSoFar'
    <3>1. /\ name = NoName /\ name' = n /\ todo' = todo \ {n}
          /\ template' = template /\ values' = values /\ text' = text
      BY <2>1 DEF Take
    <3>2. \A x \in DOMAIN values : Gone(x) => Gone(x)'
      BY <3>1 DEF Gone, LoopTyped
    <3> QED BY <3>1, <3>2 DEF RendersSoFar, Renderable
  <2>2. CASE Substitute
    BY <2>2, RenderingStep
  <2>3. CASE LeaveLoop
    BY <2>3 DEF LoopTyped, RendersSoFar, Renderable, Gone, LeaveLoop
  <2>4. CASE UNCHANGED vars
    BY <2>4 DEF RendersSoFar, Renderable, Gone, vars
  <2> QED BY <2>1, <2>2, <2>3, <2>4 DEF Next
<1>3. LoopTyped /\ RendersSoFar => RendersTemplate
  <2> SUFFICES ASSUME LoopTyped, RendersSoFar, Returned, Renderable
               PROVE  text = Rendered(values, template)
    BY DEF RendersTemplate
  <2>1. MapTyped(values) /\ text \in Seq(Nat)
    BY DEF LoopTyped
  <2>2. \A n \in DOMAIN values : Occurrences(Macro(n), text) = {}
    BY DEF LoopTyped, RendersSoFar, Gone, Returned
  <2>3. Rendered(values, text) = text
    BY <2>1, <2>2, NothingToRender
  <2> QED BY <2>3 DEF RendersSoFar
<1> QED BY <1>1, <1>2, <1>3, LoopStaysTyped, PTL DEF Spec

-----------------------------------------------------------------------------
(* A mark is two underscores.                                              *)
LEMMA MarkMeans ==
  ASSUME NEW s \in Seq(Nat)
  PROVE  /\ Occurrences(Marks, s) \in SUBSET Nat
         /\ \A i \in Nat : i \in Occurrences(Marks, s) <=>
              i >= 1 /\ i + 1 <= Len(s) /\ s[i] = 95 /\ s[i + 1] = 95
<1>1. Marks \in Seq(Nat) /\ Marks # <<>> /\ Len(Marks) = 2 /\ Marks[1] = 95 /\ Marks[2] = 95
  BY DEF Marks
<1> DEFINE O == Occurrences(Marks, s)
<1>2. /\ O \in SUBSET Nat
      /\ \A i \in O : /\ i >= 1 /\ i + 2 - 1 <= Len(s)
                      /\ \A j \in 1 .. 2 : s[i + j - 1] = Marks[j]
      /\ \A i \in Nat : /\ i >= 1 /\ i + 2 - 1 <= Len(s)
                        /\ \A j \in 1 .. 2 : s[i + j - 1] = Marks[j]
                        => i \in O
  <2>1. /\ O \in SUBSET Nat
        /\ \A i \in O : /\ i >= 1 /\ i + Len(Marks) - 1 <= Len(s)
                        /\ \A j \in 1 .. Len(Marks) : s[i + j - 1] = Marks[j]
        /\ \A i \in Nat : /\ i >= 1 /\ i + Len(Marks) - 1 <= Len(s)
                          /\ \A j \in 1 .. Len(Marks) : s[i + j - 1] = Marks[j]
                          => i \in O
    BY <1>1, OccurrenceMeans
  <2> HIDE DEF O
  <2> QED BY <1>1, <2>1
<1> HIDE DEF O
<1>3. ASSUME NEW i \in Nat
      PROVE  i \in O <=> i >= 1 /\ i + 1 <= Len(s) /\ s[i] = 95 /\ s[i + 1] = 95
  <2>1. ASSUME i \in O PROVE i >= 1 /\ i + 1 <= Len(s) /\ s[i] = 95 /\ s[i + 1] = 95
    <3>1. 1 \in 1 .. 2 /\ 2 \in 1 .. 2 /\ i + 1 - 1 = i /\ i + 2 - 1 = i + 1
      OBVIOUS
    <3>2. s[i + 1 - 1] = Marks[1] /\ s[i + 2 - 1] = Marks[2]
      BY <1>2, <2>1, <3>1
    <3>3. i >= 1 /\ i + 2 - 1 <= Len(s)
      BY <1>2, <2>1
    <3> QED BY <1>1, <3>1, <3>2, <3>3
  <2>2. ASSUME i >= 1, i + 1 <= Len(s), s[i] = 95, s[i + 1] = 95 PROVE i \in O
    <3>1. i + 2 - 1 <= Len(s)
      BY <2>2
    <3>2. ASSUME NEW j \in 1 .. 2 PROVE s[i + j - 1] = Marks[j]
      <4>1. CASE j = 1
        <5>1. i + j - 1 = i
          BY <4>1
        <5> QED BY <1>1, <2>2, <4>1, <5>1
      <4>2. CASE j = 2
        <5>1. i + j - 1 = i + 1
          BY <4>2
        <5> QED BY <1>1, <2>2, <4>2, <5>1
      <4> QED BY <4>1, <4>2
    <3> QED BY <1>2, <2>2, <3>1, <3>2
  <2> QED BY <2>1, <2>2
<1> QED BY <1>2, <1>3 DEF O

(* First is the least position of a set.                                   *)
LEMMA FirstIsLeast ==
  ASSUME NEW S \in SUBSET Nat, S # {}
  PROVE  First(S) \in S /\ First(S) \in Nat /\ \A j \in S : First(S) <= j
<1>1. \E i \in S : \A j \in S : i <= j
  BY LeastOf
<1> QED BY <1>1 DEF First

(* What the loop of replaceMacroVariable finds, and what it does.          *)
Loops == [result : Seq(Nat), start_pos : Nat]
MarksFound(v) == {i \in Occurrences(Marks, v.result) : i >= v.start_pos}
EndsFound(v) == {i \in MarksFound(v) : i >= First(MarksFound(v)) + Len(Marks)}
Over(v) == MarksFound(v) = {} \/ EndsFound(v) = {}
NextLoop(str, v) ==
  [result |-> WithoutMacro(v.result, First(MarksFound(v)), First(EndsFound(v)), str),
   start_pos |-> First(EndsFound(v)) + Len(Marks)]

(* One round of the loop: the macro it finds, and what it puts there.      *)
LEMMA NextLoopMeans ==
  ASSUME NEW str \in Seq(Nat), NEW v \in Loops, ~Over(v),
         NEW p, p = First(MarksFound(v)), NEW e, e = First(EndsFound(v))
  PROVE  /\ p \in Nat \ {0} /\ p >= v.start_pos
         /\ e \in Nat /\ p + 2 <= e /\ e + 1 <= Len(v.result)
         /\ v.result[p] = 95
         /\ NextLoop(str, v).start_pos = e + 2
         /\ NextLoop(str, v).result =
              SubSeq(v.result, 1, p - 1) \o str \o From(v.result, e + 2)
         /\ Replaced(v.result, p, e + 2 - p, str, NextLoop(str, v).result)
         /\ NextLoop(str, v) \in Loops
<1> DEFINE s == v.result
           t == NextLoop(str, v).result
           m == e + 2 - p
<1>1. s \in Seq(Nat) /\ v.start_pos \in Nat /\ Len(Marks) = 2
  BY DEF Loops, Marks
<1> HIDE DEF s
<1>2. /\ Occurrences(Marks, s) \in SUBSET Nat
      /\ \A i \in Occurrences(Marks, s) : i >= 1 /\ i + 1 <= Len(s) /\ s[i] = 95
  BY <1>1, MarkMeans
<1>3. MarksFound(v) \in SUBSET Nat /\ MarksFound(v) # {}
  BY <1>2 DEF MarksFound, Over, s
<1>4. EndsFound(v) \in SUBSET Nat /\ EndsFound(v) # {}
  BY <1>3 DEF EndsFound, Over
<1>5. p \in MarksFound(v) /\ p \in Nat
  BY <1>3, FirstIsLeast
<1>6. e \in EndsFound(v) /\ e \in Nat
  BY <1>4, FirstIsLeast
<1>7. p \in Occurrences(Marks, s) /\ p >= v.start_pos
  BY <1>5 DEF MarksFound, s
<1>8. e \in Occurrences(Marks, s) /\ e >= p + 2
  <2>1. e \in MarksFound(v) /\ e >= p + Len(Marks)
    BY <1>6 DEF EndsFound
  <2> QED BY <1>1, <2>1 DEF MarksFound, s
<1>9. p \in Nat \ {0} /\ p + 2 <= e /\ e + 1 <= Len(s) /\ s[p] = 95
  BY <1>2, <1>5, <1>6, <1>7, <1>8
<1>10. m \in Nat /\ p + m - 1 <= Len(s) /\ p + m = e + 2
  <2>1. Len(s) \in Nat
    BY <1>1
  <2> QED BY <1>6, <1>9, <2>1
<1> HIDE DEF m
<1>11. t = SubSeq(s, 1, p - 1) \o str \o From(s, p + m)
  <2>1. t = SubSeq(s, 1, p - 1) \o str \o SubSeq(s, e + Len(Marks), Len(s))
    BY DEF NextLoop, WithoutMacro, s
  <2> QED BY <1>1, <1>10, <2>1 DEF From
<1>12. /\ SubSeq(s, 1, p - 1) \o str \o From(s, p + m) \in Seq(Nat)
       /\ Replaced(s, p, m, str, SubSeq(s, 1, p - 1) \o str \o From(s, p + m))
  BY <1>1, <1>9, <1>10, PutMeans
<1>13. t \in Seq(Nat) /\ Replaced(s, p, m, str, t)
  BY <1>11, <1>12
<1>14. NextLoop(str, v).start_pos = e + 2
  BY <1>1 DEF NextLoop
<1>15. NextLoop(str, v) = [result |-> t, start_pos |-> e + 2]
  BY <1>14 DEF NextLoop
<1> HIDE DEF t
<1>16. NextLoop(str, v) \in Loops
  BY <1>6, <1>13, <1>15 DEF Loops
<1> QED BY <1>6, <1>7, <1>9, <1>10, <1>11, <1>13, <1>14, <1>16 DEF m, s, t

(* The underscores that the loop has not passed.                            *)
Underscores(v) == {i \in 1 .. Len(v.result) : i >= v.start_pos /\ v.result[i] = 95}

(* Every round removes underscores that it has not passed, and adds none.  *)
LEMMA FewerUnderscores ==
  ASSUME NEW str \in Seq(Nat), ToSet(str) \cap ToSet(Marks) = {}, NEW v \in Loops, ~Over(v)
  PROVE  /\ Cardinality(Underscores(v)) \in Nat
         /\ Cardinality(Underscores(NextLoop(str, v))) \in Nat
         /\ Cardinality(Underscores(NextLoop(str, v))) < Cardinality(Underscores(v))
<1> DEFINE p == First(MarksFound(v))
           e == First(EndsFound(v))
           s == v.result
           w == NextLoop(str, v)
           t == w.result
           m == e + 2 - p
           l == Len(str)
           U == Underscores(v)
           W == Underscores(w)
<1>1. /\ p \in Nat \ {0} /\ p >= v.start_pos
      /\ e \in Nat /\ p + 2 <= e /\ e + 1 <= Len(s) /\ s[p] = 95
      /\ w.start_pos = e + 2 /\ w \in Loops
  BY NextLoopMeans
<1>2. Replaced(s, p, m, str, t)
  BY NextLoopMeans
<1>3. s \in Seq(Nat) /\ t \in Seq(Nat) /\ v.start_pos \in Nat /\ l \in Nat
  BY <1>1 DEF Loops
<1>4. \A i \in 1 .. l : str[i] # 95
  <2>1. ASSUME NEW i \in 1 .. l PROVE str[i] \in ToSet(str)
    BY DEF ToSet
  <2>2. 95 \in ToSet(Marks)
    <3>1. DOMAIN Marks = 1 .. 2 /\ Marks[1] = 95
      BY DEF Marks
    <3> QED BY <3>1 DEF ToSet
  <2> HIDE DEF l
  <2> QED BY <2>1, <2>2
<1>5. IsFiniteSet(U) /\ Cardinality(U) \in Nat /\ IsFiniteSet(W) /\ Cardinality(W) \in Nat
  <2>1. \A n \in Nat : \A S \in SUBSET (1 .. n) : IsFiniteSet(S) /\ Cardinality(S) \in Nat
    <3> SUFFICES ASSUME NEW n \in Nat, NEW S \in SUBSET (1 .. n)
                 PROVE  IsFiniteSet(S) /\ Cardinality(S) \in Nat
      OBVIOUS
    <3>1. IsFiniteSet(1 .. n)
      BY FS_Interval
    <3>2. IsFiniteSet(S)
      BY <3>1, FS_Subset
    <3> QED BY <3>2, FS_CardinalityType
  <2>2. U \in SUBSET (1 .. Len(s)) /\ W \in SUBSET (1 .. Len(t))
    BY DEF Underscores
  <2>3. Len(s) \in Nat /\ Len(t) \in Nat
    BY <1>3
  <2> HIDE DEF U, W, s, t
  <2> QED BY <2>1, <2>2, <2>3
<1>6. p \in U
  <2> DEFINE n == Len(s)
  <2>1. n \in Nat
    BY <1>3
  <2>2. p \in Nat /\ p >= 1 /\ p >= v.start_pos /\ p + 2 <= e /\ e + 1 <= n /\ s[p] = 95 /\ e \in Nat
    BY <1>1
  <2> HIDE DEF p, e, n
  <2>3. p \in 1 .. n
    BY <2>1, <2>2
  <2> QED BY <2>2, <2>3 DEF Underscores, n
<1>7. /\ m \in Nat /\ p + m - 1 <= Len(s) /\ Len(t) = Len(s) - m + l
      /\ \A i \in 1 .. l : t[p + i - 1] = str[i]
      /\ \A i \in 1 .. Len(s) - m - p + 1 : t[p + l + i - 1] = s[p + m + i - 1]
  <2> HIDE DEF t, s, m, p
  <2> QED BY <1>2 DEF Replaced
<1>8. \A i \in W : i \in 1 .. Len(t) /\ i >= e + 2 /\ t[i] = 95
  BY <1>1 DEF Underscores
<1>9. \A i \in Nat : i \in 1 .. Len(s) /\ i >= v.start_pos /\ s[i] = 95 => i \in U
  BY DEF Underscores
<1> HIDE DEF U, W, w, t, s, l, p, e
<1> DEFINE f == [i \in W |-> i - l + m]
<1>10. Len(s) \in Nat
  BY <1>3
<1>11. ASSUME NEW i \in W PROVE i - l + m \in U \ {p}
  <2>1. i \in Nat /\ i <= Len(t) /\ i >= e + 2 /\ t[i] = 95
    BY <1>7, <1>8, <1>3, <1>10
  <2>2. i >= p + l
    <3> SUFFICES ASSUME i < p + l PROVE FALSE
      BY <1>1, <1>3, <2>1
    <3> DEFINE j == i - p + 1
    <3>1. j \in 1 .. l /\ p + j - 1 = i
      BY <1>1, <1>3, <2>1
    <3> HIDE DEF j
    <3>2. t[i] = str[j]
      BY <1>7, <3>1
    <3> QED BY <1>4, <2>1, <3>1, <3>2
  <2> DEFINE k == i - l + m
             j == i - l - p + 1
  <2>3. j \in 1 .. Len(s) - m - p + 1 /\ p + l + j - 1 = i /\ p + m + j - 1 = k
    BY <1>1, <1>3, <1>7, <1>10, <2>1, <2>2
  <2>4. k \in Nat /\ k \in 1 .. Len(s) /\ k >= v.start_pos /\ k # p
    <3>1. /\ p \in Nat \ {0} /\ p >= v.start_pos /\ v.start_pos \in Nat
          /\ e \in Nat /\ p + 2 <= e /\ l \in Nat
      BY <1>1, <1>3
    <3>2. i <= Len(s) - m + l
      BY <1>7, <2>1
    <3>3. k \in Nat /\ k >= p + m /\ m >= 4
      BY <2>1, <2>2, <3>1
    <3>4. k <= Len(s)
      BY <1>10, <2>1, <3>1, <3>2
    <3> QED BY <1>10, <3>1, <3>3, <3>4
  <2> HIDE DEF k, j
  <2>5. s[k] = 95
    BY <1>7, <2>1, <2>3
  <2>6. k \in U \ {p}
    BY <1>9, <2>4, <2>5
  <2> QED BY <2>6 DEF k
<1>12. f \in Injection(W, U \ {p})
  <2>1. f \in [W -> U \ {p}]
    BY <1>11
  <2>2. ASSUME NEW i \in W, NEW j \in W, f[i] = f[j] PROVE i = j
    <3>1. i \in Int /\ j \in Int
      BY <1>8
    <3>2. i - l + m = j - l + m
      BY <2>2
    <3> QED BY <1>3, <1>7, <3>1, <3>2
  <2> HIDE DEF f
  <2> QED BY <2>1, <2>2, Fun_IsInj
<1>13. IsFiniteSet(U \ {p}) /\ Cardinality(U \ {p}) = Cardinality(U) - 1
  BY <1>5, <1>6, FS_RemoveElement
<1>14. Cardinality(W) <= Cardinality(U \ {p})
  <2> HIDE DEF f
  <2> QED BY <1>12, <1>13, FS_Injection
<1>15. Cardinality(W) < Cardinality(U)
  BY <1>5, <1>13, <1>14
<1> QED BY <1>5, <1>15 DEF U, W, w

(* The loop ends with any such text, and is what its definition says.      *)
LEMMA LoopUnfolds ==
  ASSUME NEW str \in Seq(Nat), ToSet(str) \cap ToSet(Marks) = {}
  PROVE  /\ \A v \in Loops : Over(v) => LoopResult(v, str) = v.result
         /\ \A v \in Loops : ~Over(v) => LoopResult(v, str) = LoopResult(NextLoop(str, v), str)
<1> DEFINE T == Seq(Nat)
           size == [v \in Loops |-> Cardinality(Underscores(v))]
           base == {v \in Loops : Over(v)}
           value == [v \in base |-> v.result]
           rest == [v \in Loops \ base |-> NextLoop(str, v)]
           make == [v \in Loops \ base |-> [t \in T |-> t]]
           Right(g, v) == IF Over(v) THEN v.result ELSE g[NextLoop(str, v)]
           Original(g, v) ==
             LET marks == {i \in Occurrences(Marks, v.result) : i >= v.start_pos}
                 start == First(marks)
                 ends == {i \in marks : i >= start + Len(Marks)}
             IN IF marks = {} \/ ends = {} THEN v.result
                ELSE g[[result |-> WithoutMacro(v.result, start, First(ends), str),
                        start_pos |-> First(ends) + Len(Marks)]]
           Solves(g) == g = [v \in [result : Seq(Nat), start_pos : Nat] |-> Original(g, v)]
           loop == CHOOSE g : Solves(g)
<1>1. Defines(Loops, T, size, base, value, rest, make)
  <2>1. \A v \in Loops : Cardinality(Underscores(v)) \in Nat
    <3> SUFFICES ASSUME NEW v \in Loops PROVE Cardinality(Underscores(v)) \in Nat
      OBVIOUS
    <3> DEFINE n == Len(v.result)
    <3>1. n \in Nat /\ Underscores(v) \in SUBSET (1 .. n)
      BY DEF Loops, Underscores
    <3> HIDE DEF n
    <3>2. IsFiniteSet(1 .. n)
      BY <3>1, FS_Interval
    <3> QED BY <3>1, <3>2, FS_Subset, FS_CardinalityType
  <2>2. size \in [Loops -> Nat] /\ base \in SUBSET Loops /\ value \in [base -> T]
    BY <2>1 DEF Loops
  <2>3. ASSUME NEW v \in Loops \ base
        PROVE  NextLoop(str, v) \in Loops /\ size[NextLoop(str, v)] < size[v]
    <3>1. v \in Loops /\ ~Over(v)
      OBVIOUS
    <3>2. NextLoop(str, v) \in Loops
      BY <3>1, NextLoopMeans
    <3>3. Cardinality(Underscores(NextLoop(str, v))) < Cardinality(Underscores(v))
      BY <3>1, FewerUnderscores
    <3> QED BY <3>1, <3>2, <3>3
  <2>4. rest \in [Loops \ base -> Loops] /\ \A v \in Loops \ base : size[rest[v]] < size[v]
    <3> HIDE DEF size, base
    <3> QED BY <2>3
  <2>5. make \in [Loops \ base -> [T -> T]]
    <3> HIDE DEF T, base
    <3> QED OBVIOUS
  <2> HIDE DEF T, size, base, value, rest, make
  <2> QED BY <2>2, <2>4, <2>5 DEF Defines
<1>2. PICK f \in [Loops -> T] :
        \A v \in Loops : f[v] = IF v \in base THEN value[v] ELSE make[v][f[rest[v]]]
  <2> HIDE DEF T, size, base, value, rest, make
  <2> QED BY <1>1, Recursion
<1>3. \A v \in Loops : f[v] = Right(f, v)
  <2> SUFFICES ASSUME NEW v \in Loops PROVE f[v] = Right(f, v)
    OBVIOUS
  <2>1. CASE Over(v)
    BY <1>2, <2>1
  <2>2. CASE ~Over(v)
    <3>1. NextLoop(str, v) \in Loops
      BY <2>2, NextLoopMeans
    <3>2. rest[v] = NextLoop(str, v) /\ f[NextLoop(str, v)] \in T
      BY <1>2, <2>2, <3>1
    <3>3. make[v][f[NextLoop(str, v)]] = f[NextLoop(str, v)]
      BY <2>2, <3>2
    <3> QED BY <1>2, <2>2, <3>2, <3>3
  <2> QED BY <2>1, <2>2
<1>4. \A g, v : Original(g, v) = Right(g, v)
  BY DEF Over, MarksFound, EndsFound, NextLoop
<1>5. \A v : LoopResult(v, str) = loop[v]
  BY DEF LoopResult
<1>6. Solves(loop)
  <2>1. Solves(f)
    <3>1. f = [v \in Loops |-> Right(f, v)]
      <4> HIDE DEF Right
      <4> QED BY <1>2, <1>3
    <3> HIDE DEF Original, Right
    <3> QED BY <1>4, <3>1 DEF Loops
  <2> HIDE DEF Solves
  <2> QED BY <2>1
<1> HIDE DEF loop
<1>7. \A v \in Loops : loop[v] = Right(loop, v)
  <2> HIDE DEF Original, Right
  <2> QED BY <1>4, <1>6 DEF Loops
<1> QED BY <1>5, <1>7

(* The first macro of a text, and what is behind it.                       *)
LEMMA MacroMeans ==
  ASSUME NEW s \in Seq(Nat), HasMacro(s),
         NEW p, p = Opening(s), NEW e, e = Closing(s)
  PROVE  /\ p \in Occurrences(Marks, s) /\ p \in Nat \ {0}
         /\ e \in Occurrences(Marks, s) /\ e \in Nat /\ p + 2 <= e /\ e + 1 <= Len(s)
         /\ \A j \in Occurrences(Marks, s) : p <= j /\ (j >= p + 2 => e <= j)
         /\ AfterMacro(s) = From(s, e + 2)
         /\ AfterMacro(s) \in Seq(Nat) /\ Len(AfterMacro(s)) < Len(s)
         /\ SubSeq(s, 1, p - 1) \in Seq(Nat) /\ Len(SubSeq(s, 1, p - 1)) = p - 1
<1> DEFINE O == Occurrences(Marks, s)
           E == {j \in O : j >= p + Len(Marks)}
<1>1. Len(Marks) = 2 /\ Len(s) \in Nat
  BY DEF Marks
<1>2. O \in SUBSET Nat /\ \A i \in O : i >= 1 /\ i + 1 <= Len(s)
  BY MarkMeans
<1>3. \E i, j \in O : i + 2 <= j
  BY <1>1 DEF HasMacro
<1>4. p = First(O) /\ e = First(E)
  BY DEF Opening, Closing
<1> HIDE DEF O
<1>5. p \in O /\ p \in Nat /\ \A k \in O : p <= k
  <2>1. O # {}
    BY <1>3
  <2>2. First(O) \in O /\ First(O) \in Nat /\ \A k \in O : First(O) <= k
    BY <1>2, <2>1, FirstIsLeast
  <2> QED BY <1>4, <2>2
<1>6. E \in SUBSET Nat /\ E # {}
  <2>1. PICK i \in O : \E j \in O : i + 2 <= j
    BY <1>3
  <2>2. PICK j \in O : i + 2 <= j
    BY <2>1
  <2>3. i \in Nat /\ j \in Nat /\ p <= i
    BY <1>2, <1>5
  <2>4. j >= p + 2
    BY <1>5, <2>2, <2>3
  <2> QED BY <1>1, <1>2, <2>4
<1>7. e \in E /\ e \in Nat /\ \A k \in E : e <= k
  <2> HIDE DEF E
  <2>1. First(E) \in E /\ First(E) \in Nat /\ \A k \in E : First(E) <= k
    BY <1>6, FirstIsLeast
  <2> QED BY <1>4, <2>1
<1>8. /\ p \in Nat \ {0} /\ e \in O /\ p + 2 <= e /\ e + 1 <= Len(s)
      /\ \A k \in O : p <= k /\ (k >= p + 2 => e <= k)
  <2>1. e \in O /\ e >= p + 2
    BY <1>1, <1>7
  <2>2. p >= 1 /\ e + 1 <= Len(s)
    BY <1>2, <1>5, <2>1
  <2>3. \A k \in O : k >= p + 2 => e <= k
    <3>1. \A k \in O : k >= p + 2 => k \in E
      BY <1>1
    <3> HIDE DEF E
    <3> QED BY <1>7, <3>1
  <2> HIDE DEF E
  <2>4. p + 2 <= e
    BY <1>5, <1>7, <2>1
  <2> QED BY <1>5, <2>1, <2>2, <2>3, <2>4
<1>9. AfterMacro(s) = From(s, e + 2)
  BY <1>1 DEF AfterMacro
<1> HIDE DEF E
<1> DEFINE k == e + 2
<1>10. k \in Nat \ {0} /\ k <= Len(s) + 1 /\ Len(s) - k + 1 < Len(s)
  <2>1. e \in Nat /\ e + 1 <= Len(s)
    BY <1>7, <1>8
  <2> QED BY <1>1, <2>1
<1> HIDE DEF k
<1>11. From(s, k) \in Seq(Nat) /\ Len(From(s, k)) = Len(s) - k + 1
  BY <1>10, FromMeans
<1> DEFINE n == Len(s)
<1>12. \A i0 \in 1 .. n : s[i0] \in Nat
  OBVIOUS
<1>13. /\ 1 \in Int /\ p - 1 \in Int /\ (IF 1 <= p - 1 THEN p - 1 - 1 + 1 ELSE 0) = p - 1
       /\ \A i0 \in 1 .. p - 1 : i0 \in 1 .. n
  <2>1. p \in Nat \ {0} /\ e \in Nat /\ n \in Nat /\ p + 2 <= e /\ e + 1 <= n
    BY <1>1, <1>7, <1>8
  <2> HIDE DEF n
  <2> QED BY <2>1
<1> HIDE DEF n
<1>14. SubSeq(s, 1, p - 1) \in Seq(Nat) /\ Len(SubSeq(s, 1, p - 1)) = p - 1
  BY <1>12, <1>13, SubSeqProperties
<1> QED BY <1>5, <1>7, <1>8, <1>9, <1>10, <1>11, <1>14 DEF O, k

(* FilledIn is what its recursive definition says.                         *)
LEMMA FilledInUnfolds ==
  ASSUME NEW str \in Seq(Nat)
  PROVE  /\ \A s \in Seq(Nat) : FilledIn(s, str) \in Seq(Nat)
         /\ \A s \in Seq(Nat) : ~HasMacro(s) => FilledIn(s, str) = s
         /\ \A s \in Seq(Nat) : HasMacro(s) =>
              FilledIn(s, str) =
                (SubSeq(s, 1, Opening(s) - 1) \o str) \o FilledIn(AfterMacro(s), str)
<1> DEFINE T == Seq(Nat)
           Before(s) == SubSeq(s, 1, Opening(s) - 1) \o str
           size == [s \in T |-> Len(s)]
           base == {s \in T : ~HasMacro(s)}
           value == [s \in base |-> s]
           rest == [s \in T \ base |-> AfterMacro(s)]
           make == [s \in T \ base |-> [t \in T |-> Before(s) \o t]]
           Right(g, s) == IF HasMacro(s) THEN Before(s) \o g[AfterMacro(s)] ELSE s
           Solves(g) ==
             g = [s \in Seq(Nat) |->
                    IF HasMacro(s) THEN SubSeq(s, 1, Opening(s) - 1) \o str \o g[AfterMacro(s)]
                    ELSE s]
           filled == CHOOSE g : Solves(g)
<1>0. ASSUME NEW s \in T, HasMacro(s)
      PROVE  /\ Before(s) \in T /\ AfterMacro(s) \in T /\ Len(AfterMacro(s)) < Len(s)
             /\ \A t \in T : Before(s) \o t \in T
  <2>1. /\ SubSeq(s, 1, Opening(s) - 1) \in T
        /\ AfterMacro(s) \in T /\ Len(AfterMacro(s)) < Len(s)
    BY <1>0, MacroMeans
  <2> DEFINE b == Before(s)
  <2>2. b \in T
    BY <2>1, TextConcat
  <2> HIDE DEF b
  <2>3. \A t \in T : b \o t \in T
    BY <2>2, TextConcat
  <2> QED BY <2>1, <2>2, <2>3 DEF b
<1> HIDE DEF Before
<1>1. Defines(T, T, size, base, value, rest, make)
  <2>1. size \in [T -> Nat] /\ base \in SUBSET T /\ value \in [base -> T]
    OBVIOUS
  <2>2. rest \in [T \ base -> T] /\ \A s \in T \ base : size[rest[s]] < size[s]
    BY <1>0
  <2>3. make \in [T \ base -> [T -> T]]
    <3>1. \A s \in T \ base : \A t \in T : Before(s) \o t \in T
      BY <1>0
    <3> HIDE DEF T, base
    <3> QED BY <3>1
  <2> HIDE DEF T, size, base, value, rest, make
  <2> QED BY <2>1, <2>2, <2>3 DEF Defines
<1>2. PICK f \in [T -> T] :
        \A s \in T : f[s] = IF s \in base THEN value[s] ELSE make[s][f[rest[s]]]
  <2> HIDE DEF T, size, base, value, rest, make
  <2> QED BY <1>1, Recursion
<1>3. \A s \in T : f[s] = Right(f, s)
  <2> SUFFICES ASSUME NEW s \in T PROVE f[s] = Right(f, s)
    OBVIOUS
  <2>1. CASE ~HasMacro(s)
    BY <1>2, <2>1
  <2>2. CASE HasMacro(s)
    <3>1. rest[s] = AfterMacro(s) /\ f[AfterMacro(s)] \in T
      BY <1>0, <1>2, <2>2
    <3>2. make[s][f[AfterMacro(s)]] = Before(s) \o f[AfterMacro(s)]
      BY <2>2, <3>1
    <3> QED BY <1>2, <2>2, <3>1, <3>2
  <2> QED BY <2>1, <2>2
<1>4. \A s : FilledIn(s, str) = filled[s]
  BY DEF FilledIn
<1>5. Solves(filled)
  <2>1. Solves(f)
    <3>1. f = [s \in T |-> Right(f, s)]
      <4> HIDE DEF Right
      <4> QED BY <1>2, <1>3
    <3> QED BY <3>1 DEF Before
  <2> HIDE DEF Solves
  <2> QED BY <2>1
<1> HIDE DEF filled
<1>6. \A s \in T : filled[s] = Right(filled, s)
  BY <1>5 DEF Before
<1> DEFINE good == {s \in T : filled[s] \in T}
<1>7. good = T
  <2> SUFFICES ASSUME NEW s \in T, \A t \in T : Len(t) < Len(s) => t \in good
               PROVE  s \in good
    <3>1. good \in SUBSET T
      OBVIOUS
    <3> HIDE DEF good
    <3> QED BY <3>1, TextInduction
  <2>1. CASE ~HasMacro(s)
    BY <1>6, <2>1
  <2>2. CASE HasMacro(s)
    <3>1. filled[AfterMacro(s)] \in T
      BY <1>0, <2>2
    <3>2. filled[s] = Before(s) \o filled[AfterMacro(s)]
      BY <1>6, <2>2
    <3>3. filled[s] \in T
      <4> HIDE DEF T
      <4> QED BY <1>0, <2>2, <3>1, <3>2
    <3> QED BY <3>3
  <2> QED BY <2>1, <2>2
<1>8. \A s \in T : filled[s] \in T
  BY <1>7
<1>9. \A s \in T : ~HasMacro(s) => filled[s] = s
  BY <1>6
<1>10. \A s \in T : HasMacro(s) => filled[s] = Before(s) \o filled[AfterMacro(s)]
  BY <1>6
<1> QED BY <1>4, <1>8, <1>9, <1>10 DEF Before

(* The marks behind the first of two texts are those of the second.        *)
LEMMA MarksBehind ==
  ASSUME NEW a \in Seq(Nat), NEW b \in Seq(Nat), NEW i \in Nat, i > Len(a)
  PROVE  i \in Occurrences(Marks, a \o b) <=> i - Len(a) \in Occurrences(Marks, b)
<1> DEFINE s == a \o b
           n == Len(a)
           k == i - n
<1>1. /\ s \in Seq(Nat) /\ Len(s) = n + Len(b) /\ n \in Nat /\ Len(b) \in Nat
      /\ \A j \in 1 .. n + Len(b) : s[j] = IF j <= n THEN a[j] ELSE b[j - n]
  BY ConcatProperties
<1>2. k \in Nat /\ k >= 1 /\ i = n + k /\ i + 1 - n = k + 1 /\ i >= 1
  BY <1>1
<1> HIDE DEF s, n, k
<1>3. i \in Occurrences(Marks, s) <=> i >= 1 /\ i + 1 <= Len(s) /\ s[i] = 95 /\ s[i + 1] = 95
  <2>1. s \in Seq(Nat) /\ i \in Nat
    BY <1>1
  <2>2. \A j \in Nat : j \in Occurrences(Marks, s) <=>
          j >= 1 /\ j + 1 <= Len(s) /\ s[j] = 95 /\ s[j + 1] = 95
    BY <2>1, MarkMeans
  <2> QED BY <2>1, <2>2
<1>4. k \in Occurrences(Marks, b) <=> k >= 1 /\ k + 1 <= Len(b) /\ b[k] = 95 /\ b[k + 1] = 95
  BY <1>2, MarkMeans
<1>5. i + 1 <= Len(s) <=> k + 1 <= Len(b)
  BY <1>1, <1>2
<1>6. ASSUME k + 1 <= Len(b) PROVE s[i] = b[k] /\ s[i + 1] = b[k + 1]
  <2>1. i \in 1 .. n + Len(b) /\ ~(i <= n) /\ i - n = k
    BY <1>1, <1>2, <1>6
  <2>2. i + 1 \in 1 .. n + Len(b) /\ ~(i + 1 <= n) /\ i + 1 - n = k + 1
    BY <1>1, <1>2, <1>6
  <2>3. s[i] = b[k]
    BY <1>1, <2>1
  <2>4. s[i + 1] = b[i + 1 - n]
    BY <1>1, <2>2
  <2> QED BY <2>2, <2>3, <2>4
<1> QED BY <1>2, <1>3, <1>4, <1>5, <1>6 DEF s, n, k

(* What is in front of a place of the second of two texts.                 *)
LEMMA FrontOfConcat ==
  ASSUME NEW a \in Seq(Nat), NEW b \in Seq(Nat), NEW m \in Nat, m <= Len(b)
  PROVE  /\ SubSeq(a \o b, 1, Len(a) + m) = a \o SubSeq(b, 1, m)
         /\ SubSeq(b, 1, m) \in Seq(Nat) /\ Len(SubSeq(b, 1, m)) = m
<1> DEFINE n == Len(a)
           s == a \o b
           c == SubSeq(s, 1, n + m)
           d == SubSeq(b, 1, m)
           e == a \o d
<1>1. /\ s \in Seq(Nat) /\ Len(s) = n + Len(b) /\ n \in Nat /\ Len(b) \in Nat
      /\ \A j \in 1 .. n + Len(b) : s[j] = IF j <= n THEN a[j] ELSE b[j - n]
  BY ConcatProperties
<1> HIDE DEF s, n
<1>2. ASSUME NEW t \in Seq(Nat), NEW h \in Nat, h <= Len(t)
      PROVE  /\ SubSeq(t, 1, h) \in Seq(Nat) /\ Len(SubSeq(t, 1, h)) = h
             /\ \A j \in 1 .. h : SubSeq(t, 1, h)[j] = t[j]
  <2> DEFINE z == Len(t)
  <2>1. z \in Nat /\ \A j \in 1 .. z : t[j] \in Nat
    OBVIOUS
  <2>2. h <= z
    BY <1>2
  <2> HIDE DEF z
  <2>3. /\ 1 \in Int /\ h \in Int /\ (IF 1 <= h THEN h - 1 + 1 ELSE 0) = h
        /\ \A j \in 1 .. h : t[j] \in Nat
        /\ h - 1 + 1 = h /\ \A j \in 1 .. h : 1 + j - 1 = j
    BY <1>2, <2>1, <2>2
  <2>4. /\ SubSeq(t, 1, h) \in Seq(Nat) /\ Len(SubSeq(t, 1, h)) = IF 1 <= h THEN h - 1 + 1 ELSE 0
        /\ \A j \in 1 .. h - 1 + 1 : SubSeq(t, 1, h)[j] = t[1 + j - 1]
    BY <2>3, SubSeqProperties
  <2> QED BY <2>3, <2>4
<1>3. c \in Seq(Nat) /\ Len(c) = n + m /\ \A j \in 1 .. n + m : c[j] = s[j]
  <2> DEFINE h == n + m
  <2>1. h \in Nat /\ h <= Len(s)
    BY <1>1
  <2> HIDE DEF h
  <2>2. /\ SubSeq(s, 1, h) \in Seq(Nat) /\ Len(SubSeq(s, 1, h)) = h
        /\ \A j \in 1 .. h : SubSeq(s, 1, h)[j] = s[j]
    BY <1>1, <1>2, <2>1
  <2> QED BY <2>2 DEF h
<1>4. d \in Seq(Nat) /\ Len(d) = m /\ \A j \in 1 .. m : d[j] = b[j]
  BY <1>2
<1> HIDE DEF c, d
<1>5. /\ e \in Seq(Nat) /\ Len(e) = n + m
      /\ \A j \in 1 .. n + m : e[j] = IF j <= n THEN a[j] ELSE d[j - n]
  <2>1. /\ e \in Seq(Nat) /\ Len(e) = Len(a) + Len(d)
        /\ \A j \in 1 .. Len(a) + Len(d) : e[j] = IF j <= Len(a) THEN a[j] ELSE d[j - Len(a)]
    BY <1>4, ConcatProperties
  <2> HIDE DEF e
  <2> QED BY <1>4, <2>1 DEF n
<1> HIDE DEF e
<1>6. \A j \in 1 .. Len(c) : c[j] = e[j]
  <2> SUFFICES ASSUME NEW j \in 1 .. n + m PROVE c[j] = e[j]
    BY <1>3
  <2>1. j \in 1 .. n + Len(b)
    BY <1>1
  <2>2. CASE j <= n
    BY <1>1, <1>3, <1>5, <2>1, <2>2
  <2>3. CASE ~(j <= n)
    <3>1. j - n \in 1 .. m
      BY <1>1, <2>3
    <3>2. d[j - n] = b[j - n]
      BY <1>4, <3>1
    <3> QED BY <1>1, <1>3, <1>5, <2>1, <2>3, <3>2
  <2> QED BY <2>2, <2>3
<1>7. c = e
  BY <1>3, <1>5, <1>6, SeqEqual
<1> QED BY <1>4, <1>7 DEF c, d, e, s, n

(* The marks of the rest of a text are marks of the text.                  *)
LEMMA MarksOfRest ==
  ASSUME NEW s \in Seq(Nat), NEW m \in Nat \ {0}, m <= Len(s) + 1, NEW j \in Nat \ {0}
  PROVE  j \in Occurrences(Marks, From(s, m)) <=> m + j - 1 \in Occurrences(Marks, s)
<1> DEFINE t == From(s, m)
           n == Len(s)
           i == m + j - 1
<1>1. /\ t \in Seq(Nat) /\ Len(t) = n - m + 1 /\ n \in Nat
      /\ \A k \in 1 .. n - m + 1 : t[k] = s[m + k - 1]
  <2>1. /\ From(s, m) \in Seq(Nat) /\ Len(From(s, m)) = Len(s) - m + 1
        /\ \A k \in 1 .. Len(s) - m + 1 : From(s, m)[k] = s[m + k - 1]
    BY FromMeans
  <2>2. Len(s) \in Nat
    OBVIOUS
  <2> QED BY <2>1, <2>2
<1> HIDE DEF t, n
<1>2. i \in Nat /\ i >= 1 /\ i + 1 = m + (j + 1) - 1
  OBVIOUS
<1>3. i + 1 <= n <=> j + 1 <= n - m + 1
  BY <1>1
<1>4. ASSUME j + 1 <= n - m + 1 PROVE t[j] = s[i] /\ t[j + 1] = s[i + 1]
  <2>1. j \in 1 .. n - m + 1 /\ j + 1 \in 1 .. n - m + 1
    BY <1>1, <1>4
  <2>2. t[j] = s[m + j - 1]
    BY <1>1, <2>1
  <2>3. t[j + 1] = s[m + (j + 1) - 1]
    BY <1>1, <2>1
  <2> QED BY <1>2, <2>2, <2>3
<1> HIDE DEF i
<1>5. j \in Occurrences(Marks, t) <=> j >= 1 /\ j + 1 <= Len(t) /\ t[j] = 95 /\ t[j + 1] = 95
  <2>1. \A k \in Nat : k \in Occurrences(Marks, t) <=>
          k >= 1 /\ k + 1 <= Len(t) /\ t[k] = 95 /\ t[k + 1] = 95
    BY <1>1, MarkMeans
  <2> QED BY <2>1
<1>6. i \in Occurrences(Marks, s) <=> i >= 1 /\ i + 1 <= n /\ s[i] = 95 /\ s[i + 1] = 95
  <2>1. \A k \in Nat : k \in Occurrences(Marks, s) <=>
          k >= 1 /\ k + 1 <= Len(s) /\ s[k] = 95 /\ s[k + 1] = 95
    BY MarkMeans
  <2> QED BY <1>2, <2>1 DEF n
<1>7. j >= 1
  OBVIOUS
<1>8. j \in Occurrences(Marks, t) <=> i \in Occurrences(Marks, s)
  BY <1>1, <1>2, <1>3, <1>4, <1>5, <1>6, <1>7
<1> QED BY <1>8 DEF t, i

(* What covers the macros of a text covers those of its rest.              *)
LEMMA CoversRest ==
  ASSUME NEW str \in Seq(Nat), NEW s \in Seq(Nat), Covers(str, s),
         NEW m \in Nat \ {0}, m <= Len(s) + 1
  PROVE  Covers(str, From(s, m))
<1> DEFINE t == From(s, m)
           O == Occurrences(Marks, s)
           Q == Occurrences(Marks, t)
           l == Len(str)
<1>1. Len(Marks) = 2 /\ l \in Nat
  BY DEF Marks
<1>2. t \in Seq(Nat)
  BY FromMeans
<1>3. O \in SUBSET Nat /\ \A k \in O : k >= 1
  BY MarkMeans
<1> HIDE DEF t
<1>4. Q \in SUBSET Nat /\ \A k \in Q : k >= 1
  BY <1>2, MarkMeans
<1>5. \A j \in Nat \ {0} : j \in Q <=> m + j - 1 \in O
  BY MarksOfRest DEF t
<1>6. \A i, j \in O : /\ i + 2 <= j
                      /\ \A k \in O : k < i + 2 \/ j <= k
                      => j + 2 - i <= l
  BY <1>1 DEF Covers
<1> HIDE DEF O, Q, l
<1>7. ASSUME NEW i \in Q, NEW j \in Q, i + 2 <= j, \A k \in Q : k < i + 2 \/ j <= k
      PROVE  j + 2 - i <= l
  <2> DEFINE a == m + i - 1
             b == m + j - 1
  <2>1. i \in Nat \ {0} /\ j \in Nat \ {0}
    BY <1>4
  <2>2. a \in O /\ b \in O
    BY <1>5, <2>1
  <2>3. a + 2 <= b /\ b + 2 - a = j + 2 - i
    BY <1>7, <2>1
  <2>4. ASSUME NEW k \in O PROVE k < a + 2 \/ b <= k
    <3>1. k \in Nat
      BY <1>3
    <3>2. CASE k < m
      BY <2>1, <3>1, <3>2
    <3>3. CASE ~(k < m)
      <4> DEFINE h == k - m + 1
      <4>1. h \in Nat \ {0} /\ m + h - 1 = k
        BY <3>1, <3>3
      <4> HIDE DEF h
      <4>2. h \in Q
        BY <1>5, <4>1
      <4>3. h < i + 2 \/ j <= h
        BY <1>7, <4>2
      <4> QED BY <2>1, <3>1, <4>1, <4>3
    <3> QED BY <3>2, <3>3
  <2> HIDE DEF a, b
  <2>5. b + 2 - a <= l
    BY <1>6, <2>2, <2>3, <2>4
  <2> QED BY <2>3, <2>5
<1>8. Covers(str, t)
  BY <1>1, <1>7 DEF Covers, Q, l
<1> QED BY <1>8 DEF t

(* The loop has passed the first of two texts: every mark it can still     *)
(* find is in the second.                                                  *)
Passed(pre, r, from) ==
  /\ from \in Nat
  /\ \A i \in Occurrences(Marks, pre \o r) : i >= from => i > Len(pre)

(* If the second text has no macro, that is the end.                       *)
LEMMA NothingLeft ==
  ASSUME NEW pre \in Seq(Nat), NEW r \in Seq(Nat), NEW from, Passed(pre, r, from),
         NEW v, v = [result |-> pre \o r, start_pos |-> from]
  PROVE  /\ v \in Loops
         /\ \A i \in MarksFound(v) : i \in Nat /\ i - Len(pre) \in Occurrences(Marks, r)
         /\ \A j \in Occurrences(Marks, r) :
              Len(pre) + j >= from => Len(pre) + j \in MarksFound(v)
         /\ ~HasMacro(r) => Over(v)
<1> DEFINE s == pre \o r
           n == Len(pre)
           O == Occurrences(Marks, s)
           Q == Occurrences(Marks, r)
           M == MarksFound(v)
<1>1. s \in Seq(Nat) /\ n \in Nat /\ from \in Nat
  BY TextConcat DEF Passed
<1>2. Len(Marks) = 2
  BY DEF Marks
<1>3. v.result = s /\ v.start_pos = from
  OBVIOUS
<1>4. v \in Loops
  BY <1>1 DEF Loops
<1>5. M = {i \in O : i >= from}
  BY <1>3 DEF MarksFound
<1>6. \A i \in O : i >= from => i > n
  BY DEF Passed
<1>7. \A i \in Nat : i > n => (i \in O <=> i - n \in Q)
  BY MarksBehind
<1>8. Q \in SUBSET Nat /\ \A j \in Q : j >= 1
  BY MarkMeans
<1> HIDE DEF s
<1>9. O \in SUBSET Nat
  BY <1>1, MarkMeans
<1> HIDE DEF O, Q, M, n
<1>10. ASSUME NEW i \in M PROVE i \in Nat /\ i - n \in Q
  BY <1>5, <1>6, <1>7, <1>9
<1>11. ASSUME NEW j \in Q, n + j >= from PROVE n + j \in M
  <2> DEFINE i == n + j
  <2>1. j \in Nat /\ j >= 1
    BY <1>8
  <2>2. i \in Nat /\ i > n /\ i - n = j /\ i >= from
    BY <1>1, <1>11, <2>1
  <2> HIDE DEF i
  <2>3. i \in M
    BY <1>5, <1>7, <2>2
  <2> QED BY <2>3 DEF i
<1>12. ASSUME ~Over(v) PROVE HasMacro(r)
  <2>1. M # {} /\ EndsFound(v) # {} /\ M \in SUBSET Nat
    BY <1>10, <1>12 DEF Over, M
  <2>2. First(M) \in M
    BY <2>1, FirstIsLeast
  <2>3. PICK e \in M : e >= First(M) + 2
    BY <1>2, <2>1 DEF EndsFound, M
  <2> DEFINE p == First(M)
             i == p - n
             j == e - n
  <2>4. i \in Q /\ j \in Q /\ p \in Nat /\ e \in Nat
    BY <1>10, <2>2
  <2>5. i + 2 <= j
    <3> HIDE DEF p
    <3> QED BY <1>1, <2>3, <2>4 DEF p
  <2> HIDE DEF i, j
  <2> QED BY <1>2, <2>4, <2>5 DEF HasMacro, Q
<1> QED BY <1>4, <1>10, <1>11, <1>12 DEF M, Q, n

(* What is behind a place of the second of two texts.                      *)
LEMMA RestOfConcat ==
  ASSUME NEW a \in Seq(Nat), NEW b \in Seq(Nat), NEW m \in Nat \ {0}, m <= Len(b) + 1
  PROVE  From(a \o b, Len(a) + m) = From(b, m)
<1> DEFINE s == a \o b
           i == Len(a) + 1
<1>1. s \in Seq(Nat) /\ Len(s) = Len(a) + Len(b) /\ Len(a) \in Nat /\ Len(b) \in Nat
  BY TextConcat, ConcatProperties
<1>2. From(s, i) = b
  BY BehindConcat
<1>3. i \in Nat \ {0} /\ i <= Len(s) + 1 /\ i + m - 1 = Len(a) + m
  BY <1>1
<1> HIDE DEF s, i
<1>4. From(From(s, i), m) = From(s, i + m - 1)
  BY <1>1, <1>2, <1>3, FromFrom
<1> QED BY <1>2, <1>3, <1>4 DEF s

(* The loop in front of the second text, and behind its first macro.        *)
LoopAt(pre, r, from) == [result |-> pre \o r, start_pos |-> from]
FilledFront(pre, r, str) == (pre \o SubSeq(r, 1, Opening(r) - 1)) \o str
FilledEnd(pre, r) == Len(pre) + Closing(r) + 2

(* If it has one, one round puts the text in its place, and the loop goes  *)
(* on with what is behind it; a text as long as the macro leaves no place  *)
(* that the loop would pass over.                                          *)
LEMMA LoopFillsOne ==
  ASSUME NEW str \in Seq(Nat), ToSet(str) \cap ToSet(Marks) = {},
         NEW pre \in Seq(Nat), NEW r \in Seq(Nat), NEW from, Passed(pre, r, from),
         from <= Len(pre) + 1, HasMacro(r)
  PROVE  /\ LoopAt(pre, r, from) \in Loops /\ ~Over(LoopAt(pre, r, from))
         /\ NextLoop(str, LoopAt(pre, r, from)) =
              LoopAt(FilledFront(pre, r, str), AfterMacro(r), FilledEnd(pre, r))
         /\ FilledFront(pre, r, str) \in Seq(Nat) /\ AfterMacro(r) \in Seq(Nat)
         /\ Passed(FilledFront(pre, r, str), AfterMacro(r), FilledEnd(pre, r))
         /\ Covers(str, r) => FilledEnd(pre, r) <= Len(FilledFront(pre, r, str)) + 1
<1> DEFINE n == Len(pre)
           o == Opening(r)
           c == Closing(r)
           Q == Occurrences(Marks, r)
           v == LoopAt(pre, r, from)
           M == MarksFound(v)
           E == EndsFound(v)
           a == SubSeq(r, 1, o - 1)
           rest == AfterMacro(r)
           l == Len(str)
           next == FilledFront(pre, r, str)
           at == FilledEnd(pre, r)
<1>1. /\ Len(Marks) = 2 /\ n \in Nat /\ from \in Nat /\ l \in Nat /\ Len(r) \in Nat
      /\ from <= n + 1
  BY DEF Marks, Passed
<1>2. /\ o \in Q /\ o \in Nat \ {0} /\ c \in Q /\ c \in Nat /\ o + 2 <= c /\ c + 1 <= Len(r)
      /\ \A j \in Q : o <= j /\ (j >= o + 2 => c <= j)
      /\ rest = From(r, c + 2) /\ rest \in Seq(Nat)
      /\ a \in Seq(Nat) /\ Len(a) = o - 1
  BY MacroMeans
<1>3. Q \in SUBSET Nat
  BY MarkMeans
<1>4. v \in Loops
  BY NothingLeft DEF LoopAt
<1>5. \A i \in M : i \in Nat /\ i - n \in Q
  BY NothingLeft DEF LoopAt
<1>6. \A j \in Q : n + j >= from => n + j \in M
  BY NothingLeft DEF LoopAt
<1>7. pre \o r \in Seq(Nat) /\ v.result = pre \o r /\ v.start_pos = from
  BY TextConcat DEF LoopAt
<1> HIDE DEF n, o, c, Q, M, a, rest, l, v, next, at
<1>8. n + o \in M /\ First(M) = n + o
  <2>1. n + o >= from
    BY <1>1, <1>2
  <2>2. n + o \in M
    BY <1>2, <1>6, <2>1
  <2>3. M \in SUBSET Nat /\ M # {}
    BY <1>5, <2>2
  <2>4. First(M) \in M /\ First(M) \in Nat /\ \A j \in M : First(M) <= j
    BY <2>3, FirstIsLeast
  <2> DEFINE i == First(M)
             k == i - n
  <2>5. k \in Q /\ i <= n + o /\ i \in Nat
    BY <1>5, <2>2, <2>4
  <2> HIDE DEF i
  <2>6. o <= k /\ i = n + k /\ k \in Nat
    BY <1>1, <1>2, <1>3, <2>5
  <2> HIDE DEF k
  <2>7. i = n + o
    BY <1>1, <1>2, <2>5, <2>6
  <2> QED BY <2>2, <2>7 DEF i
<1>9. n + c \in E /\ First(E) = n + c
  <2>1. E = {j \in M : j >= n + o + 2}
    BY <1>1, <1>8 DEF EndsFound, M
  <2>2. n + c >= from /\ n + c >= n + o + 2
    <3>1. o \in Nat \ {0} /\ c \in Nat /\ o + 2 <= c
      BY <1>2
    <3> QED BY <1>1, <3>1
  <2>3. n + c \in E
    BY <1>2, <1>6, <2>1, <2>2
  <2>4. E \in SUBSET Nat /\ E # {}
    BY <1>5, <2>1, <2>3
  <2> HIDE DEF E
  <2>5. First(E) \in E /\ First(E) \in Nat /\ \A j \in E : First(E) <= j
    BY <2>4, FirstIsLeast
  <2> DEFINE i == First(E)
             k == i - n
  <2>6. k \in Q /\ i <= n + c /\ i >= n + o + 2 /\ i \in Nat
    BY <1>5, <2>1, <2>3, <2>5
  <2> HIDE DEF i
  <2>7. k >= o + 2 /\ i = n + k /\ k \in Nat
    BY <1>1, <1>2, <1>3, <2>6
  <2> HIDE DEF k
  <2>8. c <= k
    BY <1>2, <2>6, <2>7
  <2>9. i = n + c
    BY <1>1, <1>2, <2>6, <2>7, <2>8
  <2> QED BY <2>3, <2>9 DEF i
<1>10. ~Over(v)
  BY <1>8, <1>9 DEF Over, M, E
<1> DEFINE p == First(M)
           e == First(E)
           s == pre \o r
<1>11. /\ NextLoop(str, v).start_pos = e + 2
       /\ NextLoop(str, v).result = SubSeq(s, 1, p - 1) \o str \o From(s, e + 2)
  <2>1. p = First(MarksFound(v)) /\ e = First(EndsFound(v))
    BY DEF M, E
  <2>2. NextLoop(str, v) =
          [result |-> WithoutMacro(v.result, p, e, str), start_pos |-> e + 2]
    BY <1>1, <2>1 DEF NextLoop
  <2>3. WithoutMacro(s, p, e, str) = SubSeq(s, 1, p - 1) \o str \o From(s, e + 2)
    BY <1>1 DEF WithoutMacro, From
  <2>4. v.result = s
    BY <1>7
  <2> HIDE DEF p, e, s
  <2> DEFINE t == WithoutMacro(s, p, e, str)
  <2>5. NextLoop(str, v) = [result |-> t, start_pos |-> e + 2]
    BY <2>2, <2>4
  <2> HIDE DEF t
  <2>6. NextLoop(str, v).start_pos = e + 2 /\ NextLoop(str, v).result = t
    BY <2>5
  <2> QED BY <2>3, <2>6 DEF t
<1>12. SubSeq(s, 1, p - 1) = pre \o a
  <2> DEFINE m == o - 1
  <2>1. m \in Nat /\ m <= Len(r) /\ p - 1 = n + m
    BY <1>1, <1>2, <1>8
  <2> HIDE DEF p, m
  <2>2. SubSeq(s, 1, n + m) = pre \o SubSeq(r, 1, m)
    BY <2>1, FrontOfConcat DEF n
  <2> QED BY <2>1, <2>2 DEF a, m
<1>13. From(s, e + 2) = rest
  <2> DEFINE m == c + 2
  <2>0. c \in Nat /\ c + 1 <= Len(r)
    BY <1>2
  <2>1. m \in Nat \ {0} /\ m <= Len(r) + 1 /\ e + 2 = n + m
    BY <1>1, <1>9, <2>0
  <2> HIDE DEF e, m
  <2>2. From(s, n + m) = From(r, m)
    BY <2>1, RestOfConcat DEF n
  <2> QED BY <1>2, <2>1, <2>2 DEF m
<1>14. at = n + c + 2 /\ at \in Nat /\ e + 2 = at
  <2>1. at = n + c + 2
    BY DEF FilledEnd, n, c, at
  <2>2. c \in Nat /\ e = n + c
    BY <1>2, <1>9
  <2> HIDE DEF e
  <2> QED BY <1>1, <2>1, <2>2
<1> HIDE DEF p, e, s
<1>15. next = (pre \o a) \o str
  BY DEF FilledFront, next, a, o
<1>16. NextLoop(str, v) = LoopAt(next, rest, at)
  BY <1>11, <1>12, <1>13, <1>14, <1>15 DEF NextLoop, LoopAt
<1> DEFINE b == pre \o a
<1>17. b \in Seq(Nat) /\ Len(b) = n + o - 1
  <2>1. a \in Seq(Nat) /\ Len(a) = o - 1
    BY <1>2
  <2>2. b \in Seq(Nat) /\ Len(b) = Len(pre) + Len(a)
    BY <2>1, ConcatProperties
  <2> HIDE DEF b
  <2> QED BY <1>1, <1>2, <2>1, <2>2 DEF n
<1> HIDE DEF b
<1>18. /\ next \in Seq(Nat) /\ Len(next) = n + o - 1 + l
       /\ \A i \in 1 .. n + o - 1 + l :
            next[i] = IF i <= n + o - 1 THEN b[i] ELSE str[i - (n + o - 1)]
  <2>1. /\ b \o str \in Seq(Nat) /\ Len(b \o str) = Len(b) + Len(str)
        /\ \A i \in 1 .. Len(b) + Len(str) :
             (b \o str)[i] = IF i <= Len(b) THEN b[i] ELSE str[i - Len(b)]
    BY <1>17, ConcatProperties
  <2>2. next = b \o str
    BY <1>15 DEF b
  <2> QED BY <1>17, <2>1, <2>2 DEF l
<1>19. Passed(next, rest, at)
  <2> DEFINE t == next \o rest
             R == Occurrences(Marks, t)
  <2>1. /\ t \in Seq(Nat)
        /\ \A i \in 1 .. Len(next) + Len(rest) :
             t[i] = IF i <= Len(next) THEN next[i] ELSE rest[i - Len(next)]
    <3>1. next \in Seq(Nat) /\ rest \in Seq(Nat)
      BY <1>2, <1>18
    <3> QED BY <3>1, ConcatProperties, TextConcat
  <2>2. R \in SUBSET Nat /\ \A i \in R : i >= 1 /\ t[i] = 95
    <3> HIDE DEF t
    <3> QED BY <2>1, MarkMeans
  <2> HIDE DEF t, R
  <2>3. ASSUME NEW i \in R, i >= at, ~(i > Len(next)) PROVE FALSE
    <3>0. o \in Nat \ {0} /\ c \in Nat /\ o + 2 <= c /\ Len(next) = n + o - 1 + l
      BY <1>2, <1>18
    <3>1. i \in Nat /\ i <= n + o - 1 + l /\ i >= n + c + 2
      <4>1. i \in Nat /\ i >= at /\ ~(i > Len(next))
        BY <2>2, <2>3
      <4> QED BY <1>1, <1>14, <3>0, <4>1
    <3> DEFINE k == i - (n + o - 1)
    <3>2. i \in 1 .. n + o - 1 + l /\ ~(i <= n + o - 1) /\ k \in 1 .. l
      BY <1>1, <3>0, <3>1
    <3>3. Len(rest) \in Nat
      BY <1>2
    <3>4. i \in 1 .. Len(next) + Len(rest) /\ i <= Len(next)
      BY <1>1, <3>0, <3>1, <3>2, <3>3
    <3>5. t[i] = str[k]
      BY <1>18, <2>1, <3>2, <3>4
    <3>6. str[k] \in ToSet(str)
      BY <3>2 DEF ToSet, l
    <3>7. 95 \in ToSet(Marks)
      <4>1. DOMAIN Marks = 1 .. 2 /\ Marks[1] = 95
        BY DEF Marks
      <4> QED BY <4>1 DEF ToSet
    <3> HIDE DEF k
    <3> QED BY <2>2, <2>3, <3>5, <3>6, <3>7
  <2> QED BY <1>14, <2>3 DEF Passed, R, t
<1>20. Covers(str, r) => at <= Len(next) + 1
  <2> SUFFICES ASSUME Covers(str, r) PROVE at <= Len(next) + 1
    OBVIOUS
  <2>1. \A i, j \in Q : /\ i + 2 <= j
                        /\ \A k \in Q : k < i + 2 \/ j <= k
                        => j + 2 - i <= l
    BY <1>1 DEF Covers, Q, l
  <2>2. \A k \in Q : k < o + 2 \/ c <= k
    BY <1>2, <1>3
  <2>3. c + 2 - o <= l
    BY <1>2, <2>1, <2>2
  <2>4. o \in Nat \ {0} /\ c \in Nat /\ Len(next) = n + o - 1 + l
    BY <1>2, <1>18
  <2> QED BY <1>1, <1>14, <2>3, <2>4
<1> QED BY <1>2, <1>4, <1>10, <1>16, <1>18, <1>19, <1>20 DEF rest, v, next, at

Regrouped(a, b, c, d) == ((a \o b) \o c) \o d = a \o ((b \o c) \o d)

(* The last three of four texts can be put together first.                 *)
LEMMA FourTexts ==
  ASSUME NEW a \in Seq(Nat), NEW b \in Seq(Nat), NEW c \in Seq(Nat), NEW d \in Seq(Nat)
  PROVE  Regrouped(a, b, c, d)
<1> DEFINE m == b \o c
<1>1. m \in Seq(Nat)
  BY ConcatProperties
<1>2. (a \o b) \o c = a \o m
  BY TextAssociative, SMTT(60)
<1> HIDE DEF m
<1>3. (a \o m) \o d = a \o (m \o d)
  BY <1>1, TextAssociative, SMTT(60)
<1> QED BY <1>2, <1>3 DEF m, Regrouped

(* A text as long as the macros fills all of them.                         *)
LEMMA LoopFills ==
  ASSUME NEW str \in Seq(Nat), ToSet(str) \cap ToSet(Marks) = {}
  PROVE  \A r \in Seq(Nat) : Covers(str, r) =>
           \A pre \in Seq(Nat), from \in Nat :
             Passed(pre, r, from) /\ from <= Len(pre) + 1
               => LoopResult(LoopAt(pre, r, from), str) = pre \o FilledIn(r, str)
<1> DEFINE Fills(r, pre, from) ==
             LoopResult(LoopAt(pre, r, from), str) = pre \o FilledIn(r, str)
           Good(r) ==
             Covers(str, r) =>
               \A pre \in Seq(Nat), from \in Nat :
                 Passed(pre, r, from) /\ from <= Len(pre) + 1 => Fills(r, pre, from)
           good == {r \in Seq(Nat) : Good(r)}
<1>1. ASSUME NEW r \in Seq(Nat), \A t \in Seq(Nat) : Len(t) < Len(r) => t \in good
      PROVE  r \in good
  <2> SUFFICES ASSUME Covers(str, r), NEW pre \in Seq(Nat), NEW from \in Nat,
                      Passed(pre, r, from), from <= Len(pre) + 1
               PROVE  Fills(r, pre, from)
    OBVIOUS
  <2> DEFINE v == LoopAt(pre, r, from)
  <2>1. CASE ~HasMacro(r)
    <3>1. v \in Loops /\ Over(v)
      BY <2>1, NothingLeft DEF LoopAt
    <3>2. v.result = pre \o r
      BY DEF LoopAt
    <3>3. FilledIn(r, str) = r
      BY <2>1, FilledInUnfolds
    <3>4. LoopResult(v, str) = v.result
      <4> HIDE DEF v
      <4> QED BY <3>1, LoopUnfolds
    <3> QED BY <3>2, <3>3, <3>4
  <2>2. CASE HasMacro(r)
    <3> DEFINE next == FilledFront(pre, r, str)
               rest == AfterMacro(r)
               at == FilledEnd(pre, r)
               front == SubSeq(r, 1, Opening(r) - 1)
               end == FilledIn(rest, str)
    <3>1. /\ v \in Loops /\ ~Over(v)
          /\ NextLoop(str, v) = LoopAt(next, rest, at)
          /\ next \in Seq(Nat) /\ rest \in Seq(Nat)
          /\ Passed(next, rest, at) /\ at <= Len(next) + 1
      BY <2>2, LoopFillsOne
    <3>2. Len(rest) < Len(r) /\ front \in Seq(Nat) /\ Covers(str, rest)
      <4> DEFINE m == Closing(r) + 2
      <4>1. /\ Len(rest) < Len(r) /\ front \in Seq(Nat) /\ rest = From(r, m)
            /\ Closing(r) \in Nat /\ Closing(r) + 1 <= Len(r)
        BY <2>2, MacroMeans
      <4>2. m \in Nat \ {0} /\ m <= Len(r) + 1
        BY <4>1
      <4> HIDE DEF m
      <4>3. Covers(str, From(r, m))
        BY <4>2, CoversRest
      <4> QED BY <4>1, <4>3
    <3>3. at \in Nat
      BY <3>1 DEF Passed
    <3>4. LoopResult(v, str) = LoopResult(LoopAt(next, rest, at), str)
      <4>1. LoopResult(v, str) = LoopResult(NextLoop(str, v), str)
        <5> HIDE DEF v
        <5> QED BY <3>1, LoopUnfolds
      <4> QED BY <3>1, <4>1
    <3>5. Fills(rest, next, at)
      <4> HIDE DEF Fills, next, rest, at
      <4>1. Good(rest)
        BY <1>1, <3>1, <3>2
      <4> QED BY <3>1, <3>2, <3>3, <4>1
    <3>6. FilledIn(r, str) = (front \o str) \o end /\ end \in Seq(Nat)
      BY <2>2, <3>1, FilledInUnfolds
    <3>7. next = (pre \o front) \o str
      BY DEF FilledFront
    <3>8. ((pre \o front) \o str) \o end = pre \o ((front \o str) \o end)
      <4> HIDE DEF v, next, rest, at, front, end
      <4>1. front \in Seq(Nat) /\ end \in Seq(Nat)
        BY <3>2, <3>6
      <4>2. Regrouped(pre, front, str, end)
        BY <4>1, FourTexts
      <4> QED BY <4>2 DEF Regrouped
    <3> HIDE DEF v, next, rest, at, front, end
    <3>9. LoopResult(LoopAt(next, rest, at), str) = next \o end
      BY <3>5 DEF end
    <3> QED BY <3>4, <3>6, <3>7, <3>8, <3>9 DEF v
  <2> QED BY <2>1, <2>2
<1>2. good \in SUBSET Seq(Nat)
  OBVIOUS
<1>3. good = Seq(Nat)
  <2> HIDE DEF good
  <2> QED BY <1>1, <1>2, TextInduction
<1>4. \A r \in Seq(Nat) : Good(r)
  <2> HIDE DEF Good
  <2> QED BY <1>3
<1> QED BY <1>4

(* The only macro of a text is filled in by any text.                      *)
LEMMA LoopFillsOnly ==
  ASSUME NEW str \in Seq(Nat), ToSet(str) \cap ToSet(Marks) = {},
         NEW r \in Seq(Nat), HasMacro(r), ~HasMacro(AfterMacro(r)),
         NEW pre \in Seq(Nat), NEW from \in Nat, Passed(pre, r, from), from <= Len(pre) + 1
  PROVE  LoopResult(LoopAt(pre, r, from), str) = pre \o FilledIn(r, str)
<1> DEFINE v == LoopAt(pre, r, from)
           next == FilledFront(pre, r, str)
           rest == AfterMacro(r)
           at == FilledEnd(pre, r)
           front == SubSeq(r, 1, Opening(r) - 1)
           w == LoopAt(next, rest, at)
<1>1. /\ v \in Loops /\ ~Over(v) /\ NextLoop(str, v) = w
      /\ next \in Seq(Nat) /\ rest \in Seq(Nat) /\ Passed(next, rest, at)
  BY LoopFillsOne
<1>2. w \in Loops /\ Over(w)
  <2> HIDE DEF next, rest, at
  <2>1. ~HasMacro(rest)
    BY DEF rest
  <2> QED BY <1>1, <2>1, NothingLeft DEF LoopAt
<1>3. w.result = next \o rest
  BY DEF LoopAt
<1>4. FilledIn(r, str) = (front \o str) \o rest
  <2>1. FilledIn(r, str) = (front \o str) \o FilledIn(rest, str)
    BY FilledInUnfolds
  <2>2. FilledIn(rest, str) = rest
    BY <1>1, FilledInUnfolds
  <2> QED BY <2>1, <2>2
<1>5. next = (pre \o front) \o str
  BY DEF FilledFront
<1>6. front \in Seq(Nat)
  BY MacroMeans
<1> HIDE DEF v, next, rest, at, w, front
<1>7. LoopResult(v, str) = w.result
  <2>1. LoopResult(v, str) = LoopResult(w, str)
    BY <1>1, LoopUnfolds
  <2>2. LoopResult(w, str) = w.result
    BY <1>2, LoopUnfolds
  <2> QED BY <2>1, <2>2
<1>8. ((pre \o front) \o str) \o rest = pre \o ((front \o str) \o rest)
  <2>1. front \in Seq(Nat) /\ rest \in Seq(Nat)
    BY <1>1, <1>6
  <2>2. Regrouped(pre, front, str, rest)
    BY <2>1, FourTexts
  <2> QED BY <2>2 DEF Regrouped
<1> QED BY <1>3, <1>4, <1>5, <1>7, <1>8 DEF v

(* The macros of a template are filled in.                                 *)
THEOREM Fills == Spec => []MacrosFilled
<1>1. template \in Seq(Byte) => MacrosFilled
  <2> SUFFICES ASSUME template \in Seq(Byte), NEW str \in Fillers,
                      ToSet(str) \cap ToSet(Marks) = {},
                      \/ Covers(str, template)
                      \/ HasMacro(template) /\ ~HasMacro(AfterMacro(template))
               PROVE  replaceMacroVariable(template, str) = FilledIn(template, str)
    BY DEF MacrosFilled
  <2>1. str \in Seq(Nat) /\ template \in Seq(Nat)
    BY TextUtilsAssumption, BytesAreText
  <2> DEFINE r == template
             pre == <<>>
             from == 1
  <2>2. pre \in Seq(Nat) /\ from \in Nat /\ from <= Len(pre) + 1 /\ Len(pre) = 0
    OBVIOUS
  <2>3. pre \o r = r
    BY <2>1
  <2>4. Passed(pre, r, from)
    <3>1. \A i \in Occurrences(Marks, r) : i \in Nat /\ i >= 1
      BY <2>1, MarkMeans
    <3> QED BY <2>2, <2>3, <3>1 DEF Passed
  <2>5. FilledIn(r, str) \in Seq(Nat)
    BY <2>1, FilledInUnfolds
  <2>6. pre \o FilledIn(r, str) = FilledIn(r, str)
    BY <2>5
  <2> HIDE DEF pre, from, r
  <2>7. LoopResult(LoopAt(pre, r, from), str) = pre \o FilledIn(r, str)
    <3>1. r \in Seq(Nat)
      BY <2>1 DEF r
    <3>2. CASE Covers(str, r)
      BY <2>1, <2>2, <2>4, <3>1, <3>2, LoopFills
    <3>3. CASE HasMacro(r) /\ ~HasMacro(AfterMacro(r))
      BY <2>1, <2>2, <2>4, <3>1, <3>3, LoopFillsOnly
    <3> QED BY <3>2, <3>3 DEF r
  <2>8. LoopAt(pre, r, from) = [result |-> r, start_pos |-> 1]
    BY <2>3 DEF LoopAt, from
  <2> QED BY <2>6, <2>7, <2>8 DEF replaceMacroVariable, r
<1> QED BY <1>1, TemplateTyped, PTL

-----------------------------------------------------------------------------
(* Two numbers are equal if their halves and last digits are.              *)
LEMMA Halves ==
  ASSUME NEW b \in Nat, NEW c \in Nat, NEW w \in Nat \ {0},
         b \div (2 * w) = c \div (2 * w), (b \div w) % 2 = (c \div w) % 2
  PROVE  b \div w = c \div w
<1>1. \A a \in Nat : a \div w = 2 * (a \div (2 * w)) + ((a \div w) % 2)
  BY DEF Octet
<1>2. b \div w = 2 * (b \div (2 * w)) + ((b \div w) % 2)
  BY <1>1
<1>3. c \div w = 2 * (c \div (2 * w)) + ((c \div w) % 2)
  BY <1>1
<1> QED BY <1>2, <1>3

(* Exclusive or is a byte, and tells bytes apart.                          *)
LEMMA DifferTyped ==
  ASSUME NEW a \in Octet, NEW b \in Octet
  PROVE  Differ(a, b) \in Octet /\ Differ(a, b) = Differ(b, a)
BY DEF Differ, Octet

(* Two bytes with the same exclusive or with a third one are one.          *)
LEMMA DifferTells ==
  ASSUME NEW a \in Octet, NEW b \in Octet, NEW c \in Octet,
         Differ(a, b) = Differ(a, c)
  PROVE  b = c
<1> DEFINE P(w) == (a \div w + b \div w) % 2
           Q(w) == (a \div w + c \div w) % 2
<1>1. \A w \in Nat \ {0} : P(w) \in 0 .. 1 /\ Q(w) \in 0 .. 1
  BY DEF Octet
<1>2. P(1) + 2 * P(2) + 4 * P(4) + 8 * P(8) + 16 * P(16) + 32 * P(32) + 64 * P(64) + 128 * P(128)
      = Q(1) + 2 * Q(2) + 4 * Q(4) + 8 * Q(8) + 16 * Q(16) + 32 * Q(32) + 64 * Q(64) + 128 * Q(128)
  BY DEF Differ, Octet
<1> HIDE DEF P, Q
<1>3. /\ P(1) \in 0 .. 1 /\ P(2) \in 0 .. 1 /\ P(4) \in 0 .. 1 /\ P(8) \in 0 .. 1
      /\ P(16) \in 0 .. 1 /\ P(32) \in 0 .. 1 /\ P(64) \in 0 .. 1 /\ P(128) \in 0 .. 1
      /\ Q(1) \in 0 .. 1 /\ Q(2) \in 0 .. 1 /\ Q(4) \in 0 .. 1 /\ Q(8) \in 0 .. 1
      /\ Q(16) \in 0 .. 1 /\ Q(32) \in 0 .. 1 /\ Q(64) \in 0 .. 1 /\ Q(128) \in 0 .. 1
  BY <1>1
<1>4. /\ P(1) = Q(1) /\ P(2) = Q(2) /\ P(4) = Q(4) /\ P(8) = Q(8)
      /\ P(16) = Q(16) /\ P(32) = Q(32) /\ P(64) = Q(64) /\ P(128) = Q(128)
  <2> DEFINE r128 == P(128)
             r64 == P(64) + 2 * r128
             r32 == P(32) + 2 * r64
             r16 == P(16) + 2 * r32
             r8 == P(8) + 2 * r16
             r4 == P(4) + 2 * r8
             r2 == P(2) + 2 * r4
             s128 == Q(128)
             s64 == Q(64) + 2 * s128
             s32 == Q(32) + 2 * s64
             s16 == Q(16) + 2 * s32
             s8 == Q(8) + 2 * s16
             s4 == Q(4) + 2 * s8
             s2 == Q(2) + 2 * s4
  <2>1. P(1) + 2 * r2 = Q(1) + 2 * s2
    <3>1. P(1) + 2 * r2 = P(1) + 2 * P(2) + 4 * P(4) + 8 * P(8) + 16 * P(16)
                            + 32 * P(32) + 64 * P(64) + 128 * P(128)
      <4>1. /\ P(1) \in Int /\ P(2) \in Int /\ P(4) \in Int /\ P(8) \in Int
            /\ P(16) \in Int /\ P(32) \in Int /\ P(64) \in Int /\ P(128) \in Int
        BY <1>3
      <4> QED BY <4>1
    <3>2. Q(1) + 2 * s2 = Q(1) + 2 * Q(2) + 4 * Q(4) + 8 * Q(8) + 16 * Q(16)
                            + 32 * Q(32) + 64 * Q(64) + 128 * Q(128)
      <4>1. /\ Q(1) \in Int /\ Q(2) \in Int /\ Q(4) \in Int /\ Q(8) \in Int
            /\ Q(16) \in Int /\ Q(32) \in Int /\ Q(64) \in Int /\ Q(128) \in Int
        BY <1>3
      <4> QED BY <4>1
    <3> QED BY <1>2, <3>1, <3>2
  <2>2. r128 \in Nat /\ s128 \in Nat
    BY <1>3
  <2> HIDE DEF r128, s128
  <2>3. r64 \in Nat /\ s64 \in Nat
    BY <1>3, <2>2
  <2> HIDE DEF r64, s64
  <2>4. r32 \in Nat /\ s32 \in Nat
    BY <1>3, <2>3
  <2> HIDE DEF r32, s32
  <2>5. r16 \in Nat /\ s16 \in Nat
    BY <1>3, <2>4
  <2> HIDE DEF r16, s16
  <2>6. r8 \in Nat /\ s8 \in Nat
    BY <1>3, <2>5
  <2> HIDE DEF r8, s8
  <2>7. r4 \in Nat /\ s4 \in Nat
    BY <1>3, <2>6
  <2> HIDE DEF r4, s4
  <2>8. r2 \in Nat /\ s2 \in Nat
    BY <1>3, <2>7
  <2> HIDE DEF r2, s2
  <2>9. P(1) = Q(1) /\ r2 = s2
    BY <1>3, <2>1, <2>8
  <2>10. P(2) = Q(2) /\ r4 = s4
    BY <1>3, <2>9, <2>7 DEF r2, s2
  <2>11. P(4) = Q(4) /\ r8 = s8
    BY <1>3, <2>10, <2>6 DEF r4, s4
  <2>12. P(8) = Q(8) /\ r16 = s16
    BY <1>3, <2>11, <2>5 DEF r8, s8
  <2>13. P(16) = Q(16) /\ r32 = s32
    BY <1>3, <2>12, <2>4 DEF r16, s16
  <2>14. P(32) = Q(32) /\ r64 = s64
    BY <1>3, <2>13, <2>3 DEF r32, s32
  <2>15. P(64) = Q(64) /\ r128 = s128
    BY <1>3, <2>14, <2>2 DEF r64, s64
  <2>16. P(128) = Q(128)
    BY <2>15 DEF r128, s128
  <2> QED BY <2>9, <2>10, <2>11, <2>12, <2>13, <2>14, <2>15, <2>16
<1>5. \A x, y, z \in Nat : (x + y) % 2 = (x + z) % 2 => y % 2 = z % 2
  OBVIOUS
<1>6. ASSUME NEW w \in Nat \ {0}, P(w) = Q(w) PROVE (b \div w) % 2 = (c \div w) % 2
  <2>1. a \div w \in Nat /\ b \div w \in Nat /\ c \div w \in Nat
    BY DEF Octet
  <2> QED BY <1>5, <1>6, <2>1 DEF P, Q
<1>7. b \div 256 = c \div 256
  BY DEF Octet
<1>8. ASSUME NEW w \in Nat \ {0}, P(w) = Q(w), b \div (2 * w) = c \div (2 * w)
      PROVE  b \div w = c \div w
  <2>1. (b \div w) % 2 = (c \div w) % 2
    BY <1>6, <1>8
  <2>2. b \in Nat /\ c \in Nat
    BY DEF Octet
  <2>3. b \div (2 * w) = c \div (2 * w)
    BY <1>8
  <2> QED BY <2>1, <2>2, <2>3, Halves
<1>9. b \div 128 = c \div 128
  BY <1>4, <1>7, <1>8
<1>10. b \div 64 = c \div 64
  BY <1>4, <1>8, <1>9
<1>11. b \div 32 = c \div 32
  BY <1>4, <1>8, <1>10
<1>12. b \div 16 = c \div 16
  BY <1>4, <1>8, <1>11
<1>13. b \div 8 = c \div 8
  BY <1>4, <1>8, <1>12
<1>14. b \div 4 = c \div 4
  BY <1>4, <1>8, <1>13
<1>15. b \div 2 = c \div 2
  BY <1>4, <1>8, <1>14
<1>16. b \div 1 = c \div 1
  BY <1>4, <1>8, <1>15
<1> QED BY <1>16 DEF Octet

(* Words are told apart by their bytes.                                    *)
LEMMA WordsEqual ==
  ASSUME NEW x \in Words, NEW y \in Words,
         x[1] = y[1], x[2] = y[2], x[3] = y[3], x[4] = y[4]
  PROVE  x = y
<1>1. \A i \in 1 .. 4 : x[i] = y[i]
  <2>1. \A i \in 1 .. 4 : i = 1 \/ i = 2 \/ i = 3 \/ i = 4
    BY DEF Octet
  <2> QED BY <2>1
<1> QED BY <1>1 DEF Words

(* The bytes of a word.                                                    *)
LEMMA BytesOfWord ==
  ASSUME NEW x \in Words
  PROVE  x[1] \in Octet /\ x[2] \in Octet /\ x[3] \in Octet /\ x[4] \in Octet
BY DEF Words

(* Four bytes are a word.                                                  *)
LEMMA FourAreWord ==
  ASSUME NEW a \in Octet, NEW b \in Octet, NEW c \in Octet, NEW d \in Octet
  PROVE  /\ <<a, b, c, d>> \in Words
         /\ <<a, b, c, d>>[1] = a /\ <<a, b, c, d>>[2] = b
         /\ <<a, b, c, d>>[3] = c /\ <<a, b, c, d>>[4] = d
<1>1. <<a, b, c, d>> \in Seq(Octet) /\ Len(<<a, b, c, d>>) = 4
  BY DEF Octet
<1> QED BY <1>1, LenProperties DEF Words

(* What is carried.                                                        *)
LEMMA CarriedMeans ==
  ASSUME NEW d, d[1] \in Nat, d[2] \in Nat, d[3] \in Nat, d[4] \in Nat
  PROVE  /\ Carried(d) \in Words
         /\ Carried(d)[1] = d[1] % 256
         /\ Carried(d)[2] = (d[2] + d[1] \div 256) % 256
         /\ Carried(d)[3] = (d[3] + (d[2] + d[1] \div 256) \div 256) % 256
         /\ Carried(d)[4] = (d[4] + (d[3] + (d[2] + d[1] \div 256) \div 256) \div 256) % 256
<1> DEFINE a == d[1]
           b == d[2] + d[1] \div 256
           c == d[3] + (d[2] + d[1] \div 256) \div 256
           e == d[4] + (d[3] + (d[2] + d[1] \div 256) \div 256) \div 256
<1>1. Carried(d) = <<a % 256, b % 256, c % 256, e % 256>>
  BY DEF Carried
<1>2. a \in Nat /\ b \in Nat /\ c \in Nat /\ e \in Nat
  BY DEF Octet
<1> HIDE DEF a, b, c, e
<1> DEFINE p == a % 256
           q == b % 256
           r == c % 256
           t == e % 256
<1>3. p \in Octet /\ q \in Octet /\ r \in Octet /\ t \in Octet
  BY <1>2 DEF Octet
<1>4. Carried(d) = <<p, q, r, t>>
  BY <1>1
<1> HIDE DEF p, q, r, t
<1>5. /\ <<p, q, r, t>> \in Words
      /\ <<p, q, r, t>>[1] = p /\ <<p, q, r, t>>[2] = q
      /\ <<p, q, r, t>>[3] = r /\ <<p, q, r, t>>[4] = t
  BY <1>3, FourAreWord
<1>6. /\ Carried(d) \in Words
      /\ Carried(d)[1] = p /\ Carried(d)[2] = q /\ Carried(d)[3] = r /\ Carried(d)[4] = t
  BY <1>4, <1>5
<1> QED BY <1>6 DEF a, b, c, e, p, q, r, t

(* A factor that is odd tells bytes apart in the last eight digits.        *)
Tells(o) ==
  \A k \in Nat : \A a, b \in Octet :
    (k + a * o) % 256 = (k + b * o) % 256 => a = b

(* The lowest bytes of the factors of the code are odd, and so tell.       *)
LEMMA OddTells ==
  /\ Tells(1) /\ Tells(5) /\ Tells(27) /\ Tells(137) /\ Tells(229) /\ Tells(147)
  /\ Tells(107) /\ Tells(53)
<1>1. ASSUME NEW m \in Nat, NEW n \in Nat, m % 256 = n % 256
      PROVE  \E q \in Int : m - n = 256 * q
  <2>1. m = 256 * (m \div 256) + (m % 256) /\ n = 256 * (n \div 256) + (n % 256)
    BY DEF Octet
  <2> DEFINE q == m \div 256 - n \div 256
  <2>2. q \in Int /\ m - n = 256 * q
    BY <1>1, <2>1
  <2> QED BY <2>2
<1>2. \A d \in -255 .. 255, q \in Int : d * 1 = 256 * q => d = 0
  BY DEF Octet
<1>3. \A d \in -255 .. 255, q \in Int : d * 5 = 256 * q => d = 0
  BY DEF Octet
<1>4. \A d \in -255 .. 255, q \in Int : d * 27 = 256 * q => d = 0
  BY DEF Octet
<1>5. \A d \in -255 .. 255, q \in Int : d * 137 = 256 * q => d = 0
  BY DEF Octet
<1>6. \A d \in -255 .. 255, q \in Int : d * 229 = 256 * q => d = 0
  BY DEF Octet
<1>7. \A d \in -255 .. 255, q \in Int : d * 147 = 256 * q => d = 0
  BY DEF Octet
<1>8. \A d \in -255 .. 255, q \in Int : d * 107 = 256 * q => d = 0
  BY DEF Octet
<1>9. \A d \in -255 .. 255, q \in Int : d * 53 = 256 * q => d = 0
  BY DEF Octet
<1>10. ASSUME NEW o \in Nat, \A d \in -255 .. 255, q \in Int : d * o = 256 * q => d = 0
       PROVE  Tells(o)
  <2> SUFFICES ASSUME NEW k \in Nat, NEW a \in Octet, NEW b \in Octet,
                      (k + a * o) % 256 = (k + b * o) % 256
               PROVE  a = b
    BY DEF Tells
  <2>1. k + a * o \in Nat /\ k + b * o \in Nat
    BY DEF Octet
  <2>2. PICK q \in Int : (k + a * o) - (k + b * o) = 256 * q
    BY <1>1, <2>1
  <2> DEFINE d == a - b
  <2>3. d \in -255 .. 255 /\ d * o = 256 * q
    BY <2>2 DEF Octet
  <2> HIDE DEF d
  <2>4. d = 0
    BY <1>10, <2>3
  <2> QED BY <2>4 DEF d, Octet
<1> QED BY <1>2, <1>3, <1>4, <1>5, <1>6, <1>7, <1>8, <1>9, <1>10

(* A product is a word, and with an odd factor tells words apart.          *)
LEMMA TimesMeans ==
  ASSUME NEW x \in Words, NEW y \in Words
  PROVE  /\ Times(x, y) \in Words
         /\ Times(x, y)[1] = (x[1] * y[1]) % 256
         /\ Times(x, y)[2] = (x[1] * y[2] + x[2] * y[1] + (x[1] * y[1]) \div 256) % 256
         /\ Times(x, y)[3] =
              (x[1] * y[3] + x[2] * y[2] + x[3] * y[1]
                + (x[1] * y[2] + x[2] * y[1] + (x[1] * y[1]) \div 256) \div 256) % 256
         /\ Times(x, y)[4] =
              (x[1] * y[4] + x[2] * y[3] + x[3] * y[2] + x[4] * y[1]
                + (x[1] * y[3] + x[2] * y[2] + x[3] * y[1]
                    + (x[1] * y[2] + x[2] * y[1] + (x[1] * y[1]) \div 256) \div 256) \div 256) % 256
<1> DEFINE a == x[1] * y[1]
           b == x[1] * y[2] + x[2] * y[1]
           c == x[1] * y[3] + x[2] * y[2] + x[3] * y[1]
           e == x[1] * y[4] + x[2] * y[3] + x[3] * y[2] + x[4] * y[1]
           d == <<a, b, c, e>>
<1>1. /\ x[1] \in Octet /\ x[2] \in Octet /\ x[3] \in Octet /\ x[4] \in Octet
      /\ y[1] \in Octet /\ y[2] \in Octet /\ y[3] \in Octet /\ y[4] \in Octet
  BY BytesOfWord
<1>2. a \in Nat /\ b \in Nat /\ c \in Nat /\ e \in Nat
  <2>1. \A m, n \in Octet : m * n \in Nat
    BY DEF Octet
  <2>2. a \in Nat
    BY <1>1, <2>1
  <2>3. x[1] * y[2] \in Nat /\ x[2] * y[1] \in Nat
    BY <1>1, <2>1
  <2>4. x[1] * y[3] \in Nat /\ x[2] * y[2] \in Nat /\ x[3] * y[1] \in Nat
    BY <1>1, <2>1
  <2>5. /\ x[1] * y[4] \in Nat /\ x[2] * y[3] \in Nat
        /\ x[3] * y[2] \in Nat /\ x[4] * y[1] \in Nat
    BY <1>1, <2>1
  <2> QED BY <2>2, <2>3, <2>4, <2>5
<1>3. Times(x, y) = Carried(d)
  BY DEF Times
<1> HIDE DEF a, b, c, e
<1>4. d[1] = a /\ d[2] = b /\ d[3] = c /\ d[4] = e
  BY DEF Octet
<1> HIDE DEF d
<1>5. /\ Carried(d) \in Words
      /\ Carried(d)[1] = a % 256
      /\ Carried(d)[2] = (b + a \div 256) % 256
      /\ Carried(d)[3] = (c + (b + a \div 256) \div 256) % 256
      /\ Carried(d)[4] = (e + (c + (b + a \div 256) \div 256) \div 256) % 256
  <2>1. d[1] \in Nat /\ d[2] \in Nat /\ d[3] \in Nat /\ d[4] \in Nat
    BY <1>2, <1>4
  <2>2. /\ Carried(d) \in Words
        /\ Carried(d)[1] = d[1] % 256
        /\ Carried(d)[2] = (d[2] + d[1] \div 256) % 256
        /\ Carried(d)[3] = (d[3] + (d[2] + d[1] \div 256) \div 256) % 256
        /\ Carried(d)[4] = (d[4] + (d[3] + (d[2] + d[1] \div 256) \div 256) \div 256) % 256
    BY <2>1, CarriedMeans
  <2> QED BY <1>4, <2>2
<1> QED BY <1>3, <1>5 DEF a, b, c, e

(* Multiplying by an odd factor tells words apart, byte after byte.        *)
LEMMA TimesInjective ==
  ASSUME NEW x \in Words, NEW z \in Words, NEW y \in Words, Tells(y[1]),
         Times(x, y) = Times(z, y)
  PROVE  x = z
<1>1. /\ x[1] \in Octet /\ x[2] \in Octet /\ x[3] \in Octet /\ x[4] \in Octet
      /\ y[1] \in Octet /\ y[2] \in Octet /\ y[3] \in Octet /\ y[4] \in Octet
      /\ z[1] \in Octet /\ z[2] \in Octet /\ z[3] \in Octet /\ z[4] \in Octet
  BY BytesOfWord
<1>2. \A m, n \in Octet : m * n \in Nat
  BY DEF Octet
<1> DEFINE Digit(k, a) == (k + a * y[1]) % 256
<1>3. \A k \in Nat : \A a, b \in Octet : Digit(k, a) = Digit(k, b) => a = b
  BY DEF Tells
<1> HIDE DEF Digit
<1>4. x[1] = z[1]
  <2>1. (x[1] * y[1]) % 256 = (z[1] * y[1]) % 256
    BY TimesMeans
  <2>2. x[1] * y[1] \in Nat /\ z[1] * y[1] \in Nat
    BY <1>1, <1>2
  <2>3. (0 + x[1] * y[1]) % 256 = (0 + z[1] * y[1]) % 256
    BY <2>1, <2>2
  <2>4. Digit(0, x[1]) = Digit(0, z[1])
    BY <2>3 DEF Digit
  <2> QED BY <1>1, <1>3, <2>4
<1>5. x[2] = z[2]
  <2> DEFINE k == x[1] * y[2] + (x[1] * y[1]) \div 256
             a == x[2] * y[1]
             b == z[2] * y[1]
  <2>1. (x[1] * y[2] + a + (x[1] * y[1]) \div 256) % 256
        = (x[1] * y[2] + b + (x[1] * y[1]) \div 256) % 256
    BY <1>4, TimesMeans
  <2>2. x[1] * y[2] \in Nat /\ x[1] * y[1] \in Nat /\ a \in Nat /\ b \in Nat
    BY <1>1, <1>2
  <2> HIDE DEF a, b
  <2>3. k \in Nat /\ (k + a) % 256 = (k + b) % 256
    BY <2>1, <2>2
  <2> HIDE DEF k
  <2>4. Digit(k, x[2]) = Digit(k, z[2])
    BY <2>3 DEF a, b, Digit
  <2> QED BY <1>1, <1>3, <2>3, <2>4
<1>6. x[3] = z[3]
  <2> DEFINE p == x[1] * y[2] + x[2] * y[1] + (x[1] * y[1]) \div 256
             k == x[1] * y[3] + x[2] * y[2] + p \div 256
             a == x[3] * y[1]
             b == z[3] * y[1]
  <2>1. (x[1] * y[3] + x[2] * y[2] + a + p \div 256) % 256
        = (x[1] * y[3] + x[2] * y[2] + b + p \div 256) % 256
    BY <1>4, <1>5, TimesMeans
  <2>2. /\ x[1] * y[1] \in Nat /\ x[1] * y[2] \in Nat /\ x[2] * y[1] \in Nat
        /\ x[1] * y[3] \in Nat /\ x[2] * y[2] \in Nat /\ a \in Nat /\ b \in Nat
    BY <1>1, <1>2
  <2>3. p \in Nat
    BY <2>2
  <2> HIDE DEF a, b, p
  <2>4. k \in Nat /\ (k + a) % 256 = (k + b) % 256
    BY <2>1, <2>2, <2>3
  <2> HIDE DEF k
  <2>5. Digit(k, x[3]) = Digit(k, z[3])
    BY <2>4 DEF a, b, Digit
  <2> QED BY <1>1, <1>3, <2>4, <2>5
<1>7. x[4] = z[4]
  <2> DEFINE p == x[1] * y[2] + x[2] * y[1] + (x[1] * y[1]) \div 256
             q == x[1] * y[3] + x[2] * y[2] + x[3] * y[1] + p \div 256
             k == x[1] * y[4] + x[2] * y[3] + x[3] * y[2] + q \div 256
             a == x[4] * y[1]
             b == z[4] * y[1]
  <2>1. (x[1] * y[4] + x[2] * y[3] + x[3] * y[2] + a + q \div 256) % 256
        = (x[1] * y[4] + x[2] * y[3] + x[3] * y[2] + b + q \div 256) % 256
    BY <1>4, <1>5, <1>6, TimesMeans
  <2>2. /\ x[1] * y[1] \in Nat /\ x[1] * y[2] \in Nat /\ x[2] * y[1] \in Nat
        /\ x[1] * y[3] \in Nat /\ x[2] * y[2] \in Nat /\ x[3] * y[1] \in Nat
        /\ x[1] * y[4] \in Nat /\ x[2] * y[3] \in Nat /\ x[3] * y[2] \in Nat
        /\ a \in Nat /\ b \in Nat
    BY <1>1, <1>2
  <2>3. p \in Nat
    BY <2>2
  <2> HIDE DEF a, b, p
  <2>4. q \in Nat
    BY <2>2, <2>3
  <2> HIDE DEF q
  <2>5. k \in Nat /\ (k + a) % 256 = (k + b) % 256
    BY <2>1, <2>2, <2>4
  <2> HIDE DEF k
  <2>6. Digit(k, x[4]) = Digit(k, z[4])
    BY <2>5 DEF a, b, Digit
  <2> QED BY <1>1, <1>3, <2>5, <2>6
<1> QED BY <1>4, <1>5, <1>6, <1>7, WordsEqual

(* A sum is a word, and tells what is added apart.                         *)
LEMMA PlusMeans ==
  ASSUME NEW x \in Words, NEW y \in Words
  PROVE  /\ Plus(x, y) \in Words
         /\ Plus(x, y) = Plus(y, x)
         /\ Plus(x, y)[1] = (x[1] + y[1]) % 256
         /\ Plus(x, y)[2] = (x[2] + y[2] + (x[1] + y[1]) \div 256) % 256
         /\ Plus(x, y)[3] =
              (x[3] + y[3] + (x[2] + y[2] + (x[1] + y[1]) \div 256) \div 256) % 256
         /\ Plus(x, y)[4] =
              (x[4] + y[4]
                + (x[3] + y[3] + (x[2] + y[2] + (x[1] + y[1]) \div 256) \div 256) \div 256) % 256
<1> DEFINE d == [i \in 1 .. 4 |-> x[i] + y[i]]
<1>1. /\ x[1] \in Octet /\ x[2] \in Octet /\ x[3] \in Octet /\ x[4] \in Octet
      /\ y[1] \in Octet /\ y[2] \in Octet /\ y[3] \in Octet /\ y[4] \in Octet
  BY BytesOfWord
<1>2. /\ d[1] = x[1] + y[1] /\ d[2] = x[2] + y[2] /\ d[3] = x[3] + y[3] /\ d[4] = x[4] + y[4]
  BY DEF Octet
<1>3. Plus(x, y) = Carried(d)
  BY DEF Plus
<1>4. Plus(x, y) = Plus(y, x)
  <2>1. \A m, n \in Octet : m + n = n + m
    BY DEF Octet
  <2>2. \A i \in 1 .. 4 : x[i] + y[i] = y[i] + x[i]
    BY <2>1 DEF Words
  <2> QED BY <2>2 DEF Plus
<1> HIDE DEF d
<1>5. d[1] \in Nat /\ d[2] \in Nat /\ d[3] \in Nat /\ d[4] \in Nat
  <2>1. \A m, n \in Octet : m + n \in Nat
    BY DEF Octet
  <2> QED BY <1>1, <1>2, <2>1
<1>6. /\ Carried(d) \in Words
      /\ Carried(d)[1] = d[1] % 256
      /\ Carried(d)[2] = (d[2] + d[1] \div 256) % 256
      /\ Carried(d)[3] = (d[3] + (d[2] + d[1] \div 256) \div 256) % 256
      /\ Carried(d)[4] = (d[4] + (d[3] + (d[2] + d[1] \div 256) \div 256) \div 256) % 256
  BY <1>5, CarriedMeans
<1> QED BY <1>2, <1>3, <1>4, <1>6

(* So does adding a word.                                                  *)
LEMMA PlusInjective ==
  ASSUME NEW x \in Words, NEW z \in Words, NEW y \in Words, Plus(x, y) = Plus(z, y)
  PROVE  x = z
<1>1. /\ x[1] \in Octet /\ x[2] \in Octet /\ x[3] \in Octet /\ x[4] \in Octet
      /\ y[1] \in Octet /\ y[2] \in Octet /\ y[3] \in Octet /\ y[4] \in Octet
      /\ z[1] \in Octet /\ z[2] \in Octet /\ z[3] \in Octet /\ z[4] \in Octet
  BY BytesOfWord
<1> DEFINE Digit(a, c, k) == (a + c + k) % 256
           Carry(a, c, k) == (a + c + k) \div 256
<1>2. \A k \in Nat : \A a, b, c \in Octet : Digit(a, c, k) = Digit(b, c, k) => a = b
  BY DEF Octet
<1>3. \A k \in Nat : \A a, c \in Octet : Carry(a, c, k) \in Nat
  BY DEF Octet
<1>4. \A a, c \in Octet : (a + c) % 256 = Digit(a, c, 0) /\ (a + c) \div 256 = Carry(a, c, 0)
  BY DEF Octet
<1> DEFINE k == Carry(x[1], y[1], 0)
           l == Carry(x[2], y[2], k)
           m == Carry(x[3], y[3], l)
<1>5. k \in Nat /\ k = (x[1] + y[1]) \div 256
  <2> HIDE DEF Carry
  <2> QED BY <1>1, <1>3, <1>4
<1>6. l = (x[2] + y[2] + (x[1] + y[1]) \div 256) \div 256
  <2> HIDE DEF k
  <2> QED BY <1>5
<1>7. m = (x[3] + y[3] + (x[2] + y[2] + (x[1] + y[1]) \div 256) \div 256) \div 256
  <2> HIDE DEF l
  <2> QED BY <1>6
<1>8. l \in Nat
  <2> HIDE DEF Carry, k
  <2> QED BY <1>1, <1>3, <1>5
<1>9. m \in Nat
  <2> HIDE DEF Carry, l
  <2> QED BY <1>1, <1>3, <1>8
<1> HIDE DEF k, l, m
<1>10. x[1] = z[1]
  <2>1. (x[1] + y[1]) % 256 = (z[1] + y[1]) % 256
    BY PlusMeans
  <2>2. /\ (x[1] + y[1]) % 256 = Digit(x[1], y[1], 0)
        /\ (z[1] + y[1]) % 256 = Digit(z[1], y[1], 0)
    <3> HIDE DEF Digit, Carry
    <3> QED BY <1>1, <1>4
  <2>3. Digit(x[1], y[1], 0) = Digit(z[1], y[1], 0)
    BY <2>1, <2>2
  <2>4. 0 \in Nat
    BY DEF Octet
  <2> HIDE DEF Digit, Carry
  <2> QED BY <1>1, <1>2, <2>3, <2>4
<1>11. x[2] = z[2]
  <2>1. (x[2] + y[2] + k) % 256 = (z[2] + y[2] + k) % 256
    BY <1>5, <1>10, PlusMeans
  <2>2. Digit(x[2], y[2], k) = Digit(z[2], y[2], k)
    BY <2>1
  <2>3. k \in Nat
    BY <1>5
  <2> HIDE DEF Digit
  <2> QED BY <1>1, <1>2, <2>2, <2>3
<1>12. x[3] = z[3]
  <2>1. (x[3] + y[3] + l) % 256 = (z[3] + y[3] + l) % 256
    BY <1>6, <1>10, <1>11, PlusMeans
  <2>2. Digit(x[3], y[3], l) = Digit(z[3], y[3], l)
    BY <2>1
  <2> HIDE DEF Digit
  <2> QED BY <1>1, <1>2, <1>8, <2>2
<1>13. x[4] = z[4]
  <2>1. (x[4] + y[4] + m) % 256 = (z[4] + y[4] + m) % 256
    BY <1>7, <1>10, <1>11, <1>12, PlusMeans
  <2>2. Digit(x[4], y[4], m) = Digit(z[4], y[4], m)
    BY <2>1
  <2> HIDE DEF Digit
  <2> QED BY <1>1, <1>2, <1>9, <2>2
<1> QED BY <1>10, <1>11, <1>12, <1>13, WordsEqual

(* Exclusive or is a word, and tells both of its arguments apart.          *)
LEMMA ExclusiveOrTyped ==
  ASSUME NEW x \in Words, NEW y \in Words
  PROVE  /\ ExclusiveOr(x, y) \in Words
         /\ \A i \in 1 .. 4 : ExclusiveOr(x, y)[i] = Differ(x[i], y[i])
<1>1. \A i \in 1 .. 4 : x[i] \in Octet /\ y[i] \in Octet
  BY DEF Words
<1>2. \A i \in 1 .. 4 : Differ(x[i], y[i]) \in Octet
  BY <1>1, DifferTyped
<1> QED BY <1>2 DEF ExclusiveOr, Words

(* An exclusive or tells both of its arguments apart.                      *)
LEMMA ExclusiveOrInjective ==
  ASSUME NEW x \in Words, NEW y \in Words, NEW z \in Words
  PROVE  /\ ExclusiveOr(x, y) = ExclusiveOr(x, z) => y = z
         /\ ExclusiveOr(y, x) = ExclusiveOr(z, x) => y = z
<1>1. \A i \in 1 .. 4 : x[i] \in Octet /\ y[i] \in Octet /\ z[i] \in Octet
  BY DEF Words
<1>2. ASSUME ExclusiveOr(x, y) = ExclusiveOr(x, z) PROVE y = z
  <2>1. \A i \in 1 .. 4 : Differ(x[i], y[i]) = Differ(x[i], z[i])
    BY <1>2, ExclusiveOrTyped
  <2>2. \A i \in 1 .. 4 : y[i] = z[i]
    BY <1>1, <2>1, DifferTells
  <2> QED BY <2>2 DEF Words
<1>3. ASSUME ExclusiveOr(y, x) = ExclusiveOr(z, x) PROVE y = z
  <2>1. \A i \in 1 .. 4 : Differ(y[i], x[i]) = Differ(z[i], x[i])
    BY <1>3, ExclusiveOrTyped
  <2>2. \A i \in 1 .. 4 : Differ(x[i], y[i]) = Differ(x[i], z[i])
    BY <1>1, <2>1, DifferTyped
  <2>3. \A i \in 1 .. 4 : y[i] = z[i]
    BY <1>1, <2>2, DifferTells
  <2> QED BY <2>3 DEF Words
<1> QED BY <1>2, <1>3

(* A byte of a rotation: p and q are two powers of two whose product is    *)
(* 256, b gives its low bits and c its high ones.                          *)
Lows(q) == 0 .. (q - 1)
Low(q, b) == b % q
High(q, b) == b \div q
Meet(p, u, v) == p * u + v
Mixed(p, q, b, c) == ((b * p) % 256) + c \div q

MeetingTells(p, u, v, w, t) == Meet(p, u, v) = Meet(p, w, t) => u = w /\ v = t

Fits(p, q) ==
  /\ \A b \in Octet : Low(q, b) \in Lows(q) /\ High(q, b) \in Lows(p)
  /\ \A b \in Octet : b = Meet(q, High(q, b), Low(q, b))
  /\ \A b, c \in Octet : Mixed(p, q, b, c) = Meet(p, Low(q, b), High(q, c))
  /\ \A u \in Lows(q), v \in Lows(p) : Meet(p, u, v) \in Octet
  /\ \A u, w \in Lows(q), v, t \in Lows(p) : MeetingTells(p, u, v, w, t)

(* The powers of two of the rotations of the code fit.                     *)
LEMMA PowersFit ==
  /\ Fits(1, 256) /\ Fits(2, 128) /\ Fits(4, 64) /\ Fits(8, 32) /\ Fits(32, 8) /\ Fits(128, 2)
<1>1. Fits(1, 256)
  <2>1. \A b \in Octet : Low(256, b) \in Lows(256) /\ High(256, b) \in Lows(1)
    BY DEF Octet, Low, High, Lows
  <2>2. \A b \in Octet : b = Meet(256, High(256, b), Low(256, b))
    BY DEF Octet, Low, High, Meet
  <2>3. \A b, c \in Octet : Mixed(1, 256, b, c) = Meet(1, Low(256, b), High(256, c))
    BY DEF Octet, Low, High, Meet, Mixed
  <2>4. \A u \in Lows(256), v \in Lows(1) : Meet(1, u, v) \in Octet
    BY DEF Octet, Lows, Meet
  <2>5. \A u, w \in Lows(256), v, t \in Lows(1) : MeetingTells(1, u, v, w, t)
    BY DEF Lows, Meet, MeetingTells
  <2> QED BY <2>1, <2>2, <2>3, <2>4, <2>5 DEF Fits
<1>2. Fits(2, 128)
  <2>1. \A b \in Octet : Low(128, b) \in Lows(128) /\ High(128, b) \in Lows(2)
    BY DEF Octet, Low, High, Lows
  <2>2. \A b \in Octet : b = Meet(128, High(128, b), Low(128, b))
    BY DEF Octet, Low, High, Meet
  <2>3. \A b, c \in Octet : Mixed(2, 128, b, c) = Meet(2, Low(128, b), High(128, c))
    BY DEF Octet, Low, High, Meet, Mixed
  <2>4. \A u \in Lows(128), v \in Lows(2) : Meet(2, u, v) \in Octet
    BY DEF Octet, Lows, Meet
  <2>5. \A u, w \in Lows(128), v, t \in Lows(2) : MeetingTells(2, u, v, w, t)
    BY DEF Lows, Meet, MeetingTells
  <2> QED BY <2>1, <2>2, <2>3, <2>4, <2>5 DEF Fits
<1>3. Fits(4, 64)
  <2>1. \A b \in Octet : Low(64, b) \in Lows(64) /\ High(64, b) \in Lows(4)
    BY DEF Octet, Low, High, Lows
  <2>2. \A b \in Octet : b = Meet(64, High(64, b), Low(64, b))
    BY DEF Octet, Low, High, Meet
  <2>3. \A b, c \in Octet : Mixed(4, 64, b, c) = Meet(4, Low(64, b), High(64, c))
    BY DEF Octet, Low, High, Meet, Mixed
  <2>4. \A u \in Lows(64), v \in Lows(4) : Meet(4, u, v) \in Octet
    BY DEF Octet, Lows, Meet
  <2>5. \A u, w \in Lows(64), v, t \in Lows(4) : MeetingTells(4, u, v, w, t)
    BY DEF Lows, Meet, MeetingTells
  <2> QED BY <2>1, <2>2, <2>3, <2>4, <2>5 DEF Fits
<1>4. Fits(8, 32)
  <2>1. \A b \in Octet : Low(32, b) \in Lows(32) /\ High(32, b) \in Lows(8)
    BY DEF Octet, Low, High, Lows
  <2>2. \A b \in Octet : b = Meet(32, High(32, b), Low(32, b))
    BY DEF Octet, Low, High, Meet
  <2>3. \A b, c \in Octet : Mixed(8, 32, b, c) = Meet(8, Low(32, b), High(32, c))
    BY DEF Octet, Low, High, Meet, Mixed
  <2>4. \A u \in Lows(32), v \in Lows(8) : Meet(8, u, v) \in Octet
    BY DEF Octet, Lows, Meet
  <2>5. \A u, w \in Lows(32), v, t \in Lows(8) : MeetingTells(8, u, v, w, t)
    BY DEF Lows, Meet, MeetingTells
  <2> QED BY <2>1, <2>2, <2>3, <2>4, <2>5 DEF Fits
<1>5. Fits(32, 8)
  <2>1. \A b \in Octet : Low(8, b) \in Lows(8) /\ High(8, b) \in Lows(32)
    BY DEF Octet, Low, High, Lows
  <2>2. \A b \in Octet : b = Meet(8, High(8, b), Low(8, b))
    BY DEF Octet, Low, High, Meet
  <2>3. \A b, c \in Octet : Mixed(32, 8, b, c) = Meet(32, Low(8, b), High(8, c))
    BY DEF Octet, Low, High, Meet, Mixed
  <2>4. \A u \in Lows(8), v \in Lows(32) : Meet(32, u, v) \in Octet
    BY DEF Octet, Lows, Meet
  <2>5. \A u, w \in Lows(8), v, t \in Lows(32) : MeetingTells(32, u, v, w, t)
    BY DEF Lows, Meet, MeetingTells
  <2> QED BY <2>1, <2>2, <2>3, <2>4, <2>5 DEF Fits
<1>6. Fits(128, 2)
  <2>1. \A b \in Octet : Low(2, b) \in Lows(2) /\ High(2, b) \in Lows(128)
    BY DEF Octet, Low, High, Lows
  <2>2. \A b \in Octet : b = Meet(2, High(2, b), Low(2, b))
    BY DEF Octet, Low, High, Meet
  <2>3. \A b, c \in Octet : Mixed(128, 2, b, c) = Meet(128, Low(2, b), High(2, c))
    BY DEF Octet, Low, High, Meet, Mixed
  <2>4. \A u \in Lows(2), v \in Lows(128) : Meet(128, u, v) \in Octet
    BY DEF Octet, Lows, Meet
  <2>5. \A u, w \in Lows(2), v, t \in Lows(128) : MeetingTells(128, u, v, w, t)
    BY DEF Lows, Meet, MeetingTells
  <2> QED BY <2>1, <2>2, <2>3, <2>4, <2>5 DEF Fits
<1> QED BY <1>1, <1>2, <1>3, <1>4, <1>5, <1>6

(* Such bytes are bytes, and what was mixed can be told from them.         *)
MixingTells(p, q, b, c, d, e) ==
  Mixed(p, q, b, c) = Mixed(p, q, d, e) => Low(q, b) = Low(q, d) /\ High(q, c) = High(q, e)

(* With powers that fit, what was mixed is a byte and tells its parts.     *)
LEMMA MixingFits ==
  ASSUME NEW p, NEW q, Fits(p, q)
  PROVE  /\ \A b, c \in Octet : Mixed(p, q, b, c) \in Octet
         /\ \A b, c, d, e \in Octet : MixingTells(p, q, b, c, d, e)
         /\ \A b, c \in Octet : Low(q, b) = Low(q, c) /\ High(q, b) = High(q, c) => b = c
<1>1. \A b \in Octet : Low(q, b) \in Lows(q) /\ High(q, b) \in Lows(p)
  BY DEF Fits
<1>2. \A b \in Octet : b = Meet(q, High(q, b), Low(q, b))
  BY DEF Fits
<1>3. \A b, c \in Octet : Mixed(p, q, b, c) = Meet(p, Low(q, b), High(q, c))
  BY DEF Fits
<1>4. \A u \in Lows(q), v \in Lows(p) : Meet(p, u, v) \in Octet
  BY DEF Fits
<1>5. \A u, w \in Lows(q), v, t \in Lows(p) : MeetingTells(p, u, v, w, t)
  BY DEF Fits
<1>6. \A b, c \in Octet : Mixed(p, q, b, c) \in Octet
  BY <1>1, <1>3, <1>4
<1>7. ASSUME NEW b \in Octet, NEW c \in Octet, NEW d \in Octet, NEW e \in Octet
      PROVE  MixingTells(p, q, b, c, d, e)
  <2>1. MeetingTells(p, Low(q, b), High(q, c), Low(q, d), High(q, e))
    BY <1>1, <1>5
  <2> QED BY <1>3, <2>1 DEF MixingTells, MeetingTells
<1>8. ASSUME NEW b \in Octet, NEW c \in Octet, Low(q, b) = Low(q, c), High(q, b) = High(q, c)
      PROVE  b = c
  BY <1>2, <1>8
<1> QED BY <1>6, <1>7, <1>8

(* A rotation is a word and tells words apart.                             *)
Turns(r) == \A x, z \in Words : rotl32(x, r) \in Words /\ (rotl32(x, r) = rotl32(z, r) => x = z)

(* A rotation whose powers of two fit turns.                               *)
LEMMA FitsTurn ==
  ASSUME NEW r \in Nat, NEW s \in 1 .. 2, NEW p, NEW q, r \div 8 = s, Fits(p, q),
         IF r % 8 = 0 THEN p = 1 ELSE p = PowerOfTwo[r % 8], q = PowerOfTwo[8 - (r % 8)]
  PROVE  Turns(r)
<1> DEFINE Place(i) == ((i + 3 - s) % 4) + 1
<1>1. \A i \in Nat : Place(i) \in 1 .. 4
  OBVIOUS
<1>2. \A j \in 1 .. 4 : \E i \in 1 .. 4 : Place(i) = j
  <2>1. CASE s = 1
    <3>1. Place(1) = 4 /\ Place(2) = 1 /\ Place(3) = 2 /\ Place(4) = 3
      BY <2>1
    <3> HIDE DEF Place
    <3> QED BY <3>1
  <2>2. CASE s = 2
    <3>1. Place(1) = 3 /\ Place(2) = 4 /\ Place(3) = 1 /\ Place(4) = 2
      BY <2>2
    <3> HIDE DEF Place
    <3> QED BY <3>1
  <2> QED BY <2>1, <2>2
<1>3. \A j \in 1 .. 4 : \E i \in 1 .. 4 : Place(i + 3) = j
  <2>1. CASE s = 1
    <3>1. Place(4) = 3 /\ Place(5) = 4 /\ Place(6) = 1 /\ Place(7) = 2
      BY <2>1
    <3>2. Place(1 + 3) = 3 /\ Place(2 + 3) = 4 /\ Place(3 + 3) = 1 /\ Place(4 + 3) = 2
      BY <3>1
    <3> HIDE DEF Place
    <3> QED BY <3>2
  <2>2. CASE s = 2
    <3>1. Place(4) = 2 /\ Place(5) = 3 /\ Place(6) = 4 /\ Place(7) = 1
      BY <2>2
    <3>2. Place(1 + 3) = 2 /\ Place(2 + 3) = 3 /\ Place(3 + 3) = 4 /\ Place(4 + 3) = 1
      BY <3>1
    <3> HIDE DEF Place
    <3> QED BY <3>2
  <2> QED BY <2>1, <2>2
<1>4. ASSUME NEW x \in Words, NEW i \in Nat PROVE x[Place(i)] \in Octet
  <2>1. Place(i) \in 1 .. 4
    BY <1>1
  <2> HIDE DEF Place
  <2> QED BY <2>1 DEF Words, Octet
<1> DEFINE Turned(x) == [i \in 1 .. 4 |-> Mixed(p, q, x[Place(i)], x[Place(i + 3)])]
<1>5. ASSUME NEW x \in Words PROVE rotl32(x, r) = Turned(x)
  <2>1. \A b \in Octet : (b * 1) % 256 = b
    BY DEF Octet
  <2>2. \A i \in 1 .. 4 : x[Place(i)] \in Octet
    BY <1>4
  <2>3. \A i \in 1 .. 4 :
          (IF r % 8 = 0 THEN x[Place(i)] ELSE ((x[Place(i)] * PowerOfTwo[r % 8]) % 256))
          = ((x[Place(i)] * p) % 256)
    BY <2>1, <2>2
  <2>4. rotl32(x, r) =
          [i \in 1 .. 4 |->
             (IF r % 8 = 0 THEN x[Place(i)] ELSE (x[Place(i)] * PowerOfTwo[r % 8]) % 256)
             + x[Place(i + 3)] \div q]
    BY DEF rotl32
  <2> HIDE DEF Place
  <2> QED BY <2>3, <2>4 DEF Mixed
<1> HIDE DEF Place
<1>6. ASSUME NEW x \in Words PROVE rotl32(x, r) \in Words
  <2>1. \A i \in 1 .. 4 : Mixed(p, q, x[Place(i)], x[Place(i + 3)]) \in Octet
    BY <1>4, MixingFits
  <2>2. Turned(x) \in [1 .. 4 -> Octet]
    BY <2>1
  <2> HIDE DEF Turned
  <2> QED BY <1>5, <2>2 DEF Words, Octet
<1>7. ASSUME NEW x \in Words, NEW z \in Words, rotl32(x, r) = rotl32(z, r)
      PROVE  x = z
  <2>1. Turned(x) = Turned(z)
    <3> HIDE DEF Turned
    <3> QED BY <1>5, <1>7
  <2>2. ASSUME NEW i \in 1 .. 4
        PROVE  /\ Low(q, x[Place(i)]) = Low(q, z[Place(i)])
               /\ High(q, x[Place(i + 3)]) = High(q, z[Place(i + 3)])
    <3>1. Turned(x)[i] = Turned(z)[i]
      BY <2>1
    <3>2. Mixed(p, q, x[Place(i)], x[Place(i + 3)]) = Mixed(p, q, z[Place(i)], z[Place(i + 3)])
      BY <3>1
    <3>3. MixingTells(p, q, x[Place(i)], x[Place(i + 3)], z[Place(i)], z[Place(i + 3)])
      BY <1>4, MixingFits
    <3> QED BY <3>2, <3>3 DEF MixingTells
  <2>3. \A j \in 1 .. 4 : Low(q, x[j]) = Low(q, z[j]) /\ High(q, x[j]) = High(q, z[j])
    BY <1>2, <1>3, <2>2
  <2>4. \A j \in 1 .. 4 : x[j] \in Octet /\ z[j] \in Octet
    BY DEF Words, Octet
  <2>5. \A j \in 1 .. 4 : x[j] = z[j]
    BY <2>3, <2>4, MixingFits
  <2> QED BY <2>5 DEF Words
<1> QED BY <1>6, <1>7 DEF Turns

(* The rotations of the code turn.                                         *)
LEMMA RotationsTurn ==
  Turns(13) /\ Turns(15) /\ Turns(16) /\ Turns(17) /\ Turns(18) /\ Turns(19)
<1>1. /\ PowerOfTwo[1] = 2 /\ PowerOfTwo[2] = 4 /\ PowerOfTwo[3] = 8 /\ PowerOfTwo[5] = 32
      /\ PowerOfTwo[6] = 64 /\ PowerOfTwo[7] = 128 /\ PowerOfTwo[8] = 256
  BY DEF PowerOfTwo
<1>2. Turns(13)
  <2>1. 13 \div 8 = 1 /\ 13 % 8 = 5 /\ 8 - (13 % 8) = 3
    OBVIOUS
  <2> QED BY <1>1, <2>1, PowersFit, FitsTurn
<1>3. Turns(15)
  <2>1. 15 \div 8 = 1 /\ 15 % 8 = 7 /\ 8 - (15 % 8) = 1
    OBVIOUS
  <2> QED BY <1>1, <2>1, PowersFit, FitsTurn
<1>4. Turns(16)
  <2>1. 16 \div 8 = 2 /\ 16 % 8 = 0 /\ 8 - (16 % 8) = 8
    OBVIOUS
  <2> QED BY <1>1, <2>1, PowersFit, FitsTurn
<1>5. Turns(17)
  <2>1. 17 \div 8 = 2 /\ 17 % 8 = 1 /\ 8 - (17 % 8) = 7
    OBVIOUS
  <2> QED BY <1>1, <2>1, PowersFit, FitsTurn
<1>6. Turns(18)
  <2>1. 18 \div 8 = 2 /\ 18 % 8 = 2 /\ 8 - (18 % 8) = 6
    OBVIOUS
  <2> QED BY <1>1, <2>1, PowersFit, FitsTurn
<1>7. Turns(19)
  <2>1. 19 \div 8 = 2 /\ 19 % 8 = 3 /\ 8 - (19 % 8) = 5
    OBVIOUS
  <2> QED BY <1>1, <2>1, PowersFit, FitsTurn
<1> QED BY <1>2, <1>3, <1>4, <1>5, <1>6, <1>7

(* A word shifted to the right is a word, and a byte of it depends on the  *)
(* higher bytes only.                                                      *)
Sinks(r) ==
  \A x, z \in Words :
    /\ ShiftRight(x, r) \in Words
    /\ ShiftRight(x, r)[4] = ShiftRight(z, r)[4]
    /\ x[4] = z[4] => ShiftRight(x, r)[3] = ShiftRight(z, r)[3]
    /\ x[4] = z[4] /\ x[3] = z[3] => ShiftRight(x, r)[2] = ShiftRight(z, r)[2]
    /\ x[4] = z[4] /\ x[3] = z[3] /\ x[2] = z[2] => ShiftRight(x, r)[1] = ShiftRight(z, r)[1]

(* The shifts of fmix32 sink.                                              *)
LEMMA ShiftsSink == Sinks(13) /\ Sinks(16)
<1>1. ASSUME NEW x \in Words
      PROVE  ShiftRight(x, 16) \in Words /\ ShiftRight(x, 16) = <<x[3], x[4], 0, 0>>
  <2>1. 16 \div 8 = 2 /\ 16 % 8 = 0 /\ 8 - (16 % 8) = 8 /\ PowerOfTwo[8] = 256
    BY DEF PowerOfTwo
  <2> DEFINE At(i) == IF i + 2 <= 4 THEN x[i + 2] ELSE 0
  <2>2. /\ At(1) = x[3] /\ At(2) = x[4] /\ At(3) = 0 /\ At(4) = 0 /\ At(5) = 0
    OBVIOUS
  <2>3. ShiftRight(x, 16) = [i \in 1 .. 4 |-> At(i) + ((At(i + 1) * 256) % 256)]
    BY <2>1 DEF ShiftRight
  <2>4. x[3] \in Octet /\ x[4] \in Octet
    BY BytesOfWord
  <2>5. \A i \in 1 .. 4 : At(i) \in Octet /\ At(i + 1) \in Octet
    BY DEF Words, Octet
  <2>6. \A b \in Octet : (b * 256) % 256 = 0
    BY DEF Octet
  <2> HIDE DEF At
  <2>7. \A i \in 1 .. 4 : At(i) + ((At(i + 1) * 256) % 256) = At(i)
    BY <2>5, <2>6 DEF Octet
  <2> DEFINE y == [i \in 1 .. 4 |-> At(i)]
  <2>8. ShiftRight(x, 16) = y
    BY <2>3, <2>7
  <2>9. y \in Words /\ y[1] = x[3] /\ y[2] = x[4] /\ y[3] = 0 /\ y[4] = 0
    BY <2>2, <2>5 DEF Words
  <2> HIDE DEF y
  <2> DEFINE t == <<x[3], x[4], 0, 0>>
  <2>10. t \in Words /\ t[1] = x[3] /\ t[2] = x[4] /\ t[3] = 0 /\ t[4] = 0
    <3>1. 0 \in Octet
      BY DEF Octet
    <3>2. t \in Words
      <4>1. t \in Seq(Octet) /\ Len(t) = 4
        BY <2>4, <3>1
      <4> QED BY <4>1, LenProperties DEF Words
    <3> QED BY <3>2
  <2> HIDE DEF t
  <2>11. y = t
    BY <2>9, <2>10, WordsEqual
  <2> QED BY <2>8, <2>10, <2>11 DEF t
<1>2. ASSUME NEW x \in Words
      PROVE  /\ ShiftRight(x, 13) \in Words
             /\ ShiftRight(x, 13)[1] = x[2] \div 32 + ((x[3] * 8) % 256)
             /\ ShiftRight(x, 13)[2] = x[3] \div 32 + ((x[4] * 8) % 256)
             /\ ShiftRight(x, 13)[3] = x[4] \div 32
             /\ ShiftRight(x, 13)[4] = 0
  <2>1. 13 \div 8 = 1 /\ 13 % 8 = 5 /\ 8 - (13 % 8) = 3 /\ PowerOfTwo[5] = 32 /\ PowerOfTwo[3] = 8
    BY DEF PowerOfTwo
  <2> DEFINE At(i) == IF i + 1 <= 4 THEN x[i + 1] ELSE 0
  <2>2. /\ At(1) = x[2] /\ At(2) = x[3] /\ At(3) = x[4] /\ At(4) = 0 /\ At(5) = 0
        /\ At(1 + 1) = x[3] /\ At(2 + 1) = x[4] /\ At(3 + 1) = 0 /\ At(4 + 1) = 0
    OBVIOUS
  <2>3. ShiftRight(x, 13) = [i \in 1 .. 4 |-> At(i) \div 32 + ((At(i + 1) * 8) % 256)]
    BY <2>1 DEF ShiftRight
  <2>4. \A i \in 1 .. 4 : At(i) \in Octet /\ At(i + 1) \in Octet
    BY DEF Words, Octet
  <2> DEFINE Both(b, c) == b \div 32 + ((c * 8) % 256)
  <2>5. /\ \A b \in Octet : b \div 32 \in 0 .. 7
        /\ \A c \in Octet : (c * 8) % 256 \in 0 .. 248
    <3>1. \A c \in Octet : (c * 8) % 256 = 8 * (c % 32)
      BY DEF Octet
    <3>2. \A c \in Octet : c % 32 \in 0 .. 31
      BY DEF Octet
    <3>3. \A b \in Octet : b \div 32 \in 0 .. 7
      BY DEF Octet
    <3> QED BY <3>1, <3>2, <3>3
  <2>6. \A b, c \in Octet : Both(b, c) \in Octet
    <3> TAKE b, c \in Octet
    <3> DEFINE u == b \div 32
               v == (c * 8) % 256
    <3>1. u \in 0 .. 7 /\ v \in 0 .. 248
      BY <2>5
    <3> HIDE DEF u, v
    <3>2. u + v \in Octet
      BY <3>1 DEF Octet
    <3> QED BY <3>2 DEF u, v
  <2>7. \A b \in Octet : Both(b, 0) = b \div 32
    BY DEF Octet
  <2>8. Both(0, 0) = 0
    OBVIOUS
  <2> HIDE DEF At, Both
  <2> DEFINE y == [i \in 1 .. 4 |-> Both(At(i), At(i + 1))]
  <2>9. ShiftRight(x, 13) = y
    BY <2>3 DEF Both
  <2>10. y \in Words
    BY <2>4, <2>6 DEF Words
  <2>11. /\ y[1] = Both(At(1), At(1 + 1)) /\ y[2] = Both(At(2), At(2 + 1))
         /\ y[3] = Both(At(3), At(3 + 1)) /\ y[4] = Both(At(4), At(4 + 1))
    OBVIOUS
  <2> HIDE DEF y
  <2>12. /\ y[1] = Both(x[2], x[3]) /\ y[2] = Both(x[3], x[4])
         /\ y[3] = Both(x[4], 0) /\ y[4] = Both(0, 0)
    BY <2>2, <2>11
  <2>13. x[4] \in Octet
    BY BytesOfWord
  <2>14. y[3] = x[4] \div 32 /\ y[4] = 0
    BY <2>7, <2>8, <2>12, <2>13
  <2> QED BY <2>9, <2>10, <2>12, <2>14 DEF Both
<1>3. Sinks(16)
  <2> SUFFICES ASSUME NEW x \in Words, NEW z \in Words
               PROVE  /\ ShiftRight(x, 16) \in Words
                      /\ ShiftRight(x, 16)[4] = ShiftRight(z, 16)[4]
                      /\ x[4] = z[4] => ShiftRight(x, 16)[3] = ShiftRight(z, 16)[3]
                      /\ x[4] = z[4] /\ x[3] = z[3] => ShiftRight(x, 16)[2] = ShiftRight(z, 16)[2]
                      /\ x[4] = z[4] /\ x[3] = z[3] /\ x[2] = z[2]
                           => ShiftRight(x, 16)[1] = ShiftRight(z, 16)[1]
    BY DEF Sinks
  <2>1. ShiftRight(x, 16) = <<x[3], x[4], 0, 0>> /\ ShiftRight(z, 16) = <<z[3], z[4], 0, 0>>
    BY <1>1
  <2>2. ShiftRight(x, 16) \in Words
    BY <1>1
  <2> QED BY <2>1, <2>2
<1>4. Sinks(13)
  BY <1>2 DEF Sinks
<1> QED BY <1>3, <1>4

(* x ^= x >> r tells words apart.                                          *)
LEMMA SinkingInjective ==
  ASSUME NEW r, Sinks(r), NEW x \in Words, NEW z \in Words
  PROVE  /\ ExclusiveOr(x, ShiftRight(x, r)) \in Words
         /\ ExclusiveOr(x, ShiftRight(x, r)) = ExclusiveOr(z, ShiftRight(z, r)) => x = z
<1> DEFINE s == ShiftRight(x, r)
           t == ShiftRight(z, r)
<1>1. s \in Words /\ t \in Words
  BY DEF Sinks
<1>2. /\ s[4] = t[4]
      /\ x[4] = z[4] => s[3] = t[3]
      /\ x[4] = z[4] /\ x[3] = z[3] => s[2] = t[2]
      /\ x[4] = z[4] /\ x[3] = z[3] /\ x[2] = z[2] => s[1] = t[1]
  BY DEF Sinks
<1> HIDE DEF s, t
<1>3. ExclusiveOr(x, s) \in Words
  BY <1>1, ExclusiveOrTyped
<1>4. ASSUME ExclusiveOr(x, s) = ExclusiveOr(z, t) PROVE x = z
  <2>1. \A i \in 1 .. 4 : ExclusiveOr(x, s)[i] = Differ(x[i], s[i])
    BY <1>1, ExclusiveOrTyped
  <2>2. \A i \in 1 .. 4 : ExclusiveOr(z, t)[i] = Differ(z[i], t[i])
    BY <1>1, ExclusiveOrTyped
  <2>3. \A i \in 1 .. 4 : x[i] \in Octet /\ z[i] \in Octet /\ s[i] \in Octet /\ t[i] \in Octet
    BY <1>1 DEF Words
  <2>4. ASSUME NEW i \in 1 .. 4, s[i] = t[i] PROVE x[i] = z[i]
    <3>1. Differ(x[i], s[i]) = Differ(z[i], s[i])
      BY <1>4, <2>1, <2>2, <2>4
    <3>2. Differ(s[i], x[i]) = Differ(s[i], z[i])
      BY <2>3, <3>1, DifferTyped
    <3> QED BY <2>3, <3>2, DifferTells
  <2>5. x[4] = z[4]
    BY <1>2, <2>4
  <2>6. x[3] = z[3]
    BY <1>2, <2>4, <2>5
  <2>7. x[2] = z[2]
    BY <1>2, <2>4, <2>5, <2>6
  <2>8. x[1] = z[1]
    BY <1>2, <2>4, <2>5, <2>6, <2>7
  <2> QED BY <2>5, <2>6, <2>7, <2>8, WordsEqual
<1> QED BY <1>3, <1>4 DEF s, t

(* A number is a word, with its last eight digits as the lowest byte.      *)
LEMMA WordTyped ==
  ASSUME NEW n \in Nat
  PROVE  Word(n) \in Words /\ Word(n)[1] = n % 256
<1> DEFINE d == <<n, 0, 0, 0>>
<1>1. d[1] \in Nat /\ d[2] \in Nat /\ d[3] \in Nat /\ d[4] \in Nat /\ d[1] = n
  OBVIOUS
<1>2. Word(n) = Carried(d)
  BY DEF Word
<1> HIDE DEF d
<1> QED BY <1>1, <1>2, CarriedMeans

(* The finalization of a word tells words apart.                           *)
LEMMA fmix32Injective ==
  ASSUME NEW x \in Words, NEW z \in Words
  PROVE  fmix32(x) \in Words /\ (fmix32(x) = fmix32(z) => x = z)
<1> DEFINE c == <<\h6b, \hca, \heb, \h85>>
           d == <<\h35, \hae, \hb2, \hc2>>
           A(y) == ExclusiveOr(y, ShiftRight(y, 16))
           B(y) == Times(A(y), c)
           C(y) == ExclusiveOr(B(y), ShiftRight(B(y), 13))
           D(y) == Times(C(y), d)
<1>1. c \in Words /\ d \in Words
  <2>1. /\ \h6b \in Octet /\ \hca \in Octet /\ \heb \in Octet /\ \h85 \in Octet
        /\ \h35 \in Octet /\ \hae \in Octet /\ \hb2 \in Octet /\ \hc2 \in Octet
    BY DEF Octet
  <2>2. c \in Words
    <3>1. c \in Seq(Octet) /\ Len(c) = 4
      BY <2>1
    <3> QED BY <3>1, LenProperties DEF Words
  <2>3. d \in Words
    <3>1. d \in Seq(Octet) /\ Len(d) = 4
      BY <2>1
    <3> QED BY <3>1, LenProperties DEF Words
  <2> QED BY <2>2, <2>3
<1>2. c[1] = 107 /\ d[1] = 53
  OBVIOUS
<1>3. \A y \in Words : fmix32(y) = ExclusiveOr(D(y), ShiftRight(D(y), 16))
  BY DEF fmix32
<1>4. Sinks(13) /\ Sinks(16) /\ Tells(c[1]) /\ Tells(d[1])
  BY <1>2, ShiftsSink, OddTells
<1>5. \A y, w \in Words : A(y) \in Words /\ (A(y) = A(w) => y = w)
  BY <1>4, SinkingInjective
<1> HIDE DEF A, c, d
<1>6. \A y, w \in Words : B(y) \in Words /\ (B(y) = B(w) => y = w)
  BY <1>1, <1>4, <1>5, TimesMeans, TimesInjective
<1> HIDE DEF B
<1>7. \A y, w \in Words : C(y) \in Words /\ (C(y) = C(w) => y = w)
  BY <1>4, <1>6, SinkingInjective
<1> HIDE DEF C
<1>8. \A y, w \in Words : D(y) \in Words /\ (D(y) = D(w) => y = w)
  BY <1>1, <1>4, <1>7, TimesMeans, TimesInjective
<1> HIDE DEF D
<1>9. \A y, w \in Words :
        LET E(v) == ExclusiveOr(D(v), ShiftRight(D(v), 16))
        IN  E(y) \in Words /\ (E(y) = E(w) => y = w)
  BY <1>4, <1>8, SinkingInjective
<1> QED BY <1>3, <1>9

(* A key is scrambled into its lane so that words stay apart.              *)
LEMMA LaneConstants ==
  /\ \A i \in 1 .. 4 : Factor[i] \in Words /\ Tells(Factor[i][1]) /\ Summand[i] \in Words
  /\ \A i \in 1 .. 4 : After(i) \in 1 .. 4 /\ After(i) # i
  /\ \A i \in 1 .. 4 : Turns(14 + i) /\ Turns(<<19, 17, 15, 13>>[i])
<1>1. \A i \in 1 .. 4 : i = 1 \/ i = 2 \/ i = 3 \/ i = 4
  OBVIOUS
<1>2. \A i \in 1 .. 4 : Factor[i] \in Words /\ Tells(Factor[i][1]) /\ Summand[i] \in Words
  <2>1. /\ Factor[1] = <<27, 150, 155, 35>> /\ Factor[2] = <<137, 151, 14, 171>>
        /\ Factor[3] = <<229, 74, 179, 56>> /\ Factor[4] = <<147, 139, 227, 161>>
        /\ Summand[1] = <<27, 205, 28, 86>> /\ Summand[2] = <<71, 167, 202, 11>>
        /\ Summand[3] = <<53, 28, 205, 150>> /\ Summand[4] = <<23, 59, 172, 50>>
    BY DEF Factor, Summand
  <2>2. \A w \in Seq(Octet) : Len(w) = 4 => w \in Words
    BY LenProperties DEF Words
  <2>3. /\ <<27, 150, 155, 35>> \in Seq(Octet) /\ Len(<<27, 150, 155, 35>>) = 4
        /\ <<137, 151, 14, 171>> \in Seq(Octet) /\ Len(<<137, 151, 14, 171>>) = 4
        /\ <<229, 74, 179, 56>> \in Seq(Octet) /\ Len(<<229, 74, 179, 56>>) = 4
        /\ <<147, 139, 227, 161>> \in Seq(Octet) /\ Len(<<147, 139, 227, 161>>) = 4
        /\ <<27, 205, 28, 86>> \in Seq(Octet) /\ Len(<<27, 205, 28, 86>>) = 4
        /\ <<71, 167, 202, 11>> \in Seq(Octet) /\ Len(<<71, 167, 202, 11>>) = 4
        /\ <<53, 28, 205, 150>> \in Seq(Octet) /\ Len(<<53, 28, 205, 150>>) = 4
        /\ <<23, 59, 172, 50>> \in Seq(Octet) /\ Len(<<23, 59, 172, 50>>) = 4
    BY DEF Octet
  <2>4. /\ <<27, 150, 155, 35>> \in Words
        /\ <<137, 151, 14, 171>> \in Words
        /\ <<229, 74, 179, 56>> \in Words
        /\ <<147, 139, 227, 161>> \in Words
        /\ <<27, 205, 28, 86>> \in Words
        /\ <<71, 167, 202, 11>> \in Words
        /\ <<53, 28, 205, 150>> \in Words
        /\ <<23, 59, 172, 50>> \in Words
    BY <2>2, <2>3
  <2>5. /\ Tells(Factor[1][1]) /\ Tells(Factor[2][1]) /\ Tells(Factor[3][1]) /\ Tells(Factor[4][1])
    BY <2>1, OddTells
  <2> QED BY <1>1, <2>1, <2>4, <2>5
<1>3. \A i \in 1 .. 4 : After(i) \in 1 .. 4 /\ After(i) # i
  BY DEF After
<1>4. \A i \in 1 .. 4 : Turns(14 + i)
  <2>1. 14 + 1 = 15 /\ 14 + 2 = 16 /\ 14 + 3 = 17 /\ 14 + 4 = 18
    OBVIOUS
  <2>2. Turns(14 + 1) /\ Turns(14 + 2) /\ Turns(14 + 3) /\ Turns(14 + 4)
    BY <2>1, RotationsTurn
  <2> QED BY <1>1, <2>2
<1>5. \A i \in 1 .. 4 : Turns(<<19, 17, 15, 13>>[i])
  <2> DEFINE r == <<19, 17, 15, 13>>
  <2>1. r[1] = 19 /\ r[2] = 17 /\ r[3] = 15 /\ r[4] = 13
    OBVIOUS
  <2> HIDE DEF r
  <2>2. \A i \in 1 .. 4 : Turns(r[i])
    BY <1>1, <2>1, RotationsTurn
  <2> QED BY <2>2 DEF r
<1> QED BY <1>2, <1>3, <1>4, <1>5

(* Scrambling tells words apart.                                           *)
LEMMA ScrambledInjective ==
  ASSUME NEW i \in 1 .. 4, NEW k \in Words, NEW l \in Words
  PROVE  Scrambled(k, i) \in Words /\ (Scrambled(k, i) = Scrambled(l, i) => k = l)
<1> DEFINE f == Factor[i]
           g == Factor[After(i)]
           A(w) == Times(w, f)
           B(w) == rotl32(A(w), 14 + i)
<1>1. f \in Words /\ Tells(f[1]) /\ Turns(14 + i)
  BY LaneConstants
<1>2. g \in Words /\ Tells(g[1])
  BY LaneConstants
<1>3. \A w \in Words : Scrambled(w, i) = Times(B(w), g)
  BY DEF Scrambled
<1> HIDE DEF f, g
<1>4. \A w, v \in Words : A(w) \in Words /\ (A(w) = A(v) => w = v)
  BY <1>1, TimesMeans, TimesInjective
<1> HIDE DEF A
<1>5. \A w, v \in Words : B(w) \in Words /\ (B(w) = B(v) => w = v)
  BY <1>1, <1>4 DEF Turns
<1> HIDE DEF B
<1>6. \A w, v \in Words : Times(B(w), g) \in Words /\ (Times(B(w), g) = Times(B(v), g) => w = v)
  BY <1>2, <1>5, TimesMeans, TimesInjective
<1> QED BY <1>3, <1>6

Blocks == [1 .. 16 -> Octet]

(* The words of a block are words, and tell blocks apart.                  *)
LEMMA WordAtTyped ==
  ASSUME NEW b \in Blocks, NEW c \in Blocks
  PROVE  /\ \A i \in 1 .. 4 : WordAt(b, i) \in Words
         /\ (\A i \in 1 .. 4 : WordAt(b, i) = WordAt(c, i)) => b = c
<1>1. \A i, j \in 1 .. 4 : 4 * (i - 1) + j \in 1 .. 16
  OBVIOUS
<1>2. \A i \in 1 .. 4 : WordAt(b, i) \in Words
  BY <1>1 DEF WordAt, Words, Blocks
<1>3. ASSUME \A i \in 1 .. 4 : WordAt(b, i) = WordAt(c, i) PROVE b = c
  <2>1. \A i, j \in 1 .. 4 : b[4 * (i - 1) + j] = c[4 * (i - 1) + j]
    <3> TAKE i, j \in 1 .. 4
    <3>1. WordAt(b, i)[j] = WordAt(c, i)[j]
      BY <1>3
    <3> QED BY <3>1 DEF WordAt
  <2>2. ASSUME NEW n \in 1 .. 16 PROVE b[n] = c[n]
    <3>1. \E i, j \in 1 .. 4 : n = 4 * (i - 1) + j
      <4> DEFINE i == ((n - 1) \div 4) + 1
                 j == ((n - 1) % 4) + 1
      <4>1. i \in 1 .. 4 /\ j \in 1 .. 4 /\ n = 4 * (i - 1) + j
        OBVIOUS
      <4> QED BY <4>1
    <3> QED BY <2>1, <3>1
  <2> QED BY <2>2 DEF Blocks
<1> QED BY <1>2, <1>3

(* A word goes into its own lane only.                                     *)
LEMMA AbsorbMeans ==
  ASSUME NEW h \in Lanes, NEW b \in Blocks, NEW i \in 1 .. 4
  PROVE  /\ Absorb(h, b, i) \in Lanes
         /\ Absorb(h, b, i)[i] = ExclusiveOr(h[i], Scrambled(WordAt(b, i), i))
         /\ \A j \in 1 .. 4 : j # i => Absorb(h, b, i)[j] = h[j]
<1>1. h[i] \in Words
  BY DEF Lanes
<1>2. Scrambled(WordAt(b, i), i) \in Words
  BY WordAtTyped, ScrambledInjective
<1> DEFINE w == ExclusiveOr(h[i], Scrambled(WordAt(b, i), i))
<1>3. w \in Words
  BY <1>1, <1>2, ExclusiveOrTyped
<1>4. Absorb(h, b, i) = [h EXCEPT ![i] = w]
  BY DEF Absorb
<1> HIDE DEF w
<1>5. /\ Absorb(h, b, i) \in Lanes /\ Absorb(h, b, i)[i] = w
      /\ \A j \in 1 .. 4 : j # i => Absorb(h, b, i)[j] = h[j]
  BY <1>3, <1>4 DEF Lanes
<1> QED BY <1>5 DEF w

(* Stirring changes the lane it is for.                                    *)
LEMMA StirMeans ==
  ASSUME NEW h \in Lanes, NEW i \in 1 .. 4
  PROVE  /\ Stir(h, i) \in Lanes
         /\ \A j \in 1 .. 4 : j # i => Stir(h, i)[j] = h[j]
<1>1. h[i] \in Words /\ h[After(i)] \in Words
  BY LaneConstants DEF Lanes
<1> DEFINE r == <<19, 17, 15, 13>>[i]
           a == rotl32(h[i], r)
           b == Plus(a, h[After(i)])
           c == Times(b, Word(5))
           w == Plus(c, Summand[i])
<1>2. Turns(r)
  BY LaneConstants
<1> HIDE DEF r
<1>3. a \in Words
  BY <1>1, <1>2 DEF Turns
<1> HIDE DEF a
<1>4. b \in Words
  BY <1>1, <1>3, PlusMeans
<1> HIDE DEF b
<1>5. c \in Words
  BY <1>4, WordTyped, TimesMeans
<1> HIDE DEF c
<1>6. w \in Words
  BY <1>5, LaneConstants, PlusMeans
<1>7. Stir(h, i) = [h EXCEPT ![i] = w]
  BY DEF Stir, a, b, c, r
<1> HIDE DEF w
<1> QED BY <1>6, <1>7 DEF Lanes

(* Stirred lanes tell lanes apart.                                         *)
LEMMA StirInjective ==
  ASSUME NEW h \in Lanes, NEW g \in Lanes, NEW i \in 1 .. 4,
         \A j \in 1 .. 4 : j # i => h[j] = g[j],
         Stir(h, i)[i] = Stir(g, i)[i]
  PROVE  h = g
<1>1. h[i] \in Words /\ g[i] \in Words /\ h[After(i)] \in Words /\ h[After(i)] = g[After(i)]
  BY LaneConstants DEF Lanes
<1> DEFINE r == <<19, 17, 15, 13>>[i]
           n == h[After(i)]
           A(w) == rotl32(w, r)
           B(w) == Plus(A(w), n)
           C(w) == Times(B(w), Word(5))
           D(w) == Plus(C(w), Summand[i])
<1>2. Turns(r)
  BY LaneConstants
<1>3. Stir(h, i)[i] = D(h[i]) /\ Stir(g, i)[i] = D(g[i])
  BY <1>1 DEF Stir, Lanes
<1>4. n \in Words
  BY <1>1
<1> HIDE DEF r, n
<1>5. \A w, v \in Words : A(w) \in Words /\ (A(w) = A(v) => w = v)
  BY <1>2 DEF Turns
<1> HIDE DEF A
<1>6. \A w, v \in Words : B(w) \in Words /\ (B(w) = B(v) => w = v)
  BY <1>4, <1>5, PlusMeans, PlusInjective
<1> HIDE DEF B
<1>7. Word(5) \in Words /\ Tells(Word(5)[1])
  <2>1. 5 \in Nat /\ 5 % 256 = 5
    OBVIOUS
  <2> QED BY <2>1, WordTyped, OddTells
<1>8. \A w, v \in Words : C(w) \in Words /\ (C(w) = C(v) => w = v)
  BY <1>6, <1>7, TimesMeans, TimesInjective
<1> HIDE DEF C
<1>9. Summand[i] \in Words
  BY LaneConstants
<1>10. \A w, v \in Words : D(w) = D(v) => w = v
  BY <1>8, <1>9, PlusInjective
<1> HIDE DEF D
<1>11. h[i] = g[i]
  BY <1>1, <1>3, <1>10
<1> QED BY <1>11 DEF Lanes

(* A round changes its own lane only, and tells lanes and keys apart.      *)
LEMMA RoundMeans ==
  ASSUME NEW h \in Lanes, NEW b \in Blocks, NEW i \in 1 .. 4
  PROVE  /\ Round(h, b, i) \in Lanes
         /\ \A j \in 1 .. 4 : j # i => Round(h, b, i)[j] = h[j]
<1> DEFINE a == Absorb(h, b, i)
<1>1. a \in Lanes /\ \A j \in 1 .. 4 : j # i => a[j] = h[j]
  BY AbsorbMeans
<1>2. Round(h, b, i) = Stir(a, i)
  BY DEF Round
<1> HIDE DEF a
<1> QED BY <1>1, <1>2, StirMeans

(* What a word went into is told apart, and the word.                      *)
LEMMA AbsorbInjective ==
  ASSUME NEW h \in Lanes, NEW g \in Lanes, NEW b \in Blocks, NEW c \in Blocks, NEW i \in 1 .. 4,
         Absorb(h, b, i) = Absorb(g, c, i)
  PROVE  /\ WordAt(b, i) = WordAt(c, i) => h = g
         /\ h = g => WordAt(b, i) = WordAt(c, i)
<1> DEFINE s == Scrambled(WordAt(b, i), i)
           t == Scrambled(WordAt(c, i), i)
<1>1. s \in Words /\ t \in Words /\ (s = t => WordAt(b, i) = WordAt(c, i))
  BY WordAtTyped, ScrambledInjective
<1>2. h[i] \in Words /\ g[i] \in Words
  BY DEF Lanes
<1> DEFINE a == Absorb(h, b, i)
           d == Absorb(g, c, i)
<1>3. a[i] = ExclusiveOr(h[i], s) /\ \A j \in 1 .. 4 : j # i => a[j] = h[j]
  BY AbsorbMeans
<1>4. d[i] = ExclusiveOr(g[i], t) /\ \A j \in 1 .. 4 : j # i => d[j] = g[j]
  BY AbsorbMeans
<1>5. a = d
  OBVIOUS
<1> HIDE DEF a, d
<1>6. ExclusiveOr(h[i], s) = ExclusiveOr(g[i], t)
  BY <1>3, <1>4, <1>5
<1>7. \A j \in 1 .. 4 : j # i => h[j] = g[j]
  BY <1>3, <1>4, <1>5
<1>8. ASSUME WordAt(b, i) = WordAt(c, i) PROVE h = g
  <2>1. s = t
    BY <1>8
  <2> HIDE DEF s, t
  <2>2. h[i] = g[i]
    BY <1>1, <1>2, <1>6, <2>1, ExclusiveOrInjective
  <2> QED BY <1>7, <2>2 DEF Lanes
<1>9. ASSUME h = g PROVE WordAt(b, i) = WordAt(c, i)
  <2> HIDE DEF s, t
  <2>1. s = t
    BY <1>1, <1>2, <1>6, <1>9, ExclusiveOrInjective
  <2> QED BY <1>1, <2>1
<1> QED BY <1>8, <1>9

(* A lane after its round tells what it was and the word that went in.     *)
LEMMA RoundInjective ==
  ASSUME NEW h \in Lanes, NEW g \in Lanes, NEW b \in Blocks, NEW c \in Blocks, NEW i \in 1 .. 4,
         \A j \in 1 .. 4 : j # i => h[j] = g[j],
         Round(h, b, i)[i] = Round(g, c, i)[i]
  PROVE  /\ WordAt(b, i) = WordAt(c, i) => h = g
         /\ h = g => WordAt(b, i) = WordAt(c, i)
<1> DEFINE a == Absorb(h, b, i)
           d == Absorb(g, c, i)
<1>1. /\ a \in Lanes /\ \A j \in 1 .. 4 : j # i => a[j] = h[j]
      /\ d \in Lanes /\ \A j \in 1 .. 4 : j # i => d[j] = g[j]
  BY AbsorbMeans
<1>2. Stir(a, i)[i] = Stir(d, i)[i]
  BY DEF Round
<1>3. a = d
  <2> HIDE DEF a, d
  <2>1. \A j \in 1 .. 4 : j # i => a[j] = d[j]
    BY <1>1
  <2> QED BY <1>1, <1>2, <2>1, StirInjective
<1> QED BY <1>3, AbsorbInjective

(* Four rounds tell lanes apart that a block goes into, and blocks apart   *)
(* that go into the same lanes.                                            *)
LEMMA BodyBlockInjective ==
  ASSUME NEW h \in Lanes, NEW g \in Lanes, NEW b \in Blocks, NEW c \in Blocks
  PROVE  /\ BodyBlock(h, b) \in Lanes
         /\ BodyBlock(h, b) = BodyBlock(g, b) => h = g
         /\ BodyBlock(h, b) = BodyBlock(h, c) => b = c
<1> DEFINE A(x, d) == Round(x, d, 1)
           B(x, d) == Round(A(x, d), d, 2)
           C(x, d) == Round(B(x, d), d, 3)
           D(x, d) == Round(C(x, d), d, 4)
<1>1. \A x \in Lanes, d \in Blocks : BodyBlock(x, d) = D(x, d)
  BY DEF BodyBlock
<1>2. \A x \in Lanes, d \in Blocks :
        /\ A(x, d) \in Lanes /\ A(x, d)[2] = x[2] /\ A(x, d)[3] = x[3] /\ A(x, d)[4] = x[4]
  BY RoundMeans
<1>3. \A x \in Lanes, d \in Blocks :
        /\ B(x, d) \in Lanes
        /\ B(x, d)[1] = A(x, d)[1] /\ B(x, d)[3] = A(x, d)[3] /\ B(x, d)[4] = A(x, d)[4]
  <2> HIDE DEF A
  <2> QED BY <1>2, RoundMeans
<1>4. \A x \in Lanes, d \in Blocks :
        /\ C(x, d) \in Lanes
        /\ C(x, d)[1] = B(x, d)[1] /\ C(x, d)[2] = B(x, d)[2] /\ C(x, d)[4] = B(x, d)[4]
  <2> HIDE DEF B
  <2> QED BY <1>3, RoundMeans
<1>5. \A x \in Lanes, d \in Blocks :
        /\ D(x, d) \in Lanes
        /\ D(x, d)[1] = C(x, d)[1] /\ D(x, d)[2] = C(x, d)[2] /\ D(x, d)[3] = C(x, d)[3]
  <2> HIDE DEF C
  <2> QED BY <1>4, RoundMeans
<1>6. ASSUME NEW x \in Lanes, NEW y \in Lanes, NEW d \in Blocks, NEW i \in 1 .. 4,
             Round(x, d, i) = Round(y, d, i)
      PROVE  x = y
  <2>1. \A j \in 1 .. 4 : j # i => x[j] = y[j]
    <3>1. \A j \in 1 .. 4 : j # i => Round(x, d, i)[j] = x[j]
      BY RoundMeans
    <3>2. \A j \in 1 .. 4 : j # i => Round(y, d, i)[j] = y[j]
      BY RoundMeans
    <3> QED BY <1>6, <3>1, <3>2
  <2>2. Round(x, d, i)[i] = Round(y, d, i)[i]
    BY <1>6
  <2> QED BY <2>1, <2>2, RoundInjective
<1>7. ASSUME BodyBlock(h, b) = BodyBlock(g, b) PROVE h = g
  <2>1. D(h, b) = D(g, b)
    BY <1>1, <1>7
  <2>2. C(h, b) = C(g, b)
    <3> HIDE DEF C
    <3> QED BY <1>4, <1>6, <2>1
  <2>3. B(h, b) = B(g, b)
    <3> HIDE DEF B
    <3> QED BY <1>3, <1>6, <2>2
  <2>4. A(h, b) = A(g, b)
    <3> HIDE DEF A
    <3> QED BY <1>2, <1>6, <2>3
  <2> QED BY <1>6, <2>4
<1>8. ASSUME NEW x \in Lanes, NEW i \in 1 .. 4, Round(x, b, i)[i] = Round(x, c, i)[i]
      PROVE  Round(x, b, i) = Round(x, c, i) /\ WordAt(b, i) = WordAt(c, i)
  <2>1. WordAt(b, i) = WordAt(c, i)
    BY <1>8, RoundInjective
  <2>2. Absorb(x, b, i) = Absorb(x, c, i)
    BY <2>1 DEF Absorb
  <2> QED BY <2>1, <2>2 DEF Round
<1>9. ASSUME BodyBlock(h, b) = BodyBlock(h, c) PROVE b = c
  <2>1. D(h, b) = D(h, c)
    BY <1>1, <1>9
  <2> HIDE DEF D
  <2>2. C(h, b)[1] = C(h, c)[1] /\ C(h, b)[2] = C(h, c)[2] /\ C(h, b)[3] = C(h, c)[3]
    BY <1>5, <2>1
  <2> HIDE DEF C
  <2>3. B(h, b)[1] = B(h, c)[1] /\ B(h, b)[2] = B(h, c)[2]
    BY <1>4, <2>2
  <2> HIDE DEF B
  <2>4. A(h, b)[1] = A(h, c)[1]
    BY <1>3, <2>3
  <2>5. A(h, b) = A(h, c) /\ WordAt(b, 1) = WordAt(c, 1)
    BY <1>8, <2>4
  <2>6. B(h, b) = B(h, c) /\ WordAt(b, 2) = WordAt(c, 2)
    <3>1. Round(A(h, b), b, 2)[2] = Round(A(h, b), c, 2)[2]
      BY <2>3, <2>5 DEF B
    <3>2. A(h, b) \in Lanes
      BY <1>2
    <3> DEFINE x == A(h, b)
    <3> HIDE DEF A, x
    <3>3. Round(x, b, 2) = Round(x, c, 2) /\ WordAt(b, 2) = WordAt(c, 2)
      BY <1>8, <3>1, <3>2 DEF x
    <3> QED BY <2>5, <3>3 DEF B, x
  <2>7. C(h, b) = C(h, c) /\ WordAt(b, 3) = WordAt(c, 3)
    <3>1. Round(B(h, b), b, 3)[3] = Round(B(h, b), c, 3)[3]
      BY <2>2, <2>6 DEF C
    <3>2. B(h, b) \in Lanes
      BY <1>3
    <3> DEFINE x == B(h, b)
    <3> HIDE DEF x
    <3>3. Round(x, b, 3) = Round(x, c, 3) /\ WordAt(b, 3) = WordAt(c, 3)
      BY <1>8, <3>1, <3>2 DEF x
    <3> QED BY <2>6, <3>3 DEF C, x
  <2>8. WordAt(b, 4) = WordAt(c, 4)
    <3>1. Round(C(h, b), b, 4)[4] = Round(C(h, b), c, 4)[4]
      BY <2>1, <2>7 DEF D
    <3>2. C(h, b) \in Lanes
      BY <1>4
    <3> DEFINE x == C(h, b)
    <3> HIDE DEF x
    <3>3. WordAt(b, 4) = WordAt(c, 4)
      BY <1>8, <3>1, <3>2 DEF x
    <3> QED BY <3>3
  <2>9. \A i \in 1 .. 4 : WordAt(b, i) = WordAt(c, i)
    <3>1. \A i \in 1 .. 4 : i = 1 \/ i = 2 \/ i = 3 \/ i = 4
      OBVIOUS
    <3> QED BY <2>5, <2>6, <2>7, <2>8, <3>1
  <2> QED BY <2>9, WordAtTyped
<1>10. BodyBlock(h, b) \in Lanes
  <2> HIDE DEF D
  <2> QED BY <1>1, <1>5
<1> QED BY <1>7, <1>9, <1>10

(* The tail too.                                                           *)
LEMMA TailedInjective ==
  ASSUME NEW h \in Lanes, NEW g \in Lanes, NEW b \in Blocks, NEW c \in Blocks
  PROVE  /\ Tailed(h, b) \in Lanes
         /\ Tailed(h, b) = Tailed(g, b) => h = g
         /\ Tailed(h, b) = Tailed(h, c) => b = c
<1> DEFINE A(x, d) == Absorb(x, d, 4)
           B(x, d) == Absorb(A(x, d), d, 3)
           C(x, d) == Absorb(B(x, d), d, 2)
           D(x, d) == Absorb(C(x, d), d, 1)
           E(x, d, i) == ExclusiveOr(x[i], Scrambled(WordAt(d, i), i))
<1>1. \A x \in Lanes, d \in Blocks : Tailed(x, d) = D(x, d)
  BY DEF Tailed
<1>2. ASSUME NEW x \in Lanes, NEW d \in Blocks
      PROVE  D(x, d) \in Lanes /\ \A i \in 1 .. 4 : D(x, d)[i] = E(x, d, i)
  <2> HIDE DEF E
  <2>1. /\ A(x, d) \in Lanes /\ A(x, d)[4] = E(x, d, 4)
        /\ \A j \in 1 .. 4 : j # 4 => A(x, d)[j] = x[j]
    BY AbsorbMeans DEF E
  <2> HIDE DEF A
  <2>2. /\ B(x, d) \in Lanes /\ B(x, d)[3] = E(x, d, 3) /\ B(x, d)[4] = E(x, d, 4)
        /\ B(x, d)[1] = x[1] /\ B(x, d)[2] = x[2]
    BY <2>1, AbsorbMeans DEF E
  <2> HIDE DEF B
  <2>3. /\ C(x, d) \in Lanes /\ C(x, d)[2] = E(x, d, 2) /\ C(x, d)[3] = E(x, d, 3)
        /\ C(x, d)[4] = E(x, d, 4) /\ C(x, d)[1] = x[1]
    BY <2>2, AbsorbMeans DEF E
  <2> HIDE DEF C
  <2>4. /\ D(x, d) \in Lanes /\ D(x, d)[1] = E(x, d, 1) /\ D(x, d)[2] = E(x, d, 2)
        /\ D(x, d)[3] = E(x, d, 3) /\ D(x, d)[4] = E(x, d, 4)
    BY <2>3, AbsorbMeans DEF E
  <2> HIDE DEF D
  <2>5. \A i \in 1 .. 4 : i = 1 \/ i = 2 \/ i = 3 \/ i = 4
    OBVIOUS
  <2> QED BY <2>4, <2>5
<1> HIDE DEF D
<1>3. ASSUME Tailed(h, b) = Tailed(g, b) PROVE h = g
  <2>1. \A i \in 1 .. 4 : E(h, b, i) = E(g, b, i)
    <3> HIDE DEF E
    <3> QED BY <1>1, <1>2, <1>3
  <2>2. \A i \in 1 .. 4 : h[i] \in Words /\ g[i] \in Words /\ Scrambled(WordAt(b, i), i) \in Words
    BY WordAtTyped, ScrambledInjective DEF Lanes
  <2>3. \A i \in 1 .. 4 : h[i] = g[i]
    BY <2>1, <2>2, ExclusiveOrInjective
  <2> QED BY <2>3 DEF Lanes
<1>4. ASSUME Tailed(h, b) = Tailed(h, c) PROVE b = c
  <2>1. \A i \in 1 .. 4 : E(h, b, i) = E(h, c, i)
    <3> HIDE DEF E
    <3> QED BY <1>1, <1>2, <1>4
  <2>2. \A i \in 1 .. 4 :
          /\ h[i] \in Words
          /\ WordAt(b, i) \in Words /\ WordAt(c, i) \in Words
          /\ Scrambled(WordAt(b, i), i) \in Words /\ Scrambled(WordAt(c, i), i) \in Words
    BY WordAtTyped, ScrambledInjective DEF Lanes
  <2>3. \A i \in 1 .. 4 : Scrambled(WordAt(b, i), i) = Scrambled(WordAt(c, i), i)
    BY <2>1, <2>2, ExclusiveOrInjective
  <2>4. \A i \in 1 .. 4 : WordAt(b, i) = WordAt(c, i)
    BY <2>2, <2>3, ScrambledInjective
  <2> QED BY <2>4, WordAtTyped
<1> QED BY <1>1, <1>2, <1>3, <1>4

(* Adding the lanes up loses nothing.                                      *)
LEMMA SummedInjective ==
  ASSUME NEW h \in Lanes, NEW g \in Lanes
  PROVE  Summed(h) \in Lanes /\ (Summed(h) = Summed(g) => h = g)
<1> DEFINE S(x) == Plus(Plus(Plus(x[1], x[2]), x[3]), x[4])
           F(x) == [i \in 1 .. 4 |-> IF i = 1 THEN S(x) ELSE Plus(x[i], S(x))]
<1>1. Summed(h) = F(h) /\ Summed(g) = F(g)
  BY DEF Summed
<1>2. \A x \in Lanes : x[1] \in Words /\ x[2] \in Words /\ x[3] \in Words /\ x[4] \in Words
  BY DEF Lanes
<1>3. \A x \in Lanes : /\ Plus(x[1], x[2]) \in Words /\ Plus(Plus(x[1], x[2]), x[3]) \in Words
                       /\ S(x) \in Words
  <2> TAKE x \in Lanes
  <2>1. Plus(x[1], x[2]) \in Words
    BY <1>2, PlusMeans
  <2>2. Plus(Plus(x[1], x[2]), x[3]) \in Words
    BY <1>2, <2>1, PlusMeans
  <2>3. S(x) \in Words
    BY <1>2, <2>2, PlusMeans
  <2> QED BY <2>1, <2>2, <2>3
<1>4. F(h) \in Lanes
  <2> HIDE DEF S
  <2>1. S(h) \in Words /\ \A i \in 1 .. 4 : h[i] \in Words
    BY <1>3 DEF Lanes
  <2>2. \A i \in 1 .. 4 : Plus(h[i], S(h)) \in Words
    BY <2>1, PlusMeans
  <2> QED BY <2>1, <2>2 DEF Lanes
<1>5. ASSUME F(h) = F(g) PROVE h = g
  <2>1. S(h) = S(g)
    <3> HIDE DEF S
    <3>1. F(h)[1] = F(g)[1]
      BY <1>5
    <3> QED BY <3>1
  <2>2. ASSUME NEW i \in 2 .. 4 PROVE h[i] = g[i]
    <3> HIDE DEF S
    <3>1. F(h)[i] = F(g)[i]
      BY <1>5
    <3>2. Plus(h[i], S(h)) = Plus(g[i], S(h))
      BY <2>1, <3>1
    <3>3. h[i] \in Words /\ g[i] \in Words /\ S(h) \in Words
      BY <1>3 DEF Lanes
    <3> QED BY <3>2, <3>3, PlusInjective
  <2>3. h[2] = g[2] /\ h[3] = g[3] /\ h[4] = g[4]
    BY <2>2
  <2>4. Plus(Plus(h[1], h[2]), h[3]) = Plus(Plus(g[1], g[2]), g[3])
    <3> DEFINE u == Plus(Plus(h[1], h[2]), h[3])
               v == Plus(Plus(g[1], g[2]), g[3])
    <3>1. Plus(u, h[4]) = Plus(v, h[4])
      BY <2>1, <2>3
    <3>2. u \in Words /\ v \in Words /\ h[4] \in Words
      BY <1>2, <1>3
    <3> HIDE DEF u, v
    <3>3. u = v
      BY <3>1, <3>2, PlusInjective
    <3> QED BY <3>3 DEF u, v
  <2>5. Plus(h[1], h[2]) = Plus(g[1], g[2])
    <3> DEFINE u == Plus(h[1], h[2])
               v == Plus(g[1], g[2])
    <3>1. Plus(u, h[3]) = Plus(v, h[3])
      BY <2>3, <2>4
    <3>2. u \in Words /\ v \in Words /\ h[3] \in Words
      BY <1>2, <1>3
    <3> HIDE DEF u, v
    <3>3. u = v
      BY <3>1, <3>2, PlusInjective
    <3> QED BY <3>3 DEF u, v
  <2>6. h[1] = g[1]
    BY <1>2, <2>3, <2>5, PlusInjective
  <2>7. \A i \in 1 .. 4 : i = 1 \/ i = 2 \/ i = 3 \/ i = 4
    OBVIOUS
  <2>8. \A i \in 1 .. 4 : h[i] = g[i]
    BY <2>3, <2>6, <2>7
  <2> QED BY <2>8 DEF Lanes
<1> HIDE DEF F
<1> QED BY <1>1, <1>4, <1>5

(* Finalization tells lanes apart.                                         *)
LEMMA FinalizedInjective ==
  ASSUME NEW h \in Lanes, NEW g \in Lanes, NEW n \in Nat
  PROVE  Finalized(h, n) \in Lanes /\ (Finalized(h, n) = Finalized(g, n) => h = g)
<1> DEFINE A(x) == [i \in 1 .. 4 |-> ExclusiveOr(x[i], Word(n))]
           B(x) == Summed(A(x))
           C(x) == [i \in 1 .. 4 |-> fmix32(B(x)[i])]
<1>1. \A x : Finalized(x, n) = Summed(C(x))
  BY DEF Finalized
<1>2. ASSUME NEW x \in Lanes, NEW y \in Lanes
      PROVE  A(x) \in Lanes /\ (A(x) = A(y) => x = y)
  <2>1. Word(n) \in Words /\ \A i \in 1 .. 4 : x[i] \in Words /\ y[i] \in Words
    BY WordTyped DEF Lanes
  <2>2. A(x) \in Lanes
    BY <2>1, ExclusiveOrTyped DEF Lanes
  <2>3. ASSUME A(x) = A(y) PROVE x = y
    <3>1. ASSUME NEW i \in 1 .. 4 PROVE x[i] = y[i]
      <4>1. A(x)[i] = A(y)[i]
        BY <2>3
      <4>2. ExclusiveOr(x[i], Word(n)) = ExclusiveOr(y[i], Word(n))
        BY <4>1
      <4> QED BY <2>1, <4>2, ExclusiveOrInjective
    <3> QED BY <3>1 DEF Lanes
  <2> QED BY <2>2, <2>3
<1> HIDE DEF A
<1>3. \A x, y \in Lanes : B(x) \in Lanes /\ (B(x) = B(y) => x = y)
  BY <1>2, SummedInjective
<1> HIDE DEF B
<1>4. ASSUME NEW x \in Lanes, NEW y \in Lanes
      PROVE  C(x) \in Lanes /\ (C(x) = C(y) => x = y)
  <2>1. \A i \in 1 .. 4 : B(x)[i] \in Words /\ B(y)[i] \in Words
    BY <1>3 DEF Lanes
  <2>2. C(x) \in Lanes
    BY <2>1, fmix32Injective DEF Lanes
  <2>3. ASSUME C(x) = C(y) PROVE x = y
    <3>1. ASSUME NEW i \in 1 .. 4 PROVE B(x)[i] = B(y)[i]
      <4>1. C(x)[i] = C(y)[i]
        BY <2>3
      <4>2. fmix32(B(x)[i]) = fmix32(B(y)[i])
        BY <4>1
      <4> QED BY <2>1, <4>2, fmix32Injective
    <3>2. B(x) = B(y)
      BY <1>3, <3>1 DEF Lanes
    <3> QED BY <1>3, <3>2
  <2> QED BY <2>2, <2>3
<1> HIDE DEF C
<1> QED BY <1>1, <1>4, SummedInjective

(* One digit of a hash for each half of a byte.                            *)
LEMMA DigitsTell ==
  ASSUME NEW x \in Octet, NEW y \in Octet,
         LowerHexDigit(x \div 16) = LowerHexDigit(y \div 16),
         LowerHexDigit(x % 16) = LowerHexDigit(y % 16)
  PROVE  x = y
<1>1. \A n, m \in 0 .. 15 : LowerHexDigit(n) = LowerHexDigit(m) => n = m
  BY DEF LowerHexDigit
<1>2. \A n \in Octet : n \div 16 \in 0 .. 15 /\ n % 16 \in 0 .. 15 /\ n = 16 * (n \div 16) + (n % 16)
  BY DEF Octet
<1>3. x \div 16 = y \div 16 /\ x % 16 = y % 16
  BY <1>1, <1>2
<1> QED BY <1>2, <1>3

HexText(h) ==
  [p \in 1 .. 32 |->
    LowerHexDigit(IF p % 2 = 1 THEN h[(p - 1) \div 8 + 1][4 - (((p - 1) \div 2) % 4)] \div 16
                  ELSE h[(p - 1) \div 8 + 1][4 - (((p - 1) \div 2) % 4)] % 16)]

(* The text of a hash tells lanes apart.                                   *)
LEMMA HexTextInjective ==
  ASSUME NEW h \in Lanes, NEW g \in Lanes, HexText(h) = HexText(g)
  PROVE  h = g
<1>1. ASSUME NEW i \in 1 .. 4, NEW j \in 1 .. 4 PROVE h[i][j] = g[i][j]
  <2> DEFINE p == 8 * (i - 1) + 2 * (4 - j) + 1
             q == p + 1
  <2>1. /\ p \in 1 .. 32 /\ p % 2 = 1
        /\ (p - 1) \div 8 + 1 = i /\ 4 - (((p - 1) \div 2) % 4) = j
    OBVIOUS
  <2>2. /\ q \in 1 .. 32 /\ q % 2 # 1
        /\ (q - 1) \div 8 + 1 = i /\ 4 - (((q - 1) \div 2) % 4) = j
    OBVIOUS
  <2> HIDE DEF p, q
  <2>3. HexText(h)[p] = HexText(g)[p] /\ HexText(h)[q] = HexText(g)[q]
    OBVIOUS
  <2>4. ASSUME NEW x \in {h, g}
        PROVE  /\ HexText(x)[p] = LowerHexDigit(x[i][j] \div 16)
               /\ HexText(x)[q] = LowerHexDigit(x[i][j] % 16)
    BY <2>1, <2>2 DEF HexText
  <2>5. h[i][j] \in Octet /\ g[i][j] \in Octet
    BY DEF Lanes, Words
  <2> DEFINE u == h[i][j]
             v == g[i][j]
  <2>6. /\ LowerHexDigit(u \div 16) = LowerHexDigit(v \div 16)
        /\ LowerHexDigit(u % 16) = LowerHexDigit(v % 16)
    BY <2>3, <2>4
  <2>7. u \in Octet /\ v \in Octet
    BY <2>5
  <2> HIDE DEF u, v
  <2>8. u = v
    BY <2>6, <2>7, DigitsTell
  <2> QED BY <2>8 DEF u, v
<1>2. ASSUME NEW i \in 1 .. 4 PROVE h[i] = g[i]
  BY <1>1 DEF Lanes, Words
<1> QED BY <1>2 DEF Lanes

(* What strlen finds.                                                      *)
LEMMA CStringMeans ==
  ASSUME NEW s \in Seq(Byte)
  PROVE  /\ CString(s) \in Seq(Byte) /\ Len(CString(s)) <= Len(s)
         /\ \A i \in 1 .. Len(CString(s)) : CString(s)[i] = s[i]
<1> DEFINE Ends(n) == /\ \A i \in 1 .. n : s[i] # 0
                      /\ n < Len(s) => s[n + 1] = 0
           stops == {n \in 0 .. Len(s) : n < Len(s) => s[n + 1] = 0}
<1>1. Len(s) \in Nat /\ Len(s) \in stops
  OBVIOUS
<1>2. PICK m \in stops : \A k \in stops : m <= k
  <2>1. stops \in SUBSET Nat /\ stops # {}
    BY <1>1
  <2> HIDE DEF stops
  <2> QED BY <2>1, LeastOf
<1>3. Ends(m) /\ m \in 0 .. Len(s)
  <2>1. ASSUME NEW i \in 1 .. m PROVE s[i] # 0
    <3>1. i - 1 \in 0 .. Len(s) /\ i - 1 < Len(s) /\ i - 1 + 1 = i
      BY <1>1, <1>2
    <3>2. i - 1 \notin stops
      <4>1. ~(m <= i - 1)
        BY <1>1, <1>2
      <4> HIDE DEF stops
      <4> QED BY <1>2, <4>1
    <3> QED BY <3>1, <3>2
  <2> QED BY <1>2, <2>1
<1> DEFINE n == CHOOSE k \in 0 .. Len(s) : Ends(k)
<1>4. n \in 0 .. Len(s)
  <2> HIDE DEF Ends
  <2> QED BY <1>3
<1>5. CString(s) = SubSeq(s, 1, n)
  BY DEF CString
<1> HIDE DEF n
<1>6. SubSeq(s, 1, n) \in Seq(Byte) /\ Len(SubSeq(s, 1, n)) = n
  <2>1. \A k \in 1 .. n : s[k] \in Byte
    BY <1>1, <1>4
  <2>2. n \in Nat /\ 1 \in Nat /\ (IF 1 <= n THEN n - 1 + 1 ELSE 0) = n
    BY <1>1, <1>4
  <2>3. \A k \in 1 .. n : k \in 1 .. Len(s)
    BY <1>1, <1>4
  <2> QED BY <1>4, <2>1, <2>2, <2>3, SubSeqProperties
<1>7. \A i \in 1 .. n : SubSeq(s, 1, n)[i] = s[i]
  BY <1>1, <1>4
<1> QED BY <1>1, <1>4, <1>5, <1>6, <1>7

BlocksOf(key) == Len(key) \div 16

(* The blocks and the tail of a text are bytes.                            *)
LEMMA BlocksTyped ==
  ASSUME NEW k \in Seq(Byte)
  PROVE  /\ BlocksOf(k) \in Nat /\ 16 * BlocksOf(k) <= Len(k) /\ Len(k) < 16 * BlocksOf(k) + 16
         /\ \A n \in 1 .. BlocksOf(k) : Block(k, n) \in Blocks
         /\ TailOf(k) \in Blocks
<1>1. BlocksOf(k) \in Nat /\ 16 * BlocksOf(k) <= Len(k) /\ Len(k) < 16 * BlocksOf(k) + 16
  <2>1. Len(k) \in Nat
    OBVIOUS
  <2>2. \A n \in Nat : n \div 16 \in Nat /\ 16 * (n \div 16) <= n /\ n < 16 * (n \div 16) + 16
    OBVIOUS
  <2> QED BY <2>1, <2>2 DEF BlocksOf
<1>2. \A j \in 1 .. Len(k) : k[j] \in Octet
  <2>1. \A j \in 1 .. Len(k) : k[j] \in Byte
    OBVIOUS
  <2> QED BY <2>1 DEF Byte, Octet
<1>3. ASSUME NEW n \in 1 .. BlocksOf(k) PROVE Block(k, n) \in Blocks
  <2>1. \A j \in 1 .. 16 : 16 * (n - 1) + j \in 1 .. Len(k)
    BY <1>1
  <2>2. \A j \in 1 .. 16 : k[16 * (n - 1) + j] \in Octet
    BY <1>2, <2>1
  <2> QED BY <2>2 DEF Block, Blocks
<1>4. TailOf(k) \in Blocks
  <2> DEFINE r == 16 * BlocksOf(k)
             v(j) == IF r + j <= Len(k) THEN k[r + j] ELSE 0
  <2>1. \A j \in 1 .. 16 : r + j \in Nat \ {0}
    BY <1>1
  <2>2. TailOf(k) = [j \in 1 .. 16 |-> v(j)]
    BY DEF TailOf, BlocksOf
  <2> HIDE DEF r
  <2>3. ASSUME NEW j \in 1 .. 16 PROVE v(j) \in Octet
    <3>1. CASE r + j <= Len(k)
      <4>1. r + j \in 1 .. Len(k)
        <5>1. Len(k) \in Nat
          OBVIOUS
        <5> DEFINE m == r + j
        <5>2. m \in Nat \ {0}
          BY <2>1
        <5>3. m \in Nat \ {0} /\ m <= Len(k)
          BY <3>1, <5>2
        <5> HIDE DEF m
        <5>4. m \in 1 .. Len(k)
          BY <5>1, <5>3
        <5> QED BY <5>4 DEF m
      <4> QED BY <1>2, <3>1, <4>1
    <3>2. CASE ~(r + j <= Len(k))
      BY <3>2 DEF Octet
    <3> QED BY <3>1, <3>2
  <2> HIDE DEF v
  <2> QED BY <2>2, <2>3 DEF Blocks
<1> QED BY <1>1, <1>3, <1>4

(* The lanes after each block.                                             *)
LanesOf(f, key, seed) ==
  /\ f \in [0 .. BlocksOf(key) -> Lanes]
  /\ f[0] = [i \in 1 .. 4 |-> seed]
  /\ \A n \in 1 .. BlocksOf(key) : f[n] = BodyBlock(f[n - 1], Block(key, n))

(* The hash is made out of the lanes after the last block.                 *)
LEMMA HashMeans ==
  ASSUME NEW key \in Seq(Byte), NEW seed \in Words
  PROVE  \E f : /\ LanesOf(f, key, seed)
                /\ MurmurHash3_x86_128(key, seed)
                     = Finalized(Tailed(f[BlocksOf(key)], TailOf(key)), Len(key))
<1> DEFINE S == 0 .. BlocksOf(key)
           T == Lanes
           start == [i \in 1 .. 4 |-> seed]
           size == [n \in S |-> n]
           base == {0}
           value == [n \in base |-> start]
           rest == [n \in S \ base |-> n - 1]
           make == [n \in S \ base |-> [t \in T |-> BodyBlock(t, Block(key, n))]]
           Right(g, n) == IF n = 0 THEN start ELSE BodyBlock(g[n - 1], Block(key, n))
           Solves(g) == g = [n \in S |-> Right(g, n)]
<1>1. BlocksOf(key) \in Nat
  BY BlocksTyped
<1>2. start \in Lanes
  BY DEF Lanes
<1>3. \A n \in S \ base : n \in 1 .. BlocksOf(key) /\ n - 1 \in S /\ n - 1 < n
  BY <1>1
<1>4. Defines(S, T, size, base, value, rest, make)
  <2>1. size \in [S -> Nat] /\ base \in SUBSET S
    BY <1>1
  <2>2. value \in [base -> T]
    BY <1>2
  <2>3. rest \in [S \ base -> S] /\ \A n \in S \ base : size[rest[n]] < size[n]
    BY <1>3
  <2>4. make \in [S \ base -> [T -> T]]
    <3>1. \A n \in S \ base : Block(key, n) \in Blocks
      BY <1>3, BlocksTyped
    <3>2. \A n \in S \ base : \A t \in T : BodyBlock(t, Block(key, n)) \in T
      BY <3>1, BodyBlockInjective
    <3> HIDE DEF S, T, base
    <3> QED BY <3>2
  <2> HIDE DEF S, T, size, base, value, rest, make
  <2> QED BY <2>1, <2>2, <2>3, <2>4 DEF Defines
<1>5. PICK f \in [S -> T] :
        \A n \in S : f[n] = IF n \in base THEN value[n] ELSE make[n][f[rest[n]]]
  <2> HIDE DEF S, T, size, base, value, rest, make
  <2> QED BY <1>4, Recursion
<1>6. \A n \in S : f[n] = Right(f, n)
  <2> SUFFICES ASSUME NEW n \in S PROVE f[n] = Right(f, n)
    OBVIOUS
  <2>1. CASE n = 0
    BY <1>5, <2>1
  <2>2. CASE n # 0
    <3>1. n \in S \ base /\ rest[n] = n - 1 /\ n - 1 \in S
      BY <1>3, <2>2
    <3>2. f[n - 1] \in T
      BY <3>1
    <3>3. make[n][f[n - 1]] = BodyBlock(f[n - 1], Block(key, n))
      BY <3>1, <3>2
    <3> QED BY <1>5, <2>2, <3>1, <3>3
  <2> QED BY <2>1, <2>2
<1> DEFINE body == CHOOSE g : Solves(g)
<1>7. MurmurHash3_x86_128(key, seed) = Finalized(Tailed(body[BlocksOf(key)], TailOf(key)), Len(key))
  BY DEF MurmurHash3_x86_128, BlocksOf
<1>8. Solves(body)
  <2>1. Solves(f)
    <3> HIDE DEF Right, S
    <3> QED BY <1>6
  <2> HIDE DEF Solves
  <2> QED BY <2>1
<1> HIDE DEF body
<1>9. body = f
  <2> DEFINE bad == {n \in S : body[n] # f[n]}
  <2>1. ASSUME bad # {} PROVE FALSE
    <3>1. bad \in SUBSET Nat
      BY <1>1
    <3>2. PICK n \in bad : \A m \in bad : n <= m
      <4> HIDE DEF bad
      <4> QED BY <2>1, <3>1, LeastOf
    <3>3. n \in S /\ body[n] # f[n]
      BY <3>2
    <3>4. body[n] = Right(body, n) /\ f[n] = Right(f, n)
      <4> HIDE DEF Right
      <4> QED BY <1>6, <1>8, <3>3
    <3>5. n # 0
      BY <3>3, <3>4
    <3>6. n - 1 \in S /\ ~(n <= n - 1)
      BY <1>1, <3>3, <3>5
    <3>7. n - 1 \notin bad
      <4> HIDE DEF bad
      <4> QED BY <3>2, <3>6
    <3>8. body[n - 1] = f[n - 1]
      BY <3>6, <3>7
    <3> QED BY <3>3, <3>4, <3>5, <3>8
  <2>2. body = [n \in S |-> body[n]] /\ f = [n \in S |-> f[n]]
    <3>1. body = [n \in S |-> Right(body, n)]
      BY <1>8
    <3> HIDE DEF Right
    <3> QED BY <3>1
  <2> QED BY <2>1, <2>2
<1>10. LanesOf(f, key, seed)
  <2>1. f \in [0 .. BlocksOf(key) -> Lanes] /\ f[0] = start
    BY <1>1, <1>6
  <2>2. \A n \in 1 .. BlocksOf(key) : f[n] = BodyBlock(f[n - 1], Block(key, n))
    BY <1>1, <1>6
  <2> QED BY <2>1, <2>2 DEF LanesOf
<1> QED BY <1>7, <1>9, <1>10

(* Texts of one length that differ in one byte.                            *)
ApartAt(k, l, i) ==
  /\ Len(k) = Len(l) /\ i \in 1 .. Len(k)
  /\ k[i] # l[i] /\ \A j \in 1 .. Len(k) : j # i => k[j] = l[j]

(* One block or the tail differs, in one byte.                             *)
LEMMA OneBlockDiffers ==
  ASSUME NEW k \in Seq(Byte), NEW l \in Seq(Byte), NEW i, ApartAt(k, l, i)
  PROVE  /\ BlocksOf(k) = BlocksOf(l)
         /\ (i - 1) \div 16 \in 0 .. BlocksOf(k)
         /\ \A n \in 1 .. BlocksOf(k) :
              Block(k, n) = Block(l, n) <=> n # (i - 1) \div 16 + 1
         /\ TailOf(k) = TailOf(l) <=> (i - 1) \div 16 # BlocksOf(k)
<1> DEFINE c == (i - 1) \div 16
           p == ((i - 1) % 16) + 1
           m == BlocksOf(k)
<1>1. /\ Len(k) = Len(l) /\ Len(k) \in Nat /\ i \in 1 .. Len(k)
      /\ k[i] # l[i] /\ \A j \in 1 .. Len(k) : j # i => k[j] = l[j]
  BY DEF ApartAt
<1>2. m = BlocksOf(l)
  BY <1>1 DEF BlocksOf
<1>3. m \in Nat /\ 16 * m <= Len(k) /\ Len(k) < 16 * m + 16
  BY BlocksTyped
<1>4. c \in Nat /\ p \in 1 .. 16 /\ i = 16 * c + p
  <2>1. \A n \in Nat : /\ n \div 16 \in Nat /\ (n % 16) + 1 \in 1 .. 16
                       /\ n + 1 = 16 * (n \div 16) + ((n % 16) + 1)
    OBVIOUS
  <2>2. i - 1 \in Nat /\ i - 1 + 1 = i
    BY <1>1
  <2> DEFINE n == i - 1
  <2>3. n \in Nat /\ n + 1 = i
    BY <2>2
  <2> HIDE DEF n
  <2>4. n \div 16 \in Nat /\ (n % 16) + 1 \in 1 .. 16 /\ i = 16 * (n \div 16) + ((n % 16) + 1)
    BY <2>1, <2>3
  <2> QED BY <2>4 DEF n
<1> HIDE DEF c, p, m
<1>5. c \in 0 .. m
  BY <1>1, <1>3, <1>4
<1>6. ASSUME NEW n \in 1 .. m PROVE Block(k, n) = Block(l, n) <=> n # c + 1
  <2>1. \A j \in 1 .. 16 : 16 * (n - 1) + j \in 1 .. Len(k)
    BY <1>1, <1>3
  <2>2. ASSUME n # c + 1 PROVE Block(k, n) = Block(l, n)
    <3>1. \A j \in 1 .. 16 : 16 * (n - 1) + j # i
      BY <1>3, <1>4, <2>2
    <3>2. \A j \in 1 .. 16 : k[16 * (n - 1) + j] = l[16 * (n - 1) + j]
      BY <1>1, <2>1, <3>1
    <3> QED BY <3>2 DEF Block
  <2>3. ASSUME n = c + 1 PROVE Block(k, n) # Block(l, n)
    <3>1. 16 * (n - 1) + p = i
      BY <1>4, <2>3
    <3>2. Block(k, n)[p] = k[i] /\ Block(l, n)[p] = l[i]
      BY <1>4, <3>1 DEF Block
    <3> QED BY <1>1, <3>2
  <2> QED BY <2>2, <2>3
<1>7. TailOf(k) = TailOf(l) <=> c # m
  <2> DEFINE v(x, j) == IF 16 * m + j <= Len(k) THEN x[16 * m + j] ELSE 0
  <2>1. TailOf(k) = [j \in 1 .. 16 |-> v(k, j)] /\ TailOf(l) = [j \in 1 .. 16 |-> v(l, j)]
    BY <1>1 DEF TailOf, m, BlocksOf
  <2>2. ASSUME c # m PROVE TailOf(k) = TailOf(l)
    <3>1. \A j \in 1 .. 16 : 16 * m + j # i /\ 16 * m + j \in Nat /\ 16 * m + j >= 1
      BY <1>3, <1>4, <1>5, <2>2
    <3>2. ASSUME NEW j \in 1 .. 16 PROVE v(k, j) = v(l, j)
      <4> DEFINE q == 16 * m + j
      <4>1. q # i /\ q \in Nat /\ q >= 1
        BY <3>1
      <4> HIDE DEF q
      <4>2. q <= Len(k) => k[q] = l[q]
        BY <1>1, <4>1
      <4> QED BY <4>2 DEF q
    <3> HIDE DEF v
    <3> QED BY <2>1, <3>2
  <2>3. ASSUME c = m PROVE TailOf(k) # TailOf(l)
    <3>1. 16 * m + p = i
      BY <1>4, <2>3
    <3>2. v(k, p) = k[i] /\ v(l, p) = l[i]
      BY <1>1, <3>1
    <3>3. TailOf(k)[p] = v(k, p) /\ TailOf(l)[p] = v(l, p)
      <4> HIDE DEF v
      <4> QED BY <1>4, <2>1
    <3> HIDE DEF v
    <3> QED BY <1>1, <3>2, <3>3
  <2> QED BY <2>2, <2>3
<1> QED BY <1>2, <1>5, <1>6, <1>7 DEF c, m

(* Such texts have different hashes: from the block they differ in to the  *)
(* last one, the lanes differ.                                             *)
LEMMA ApartHashesDiffer ==
  ASSUME NEW k \in Seq(Byte), NEW l \in Seq(Byte), NEW i, ApartAt(k, l, i), NEW seed \in Words
  PROVE  /\ MurmurHash3_x86_128(k, seed) \in Lanes
         /\ MurmurHash3_x86_128(l, seed) \in Lanes
         /\ MurmurHash3_x86_128(k, seed) # MurmurHash3_x86_128(l, seed)
<1> DEFINE m == BlocksOf(k)
           c == (i - 1) \div 16
<1>1. /\ m = BlocksOf(l) /\ c \in 0 .. m
      /\ \A n \in 1 .. m : Block(k, n) = Block(l, n) <=> n # c + 1
      /\ TailOf(k) = TailOf(l) <=> c # m
  BY OneBlockDiffers
<1>2. PICK f : /\ LanesOf(f, k, seed)
               /\ MurmurHash3_x86_128(k, seed) = Finalized(Tailed(f[m], TailOf(k)), Len(k))
  BY HashMeans
<1>3. PICK g : /\ LanesOf(g, l, seed)
               /\ MurmurHash3_x86_128(l, seed)
                    = Finalized(Tailed(g[BlocksOf(l)], TailOf(l)), Len(l))
  BY HashMeans
<1>4. /\ m \in Nat /\ \A n \in 1 .. m : Block(k, n) \in Blocks /\ Block(l, n) \in Blocks
      /\ TailOf(k) \in Blocks /\ TailOf(l) \in Blocks
  BY <1>1, BlocksTyped
<1>5. /\ f \in [0 .. m -> Lanes] /\ f[0] = [j \in 1 .. 4 |-> seed]
      /\ \A n \in 1 .. m : f[n] = BodyBlock(f[n - 1], Block(k, n))
  BY <1>2 DEF LanesOf
<1>6. /\ g \in [0 .. m -> Lanes] /\ g[0] = [j \in 1 .. 4 |-> seed]
      /\ \A n \in 1 .. m : g[n] = BodyBlock(g[n - 1], Block(l, n))
  BY <1>1, <1>3 DEF LanesOf
<1> HIDE DEF m, c
<1> DEFINE Wrong(n) == ~ (f[n] = g[n] <=> n <= c)
           bad == {n \in 0 .. m : Wrong(n)}
<1>7. ASSUME bad # {} PROVE FALSE
  <2>1. bad \in SUBSET Nat
    BY <1>4
  <2>2. PICK n \in bad : \A j \in bad : n <= j
    <3> HIDE DEF bad
    <3> QED BY <1>7, <2>1, LeastOf
  <2>3. n \in 0 .. m /\ ~ (f[n] = g[n] <=> n <= c)
    BY <2>2
  <2>4. n # 0
    BY <1>1, <1>5, <1>6, <2>3
  <2>5. n - 1 \in 0 .. m /\ n \in 1 .. m /\ ~(n <= n - 1)
    BY <1>4, <2>3, <2>4
  <2>6. f[n - 1] = g[n - 1] <=> n - 1 <= c
    <3>1. n - 1 \notin bad
      <4> HIDE DEF bad
      <4> QED BY <2>2, <2>5
    <3> QED BY <2>5, <3>1
  <2> DEFINE x == f[n - 1]
             y == g[n - 1]
             a == Block(k, n)
             b == Block(l, n)
  <2>7. x \in Lanes /\ y \in Lanes /\ a \in Blocks /\ b \in Blocks
    BY <1>4, <1>5, <1>6, <2>5
  <2>8. f[n] = BodyBlock(x, a) /\ g[n] = BodyBlock(y, b)
    BY <1>5, <1>6, <2>5
  <2>9. a = b <=> n # c + 1
    BY <1>1, <2>5
  <2>10. x = y <=> n - 1 <= c
    BY <2>6
  <2> HIDE DEF x, y, a, b
  <2>11. CASE n <= c
    <3>1. n - 1 <= c /\ n # c + 1
      BY <1>1, <2>3, <2>11
    <3> QED BY <2>3, <2>8, <2>9, <2>10, <2>11, <3>1
  <2>12. CASE n = c + 1
    <3>1. n - 1 <= c /\ ~(n <= c)
      BY <1>1, <2>3, <2>12
    <3>2. x = y /\ a # b
      BY <2>9, <2>10, <2>12, <3>1
    <3>3. BodyBlock(x, a) # BodyBlock(x, b)
      BY <2>7, <3>2, BodyBlockInjective
    <3> QED BY <2>3, <2>8, <3>1, <3>2, <3>3
  <2>13. CASE n > c + 1
    <3>1. ~(n - 1 <= c) /\ ~(n <= c) /\ n # c + 1
      BY <1>1, <2>3, <2>13
    <3>2. x # y /\ a = b
      BY <2>9, <2>10, <3>1
    <3>3. BodyBlock(x, a) # BodyBlock(y, a)
      BY <2>7, <3>2, BodyBlockInjective
    <3> QED BY <2>3, <2>8, <3>1, <3>2, <3>3
  <2> QED BY <1>1, <2>3, <2>11, <2>12, <2>13
<1>8. f[m] = g[m] <=> c = m
  <2>1. m \in 0 .. m /\ (m <= c <=> c = m)
    BY <1>1, <1>4
  <2>2. m \notin bad
    <3> HIDE DEF bad
    <3> QED BY <1>7
  <2> QED BY <2>1, <2>2
<1> DEFINE x == f[m]
           y == g[m]
           s == TailOf(k)
           t == TailOf(l)
<1>9. x \in Lanes /\ y \in Lanes
  BY <1>4, <1>5, <1>6
<1>10. s \in Blocks /\ t \in Blocks /\ (x = y <=> c = m) /\ (s = t <=> c # m)
  BY <1>1, <1>4, <1>8
<1>11. Len(k) \in Nat /\ Len(l) = Len(k)
  BY DEF ApartAt
<1>12. /\ MurmurHash3_x86_128(k, seed) = Finalized(Tailed(x, s), Len(k))
       /\ MurmurHash3_x86_128(l, seed) = Finalized(Tailed(y, t), Len(k))
  BY <1>1, <1>2, <1>3, <1>11
<1> HIDE DEF x, y, s, t
<1>13. Tailed(x, s) \in Lanes /\ Tailed(y, t) \in Lanes
  BY <1>9, <1>10, TailedInjective
<1>14. Tailed(x, s) # Tailed(y, t)
  <2>1. CASE c = m
    BY <1>9, <1>10, <2>1, TailedInjective
  <2>2. CASE c # m
    BY <1>9, <1>10, <2>2, TailedInjective
  <2> QED BY <2>1, <2>2
<1> QED BY <1>11, <1>12, <1>13, <1>14, FinalizedInjective

(* Every byte of a text counts.                                            *)
THEOREM BytesCount == Spec => []EveryByteCounts
<1>1. template \in Seq(Byte) => EveryByteCounts
  <2> SUFFICES ASSUME template \in Seq(Byte), NEW i \in DOMAIN template, NEW c \in OtherBytes,
                      Len(CString([template EXCEPT ![i] = c])) = Len(CString(template)),
                      hash([template EXCEPT ![i] = c]) = hash(template)
               PROVE  CString([template EXCEPT ![i] = c]) = CString(template)
    BY DEF EveryByteCounts, hash
  <2> DEFINE s == template
             other == [template EXCEPT ![i] = c]
             k == CString(s)
             l == CString(other)
  <2>1. /\ s \in Seq(Byte) /\ other \in Seq(Byte) /\ Len(other) = Len(s) /\ i \in 1 .. Len(s)
        /\ \A j \in 1 .. Len(s) : j # i => other[j] = s[j]
    <3>1. c \in Byte
      BY TextUtilsAssumption
    <3>2. i \in 1 .. Len(s)
      OBVIOUS
    <3> QED BY <3>1, <3>2
  <2>2. hash(other) = hash(s) /\ Len(l) = Len(k)
    OBVIOUS
  <2> HIDE DEF s, other
  <2>3. /\ k \in Seq(Byte) /\ Len(k) <= Len(s) /\ \A j \in 1 .. Len(k) : k[j] = s[j]
        /\ l \in Seq(Byte) /\ \A j \in 1 .. Len(l) : l[j] = other[j]
    BY <2>1, CStringMeans
  <2>4. hash(s) = HexText(MurmurHash3_x86_128(k, HASH_SEED))
    BY DEF hash, HexText
  <2>5. hash(other) = HexText(MurmurHash3_x86_128(l, HASH_SEED))
    BY DEF hash, HexText
  <2>6. HASH_SEED \in Words
    BY WordTyped DEF HASH_SEED
  <2> HIDE DEF k, l
  <2>7. ASSUME k # l PROVE FALSE
    <3>1. \A j \in 1 .. Len(k) : j # i => k[j] = l[j]
      BY <2>1, <2>2, <2>3
    <3>2. i \in 1 .. Len(k) /\ k[i] # l[i]
      <4>1. \E j \in 1 .. Len(k) : k[j] # l[j]
        BY <2>2, <2>3, <2>7, SeqEqual
      <4> QED BY <3>1, <4>1
    <3>3. ApartAt(k, l, i)
      BY <2>2, <3>1, <3>2 DEF ApartAt
    <3> DEFINE h == MurmurHash3_x86_128(k, HASH_SEED)
               g == MurmurHash3_x86_128(l, HASH_SEED)
    <3>4. h \in Lanes /\ g \in Lanes /\ h # g
      BY <2>3, <2>6, <3>3, ApartHashesDiffer
    <3>5. HexText(h) = HexText(g)
      BY <2>2, <2>4, <2>5
    <3> HIDE DEF h, g
    <3> QED BY <3>4, <3>5, HexTextInjective
  <2>8. k = l
    BY <2>7
  <2> QED BY <2>8 DEF k, l, s, other
<1> QED BY <1>1, TemplateTyped, PTL

=============================================================================
