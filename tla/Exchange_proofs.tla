--------------------------- MODULE Exchange_proofs --------------------------
(***************************************************************************)
(* One exchange, for every scenario: any request, route, chain of filters  *)
(* and upstream responses, and any word of the guests.  Every filter runs  *)
(* in its turn and sees the bytes that go on; every message says of its    *)
(* own bytes what is true of them; every hop learns who asks, for whom,    *)
(* and nothing of the connection before it.                                *)
(*                                                                         *)
(* The lemmas go from lists and header lists to the operators of the model *)
(* (what set_headers, the strips, compression and a guest's decision do to *)
(* names and values), from there to what each action does, and then to the *)
(* inductive invariants: Shape, what ingress leaves alone (IngressInv),    *)
(* the order of hooks (OrderInv), what the readers were shown              *)
(* (InspectInv), framing (FramingInv), the one authority (AuthorityInv),   *)
(* the attributed client (HopInv) and what does not cross (ThereClean,     *)
(* BackClean).                                                             *)
(***************************************************************************)
EXTENDS Exchange, FoldLemmas, TLAPS

-----------------------------------------------------------------------------
(* Lists and what Only keeps of them.                                      *)

(* One more element is kept or not, after what was kept before.            *)
Kept(s, S, h) == h = [i \in 0..Len(s) |->
  IF i = 0 THEN <<>> ELSE IF s[i] \in S THEN Append(h[i - 1], s[i]) ELSE h[i - 1]]

LEMMA OnlyUnfolds ==
  ASSUME NEW s, NEW S
  PROVE  Only(s, S) = (CHOOSE h : Kept(s, S, h))[Len(s)]
BY Zenon DEF Only, Kept

LEMMA KeptExists ==
  ASSUME NEW U, NEW S, NEW s \in Seq(U)
  PROVE  \E h \in [0..Len(s) -> Seq(U)] : Kept(s, S, h)
<1> DEFINE P == {t \in Seq(U) : \E h \in [0..Len(t) -> Seq(U)] : Kept(t, S, h)}
<1>1. <<>> \in P
  <2> DEFINE h == [i \in 0..0 |-> <<>>]
  <2>1. h \in [0..0 -> Seq(U)] /\ h = [i \in 0..0 |-> IF i = 0 THEN <<>> ELSE
            IF <<>>[i] \in S THEN Append(h[i - 1], <<>>[i]) ELSE h[i - 1]]
    OBVIOUS
  <2>2. Len(<<>>) = 0 /\ <<>> \in Seq(U)
    OBVIOUS
  <2>3. Kept(<<>>, S, h)
    BY <2>1, <2>2 DEF Kept
  <2> HIDE DEF h
  <2> QED  BY <2>1, <2>2, <2>3
<1>2. ASSUME NEW t \in Seq(U), NEW e \in U, t \in P PROVE Append(t, e) \in P
  <2>1. PICK h \in [0..Len(t) -> Seq(U)] : Kept(t, S, h)
    BY <1>2
  <2> DEFINE m == Len(t)
             a == Append(t, e)
             last == IF e \in S THEN Append(h[m], e) ELSE h[m]
             g == [i \in 0..(m + 1) |-> IF i = m + 1 THEN last ELSE h[i]]
  <2>2. m \in Nat /\ a \in Seq(U) /\ Len(a) = m + 1 /\ a[m + 1] = e /\ \A i \in 1..m : a[i] = t[i]
    BY AppendProperties
  <2>3. h[m] \in Seq(U)
    BY <2>1, <2>2
  <2>4. last \in Seq(U)
    BY <2>3, AppendProperties
  <2>5. g \in [0..(m + 1) -> Seq(U)]
    BY <2>1, <2>2, <2>4
  <2>6. ASSUME NEW i \in 0..(m + 1)
        PROVE g[i] = IF i = 0 THEN <<>> ELSE IF a[i] \in S THEN Append(g[i - 1], a[i]) ELSE g[i - 1]
    <3>1. CASE i = m + 1
      <4>1. g[i] = last /\ g[i - 1] = h[m] /\ a[i] = e /\ i # 0
        BY <3>1, <2>2
      <4> QED  BY <4>1
    <3>2. CASE i \in 0..m
      <4>1. h[i] = IF i = 0 THEN <<>> ELSE IF t[i] \in S THEN Append(h[i - 1], t[i]) ELSE h[i - 1]
        BY <2>1, <3>2 DEF Kept
      <4>2. g[i] = h[i] /\ (i # 0 => g[i - 1] = h[i - 1] /\ a[i] = t[i])
        BY <3>2, <2>2
      <4> QED  BY <4>1, <4>2
    <3> QED  BY <3>1, <3>2, <2>2
  <2>7. Kept(a, S, g)
    <3> HIDE DEF g, a, m
    <3>1. DOMAIN g = 0..(m + 1) /\ g = [i \in 0..(m + 1) |-> g[i]]
      BY <2>5
    <3> QED  BY <2>6, <2>2, <3>1 DEF Kept
  <2>8. g \in [0..Len(a) -> Seq(U)]
    BY <2>5, <2>2
  <2> HIDE DEF g, a
  <2>9. a \in P
    BY <2>2, <2>7, <2>8
  <2> QED  BY <2>9 DEF a
<1>3. Seq(U) \subseteq P
  <2> HIDE DEF P
  <2> QED  BY <1>1, <1>2, ListInduction
<1> QED  BY <1>3

Begins(t, s) == Len(s) <= Len(t) /\ \A i \in 1..Len(s) : s[i] = t[i]

LEMMA KeptAgree ==
  ASSUME NEW U, NEW S, NEW s \in Seq(U), NEW t \in Seq(U), Begins(t, s),
         NEW h, Kept(s, S, h), NEW g, Kept(t, S, g)
  PROVE  \A i \in 0..Len(s) : h[i] = g[i]
<1> DEFINE G == {n \in Nat : n <= Len(s) => h[n] = g[n]}
<1>0. /\ Len(s) \in Nat /\ Len(t) \in Nat /\ Len(s) <= Len(t)
      /\ \A i \in 1..Len(s) : s[i] = t[i]
  BY DEF Begins
<1>1. 0 \in G
  <2>1. h[0] = <<>> /\ g[0] = <<>>
    BY <1>0 DEF Kept
  <2> QED  BY <2>1
<1>2. ASSUME NEW n \in Nat, n \in G PROVE n + 1 \in G
  <2> SUFFICES ASSUME n + 1 <= Len(s) PROVE h[n + 1] = g[n + 1]
    OBVIOUS
  <2>1. n + 1 \in 0..Len(s) /\ n + 1 \in 0..Len(t) /\ n + 1 # 0 /\ (n + 1) - 1 = n
    BY <1>0
  <2>2. h[n + 1] = IF s[n + 1] \in S THEN Append(h[n], s[n + 1]) ELSE h[n]
    BY <2>1 DEF Kept
  <2>3. g[n + 1] = IF t[n + 1] \in S THEN Append(g[n], t[n + 1]) ELSE g[n]
    BY <2>1 DEF Kept
  <2>4. h[n] = g[n] /\ s[n + 1] = t[n + 1]
    BY <1>2, <2>1, <1>0
  <2> QED  BY <2>2, <2>3, <2>4
<1>3. Nat \subseteq G
  <2> HIDE DEF G
  <2> QED  BY <1>1, <1>2, InductionSet
<1> QED  BY <1>3, <1>0

LEMMA OnlyEmpty ==
  ASSUME NEW S
  PROVE  Only(<<>>, S) = <<>>
<1>0. <<>> \in Seq({})
  OBVIOUS
<1>1. PICK h \in [0..Len(<<>>) -> Seq({})] : Kept(<<>>, S, h)
  BY <1>0, KeptExists, Zenon
<1> DEFINE c == CHOOSE x : Kept(<<>>, S, x)
<1>2. Kept(<<>>, S, c)
  BY <1>1
<1>3. Only(<<>>, S) = c[Len(<<>>)]
  BY OnlyUnfolds
<1>4. Len(<<>>) = 0
  OBVIOUS
<1> HIDE DEF c
<1> QED  BY <1>2, <1>3, <1>4 DEF Kept

LEMMA OnlyAppend ==
  ASSUME NEW U, NEW S, NEW s \in Seq(U), NEW e \in U
  PROVE  /\ Only(s, S) \in Seq(U)
         /\ Only(Append(s, e), S) = IF e \in S THEN Append(Only(s, S), e) ELSE Only(s, S)
<1> DEFINE a == Append(s, e)
           h == CHOOSE x : Kept(s, S, x)
           g == CHOOSE x : Kept(a, S, x)
<1>1. a \in Seq(U) /\ Len(a) = Len(s) + 1 /\ a[Len(s) + 1] = e /\ \A i \in 1..Len(s) : a[i] = s[i]
  BY AppendProperties
<1>2. PICK y \in [0..Len(s) -> Seq(U)] : Kept(s, S, y)
  BY KeptExists
<1>3. \E z \in [0..Len(a) -> Seq(U)] : Kept(a, S, z)
  BY <1>1, KeptExists
<1>4. Kept(s, S, h) /\ Kept(a, S, g)
  BY <1>2, <1>3
<1>5. Only(s, S) = h[Len(s)] /\ Only(a, S) = g[Len(a)]
  BY OnlyUnfolds
<1>6. Len(s) \in Nat
  OBVIOUS
<1> HIDE DEF h, g, a
<1>7. h[Len(s)] = y[Len(s)]
  <2>1. Begins(s, s) /\ Len(s) \in 0..Len(s)
    BY <1>6 DEF Begins
  <2> QED  BY <1>2, <1>4, <2>1, KeptAgree
<1>8. h[Len(s)] = g[Len(s)]
  <2>1. Begins(a, s) /\ Len(s) \in 0..Len(s)
    BY <1>1, <1>6 DEF Begins
  <2>2. a \in Seq(U)
    BY <1>1
  <2>3. \A i \in 0..Len(s) : h[i] = g[i]
    BY <2>1, <2>2, <1>4, KeptAgree, SMTT(30)
  <2> QED  BY <2>1, <2>3
<1>9. g[Len(s) + 1] = IF e \in S THEN Append(g[Len(s)], e) ELSE g[Len(s)]
  <2>1. Len(s) + 1 \in 0..Len(a) /\ Len(s) + 1 # 0 /\ (Len(s) + 1) - 1 = Len(s)
    BY <1>1, <1>6
  <2> QED  BY <1>4, <2>1, <1>1 DEF Kept
<1>10. y[Len(s)] \in Seq(U)
  BY <1>6
<1> QED  BY <1>1, <1>5, <1>7, <1>8, <1>9, <1>10 DEF a

(* The elements kept are those of s in S.                                  *)
LEMMA OnlyType ==
  ASSUME NEW U, NEW S, NEW s \in Seq(U)
  PROVE  /\ Only(s, S) \in Seq(U) /\ ToSet(Only(s, S)) = ToSet(s) \cap S
<1> DEFINE P == {t \in Seq(U) : Only(t, S) \in Seq(U) /\ ToSet(Only(t, S)) = ToSet(t) \cap S}
<1>1. <<>> \in P
  <2>1. Only(<<>>, S) = <<>> /\ <<>> \in Seq(U)
    BY OnlyEmpty
  <2>2. ToSet(<<>>) = {}
    BY DEF ToSet
  <2>3. Only(<<>>, S) \in Seq(U) /\ ToSet(Only(<<>>, S)) = ToSet(<<>>) \cap S
    BY <2>1, <2>2
  <2> QED  BY <2>1, <2>3, Zenon
<1>2. ASSUME NEW t \in Seq(U), NEW e \in U, t \in P PROVE Append(t, e) \in P
  <2> DEFINE o == Only(t, S)
             a == Append(t, e)
             q == Only(a, S)
  <2>1. o \in Seq(U) /\ ToSet(o) = ToSet(t) \cap S
    BY <1>2
  <2>2. q = IF e \in S THEN Append(o, e) ELSE o
    BY OnlyAppend
  <2>3. \A r \in Seq(U) : ToSet(Append(r, e)) = ToSet(r) \cup {e}
    <3> SUFFICES ASSUME NEW r \in Seq(U) PROVE ToSet(Append(r, e)) = ToSet(r) \cup {e}
      OBVIOUS
    <3>1. Append(r, e) \in Seq(U) /\ Len(Append(r, e)) = Len(r) + 1 /\ Append(r, e)[Len(r) + 1] = e
          /\ (\A i \in 1..Len(r) : Append(r, e)[i] = r[i]) /\ Len(r) \in Nat
      BY AppendProperties
    <3>2. DOMAIN r = 1..Len(r) /\ DOMAIN Append(r, e) = 1..(Len(r) + 1)
      BY <3>1
    <3> QED  BY <3>1, <3>2 DEF ToSet
  <2>4. a \in Seq(U) /\ Append(o, e) \in Seq(U)
    BY <2>1, AppendProperties
  <2> HIDE DEF o, q
  <2>5. q \in Seq(U) /\ ToSet(q) = ToSet(a) \cap S
    <3>1. CASE e \in S
      BY <3>1, <2>1, <2>2, <2>3, <2>4
    <3>2. CASE e \notin S
      BY <3>2, <2>1, <2>2, <2>3, <2>4
    <3> QED  BY <3>1, <3>2
  <2> QED  BY <2>4, <2>5 DEF q
<1>3. Seq(U) \subseteq P
  <2> HIDE DEF P
  <2> QED  BY <1>1, <1>2, ListInduction
<1> QED  BY <1>3

LEMMA OnlyAgree ==
  ASSUME NEW U, NEW s \in Seq(U), NEW S, NEW T, \A e \in ToSet(s) : e \in S <=> e \in T
  PROVE  Only(s, S) = Only(s, T)
<1> DEFINE P == {t \in Seq(U) : (\A e \in ToSet(t) : e \in S <=> e \in T) => Only(t, S) = Only(t, T)}
<1>1. <<>> \in P
  BY OnlyEmpty
<1>2. ASSUME NEW t \in Seq(U), NEW e \in U, t \in P PROVE Append(t, e) \in P
  <2> DEFINE a == Append(t, e)
  <2>1. a \in Seq(U) /\ Len(a) = Len(t) + 1 /\ a[Len(t) + 1] = e /\ \A i \in 1..Len(t) : a[i] = t[i]
    BY AppendProperties
  <2> HIDE DEF a
  <2>2. ASSUME \A x \in ToSet(a) : x \in S <=> x \in T PROVE Only(a, S) = Only(a, T)
    <3>1. e \in ToSet(a) /\ ToSet(t) \subseteq ToSet(a)
      BY <2>1 DEF ToSet
    <3>2. Only(t, S) = Only(t, T) /\ (e \in S <=> e \in T)
      BY <3>1, <2>2, <1>2
    <3>3. Only(a, S) = IF e \in S THEN Append(Only(t, S), e) ELSE Only(t, S)
      BY OnlyAppend DEF a
    <3>4. Only(a, T) = IF e \in T THEN Append(Only(t, T), e) ELSE Only(t, T)
      BY OnlyAppend DEF a
    <3> QED  BY <3>2, <3>3, <3>4
  <2> QED  BY <2>1, <2>2 DEF a
<1>3. Seq(U) \subseteq P
  <2> HIDE DEF P
  <2> QED  BY <1>1, <1>2, ListInduction
<1> QED  BY <1>3

(* Keeping twice is keeping what passes both.                              *)
LEMMA OnlyTwice ==
  ASSUME NEW U, NEW s \in Seq(U), NEW S, NEW T
  PROVE  Only(Only(s, S), T) = Only(s, S \cap T)
<1> DEFINE P == {r \in Seq(U) : Only(Only(r, S), T) = Only(r, S \cap T)}
<1>1. <<>> \in P
  BY OnlyEmpty
<1>2. ASSUME NEW r \in Seq(U), NEW e \in U, r \in P PROVE Append(r, e) \in P
  <2>1. Only(r, S) \in Seq(U)
    BY OnlyType
  <2>2. Only(Append(r, e), S) = IF e \in S THEN Append(Only(r, S), e) ELSE Only(r, S)
    BY OnlyAppend
  <2>3. Only(Append(r, e), S \cap T) = IF e \in S \cap T THEN Append(Only(r, S \cap T), e) ELSE Only(r, S \cap T)
    BY OnlyAppend
  <2>4. Only(Append(Only(r, S), e), T)
          = IF e \in T THEN Append(Only(Only(r, S), T), e) ELSE Only(Only(r, S), T)
    BY <2>1, OnlyAppend
  <2>5. Append(r, e) \in Seq(U)
    OBVIOUS
  <2>6. Only(Only(r, S), T) = Only(r, S \cap T)
    BY <1>2
  <2>7. Only(Only(Append(r, e), S), T) = Only(Append(r, e), S \cap T)
    <3>1. CASE e \in S
      <4>1. Only(Append(r, e), S) = Append(Only(r, S), e)
        BY <3>1, <2>2
      <4>2. e \in S \cap T <=> e \in T
        BY <3>1
      <4> QED  BY <4>1, <4>2, <2>3, <2>4, <2>6, Zenon
    <3>2. CASE e \notin S
      BY <3>2, <2>2, <2>3, <2>6
    <3> QED  BY <3>1, <3>2
  <2> QED  BY <2>5, <2>7
<1>3. Seq(U) \subseteq P
  <2> HIDE DEF P
  <2> QED  BY <1>1, <1>2, ListInduction
<1> QED  BY <1>3

-----------------------------------------------------------------------------
(* The same of lists whose elements are whatever they are.                 *)
LEMMA ListIn ==
  ASSUME NEW s, IsList(s), NEW U, ToSet(s) \subseteq U
  PROVE  s \in Seq(U)
<1>1. s \in Seq(ToSet(s))
  BY DEF IsList
<1>2. Len(s) \in Nat /\ s \in [1..Len(s) -> ToSet(s)]
  BY <1>1
<1>3. s \in [1..Len(s) -> U]
  BY <1>2
<1> QED  BY <1>2, <1>3

LEMMA SeqIsList ==
  ASSUME NEW U, NEW s \in Seq(U)
  PROVE  IsList(s) /\ ToSet(s) \subseteq U
<1>1. Len(s) \in Nat /\ s \in [1..Len(s) -> U] /\ DOMAIN s = 1..Len(s)
  OBVIOUS
<1>2. s \in [1..Len(s) -> ToSet(s)]
  BY <1>1 DEF ToSet
<1>3. s \in Seq(ToSet(s))
  BY <1>1, <1>2
<1> QED  BY <1>1, <1>3 DEF IsList, ToSet

LEMMA ListShape ==
  ASSUME NEW s, IsList(s)
  PROVE  /\ Len(s) \in Nat /\ DOMAIN s = 1..Len(s) /\ s = [i \in 1..Len(s) |-> s[i]]
         /\ \A i \in 1..Len(s) : s[i] \in ToSet(s)
         /\ (s = <<>>) <=> (Len(s) = 0)
         /\ (s = <<>>) <=> (ToSet(s) = {})
<1>1. s \in Seq(ToSet(s))
  BY DEF IsList
<1>2. Len(s) \in Nat /\ s \in [1..Len(s) -> ToSet(s)] /\ DOMAIN s = 1..Len(s)
  BY <1>1
<1>3. s = <<>> <=> Len(s) = 0
  BY <1>1, EmptySeq
<1>4. ToSet(s) = {} <=> Len(s) = 0
  <2>1. CASE Len(s) = 0
    <3>1. DOMAIN s = {}
      BY <1>2, <2>1
    <3> QED  BY <2>1, <3>1 DEF ToSet
  <2>2. CASE Len(s) # 0
    <3>1. 1 \in DOMAIN s
      BY <1>2, <2>2
    <3>2. s[1] \in ToSet(s)
      BY <3>1 DEF ToSet
    <3> QED  BY <2>2, <3>2
  <2> QED  BY <2>1, <2>2
<1> QED  BY <1>2, <1>3, <1>4

LEMMA EmptyList == IsList(<<>>) /\ ToSet(<<>>) = {} /\ Len(<<>>) = 0
BY DEF IsList, ToSet

LEMMA AppendList ==
  ASSUME NEW s, IsList(s), NEW e
  PROVE  /\ IsList(Append(s, e)) /\ ToSet(Append(s, e)) = ToSet(s) \cup {e}
         /\ Len(Append(s, e)) = Len(s) + 1 /\ Append(s, e)[Len(s) + 1] = e
         /\ \A i \in 1..Len(s) : Append(s, e)[i] = s[i]
<1> DEFINE U == ToSet(s) \cup {e}
           a == Append(s, e)
<1>1. s \in Seq(U) /\ e \in U
  BY ListIn
<1> HIDE DEF U
<1>2. a \in Seq(U) /\ Len(a) = Len(s) + 1 /\ a[Len(s) + 1] = e /\ \A i \in 1..Len(s) : a[i] = s[i]
  BY <1>1, AppendProperties
<1>3. Len(s) \in Nat /\ DOMAIN s = 1..Len(s) /\ DOMAIN a = 1..Len(a)
  BY <1>1, <1>2
<1> HIDE DEF a
<1>4. ToSet(a) = ToSet(s) \cup {e}
  BY <1>2, <1>3 DEF ToSet
<1> QED  BY <1>2, <1>4, SeqIsList DEF a

LEMMA ConcatList ==
  ASSUME NEW s, IsList(s), NEW t, IsList(t)
  PROVE  IsList(s \o t) /\ ToSet(s \o t) = ToSet(s) \cup ToSet(t) /\ Len(s \o t) = Len(s) + Len(t)
<1> DEFINE U == ToSet(s) \cup ToSet(t)
           c == s \o t
<1>1. s \in Seq(U) /\ t \in Seq(U)
  BY ListIn
<1> HIDE DEF U
<1>2. /\ c \in Seq(U) /\ Len(c) = Len(s) + Len(t) /\ Len(s) \in Nat /\ Len(t) \in Nat
      /\ \A i \in 1..(Len(s) + Len(t)) : c[i] = IF i <= Len(s) THEN s[i] ELSE t[i - Len(s)]
  BY <1>1, ConcatProperties
<1>3. DOMAIN s = 1..Len(s) /\ DOMAIN t = 1..Len(t) /\ DOMAIN c = 1..(Len(s) + Len(t))
  BY <1>1, <1>2
<1> HIDE DEF c
<1>4. ToSet(c) \subseteq ToSet(s) \cup ToSet(t)
  BY <1>2, <1>3 DEF ToSet
<1>5. \A i \in 1..Len(s) : c[i] = s[i] /\ i \in DOMAIN c
  BY <1>2, <1>3
<1>6. ASSUME NEW i \in 1..Len(t) PROVE c[Len(s) + i] = t[i] /\ Len(s) + i \in DOMAIN c
  BY <1>2, <1>3
<1>7. ToSet(s) \subseteq ToSet(c) /\ ToSet(t) \subseteq ToSet(c)
  BY <1>3, <1>5, <1>6 DEF ToSet
<1> QED  BY <1>2, <1>4, <1>7, SeqIsList DEF c

LEMMA OnlyList ==
  ASSUME NEW s, IsList(s), NEW S
  PROVE  IsList(Only(s, S)) /\ ToSet(Only(s, S)) = ToSet(s) \cap S
<1>1. s \in Seq(ToSet(s))
  BY DEF IsList
<1>2. Only(s, S) \in Seq(ToSet(s)) /\ ToSet(Only(s, S)) = ToSet(s) \cap S
  BY <1>1, OnlyType
<1> QED  BY <1>2, SeqIsList

LEMMA OnlyOfAppend ==
  ASSUME NEW s, IsList(s), NEW e, NEW S
  PROVE  Only(Append(s, e), S) = IF e \in S THEN Append(Only(s, S), e) ELSE Only(s, S)
<1> DEFINE U == ToSet(s) \cup {e}
<1>1. s \in Seq(U) /\ e \in U
  BY ListIn
<1> HIDE DEF U
<1> QED  BY <1>1, OnlyAppend

Alike(s, S, T) == \A e \in ToSet(s) : e \in S <=> e \in T

LEMMA OnlyAlike ==
  ASSUME NEW s, IsList(s), NEW S, NEW T, Alike(s, S, T)
  PROVE  Only(s, S) = Only(s, T)
<1>1. s \in Seq(ToSet(s))
  BY DEF IsList
<1>2. \A e \in ToSet(s) : e \in S <=> e \in T
  BY DEF Alike
<1> QED  BY <1>1, <1>2, OnlyAgree

LEMMA OnlyOfOnly ==
  ASSUME NEW s, IsList(s), NEW S, NEW T
  PROVE  Only(Only(s, S), T) = Only(s, S \cap T)
<1>1. s \in Seq(ToSet(s))
  BY DEF IsList
<1> QED  BY <1>1, OnlyTwice

(* Keeping nothing and keeping everything.                                 *)
LEMMA OnlyNone ==
  ASSUME NEW s, IsList(s), NEW S, ToSet(s) \cap S = {}
  PROVE  Only(s, S) = <<>>
BY OnlyList, ListShape

-----------------------------------------------------------------------------
(* Header lists.                                                           *)
Seconds(s) == [i \in DOMAIN s |-> s[i][2]]

LEMMA SecondsOfAppend ==
  ASSUME NEW s, IsList(s), NEW e
  PROVE  Seconds(Append(s, e)) = Append(Seconds(s), e[2])
<1> DEFINE a == Append(s, e)
           n == Len(s)
           x == Seconds(a)
           y == Append(Seconds(s), e[2])
<1>1. IsList(a) /\ Len(a) = n + 1 /\ a[n + 1] = e /\ \A i \in 1..n : a[i] = s[i]
  BY AppendList
<1>2. n \in Nat /\ DOMAIN s = 1..n /\ DOMAIN a = 1..(n + 1)
  BY <1>1, ListShape
<1>3. IsList(Seconds(s)) /\ Len(Seconds(s)) = n /\ \A i \in 1..n : Seconds(s)[i] = s[i][2]
  <2> DEFINE U == {s[i][2] : i \in 1..n}
             b == Seconds(s)
  <2>1. b \in [1..n -> U]
    BY <1>2 DEF Seconds
  <2>2. b \in Seq(U) /\ Len(b) = n
    BY <1>2, <2>1
  <2> QED  BY <1>2, <2>2, SeqIsList DEF Seconds
<1> HIDE DEF a, n
<1> DEFINE b == Seconds(s)
<1> HIDE DEF b
<1>4. /\ IsList(Append(b, e[2])) /\ Len(Append(b, e[2])) = n + 1 /\ Append(b, e[2])[n + 1] = e[2]
      /\ \A i \in 1..n : Append(b, e[2])[i] = b[i]
  BY <1>3, AppendList DEF b
<1>5. x = [i \in 1..(n + 1) |-> a[i][2]]
  BY <1>2 DEF Seconds
<1>6. Append(b, e[2]) = [i \in 1..(n + 1) |-> Append(b, e[2])[i]]
  BY <1>4, ListShape
<1>7. \A i \in 1..(n + 1) : a[i][2] = Append(b, e[2])[i]
  <2> SUFFICES ASSUME NEW i \in 1..(n + 1) PROVE a[i][2] = Append(b, e[2])[i]
    OBVIOUS
  <2>1. CASE i = n + 1
    BY <2>1, <1>1, <1>4
  <2>2. CASE i \in 1..n
    BY <2>2, <1>1, <1>3, <1>4 DEF b
  <2>3. n \in Nat
    BY <1>2
  <2>4. i = n + 1 \/ i \in 1..n
    BY <2>3
  <2> QED  BY <2>1, <2>2, <2>4
<1> QED  BY <1>5, <1>6, <1>7 DEF a, b

LEMMA SecondsList ==
  ASSUME NEW s, IsList(s)
  PROVE  /\ IsList(Seconds(s)) /\ Len(Seconds(s)) = Len(s)
         /\ ToSet(Seconds(s)) = {e[2] : e \in ToSet(s)}
         /\ \A i \in 1..Len(s) : Seconds(s)[i] = s[i][2]
<1> DEFINE n == Len(s)
           U == {s[i][2] : i \in 1..n}
           b == Seconds(s)
<1>1. n \in Nat /\ DOMAIN s = 1..n
  BY ListShape
<1>2. b \in [1..n -> U] /\ \A i \in 1..n : b[i] = s[i][2]
  BY <1>1 DEF Seconds
<1>3. b \in Seq(U) /\ Len(b) = n
  BY <1>1, <1>2
<1>4. ToSet(b) = {e[2] : e \in ToSet(s)}
  BY <1>1, <1>2 DEF ToSet
<1> QED  BY <1>2, <1>3, <1>4, SeqIsList

LEMMA ValuesAre ==
  ASSUME NEW hs, NEW n
  PROVE  Values(hs, n) = Seconds(FieldLines(hs, n))
BY DEF Values, Seconds

LEMMA LinesOfAppend ==
  ASSUME NEW hs, IsList(hs), NEW h, NEW n
  PROVE  FieldLines(Append(hs, h), n)
           = IF h[1] = n THEN Append(FieldLines(hs, n), h) ELSE FieldLines(hs, n)
<1> DEFINE a == Append(hs, h)
           S == {x \in ToSet(a) : x[1] = n}
           T == {x \in ToSet(hs) : x[1] = n}
<1>1. ToSet(a) = ToSet(hs) \cup {h}
  BY AppendList
<1>2. Alike(hs, S, T) /\ (h \in S <=> h[1] = n)
  BY <1>1 DEF Alike
<1> HIDE DEF S, T
<1>3. Only(a, S) = IF h \in S THEN Append(Only(hs, S), h) ELSE Only(hs, S)
  BY OnlyOfAppend
<1>4. Only(hs, S) = Only(hs, T)
  BY <1>2, OnlyAlike
<1>5. FieldLines(a, n) = Only(a, S) /\ FieldLines(hs, n) = Only(hs, T)
  BY DEF FieldLines, S, T
<1> QED  BY <1>2, <1>3, <1>4, <1>5

LEMMA LinesList ==
  ASSUME NEW hs, IsList(hs), NEW n
  PROVE  IsList(FieldLines(hs, n)) /\ ToSet(FieldLines(hs, n)) = {x \in ToSet(hs) : x[1] = n}
BY OnlyList DEF FieldLines

LEMMA ValuesList ==
  ASSUME NEW hs, IsList(hs), NEW n
  PROVE  /\ IsList(Values(hs, n)) /\ Len(Values(hs, n)) = Len(FieldLines(hs, n))
         /\ ToSet(Values(hs, n)) = {x[2] : x \in {y \in ToSet(hs) : y[1] = n}}
         /\ (Values(hs, n) = <<>>) <=> (n \notin Names(hs))
<1> DEFINE l == FieldLines(hs, n)
<1>1. IsList(l) /\ ToSet(l) = {x \in ToSet(hs) : x[1] = n}
  BY LinesList
<1>2. IsList(Seconds(l)) /\ Len(Seconds(l)) = Len(l) /\ ToSet(Seconds(l)) = {e[2] : e \in ToSet(l)}
  BY <1>1, SecondsList
<1>3. Values(hs, n) = Seconds(l)
  BY ValuesAre
<1>4. (Seconds(l) = <<>>) <=> (ToSet(l) = {})
  BY <1>1, <1>2, ListShape
<1>5. (ToSet(l) = {}) <=> (n \notin Names(hs))
  BY <1>1 DEF Names, ToSet
<1> HIDE DEF l
<1>6. {e[2] : e \in ToSet(l)} = {x[2] : x \in {y \in ToSet(hs) : y[1] = n}}
  BY <1>1
<1> QED  BY <1>2, <1>3, <1>4, <1>5, <1>6 DEF l

LEMMA HasName ==
  ASSUME NEW hs, NEW n
  PROVE  Has(hs, n) <=> n \in Names(hs)
BY DEF Has, Names

LEMMA NamesAre ==
  ASSUME NEW hs
  PROVE  Names(hs) = {x[1] : x \in ToSet(hs)}
BY DEF Names, ToSet

LEMMA ValuesOfAppend ==
  ASSUME NEW hs, IsList(hs), NEW h, NEW n
  PROVE  Values(Append(hs, h), n) = IF h[1] = n THEN Append(Values(hs, n), h[2]) ELSE Values(hs, n)
<1>1. FieldLines(Append(hs, h), n)
        = IF h[1] = n THEN Append(FieldLines(hs, n), h) ELSE FieldLines(hs, n)
  BY LinesOfAppend
<1>2. IsList(FieldLines(hs, n))
  BY LinesList
<1>3. Seconds(Append(FieldLines(hs, n), h)) = Append(Seconds(FieldLines(hs, n)), h[2])
  <2> DEFINE l == FieldLines(hs, n)
  <2>1. IsList(l)
    BY <1>2
  <2> HIDE DEF l
  <2>2. Seconds(Append(l, h)) = Append(Seconds(l), h[2])
    BY <2>1, SecondsOfAppend
  <2> QED  BY <2>2 DEF l
<1>4. Values(Append(hs, h), n) = Seconds(FieldLines(Append(hs, h), n)) /\ Values(hs, n) = Seconds(FieldLines(hs, n))
  BY ValuesAre
<1> QED  BY <1>1, <1>3, <1>4

LEMMA NamesOfAppend ==
  ASSUME NEW hs, IsList(hs), NEW h
  PROVE  Names(Append(hs, h)) = Names(hs) \cup {h[1]}
<1>1. ToSet(Append(hs, h)) = ToSet(hs) \cup {h}
  BY AppendList
<1> QED  BY <1>1, NamesAre

LEMMA WithoutNames ==
  ASSUME NEW hs, IsList(hs), NEW S
  PROVE  /\ IsList(Without(hs, S)) /\ Names(Without(hs, S)) = Names(hs) \ S
         /\ ToSet(Without(hs, S)) = {x \in ToSet(hs) : x[1] \notin S}
<1> DEFINE T == {x \in ToSet(hs) : x[1] \notin S}
           w == Without(hs, S)
<1>1. IsList(w) /\ ToSet(w) = T
  BY OnlyList DEF Without
<1>2. Names(w) = {x[1] : x \in ToSet(w)} /\ Names(hs) = {x[1] : x \in ToSet(hs)}
  BY NamesAre
<1> HIDE DEF w
<1>3. Names(w) = Names(hs) \ S
  BY <1>1, <1>2
<1> QED  BY <1>1, <1>3 DEF w

LEMMA ValuesWithout ==
  ASSUME NEW hs, IsList(hs), NEW S, NEW n
  PROVE  Values(Without(hs, S), n) = IF n \in S THEN <<>> ELSE Values(hs, n)
<1> DEFINE w == Without(hs, S)
           T == {x \in ToSet(hs) : x[1] \notin S}
           A == {x \in ToSet(w) : x[1] = n}
           B == {x \in ToSet(hs) : x[1] = n}
<1>1. IsList(w) /\ Names(w) = Names(hs) \ S /\ ToSet(w) = T
  BY WithoutNames
<1>2. CASE n \in S
  <2>1. n \notin Names(w)
    BY <1>1, <1>2
  <2> HIDE DEF w
  <2>2. Values(w, n) = <<>>
    BY <1>1, <2>1, ValuesList
  <2> QED  BY <1>2, <2>2 DEF w
<1>3. CASE n \notin S
  <2>1. Alike(hs, T \cap A, B)
    BY <1>1, <1>3 DEF Alike
  <2>2. w = Only(hs, T) /\ FieldLines(w, n) = Only(w, A) /\ FieldLines(hs, n) = Only(hs, B)
    BY DEF Without, FieldLines
  <2> HIDE DEF T, A, B, w
  <2>3. Only(Only(hs, T), A) = Only(hs, T \cap A)
    BY OnlyOfOnly
  <2>4. Only(hs, T \cap A) = Only(hs, B)
    BY <2>1, OnlyAlike
  <2>5. FieldLines(w, n) = FieldLines(hs, n)
    BY <2>2, <2>3, <2>4
  <2>6. Values(w, n) = Values(hs, n)
    BY <2>5, ValuesAre
  <2> QED  BY <1>3, <2>6 DEF w
<1> QED  BY <1>2, <1>3

LEMMA InsertList ==
  ASSUME NEW hs, IsList(hs), NEW m, NEW v
  PROVE  /\ IsList(Insert(hs, m, v)) /\ Names(Insert(hs, m, v)) = Names(hs) \cup {m}
         /\ ToSet(Insert(hs, m, v)) = {x \in ToSet(hs) : x[1] # m} \cup {<<m, v>>}
<1> DEFINE w == Without(hs, {m})
           h == <<m, v>>
<1>1. IsList(w) /\ Names(w) = Names(hs) \ {m} /\ ToSet(w) = {x \in ToSet(hs) : x[1] \notin {m}}
  BY WithoutNames
<1>2. Insert(hs, m, v) = Append(w, h) /\ h[1] = m
  BY DEF Insert
<1> HIDE DEF w, h
<1>3. IsList(Append(w, h)) /\ ToSet(Append(w, h)) = ToSet(w) \cup {h}
  BY <1>1, AppendList
<1>4. ToSet(Append(w, h)) = {x \in ToSet(hs) : x[1] # m} \cup {<<m, v>>}
  BY <1>1, <1>3 DEF h
<1>5. Names(Append(w, h)) = Names(w) \cup {h[1]}
  BY <1>3, NamesAre
<1>6. Names(Append(w, h)) = Names(hs) \cup {m}
  BY <1>1, <1>2, <1>5
<1> QED  BY <1>2, <1>3, <1>4, <1>6

LEMMA InsertValues ==
  ASSUME NEW hs, IsList(hs), NEW m, NEW v, NEW n
  PROVE  Values(Insert(hs, m, v), n) = IF n = m THEN <<v>> ELSE Values(hs, n)
<1> DEFINE w == Without(hs, {m})
           h == <<m, v>>
<1>1. IsList(w)
  BY WithoutNames
<1>2. Values(w, n) = IF n \in {m} THEN <<>> ELSE Values(hs, n)
  BY ValuesWithout
<1>3. Insert(hs, m, v) = Append(w, h) /\ h[1] = m /\ h[2] = v
  BY DEF Insert
<1> HIDE DEF w, h
<1>4. Values(Append(w, h), n) = IF h[1] = n THEN Append(Values(w, n), h[2]) ELSE Values(w, n)
  BY <1>1, ValuesOfAppend
<1>5. CASE n = m
  <2>1. Values(w, n) = <<>>
    BY <1>2, <1>5
  <2>2. Values(Append(w, h), n) = Append(<<>>, v)
    BY <1>3, <1>4, <1>5, <2>1
  <2>3. Append(<<>>, v) = <<v>>
    OBVIOUS
  <2> QED  BY <1>3, <1>5, <2>2, <2>3
<1>6. CASE n # m
  BY <1>2, <1>3, <1>4, <1>6
<1> QED  BY <1>5, <1>6

-----------------------------------------------------------------------------
(* What a list of changes leaves alone.                                    *)
PutOne(adding, acc, h) == IF h[1] \in adding THEN Append(acc, h) ELSE Insert(acc, h[1], h[2])

(* acc has only names of hs and of the changes, and fields that none of    *)
(* the changes names are as they were.                                     *)
Changed(hs, set, acc) ==
  /\ IsList(acc) /\ Names(acc) \subseteq Names(hs) \cup Names(set)
  /\ \A n : n \notin Names(set) => Values(acc, n) = Values(hs, n)

LEMMA PutOneChanges ==
  ASSUME NEW hs, NEW set, NEW acc, Changed(hs, set, acc), NEW h \in ToSet(set), NEW adding
  PROVE  Changed(hs, set, PutOne(adding, acc, h))
<1> DEFINE new == PutOne(adding, acc, h)
<1>1. IsList(acc) /\ Names(acc) \subseteq Names(hs) \cup Names(set) /\ h[1] \in Names(set)
  BY NamesAre DEF Changed
<1>2. /\ IsList(Append(acc, h)) /\ IsList(Insert(acc, h[1], h[2]))
      /\ Names(Append(acc, h)) = Names(acc) \cup {h[1]}
      /\ Names(Insert(acc, h[1], h[2])) = Names(acc) \cup {h[1]}
  <2>1. IsList(Append(acc, h))
    BY <1>1, AppendList
  <2>2. Names(Append(acc, h)) = Names(acc) \cup {h[1]}
    BY <1>1, NamesOfAppend
  <2>3. IsList(Insert(acc, h[1], h[2])) /\ Names(Insert(acc, h[1], h[2])) = Names(acc) \cup {h[1]}
    BY <1>1, InsertList
  <2> QED  BY <2>1, <2>2, <2>3
<1>3. IsList(new) /\ Names(new) \subseteq Names(hs) \cup Names(set)
  BY <1>1, <1>2 DEF PutOne
<1>4. ASSUME NEW n, n \notin Names(set) PROVE Values(new, n) = Values(hs, n)
  <2>1. h[1] # n /\ Values(acc, n) = Values(hs, n)
    BY <1>1, <1>4 DEF Changed
  <2>2. Values(Append(acc, h), n) = Values(acc, n)
    BY <1>1, <2>1, ValuesOfAppend
  <2>3. Values(Insert(acc, h[1], h[2]), n) = Values(acc, n)
    BY <1>1, <2>1, InsertValues
  <2> QED  BY <2>1, <2>2, <2>3 DEF PutOne
<1> QED  BY <1>3, <1>4 DEF Changed

LEMMA PutOneStays ==
  ASSUME NEW U, NEW adding, NEW acc \in Seq(U), NEW h \in U, <<h[1], h[2]>> \in U
  PROVE  PutOne(adding, acc, h) \in Seq(U)
<1>1. IsList(acc) /\ ToSet(acc) \subseteq U
  BY SeqIsList
<1>2. IsList(Append(acc, h)) /\ ToSet(Append(acc, h)) = ToSet(acc) \cup {h}
  BY <1>1, AppendList
<1> DEFINE i == Insert(acc, h[1], h[2])
<1>3. IsList(i) /\ ToSet(i) = {x \in ToSet(acc) : x[1] # h[1]} \cup {<<h[1], h[2]>>}
  BY <1>1, InsertList
<1> HIDE DEF i
<1>4. ToSet(i) \subseteq U /\ ToSet(Append(acc, h)) \subseteq U
  BY <1>1, <1>2, <1>3
<1>5. i \in Seq(U) /\ Append(acc, h) \in Seq(U)
  BY <1>2, <1>3, <1>4, ListIn
<1> QED  BY <1>5 DEF PutOne, i

LEMMA PutAllChanges ==
  ASSUME NEW hs, IsList(hs), NEW set, IsList(set), NEW adding
  PROVE  Changed(hs, set, PutAll(hs, set, adding))
<1> DEFINE n == Len(set)
           U == ToSet(hs) \cup ToSet(set) \cup {<<x[1], x[2]>> : x \in ToSet(set)}
           D == Seq(U)
           o == [q \in D \X (1..n) |-> PutOne(adding, q[1], set[q[2]])]
           Solves(h) == h = [t \in SUBSET DOMAIN set |->
                              IF t = {} THEN hs ELSE PutOne(adding, h[t \ {Max(t)}], set[Max(t)])]
<1>1. n \in Nat /\ DOMAIN set = 1..n /\ \A i \in 1..n : set[i] \in ToSet(set)
  BY ListShape
<1>2. PutAll(hs, set, adding) = (CHOOSE h : Solves(h))[DOMAIN set]
  BY Zenon DEF PutAll, PutOne, FoldLeft, MapThenFoldSet
<1>3. Changed(hs, set, hs)
  BY DEF Changed
<1>4. hs \in D /\ \A i \in 1..n : set[i] \in U /\ <<set[i][1], set[i][2]>> \in U
  <2>1. ToSet(hs) \subseteq U /\ \A x \in ToSet(set) : x \in U /\ <<x[1], x[2]>> \in U
    OBVIOUS
  <2> HIDE DEF U
  <2> QED  BY <1>1, <2>1, ListIn
<1> HIDE DEF n, U
<1>5. \A x \in D : \A i \in 1..n : PutOne(adding, x, set[i]) \in D
  BY <1>4, PutOneStays
<1> HIDE DEF D
<1>6. o \in [D \X (1..n) -> D] /\ \A x \in D : \A i \in 1..n : o[<<x, i>>] = PutOne(adding, x, set[i])
  BY <1>5
<1> HIDE DEF o
<1>7. PICK f \in [SUBSET (1..n) -> D] : Folds(n, hs, o, f)
  BY <1>1, <1>4, <1>6, FoldExists
<1>8. ASSUME NEW t \in SUBSET (1..n), t # {}
      PROVE  Max(t) \in 1..n /\ t \ {Max(t)} \in SUBSET (1..n)
  <2>1. Max(t) \in t
    BY <1>1, <1>8, MaxIsIn
  <2> QED  BY <2>1
<1>9. \A t \in SUBSET (1..n) :
        f[t] = IF t = {} THEN hs ELSE PutOne(adding, f[t \ {Max(t)}], set[Max(t)])
  <2> SUFFICES ASSUME NEW t \in SUBSET (1..n)
               PROVE  f[t] = IF t = {} THEN hs ELSE PutOne(adding, f[t \ {Max(t)}], set[Max(t)])
    OBVIOUS
  <2>1. f[t] = IF t = {} THEN hs ELSE o[<<f[t \ {Max(t)}], Max(t)>>]
    BY <1>7 DEF Folds
  <2>2. t # {} => f[t \ {Max(t)}] \in D /\ Max(t) \in 1..n
    BY <1>7, <1>8
  <2> QED  BY <1>6, <2>1, <2>2
<1>10. Solves(f)
  BY <1>1, <1>9, <1>7
<1> DEFINE g == CHOOSE x : Solves(x)
<1>11. Solves(g)
  BY <1>10
<1> HIDE DEF g
<1>12. \A t \in SUBSET (1..n) :
         g[t] = IF t = {} THEN hs ELSE PutOne(adding, g[t \ {Max(t)}], set[Max(t)])
  BY <1>1, <1>11
<1> HIDE DEF Solves
<1> DEFINE G == {j \in Nat : j <= n => Changed(hs, set, g[1..j])}
<1>13. 0 \in G
  <2>1. 1..0 = {}
    OBVIOUS
  <2> QED  BY <1>12, <1>3, <2>1
<1>14. ASSUME NEW j \in Nat, j \in G PROVE j + 1 \in G
  <2> SUFFICES ASSUME j + 1 <= n PROVE Changed(hs, set, g[1..(j + 1)])
    OBVIOUS
  <2> DEFINE m == j + 1
  <2>1. m \in 1..n /\ m - 1 = j /\ j <= n
    BY <1>1
  <2>2. 1..m \in SUBSET (1..n) /\ 1..m # {}
    <3>1. m \in 1..m /\ m <= n /\ m \in Nat
      BY <1>1, <2>1
    <3> HIDE DEF m
    <3>2. ASSUME NEW i \in 1..m PROVE i \in 1..n
      BY <1>1, <3>1
    <3> QED  BY <3>1, <3>2
  <2>3. Max(1..m) = m /\ (1..m) \ {m} = 1..(m - 1)
    BY <1>1, <2>1, MaxOfInterval
  <2>4. g[1..m] = PutOne(adding, g[(1..m) \ {Max(1..m)}], set[Max(1..m)])
    BY <1>12, <2>2
  <2>5. g[1..m] = PutOne(adding, g[1..j], set[m])
    BY <2>1, <2>3, <2>4
  <2>6. Changed(hs, set, g[1..j]) /\ set[m] \in ToSet(set)
    BY <1>14, <1>1, <2>1
  <2> HIDE DEF m
  <2>7. Changed(hs, set, PutOne(adding, g[1..j], set[m]))
    BY <2>6, PutOneChanges
  <2> QED  BY <2>5, <2>7 DEF m
<1>15. Nat \subseteq G
  <2> HIDE DEF G
  <2> QED  BY <1>13, <1>14, InductionSet
<1>16. Changed(hs, set, g[1..n])
  BY <1>1, <1>15
<1> QED  BY <1>1, <1>2, <1>16 DEF g

-----------------------------------------------------------------------------
(* The shapes of what a message consists of.                               *)
LEMMA MappedList ==
  ASSUME NEW s, IsList(s), NEW f, f = [i \in DOMAIN s |-> f[i]]
  PROVE  IsList(f) /\ Len(f) = Len(s) /\ DOMAIN f = DOMAIN s
<1> DEFINE n == Len(s)
           U == {f[i] : i \in 1..n}
<1>1. n \in Nat /\ DOMAIN s = 1..n
  BY ListShape
<1>2. f \in [1..n -> U] /\ DOMAIN f = 1..n
  BY <1>1
<1>3. f \in Seq(U) /\ Len(f) = n
  BY <1>1, <1>2
<1> QED  BY <1>1, <1>2, <1>3, SeqIsList

Kinds == {"synthesised", "forwarded", "switched"}

IsAnswer(r) ==
  /\ r = [status |-> r.status, headers |-> r.headers, body |-> r.body,
          trailers |-> r.trailers, kind |-> r.kind]
  /\ IsList(r.headers) /\ IsList(r.body) /\ r.kind \in Kinds

WithHeaders(r, hs) == [r EXCEPT !.headers = hs]

LEMMA WithHeadersIs ==
  ASSUME NEW r, IsAnswer(r), NEW hs, IsList(hs)
  PROVE  /\ IsAnswer(WithHeaders(r, hs)) /\ WithHeaders(r, hs).headers = hs
         /\ WithHeaders(r, hs).body = r.body /\ WithHeaders(r, hs).kind = r.kind
         /\ WithHeaders(r, hs).status = r.status /\ WithHeaders(r, hs).trailers = r.trailers
<1> DEFINE w == WithHeaders(r, hs)
<1>1. r = [status |-> r.status, headers |-> r.headers, body |-> r.body,
           trailers |-> r.trailers, kind |-> r.kind] /\ IsList(r.body) /\ r.kind \in Kinds
  BY DEF IsAnswer
<1>2. w = [status |-> r.status, headers |-> hs, body |-> r.body, trailers |-> r.trailers, kind |-> r.kind]
  BY <1>1 DEF WithHeaders
<1> HIDE DEF w
<1>3. /\ w.headers = hs /\ w.body = r.body /\ w.kind = r.kind /\ w.status = r.status
      /\ w.trailers = r.trailers
  BY <1>2
<1>4. IsAnswer(w)
  BY <1>1, <1>2, <1>3 DEF IsAnswer
<1> QED  BY <1>3, <1>4 DEF w

LEMMA AnswerIs ==
  ASSUME NEW status, NEW hs, IsList(hs), NEW bytes, IsList(bytes), NEW kd \in Kinds
  PROVE  /\ IsAnswer(Answer(status, hs, bytes, kd)) /\ Answer(status, hs, bytes, kd).headers = hs
         /\ Answer(status, hs, bytes, kd).body = bytes /\ Answer(status, hs, bytes, kd).kind = kd
         /\ Answer(status, hs, bytes, kd).status = status
<1> DEFINE w == Answer(status, hs, bytes, kd)
<1>1. w = [status |-> status, headers |-> hs, body |-> bytes, trailers |-> <<>>, kind |-> kd]
  BY DEF Answer
<1> HIDE DEF w
<1>2. w.headers = hs /\ w.body = bytes /\ w.kind = kd /\ w.status = status /\ w.trailers = <<>>
  BY <1>1
<1>3. IsAnswer(w)
  BY <1>1, <1>2 DEF IsAnswer
<1> QED  BY <1>2, <1>3 DEF w

WithTrailers(r, t) == [r EXCEPT !.trailers = t]

LEMMA WithTrailersIs ==
  ASSUME NEW r, IsAnswer(r), NEW t
  PROVE  /\ IsAnswer(WithTrailers(r, t)) /\ WithTrailers(r, t).headers = r.headers
         /\ WithTrailers(r, t).body = r.body /\ WithTrailers(r, t).kind = r.kind
         /\ WithTrailers(r, t).status = r.status
<1> DEFINE w == WithTrailers(r, t)
<1>1. r = [status |-> r.status, headers |-> r.headers, body |-> r.body,
           trailers |-> r.trailers, kind |-> r.kind] /\ IsList(r.body) /\ IsList(r.headers) /\ r.kind \in Kinds
  BY DEF IsAnswer
<1>2. w = [status |-> r.status, headers |-> r.headers, body |-> r.body, trailers |-> t, kind |-> r.kind]
  BY <1>1 DEF WithTrailers
<1> HIDE DEF w
<1>3. w.headers = r.headers /\ w.body = r.body /\ w.kind = r.kind /\ w.status = r.status /\ w.trailers = t
  BY <1>2
<1>4. IsAnswer(w)
  BY <1>1, <1>2, <1>3 DEF IsAnswer
<1> QED  BY <1>3, <1>4 DEF w

LEMMA PairList ==
  ASSUME NEW x
  PROVE  IsList(<<x>>) /\ ToSet(<<x>>) = {x} /\ Len(<<x>>) = 1 /\ Names(<<x>>) = {x[1]}
<1>1. <<x>> \in Seq({x}) /\ Len(<<x>>) = 1 /\ DOMAIN <<x>> = {1} /\ <<x>>[1] = x
  OBVIOUS
<1>2. ToSet(<<x>>) = {x} /\ Names(<<x>>) = {x[1]}
  BY <1>1 DEF ToSet, Names
<1> QED  BY <1>1, <1>2, SeqIsList

LEMMA SynthIs ==
  ASSUME NEW status, NEW fault
  PROVE  /\ IsAnswer(synth(status, fault)) /\ Names(synth(status, fault).headers) = {"x-plecto-fault"}
         /\ synth(status, fault).kind = "synthesised"
<1> DEFINE h == <<"x-plecto-fault", fault>>
           hs == <<h>>
           bytes == <<fault>>
<1>1. IsList(hs) /\ Names(hs) = {h[1]} /\ IsList(bytes) /\ h[1] = "x-plecto-fault"
  BY PairList
<1>2. synth(status, fault) = Answer(status, hs, bytes, "synthesised")
  BY DEF synth
<1> DEFINE kd == "synthesised"
<1>3. kd \in Kinds
  BY DEF Kinds
<1> HIDE DEF hs, bytes, kd
<1>4. IsAnswer(Answer(status, hs, bytes, kd)) /\ Answer(status, hs, bytes, kd).headers = hs
      /\ Answer(status, hs, bytes, kd).kind = kd
  BY <1>1, <1>3, AnswerIs
<1> QED  BY <1>1, <1>2, <1>4 DEF kd

-----------------------------------------------------------------------------
(* What the exit of a transaction does to an answer.                       *)
LEMMA RouteFacts ==
  ASSUME scn \in Scenarios
  PROVE  /\ IsRequest(scn.request) /\ IsRoute(route) /\ IsList(route.declared.set)
         /\ N \in Nat /\ DOMAIN Filters = 1..N /\ inspect.max \in Nat
<1>1. IsRequest(scn.request) /\ IsRoute(route)
  BY ScenarioAssumption DEF route
<1>2. IsList(Filters) /\ IsList(route.declared.set) /\ inspect.max \in Nat
  BY <1>1 DEF IsRoute, IsHeaders, Filters, inspect
<1> QED  BY <1>1, <1>2, ListShape DEF N

DeclaredHeaders(hs) == PutAll(Without(hs, route.declared.remove), route.declared.set, {})

LEMMA DeclaredIs ==
  ASSUME scn \in Scenarios, NEW r, IsAnswer(r)
  PROVE  /\ Declared(r) = WithHeaders(r, DeclaredHeaders(r.headers))
         /\ IsAnswer(Declared(r)) /\ Declared(r).body = r.body /\ Declared(r).kind = r.kind
         /\ Declared(r).headers = DeclaredHeaders(r.headers)
         /\ Changed(Without(r.headers, route.declared.remove), route.declared.set,
                    DeclaredHeaders(r.headers))
<1> DEFINE hs == r.headers
           w == Without(hs, route.declared.remove)
           set == route.declared.set
           none == {}
           new == PutAll(w, set, none)
<1>1. IsList(hs) /\ IsList(set)
  BY RouteFacts DEF IsAnswer
<1>2. IsList(w)
  BY <1>1, WithoutNames
<1>3. new = DeclaredHeaders(hs)
  BY DEF DeclaredHeaders
<1>4. Declared(r) = WithHeaders(r, new)
  BY DEF Declared, WithHeaders
<1> HIDE DEF hs, w, set, none
<1>5. Changed(w, set, new)
  BY <1>1, <1>2, PutAllChanges
<1> HIDE DEF new
<1>6. IsList(new)
  BY <1>5 DEF Changed
<1>7. /\ IsAnswer(WithHeaders(r, new)) /\ WithHeaders(r, new).headers = new
      /\ WithHeaders(r, new).body = r.body /\ WithHeaders(r, new).kind = r.kind
  BY <1>6, WithHeadersIs
<1> QED  BY <1>3, <1>4, <1>5, <1>7 DEF hs, w, set

WeakTag(hs) == [tag |-> Values(hs, "etag")[1].tag, weak |-> TRUE]

Weakened(hs) ==
  IF Values(hs, "etag") = <<>> \/ Values(hs, "etag")[1].weak THEN hs
  ELSE Insert(hs, "etag", WeakTag(hs))

CodedHeaders(hs, c) ==
  Insert(Without(hs, {"content-length", "accept-ranges"}), "content-encoding", {c})

LEMMA MarkIs ==
  ASSUME NEW hs, NEW c
  PROVE  mark_compressed(hs, c) = Weakened(CodedHeaders(hs, c))
BY DEF mark_compressed, Weakened, WeakTag, CodedHeaders

LEMMA MarkList ==
  ASSUME NEW hs, IsList(hs), NEW c
  PROVE  /\ IsList(CodedHeaders(hs, c)) /\ IsList(mark_compressed(hs, c))
         /\ Names(CodedHeaders(hs, c)) = (Names(hs) \ {"content-length", "accept-ranges"}) \cup {"content-encoding"}
<1> DEFINE w == Without(hs, {"content-length", "accept-ranges"})
           e == "content-encoding"
           v == {c}
           m == Insert(w, e, v)
<1>1. IsList(w) /\ Names(w) = Names(hs) \ {"content-length", "accept-ranges"}
  BY WithoutNames
<1> HIDE DEF w, e, v
<1>2. IsList(m) /\ Names(m) = Names(w) \cup {e}
  BY <1>1, InsertList
<1>3. m = CodedHeaders(hs, c)
  BY DEF CodedHeaders, w, e, v
<1> HIDE DEF m
<1> DEFINE f == Weakened(m)
<1>5. IsList(f)
  BY <1>2, InsertList DEF Weakened
<1> HIDE DEF f
<1> QED  BY <1>1, <1>2, <1>3, <1>5, MarkIs DEF e, f

LEMMA VaryList ==
  ASSUME NEW hs, IsList(hs)
  PROVE  /\ IsList(add_vary_accept_encoding(hs))
         /\ Names(add_vary_accept_encoding(hs)) \subseteq Names(hs) \cup {"vary"}
<1> DEFINE h == <<"vary", {"accept-encoding"}>>
<1>1. h[1] = "vary"
  OBVIOUS
<1>2. add_vary_accept_encoding(hs) = hs \/ add_vary_accept_encoding(hs) = Append(hs, h)
  BY DEF add_vary_accept_encoding
<1> HIDE DEF h
<1>3. IsList(Append(hs, h)) /\ Names(Append(hs, h)) = Names(hs) \cup {h[1]}
  BY AppendList, NamesOfAppend
<1> QED  BY <1>1, <1>2, <1>3

Coded(r, c) == CompressBody(WithHeaders(r, mark_compressed(r.headers, c)), c)

LEMMA CodedIs ==
  ASSUME NEW r, IsAnswer(r), NEW c
  PROVE  /\ IsAnswer(Coded(r, c)) /\ Coded(r, c).headers = mark_compressed(r.headers, c)
         /\ Coded(r, c).body = <<c>> \o r.body \o <<"end">> /\ Coded(r, c).kind = r.kind
<1> DEFINE hs == mark_compressed(r.headers, c)
           w == WithHeaders(r, hs)
           bytes == <<c>> \o r.body \o <<"end">>
           d == CompressBody(w, c)
<1>1. IsList(r.headers) /\ IsList(r.body)
  BY DEF IsAnswer
<1>2. IsList(hs)
  BY <1>1, MarkList
<1>3. IsList(bytes)
  <2>1. IsList(<<c>>) /\ IsList(<<"end">>)
    BY PairList
  <2> DEFINE x == <<c>>
             y == <<"end">>
             z == x \o r.body
  <2> HIDE DEF x, y
  <2>2. IsList(z)
    BY <1>1, <2>1, ConcatList DEF x
  <2> HIDE DEF z
  <2>3. IsList(z \o y)
    BY <2>1, <2>2, ConcatList DEF y
  <2> QED  BY <2>3 DEF x, y, z
<1> HIDE DEF hs
<1>4. IsAnswer(w) /\ w.headers = hs /\ w.body = r.body /\ w.kind = r.kind
  BY <1>2, WithHeadersIs
<1> HIDE DEF w
<1>5. d = [w EXCEPT !.body = bytes]
  BY <1>4 DEF CompressBody
<1> HIDE DEF bytes
<1>6. w = [status |-> w.status, headers |-> w.headers, body |-> w.body,
           trailers |-> w.trailers, kind |-> w.kind] /\ IsList(w.headers) /\ w.kind \in Kinds
  BY <1>4 DEF IsAnswer
<1>7. d = [status |-> w.status, headers |-> w.headers, body |-> bytes,
           trailers |-> w.trailers, kind |-> w.kind]
  BY <1>5, <1>6
<1> HIDE DEF d
<1>8. d.headers = w.headers /\ d.body = bytes /\ d.kind = w.kind /\ d.status = w.status /\ d.trailers = w.trailers
  BY <1>7
<1>9. IsAnswer(d)
  BY <1>3, <1>6, <1>7, <1>8 DEF IsAnswer
<1> QED  BY <1>4, <1>8, <1>9 DEF d, w, hs, bytes, Coded

Varied(r) == WithHeaders(r, add_vary_accept_encoding(r.headers))

LEMMA VariedIs ==
  ASSUME NEW r, IsAnswer(r)
  PROVE  /\ IsAnswer(Varied(r)) /\ Varied(r).headers = add_vary_accept_encoding(r.headers)
         /\ Varied(r).body = r.body /\ Varied(r).kind = r.kind
<1> DEFINE hs == add_vary_accept_encoding(r.headers)
<1>1. IsList(hs)
  BY VaryList DEF IsAnswer
<1> HIDE DEF hs
<1>2. IsAnswer(WithHeaders(r, hs)) /\ WithHeaders(r, hs).headers = hs
      /\ WithHeaders(r, hs).body = r.body /\ WithHeaders(r, hs).kind = r.kind
  BY <1>1, WithHeadersIs
<1> QED  BY <1>2 DEF hs, Varied

LEMMA CompressForms ==
  ASSUME NEW r, NEW hs, NEW cfg, NEW codec
  PROVE  compress_response(r, hs, cfg, codec) =
           IF ~response_eligible(r, cfg) THEN r
           ELSE IF negotiate(hs, cfg.algorithms) = "identity" \/ ~codec THEN Varied(r)
           ELSE Coded(Varied(r), negotiate(hs, cfg.algorithms))
BY DEF compress_response, Varied, Coded, WithHeaders

(* A response that leaves is the answer with the operator's headers, and   *)
(* that varied or coded.                                                   *)
Exits(r, o) ==
  \/ o = r
  \/ /\ r.kind = "forwarded" /\ route.compression # <<>> /\ line.method # "HEAD"
     /\ response_eligible(r, route.compression[1])
     /\ \/ o = Varied(r)
        \/ /\ negotiate(line.headers, route.compression[1].algorithms) # "identity"
           /\ o = Coded(Varied(r), negotiate(line.headers, route.compression[1].algorithms))

LEMMA RespondIs ==
  ASSUME scn \in Scenarios, NEW r, IsAnswer(r), Respond(r)
  PROVE  /\ stage' = "done" /\ out' = <<out'[1], out'[2]>> /\ out'[2] = Declared(r)
         /\ IsAnswer(out'[1]) /\ IsAnswer(out'[2]) /\ out'[1].kind = r.kind
         /\ Exits(Declared(r), out'[1])
<1> DEFINE d == Declared(r)
           cfg == route.compression[1]
           c == negotiate(line.headers, cfg.algorithms)
<1>1. IsAnswer(d) /\ d.kind = r.kind
  BY DeclaredIs
<1>2. IsAnswer(Varied(d)) /\ Varied(d).kind = d.kind
  BY <1>1, VariedIs
<1>3. IsAnswer(Coded(Varied(d), c)) /\ Coded(Varied(d), c).kind = d.kind
  <2> DEFINE v == Varied(d)
  <2> HIDE DEF v, c, d
  <2>1. IsAnswer(Coded(v, c)) /\ Coded(v, c).kind = v.kind
    BY <1>2, CodedIs DEF v
  <2> QED  BY <1>2, <2>1 DEF v
<1>4. CASE r.kind # "forwarded"
  <2>1. stage' = "done" /\ out' = <<d, d>>
    BY <1>4 DEF Respond
  <2> QED  BY <1>1, <2>1 DEF Exits
<1>5. CASE r.kind = "forwarded"
  <2>1. PICK codec \in BOOLEAN :
          out' = <<apply_compression(d, route.compression, line.method, line.headers, codec), d>>
    BY <1>5 DEF Respond
  <2>2. stage' = "done"
    BY DEF Respond
  <2> DEFINE o == apply_compression(d, route.compression, line.method, line.headers, codec)
  <2>3. o = IF route.compression = <<>> \/ line.method = "HEAD" THEN d
            ELSE compress_response(d, line.headers, cfg, codec)
    BY DEF apply_compression
  <2>4. compress_response(d, line.headers, cfg, codec) =
           IF ~response_eligible(d, cfg) THEN d
           ELSE IF c = "identity" \/ ~codec THEN Varied(d)
           ELSE Coded(Varied(d), c)
    BY CompressForms
  <2>5. out' = <<o, d>>
    BY <2>1
  <2> HIDE DEF o, d
  <2>6. out'[1] = o /\ out'[2] = d /\ out' = <<out'[1], out'[2]>>
    BY <2>5
  <2>7. o \in {d, Varied(d), Coded(Varied(d), c)} /\ Exits(d, o)
    <3>1. CASE route.compression = <<>> \/ line.method = "HEAD"
      BY <2>3, <3>1 DEF Exits
    <3>2. CASE ~(route.compression = <<>> \/ line.method = "HEAD")
      <4>1. o = compress_response(d, line.headers, cfg, codec)
        BY <2>3, <3>2
      <4>2. CASE ~response_eligible(d, cfg)
        BY <2>4, <4>1, <4>2 DEF Exits
      <4>3. CASE response_eligible(d, cfg) /\ (c = "identity" \/ ~codec)
        BY <1>1, <1>5, <2>4, <3>2, <4>1, <4>3 DEF Exits
      <4>4. CASE response_eligible(d, cfg) /\ ~(c = "identity" \/ ~codec)
        <5>1. o = Coded(Varied(d), c) /\ c # "identity"
          BY <2>4, <4>1, <4>4
        <5> QED  BY <1>1, <1>5, <3>2, <4>4, <5>1 DEF Exits
      <4> QED  BY <4>2, <4>3, <4>4
    <3> QED  BY <3>1, <3>2
  <2>8. IsAnswer(o) /\ o.kind = r.kind
    BY <1>1, <1>2, <1>3, <2>7
  <2> QED  BY <1>1, <2>2, <2>6, <2>7, <2>8 DEF d
<1> QED  BY <1>4, <1>5

-----------------------------------------------------------------------------
(* What becomes of what a guest says.                                      *)
Spoken(s) ==
  /\ s = Says(s.kind, s.set, s.remove, s.status, s.body)
  /\ s.kind \in {"continue", "modified", "answer", "fault"}
  /\ IsList(s.set) /\ IsList(s.body) /\ (s.kind = "fault" => Names(s.set) = {})

LEMMA SaidIsSpoken ==
  ASSUME NEW s, IsSaid(s)
  PROVE  Spoken(s)
<1>1. s.kind = "fault" => s.set = <<>>
  BY DEF IsSaid, Fault, Says
<1>2. Names(<<>>) = {}
  BY DEF Names
<1> QED  BY <1>1, <1>2 DEF IsSaid, IsHeaders, Spoken

LEMMA SaysIs ==
  ASSUME NEW kd, NEW set, NEW remove, NEW status, NEW bytes
  PROVE  /\ Says(kd, set, remove, status, bytes).kind = kd /\ Says(kd, set, remove, status, bytes).set = set
         /\ Says(kd, set, remove, status, bytes).remove = remove
         /\ Says(kd, set, remove, status, bytes).status = status
         /\ Says(kd, set, remove, status, bytes).body = bytes
BY DEF Says

LEMMA FaultIs == Spoken(Fault) /\ Fault.kind = "fault" /\ Names(Fault.set) = {}
<1>1. /\ Fault.kind = "fault" /\ Fault.set = <<>> /\ Fault.remove = {} /\ Fault.status = 502
      /\ Fault.body = <<"fault">>
  BY DEF Fault, Says
<1>2. Fault = Says(Fault.kind, Fault.set, Fault.remove, Fault.status, Fault.body)
  BY <1>1 DEF Fault
<1>3. IsList(<<>>) /\ IsList(<<"fault">>) /\ Names(<<>>) = {}
  BY EmptyList, PairList DEF Names
<1> QED  BY <1>1, <1>2, <1>3 DEF Spoken

WithSet(s, hs) == [s EXCEPT !.set = hs]

LEMMA WithSetIs ==
  ASSUME NEW s, Spoken(s), NEW hs, IsList(hs), Names(hs) \subseteq Names(s.set)
  PROVE  /\ Spoken(WithSet(s, hs)) /\ WithSet(s, hs).set = hs /\ WithSet(s, hs).kind = s.kind
         /\ WithSet(s, hs).body = s.body
<1> DEFINE w == WithSet(s, hs)
<1>1. s = Says(s.kind, s.set, s.remove, s.status, s.body)
  BY DEF Spoken
<1>2. w = Says(s.kind, hs, s.remove, s.status, s.body)
  BY <1>1 DEF WithSet, Says
<1> HIDE DEF w
<1>3. w.kind = s.kind /\ w.set = hs /\ w.remove = s.remove /\ w.status = s.status /\ w.body = s.body
  BY <1>2, SaysIs
<1>4. Spoken(w)
  BY <1>2, <1>3 DEF Spoken
<1> QED  BY <1>3, <1>4 DEF w

(* A decision sets no hop-by-hop header and no name the guest did not.     *)
Decides(d, s) ==
  /\ Spoken(d) /\ Names(d.set) \subseteq Names(s.set)
  /\ d.kind # "continue" => Names(d.set) \cap HopByHop = {}

LEMMA CheckedIs ==
  ASSUME NEW s, Spoken(s), NEW d, d = Fault \/ d = WithSet(s, DropHopByHop(s.set))
  PROVE  Decides(d, s)
<1> DEFINE hs == DropHopByHop(s.set)
<1>1. IsList(hs) /\ Names(hs) = Names(s.set) \ HopByHop
  BY WithoutNames DEF DropHopByHop, Spoken
<1> HIDE DEF hs
<1>3. Spoken(WithSet(s, hs)) /\ WithSet(s, hs).set = hs
  BY <1>1, WithSetIs
<1>4. CASE d = WithSet(s, hs)
  BY <1>1, <1>3, <1>4 DEF Decides
<1>5. CASE d = Fault
  BY <1>5, FaultIs DEF Decides
<1> QED  BY <1>4, <1>5 DEF hs

LEMMA SameIs ==
  ASSUME NEW s, Spoken(s), s.kind \in {"continue", "fault"}
  PROVE  Decides(s, s)
BY DEF Decides, Spoken

LEMMA FrozenIs ==
  ASSUME NEW s, Spoken(s)
  PROVE  Decides(frozen_body_continue(s), s)
<1> DEFINE d == frozen_body_continue(s)
<1>1. d = Says("modified", <<>>, {}, 0, s.body)
  BY DEF frozen_body_continue
<1> HIDE DEF d
<1>2. d.kind = "modified" /\ d.set = <<>> /\ d.remove = {} /\ d.status = 0 /\ d.body = s.body
  BY <1>1, SaysIs
<1>3. IsList(<<>>) /\ Names(<<>>) = {}
  BY EmptyList DEF Names
<1>4. IsList(s.body)
  BY DEF Spoken
<1>5. Spoken(d)
  BY <1>1, <1>2, <1>3, <1>4 DEF Spoken
<1> QED  BY <1>2, <1>3, <1>5 DEF Decides, d

LEMMA DecisionForms ==
  ASSUME NEW s, Spoken(s), NEW v
  PROVE  /\ Decides(request_decision_from(s), s) /\ Decides(response_decision_from(s), s)
         /\ Decides(request_body_decision_from(v, s), s) /\ Decides(response_body_decision_from(s), s)
<1> DEFINE c == WithSet(s, DropHopByHop(s.set))
<1>1. s.kind \in {"continue", "modified", "answer", "fault"}
  BY DEF Spoken
<1>2. Decides(c, s) /\ Decides(Fault, s)
  BY CheckedIs
<1>3. s.kind \in {"continue", "fault"} => Decides(s, s)
  BY SameIs
<1>4. Decides(frozen_body_continue(s), s)
  BY FrozenIs
<1> HIDE DEF c
<1>6. request_decision_from(s) \in {c, Fault} \/ (request_decision_from(s) = s /\ s.kind \in {"continue", "fault"})
  BY <1>1 DEF request_decision_from, Checked, c, WithSet
<1>7. response_decision_from(s) \in {c, Fault} \/ (response_decision_from(s) = s /\ s.kind \in {"continue", "fault"})
  BY <1>1 DEF response_decision_from, Checked, c, WithSet
<1>8. \/ request_body_decision_from(v, s) \in {c, Fault, frozen_body_continue(s)}
      \/ (request_body_decision_from(v, s) = s /\ s.kind \in {"continue", "fault"})
  BY <1>1 DEF request_body_decision_from, Checked, c, WithSet
<1>9. response_body_decision_from(s) \in {c, Fault} \/ (response_body_decision_from(s) = s /\ s.kind \in {"continue", "fault"})
  BY <1>1 DEF response_body_decision_from, Checked, c, WithSet
<1> QED  BY <1>2, <1>3, <1>4, <1>6, <1>7, <1>8, <1>9

Echoed(shown, set) ==
  [i \in DOMAIN set |->
     IF set[i] = <<"x-bin", "shown">> THEN <<"x-bin", (Values(shown, "x-bin") \o <<"none">>)[1]>>
     ELSE set[i]]

LEMMA EchoesIs ==
  ASSUME NEW s, Spoken(s), NEW shown
  PROVE  Spoken(Echoes(shown, s)) /\ Names(Echoes(shown, s).set) = Names(s.set)
<1> DEFINE hs == Echoed(shown, s.set)
<1>1. Echoes(shown, s) = WithSet(s, hs)
  BY DEF Echoes, Echoed, WithSet
<1>2. IsList(s.set)
  BY DEF Spoken
<1>3. hs = [i \in DOMAIN s.set |-> hs[i]]
  BY DEF Echoed
<1>4. \A i \in DOMAIN s.set : hs[i][1] = s.set[i][1]
  BY DEF Echoed
<1> HIDE DEF hs
<1>5. IsList(hs) /\ DOMAIN hs = DOMAIN s.set
  BY <1>2, <1>3, MappedList
<1>6. Names(hs) = Names(s.set)
  BY <1>4, <1>5 DEF Names
<1>7. Spoken(WithSet(s, hs)) /\ WithSet(s, hs).set = hs
  BY <1>5, <1>6, WithSetIs
<1> QED  BY <1>1, <1>6, <1>7

LEMMA HookDecides ==
  ASSUME NEW s, IsSaid(s), NEW v, NEW hs
  PROVE  /\ Decides(call_on_request(v, hs, s), s) /\ Decides(call_on_response(v, hs, s), s)
         /\ Decides(call_body_hook(v, s), s) /\ Decides(call_response_body_hook(s), s)
<1> DEFINE e == Echoes(request_to(v, hs), s)
<1>1. Spoken(s)
  BY SaidIsSpoken
<1>2. Spoken(e) /\ Names(e.set) = Names(s.set)
  BY <1>1, EchoesIs
<1> HIDE DEF e
<1>3. Decides(request_decision_from(e), e) /\ Decides(response_decision_from(e), e)
  BY <1>2, DecisionForms
<1>4. Decides(request_body_decision_from(v, s), s) /\ Decides(response_body_decision_from(s), s)
  BY <1>1, DecisionForms
<1>5. Decides(request_decision_from(e), s) /\ Decides(response_decision_from(e), s)
  BY <1>2, <1>3 DEF Decides
<1> QED  BY <1>4, <1>5 DEF call_on_request, call_on_response, call_body_hook, call_response_body_hook, e

-----------------------------------------------------------------------------
(* The answers a transaction ends with.                                    *)
LEMMA HttpResponseIs ==
  ASSUME NEW d, IsList(d.set), IsList(d.body)
  PROVE  /\ IsAnswer(http_response(d)) /\ http_response(d).kind = "synthesised"
         /\ http_response(d).body = d.body
         /\ Names(http_response(d).headers) = Names(d.set) \ (HopByHop \cup {"content-length"})
<1> DEFINE S == HopByHop \cup {"content-length"}
           hs == Without(d.set, S)
           kd == "synthesised"
<1>1. IsList(hs) /\ Names(hs) = Names(d.set) \ S /\ kd \in Kinds
  BY WithoutNames DEF Kinds
<1>2. http_response(d) = Answer(d.status, hs, d.body, kd)
  BY DEF http_response, copy_headers_synth
<1> HIDE DEF hs, kd
<1>3. /\ IsAnswer(Answer(d.status, hs, d.body, kd)) /\ Answer(d.status, hs, d.body, kd).headers = hs
      /\ Answer(d.status, hs, d.body, kd).body = d.body /\ Answer(d.status, hs, d.body, kd).kind = kd
  BY <1>1, AnswerIs
<1> QED  BY <1>1, <1>2, <1>3 DEF kd

(* The length a streamed answer is framed with is the upstream's.          *)
Framed(hs) == IF Values(up[1].headers, "content-length") = <<>> THEN hs
              ELSE Insert(hs, "content-length", Values(up[1].headers, "content-length")[1])

LEMMA StreamResponseIs ==
  ASSUME NEW r, IsList(r.headers), NEW bytes, IsList(bytes)
  PROVE  /\ IsAnswer(stream_response(r, bytes)) /\ stream_response(r, bytes).kind = "forwarded"
         /\ stream_response(r, bytes).body = bytes
         /\ Names(stream_response(r, bytes).headers) \subseteq (Names(r.headers) \ HopByHop) \cup {"content-length"}
         /\ Values(stream_response(r, bytes).headers, "content-length")
              = IF Values(up[1].headers, "content-length") = <<>> THEN <<>>
                ELSE <<Values(up[1].headers, "content-length")[1]>>
<1> DEFINE S == HopByHop \cup {"content-length"}
           w == Without(r.headers, S)
           length == Values(up[1].headers, "content-length")
           cl == "content-length"
           v == length[1]
           hs == Framed(w)
           kd == "forwarded"
           a == Answer(r.status, hs, bytes, kd)
<1>1. IsList(w) /\ Names(w) = Names(r.headers) \ S /\ kd \in Kinds
  BY WithoutNames DEF Kinds
<1>2. Values(w, cl) = <<>>
  BY <1>1, ValuesList
<1>3. hs = IF length = <<>> THEN w ELSE Insert(w, cl, v)
  BY DEF Framed
<1>4. stream_response(r, bytes) = WithTrailers(a, up[1].trailers)
  BY DEF stream_response, WithTrailers, copy_headers_synth, Framed
<1> HIDE DEF w, length, v, hs, kd, cl
<1>5. IsList(Insert(w, cl, v)) /\ Names(Insert(w, cl, v)) = Names(w) \cup {cl}
  BY <1>1, InsertList
<1>6. Values(Insert(w, cl, v), cl) = <<v>>
  BY <1>1, InsertValues
<1>7. IsList(hs) /\ Names(hs) \subseteq Names(w) \cup {cl}
      /\ Values(hs, cl) = IF length = <<>> THEN <<>> ELSE <<v>>
  BY <1>1, <1>2, <1>3, <1>5, <1>6
<1>8. IsAnswer(a) /\ a.headers = hs /\ a.body = bytes /\ a.kind = kd
  BY <1>1, <1>7, AnswerIs
<1> HIDE DEF a
<1>9. LET t == WithTrailers(a, up[1].trailers) IN
      IsAnswer(t) /\ t.headers = a.headers /\ t.body = a.body /\ t.kind = a.kind
  BY <1>8, WithTrailersIs
<1>10. Names(hs) \subseteq (Names(r.headers) \ HopByHop) \cup {"content-length"}
  BY <1>1, <1>7 DEF cl
<1> QED  BY <1>4, <1>7, <1>8, <1>9, <1>10 DEF kd, length, v, cl

LEMMA DirectResponseIs ==
  ASSUME IsList(up[1].headers), IsList(up[1].body)
  PROVE  /\ IsAnswer(stream_response_direct) /\ stream_response_direct.kind = "forwarded"
         /\ stream_response_direct.body = up[1].body
         /\ stream_response_direct.headers = Strip(up[1].headers)
<1> DEFINE hs == Strip(up[1].headers)
           kd == "forwarded"
           bytes == up[1].body
           a == Answer(up[1].status, hs, bytes, kd)
<1>1. IsList(hs) /\ kd \in Kinds
  BY WithoutNames DEF Kinds, Strip
<1>2. stream_response_direct = WithTrailers(a, up[1].trailers)
  BY DEF stream_response_direct, WithTrailers
<1> HIDE DEF hs, kd
<1>3. IsAnswer(a) /\ a.headers = hs /\ a.body = bytes /\ a.kind = kd
  BY <1>1, AnswerIs
<1> HIDE DEF a
<1>4. LET t == WithTrailers(a, up[1].trailers) IN
      IsAnswer(t) /\ t.headers = a.headers /\ t.body = a.body /\ t.kind = a.kind
  BY <1>3, WithTrailersIs
<1> QED  BY <1>2, <1>3, <1>4 DEF kd, hs

SwitchHeaders(hs) == Insert(Insert(copy_headers(hs), "upgrade", upgrade_intent), "connection", {"upgrade"})

LEMMA SwitchHeadersAre ==
  ASSUME NEW hs, IsList(hs)
  PROVE  /\ IsList(SwitchHeaders(hs))
         /\ Names(SwitchHeaders(hs)) = (Names(hs) \ HopByHop) \cup {"upgrade", "connection"}
         /\ Values(SwitchHeaders(hs), "upgrade") = <<upgrade_intent>>
<1> DEFINE w == copy_headers(hs)
           u == "upgrade"
           c == "connection"
           v == upgrade_intent
           x == {"upgrade"}
           a == Insert(w, u, v)
           b == Insert(a, c, x)
<1>1. IsList(w) /\ Names(w) = Names(hs) \ HopByHop /\ u # c
  BY WithoutNames DEF copy_headers
<1>2. b = SwitchHeaders(hs)
  BY DEF SwitchHeaders
<1> HIDE DEF w, u, c, v, x
<1>3. IsList(a) /\ Names(a) = Names(w) \cup {u}
  BY <1>1, InsertList
<1>4. Values(a, u) = <<v>>
  BY <1>1, InsertValues
<1> HIDE DEF a
<1>5. IsList(b) /\ Names(b) = Names(a) \cup {c}
  BY <1>3, InsertList
<1>6. Values(b, u) = Values(a, u)
  BY <1>1, <1>3, InsertValues
<1>7. Names(b) = (Names(hs) \ HopByHop) \cup {u, c}
  BY <1>1, <1>3, <1>5
<1> QED  BY <1>2, <1>4, <1>5, <1>6, <1>7 DEF u, c, v

(* The 101 that grants the switch.                                         *)
Switched(hs) == Answer(101, SwitchHeaders(hs), <<>>, "switched")

LEMMA SwitchedIs ==
  ASSUME NEW hs, IsList(hs)
  PROVE  /\ IsAnswer(Switched(hs)) /\ Switched(hs).kind = "switched"
         /\ Switched(hs).headers = SwitchHeaders(hs)
<1> DEFINE h == SwitchHeaders(hs)
           e == <<>>
           kd == "switched"
<1>1. IsList(h) /\ IsList(e) /\ kd \in Kinds
  BY SwitchHeadersAre, EmptyList DEF Kinds
<1> HIDE DEF h, e, kd
<1>2. IsAnswer(Answer(101, h, e, kd)) /\ Answer(101, h, e, kd).kind = kd /\ Answer(101, h, e, kd).headers = h
  BY <1>1, AnswerIs
<1> QED  BY <1>2 DEF h, e, kd, Switched

LEMMA EditIs ==
  ASSUME NEW hs, IsList(hs), NEW d, IsList(d.set)
  PROVE  /\ Changed(Without(hs, d.remove), d.set, apply_edit(hs, d))
         /\ IsList(apply_edit(hs, d)) /\ Names(apply_edit(hs, d)) \subseteq Names(hs) \cup Names(d.set)
<1> DEFINE w == Without(hs, d.remove)
           a == {"set-cookie"}
           set == d.set
           new == PutAll(w, set, a)
<1>1. IsList(w) /\ IsList(set) /\ Names(w) \subseteq Names(hs)
  BY WithoutNames
<1>2. apply_edit(hs, d) = new
  BY DEF apply_edit, set_headers
<1> HIDE DEF w, a, set
<1>3. Changed(w, set, new)
  BY <1>1, PutAllChanges
<1> HIDE DEF new
<1>4. IsList(new) /\ Names(new) \subseteq Names(hs) \cup Names(set)
  BY <1>1, <1>3 DEF Changed
<1> QED  BY <1>2, <1>3, <1>4 DEF w, set

-----------------------------------------------------------------------------
(* Ingress.                                                                *)
ThreeMore(hs, x, y, z) == Append(Append(Append(hs, x), y), z)

LEMMA ConcatThree ==
  ASSUME NEW hs, IsList(hs), NEW x, NEW y, NEW z
  PROVE  hs \o <<x, y, z>> = ThreeMore(hs, x, y, z)
<1> DEFINE U == ToSet(hs) \cup {x, y, z}
           b == <<x, y, z>>
           c == hs \o b
           p == Append(hs, x)
           q == Append(p, y)
           r == Append(q, z)
           n == Len(hs)
<1>1. hs \in Seq(U) /\ b \in Seq(U) /\ Len(b) = 3 /\ x \in U /\ y \in U /\ z \in U
      /\ b[1] = x /\ b[2] = y /\ b[3] = z
  BY ListIn
<1> HIDE DEF U, b
<1>2. /\ c \in Seq(U) /\ Len(c) = n + 3 /\ n \in Nat
      /\ \A i \in 1..(n + 3) : c[i] = IF i <= n THEN hs[i] ELSE b[i - n]
  <2>1. /\ c \in Seq(U) /\ Len(c) = Len(hs) + Len(b)
        /\ \A i \in 1..(Len(hs) + Len(b)) : c[i] = IF i <= Len(hs) THEN hs[i] ELSE b[i - Len(hs)]
    BY <1>1, ConcatProperties
  <2> QED  BY <1>1, <2>1
<1>3. p \in Seq(U) /\ Len(p) = n + 1 /\ p[n + 1] = x /\ \A i \in 1..n : p[i] = hs[i]
  BY <1>1, AppendProperties
<1> HIDE DEF p, n
<1>4. q \in Seq(U) /\ Len(q) = n + 2 /\ q[n + 2] = y /\ \A i \in 1..(n + 1) : q[i] = p[i]
  <2>1. q \in Seq(U) /\ Len(q) = Len(p) + 1 /\ q[Len(p) + 1] = y /\ \A i \in 1..Len(p) : q[i] = p[i]
    BY <1>1, <1>3, AppendProperties
  <2>2. (n + 1) + 1 = n + 2
    BY <1>2
  <2> QED  BY <1>3, <2>1, <2>2
<1> HIDE DEF q
<1>5. r \in Seq(U) /\ Len(r) = n + 3 /\ r[n + 3] = z /\ \A i \in 1..(n + 2) : r[i] = q[i]
  <2>1. r \in Seq(U) /\ Len(r) = Len(q) + 1 /\ r[Len(q) + 1] = z /\ \A i \in 1..Len(q) : r[i] = q[i]
    BY <1>1, <1>4, AppendProperties
  <2>2. (n + 2) + 1 = n + 3
    BY <1>2
  <2> QED  BY <1>4, <2>1, <2>2
<1> HIDE DEF r, c
<1>6. ASSUME NEW i \in 1..(n + 3) PROVE c[i] = r[i]
  <2>1. i \in 1..n \/ i = n + 1 \/ i = n + 2 \/ i = n + 3
    BY <1>2
  <2>2. CASE i \in 1..n
    <3>1. i \in 1..(n + 1) /\ i \in 1..(n + 2) /\ i <= n
      BY <1>2, <2>2
    <3> QED  BY <1>2, <1>3, <1>4, <1>5, <2>2, <3>1
  <2>3. CASE i = n + 1
    <3>1. i \in 1..(n + 1) /\ i \in 1..(n + 2) /\ ~(i <= n) /\ i - n = 1
      BY <1>2, <2>3
    <3> QED  BY <1>1, <1>2, <1>3, <1>4, <1>5, <2>3, <3>1
  <2>4. CASE i = n + 2
    <3>1. i \in 1..(n + 2) /\ ~(i <= n) /\ i - n = 2
      BY <1>2, <2>4
    <3> QED  BY <1>1, <1>2, <1>4, <1>5, <2>4, <3>1
  <2>5. CASE i = n + 3
    <3>1. ~(i <= n) /\ i - n = 3
      BY <1>2, <2>5
    <3> QED  BY <1>1, <1>2, <1>5, <2>5, <3>1
  <2> QED  BY <2>1, <2>2, <2>3, <2>4, <2>5
<1>7. c = r
  BY <1>2, <1>5, <1>6, SeqEqual
<1> QED  BY <1>7 DEF c, r, q, p, b, ThreeMore

LEMMA ThreeMoreIs ==
  ASSUME NEW hs, IsList(hs), NEW x, NEW y, NEW z, NEW n
  PROVE  /\ IsList(ThreeMore(hs, x, y, z))
         /\ (n # x[1] /\ n # y[1] /\ n # z[1]) => Values(ThreeMore(hs, x, y, z), n) = Values(hs, n)
         /\ (n = x[1] /\ n # y[1] /\ n # z[1]) =>
              Values(ThreeMore(hs, x, y, z), n) = Append(Values(hs, n), x[2])
<1> DEFINE p == Append(hs, x)
           q == Append(p, y)
           r == Append(q, z)
<1>1. IsList(p) /\ Values(p, n) = IF x[1] = n THEN Append(Values(hs, n), x[2]) ELSE Values(hs, n)
  BY AppendList, ValuesOfAppend
<1> HIDE DEF p
<1>2. IsList(q) /\ Values(q, n) = IF y[1] = n THEN Append(Values(p, n), y[2]) ELSE Values(p, n)
  BY <1>1, AppendList, ValuesOfAppend
<1> HIDE DEF q
<1>3. IsList(r) /\ Values(r, n) = IF z[1] = n THEN Append(Values(q, n), z[2]) ELSE Values(q, n)
  BY <1>2, AppendList, ValuesOfAppend
<1> HIDE DEF r
<1> QED  BY <1>1, <1>2, <1>3 DEF p, q, r, ThreeMore

LEMMA ForwardedIs ==
  ASSUME NEW hs, IsList(hs), NEW peer, NEW scheme
  PROVE  /\ IsList(set_forwarded(hs, peer, scheme, Trusted))
         /\ \A n : n \notin ForwardedHeaders =>
              Values(set_forwarded(hs, peer, scheme, Trusted), n) = Values(hs, n)
         /\ Values(set_forwarded(hs, peer, scheme, Trusted), "x-forwarded-for")
              = <<<<AttributedClient(hs, peer, Trusted)>>>>
<1> DEFINE c == AttributedClient(hs, peer, Trusted)
           x == <<"x-forwarded-for", <<c>>>>
           y == <<"x-real-ip", c>>
           z == <<"x-forwarded-proto", scheme>>
           w == Without(hs, ForwardedHeaders)
           xf == "x-forwarded-for"
           r == ThreeMore(w, x, y, z)
<1>1. IsList(w)
  BY WithoutNames
<1>2. x[1] = xf /\ x[2] = <<c>> /\ y[1] = "x-real-ip" /\ z[1] = "x-forwarded-proto"
      /\ {xf, y[1], z[1]} \subseteq ForwardedHeaders /\ xf # y[1] /\ xf # z[1]
  BY DEF ForwardedHeaders
<1>3. set_forwarded(hs, peer, scheme, Trusted) = w \o <<x, y, z>>
  BY DEF set_forwarded
<1> HIDE DEF w, x, y, z, c, xf
<1>4. set_forwarded(hs, peer, scheme, Trusted) = r
  BY <1>1, <1>3, ConcatThree
<1>5. IsList(r)
  BY <1>1, ThreeMoreIs
<1>6. ASSUME NEW n, n \notin ForwardedHeaders PROVE Values(r, n) = Values(hs, n)
  <2>1. n # x[1] /\ n # y[1] /\ n # z[1]
    BY <1>2, <1>6
  <2>2. Values(r, n) = Values(w, n)
    BY <1>1, <2>1, ThreeMoreIs
  <2>3. Values(w, n) = Values(hs, n)
    BY <1>6, ValuesWithout DEF w
  <2> QED  BY <2>2, <2>3
<1>7. Values(r, xf) = Append(Values(w, xf), <<c>>)
  BY <1>1, <1>2, ThreeMoreIs
<1>8. Values(w, xf) = <<>>
  BY <1>2, ValuesWithout DEF w
<1>9. Append(<<>>, <<c>>) = <<<<c>>>>
  OBVIOUS
<1> QED  BY <1>4, <1>5, <1>6, <1>7, <1>8, <1>9 DEF xf, c

LEMMA NormalizedIs ==
  ASSUME NEW r, IsList(r.headers), NEW n
  PROVE  LET hs == IF Authorities(r) = <<>> THEN Without(r.headers, {"host"})
                   ELSE Insert(r.headers, "host", Authorities(r)[1])
         IN IsList(hs) /\ (n # "host" => Values(hs, n) = Values(r.headers, n))
<1> DEFINE a == Authorities(r)[1]
           h == "host"
           hs == r.headers
           w == Without(hs, {h})
           i == Insert(hs, h, a)
<1>1. IsList(w) /\ IsList(i)
  BY WithoutNames, InsertList
<1>2. n # h => Values(w, n) = Values(hs, n)
  BY ValuesWithout
<1>3. n # h => Values(i, n) = Values(hs, n)
  <2> HIDE DEF a, h, hs
  <2> QED  BY InsertValues DEF hs
<1> QED  BY <1>1, <1>2, <1>3

(* What the upstream is sent.                                              *)
Base == IF N = 0 THEN Strip(line.headers)
        ELSE copy_headers(IF reads("response") THEN Without(fwd, InspectionHostile) ELSE fwd)

Hosted == IF Has(Base, "host") THEN Base
          ELSE Append(Base, <<"host", (request_authority(line) \o <<NoAuthority>>)[1]>>)

Traced == Insert(set_framing(Hosted), "traceparent", "own")

WithTe == IF route.scheme = "https" /\ te_requests_trailers(line.headers)
          THEN Insert(Traced, "te", {"trailers"}) ELSE Traced

LEMMA AttemptIs ==
  AttemptHeaders = IF upgrade_intent = <<>> THEN WithTe
                   ELSE Insert(Insert(WithTe, "upgrade", upgrade_intent), "connection", {"upgrade"})
BY DEF AttemptHeaders, WithTe, Traced, Hosted, Base

LEMMA BaseIs ==
  ASSUME IsList(line.headers), IsList(fwd)
  PROVE  /\ IsList(Base) /\ Names(Base) \cap HopByHop = {}
         /\ N = 0 => Names(Base) = Names(line.headers) \ (HopByHop \cup connection_named(line.headers))
         /\ N # 0 => Names(Base) \subseteq Names(fwd)
         /\ \A n : \/ Values(Base, n) = <<>>
                   \/ N = 0 /\ Values(Base, n) = Values(line.headers, n)
                   \/ N # 0 /\ Values(Base, n) = Values(fwd, n)
<1>1. CASE N = 0
  <2> DEFINE S == HopByHop \cup connection_named(line.headers)
             hs == line.headers
             b == Without(hs, S)
  <2>1. Base = b
    BY <1>1 DEF Base, Strip
  <2>2. HopByHop \subseteq S
    OBVIOUS
  <2> HIDE DEF S, hs
  <2>3. IsList(b) /\ Names(b) = Names(hs) \ S
    BY WithoutNames DEF hs
  <2>4. ASSUME NEW n PROVE Values(b, n) = <<>> \/ Values(b, n) = Values(hs, n)
    BY ValuesWithout DEF hs
  <2> QED  BY <1>1, <2>1, <2>2, <2>3, <2>4 DEF S, hs
<1>2. CASE N # 0
  <2> DEFINE w == Without(fwd, InspectionHostile)
             hs == IF reads("response") THEN w ELSE fwd
             b == Without(hs, HopByHop)
  <2>1. Base = b
    BY <1>2 DEF Base, copy_headers
  <2>2. IsList(w) /\ Names(w) \subseteq Names(fwd)
    BY WithoutNames
  <2>3. ASSUME NEW n PROVE Values(w, n) = <<>> \/ Values(w, n) = Values(fwd, n)
    BY ValuesWithout
  <2> HIDE DEF w
  <2>4. IsList(hs) /\ Names(hs) \subseteq Names(fwd)
    BY <2>2
  <2>5. ASSUME NEW n PROVE Values(hs, n) = <<>> \/ Values(hs, n) = Values(fwd, n)
    BY <2>3
  <2> HIDE DEF hs
  <2>6. IsList(b) /\ Names(b) = Names(hs) \ HopByHop
    BY <2>4, WithoutNames
  <2>7. ASSUME NEW n PROVE Values(b, n) = <<>> \/ Values(b, n) = Values(hs, n)
    BY <2>4, ValuesWithout
  <2> HIDE DEF b
  <2>8. ASSUME NEW n PROVE Values(b, n) = <<>> \/ Values(b, n) = Values(fwd, n)
    BY <2>5, <2>7
  <2> QED  BY <1>2, <2>1, <2>4, <2>6, <2>8
<1> QED  BY <1>1, <1>2

LEMMA HostedIs ==
  ASSUME IsList(Base)
  PROVE  /\ IsList(Hosted) /\ Names(Hosted) = Names(Base) \cup {"host"}
         /\ \A n : n # "host" => Values(Hosted, n) = Values(Base, n)
         /\ Values(Hosted, "host") = IF Has(Base, "host") THEN Values(Base, "host")
                                     ELSE <<(request_authority(line) \o <<NoAuthority>>)[1]>>
<1> DEFINE v == (request_authority(line) \o <<NoAuthority>>)[1]
           h == <<"host", v>>
           ho == "host"
<1>1. h[1] = ho /\ h[2] = v
  OBVIOUS
<1>2. Has(Base, ho) <=> ho \in Names(Base)
  BY HasName
<1>3. Hosted = IF Has(Base, ho) THEN Base ELSE Append(Base, h)
  BY DEF Hosted
<1> HIDE DEF v, h, ho
<1>4. IsList(Append(Base, h)) /\ Names(Append(Base, h)) = Names(Base) \cup {ho}
  BY <1>1, AppendList, NamesOfAppend
<1>5. ASSUME NEW n, n # ho PROVE Values(Append(Base, h), n) = Values(Base, n)
  BY <1>1, <1>5, ValuesOfAppend
<1>6. Values(Append(Base, h), ho) = Append(Values(Base, ho), v)
  BY <1>1, ValuesOfAppend
<1>7. CASE Has(Base, ho)
  <2>1. Hosted = Base /\ Names(Base) \cup {ho} = Names(Base)
    BY <1>2, <1>3, <1>7
  <2> QED  BY <1>7, <2>1 DEF ho, v
<1>8. CASE ~Has(Base, ho)
  <2>1. Hosted = Append(Base, h)
    BY <1>3, <1>8
  <2>2. Values(Base, ho) = <<>>
    BY <1>2, <1>8, ValuesList
  <2>3. Append(<<>>, v) = <<v>>
    OBVIOUS
  <2> QED  BY <1>4, <1>5, <1>6, <1>8, <2>1, <2>2, <2>3 DEF ho, v
<1> QED  BY <1>7, <1>8

(* The length of what goes out.                                            *)
SentLength == CASE body.kind = "replayable" -> <<Len(body.bytes)>>
                [] body.kind = "oneshot" -> Values(line.headers, "content-length")
                [] OTHER -> <<>>

LEMMA TracedIs ==
  ASSUME IsList(Hosted)
  PROVE  /\ IsList(Traced)
         /\ Names(Traced) \subseteq Names(Hosted) \cup {"content-length", "traceparent"}
         /\ \A n : n \notin {"content-length", "traceparent"} => Values(Traced, n) = Values(Hosted, n)
         /\ Values(Traced, "content-length") = IF SentLength = <<>> THEN <<>> ELSE <<SentLength[1]>>
<1> DEFINE bare == Without(Hosted, {"content-length"})
           cl == "content-length"
           tp == "traceparent"
           own == "own"
           length == SentLength
           h == <<cl, length[1]>>
           f == set_framing(Hosted)
           t == Insert(f, tp, own)
<1>1. IsList(bare) /\ Names(bare) = Names(Hosted) \ {cl} /\ cl # tp /\ h[1] = cl /\ h[2] = length[1]
  BY WithoutNames
<1>2. f = IF length = <<>> THEN bare ELSE Append(bare, h)
  BY DEF set_framing, SentLength
<1>3. ASSUME NEW n PROVE Values(bare, n) = IF n = cl THEN <<>> ELSE Values(Hosted, n)
  BY ValuesWithout
<1>4. Traced = t
  BY DEF Traced
<1> HIDE DEF cl, tp, own, bare, length, h, f
<1>5. IsList(Append(bare, h)) /\ Names(Append(bare, h)) = Names(bare) \cup {cl}
  BY <1>1, AppendList, NamesOfAppend
<1>6. ASSUME NEW n PROVE Values(Append(bare, h), n) = IF n = cl THEN Append(Values(bare, n), length[1]) ELSE Values(bare, n)
  BY <1>1, ValuesOfAppend
<1>7. IsList(f) /\ Names(f) \subseteq Names(Hosted) \cup {cl}
  BY <1>1, <1>2, <1>5
<1>8. ASSUME NEW n, n # cl PROVE Values(f, n) = Values(Hosted, n)
  <2>1. Values(bare, n) = Values(Hosted, n) /\ Values(Append(bare, h), n) = Values(bare, n)
    BY <1>3, <1>6, <1>8
  <2> QED  BY <1>2, <2>1
<1>9. Values(f, cl) = IF length = <<>> THEN <<>> ELSE <<length[1]>>
  <2>1. Values(bare, cl) = <<>>
    BY <1>3
  <2>2. Values(Append(bare, h), cl) = Append(<<>>, length[1])
    BY <1>6, <2>1
  <2>3. Append(<<>>, length[1]) = <<length[1]>>
    OBVIOUS
  <2> QED  BY <1>2, <2>1, <2>2, <2>3
<1>10. IsList(t) /\ Names(t) = Names(f) \cup {tp}
  BY <1>7, InsertList
<1>11. ASSUME NEW n, n # tp PROVE Values(t, n) = Values(f, n)
  BY <1>7, <1>11, InsertValues
<1> HIDE DEF t
<1>12. ASSUME NEW n, n \notin {cl, tp} PROVE Values(t, n) = Values(Hosted, n)
  BY <1>8, <1>11, <1>12
<1>13. Values(t, cl) = Values(f, cl)
  BY <1>1, <1>11
<1>14. Names(t) \subseteq Names(Hosted) \cup {cl, tp}
  BY <1>7, <1>10
<1> QED  BY <1>4, <1>9, <1>10, <1>12, <1>13, <1>14 DEF cl, tp, length

(* The attempt's headers beside its own.                                   *)
Issued == {"te", "upgrade", "connection"}

LEMMA AttemptHeadersAre ==
  ASSUME IsList(Traced)
  PROVE  /\ IsList(AttemptHeaders) /\ Names(AttemptHeaders) \subseteq Names(Traced) \cup Issued
         /\ \A n : n \notin Issued => Values(AttemptHeaders, n) = Values(Traced, n)
         /\ "te" \in Names(AttemptHeaders) =>
              "te" \in Names(Traced) \/ (route.scheme = "https" /\ te_requests_trailers(line.headers))
         /\ upgrade_intent = <<>> => Names(AttemptHeaders) \subseteq Names(Traced) \cup {"te"}
         /\ upgrade_intent # <<>> => /\ Values(AttemptHeaders, "upgrade") = <<upgrade_intent>>
                                     /\ "connection" \in Names(AttemptHeaders)
<1> DEFINE te == "te"
           u == "upgrade"
           c == "connection"
           tr == {"trailers"}
           v == upgrade_intent
           x == {"upgrade"}
           i == Insert(Traced, te, tr)
           w == WithTe
           p == Insert(w, u, v)
           q == Insert(p, c, x)
           asked == route.scheme = "https" /\ te_requests_trailers(line.headers)
<1>1. te # u /\ te # c /\ u # c /\ Issued = {te, u, c}
  BY DEF Issued
<1>2. w = IF asked THEN i ELSE Traced
  BY DEF WithTe
<1>3. AttemptHeaders = IF v = <<>> THEN w ELSE q
  BY AttemptIs
<1> HIDE DEF te, u, c, tr, v, x
<1>4. IsList(i) /\ Names(i) = Names(Traced) \cup {te}
  BY InsertList
<1>5. ASSUME NEW n, n # te PROVE Values(i, n) = Values(Traced, n)
  BY <1>5, InsertValues
<1> HIDE DEF i
<1>6. IsList(w) /\ Names(w) \subseteq Names(Traced) \cup {te}
      /\ (te \in Names(w) => te \in Names(Traced) \/ asked)
  BY <1>2, <1>4
<1>7. ASSUME NEW n, n # te PROVE Values(w, n) = Values(Traced, n)
  BY <1>2, <1>5, <1>7
<1> HIDE DEF w, asked
<1>8. IsList(p) /\ Names(p) = Names(w) \cup {u} /\ Values(p, u) = <<v>>
  BY <1>6, InsertList, InsertValues
<1>9. ASSUME NEW n, n # u PROVE Values(p, n) = Values(w, n)
  BY <1>6, <1>9, InsertValues
<1> HIDE DEF p
<1>10. IsList(q) /\ Names(q) = Names(p) \cup {c}
  BY <1>8, InsertList
<1>11. ASSUME NEW n, n # c PROVE Values(q, n) = Values(p, n)
  BY <1>8, <1>11, InsertValues
<1> HIDE DEF q
<1>12. CASE v = <<>>
  <2>1. AttemptHeaders = w
    BY <1>3, <1>12
  <2> QED  BY <1>1, <1>6, <1>7, <1>12, <2>1 DEF te, v, asked
<1>13. CASE v # <<>>
  <2>1. AttemptHeaders = q
    BY <1>3, <1>13
  <2>2. Names(q) = Names(w) \cup {u, c}
    BY <1>8, <1>10
  <2>3. Names(q) \subseteq Names(Traced) \cup Issued /\ c \in Names(q)
        /\ (te \in Names(q) => te \in Names(Traced) \/ asked)
    BY <1>1, <1>6, <2>2
  <2>4. ASSUME NEW n, n \notin Issued PROVE Values(q, n) = Values(Traced, n)
    <3>1. n # te /\ n # u /\ n # c
      BY <1>1, <2>4
    <3> QED  BY <1>7, <1>9, <1>11, <3>1
  <2>5. Values(q, u) = <<v>>
    BY <1>1, <1>8, <1>11
  <2> QED  BY <1>10, <1>13, <2>1, <2>3, <2>4, <2>5 DEF te, u, c, v, asked
<1> QED  BY <1>12, <1>13

-----------------------------------------------------------------------------
(* The state of an exchange is of the shape its stage calls for.           *)
Before == {"arrived", "request", "buffer", "request_body", "send"}
After == {"response", "inspect", "response_body"}

LineShape ==
  /\ scn \in Scenarios
  /\ line = [version |-> scn.request.version, scheme |-> scn.request.scheme,
             uri_scheme |-> line.uri_scheme, uri |-> line.uri, headers |-> line.headers,
             body |-> scn.request.body, bodyless |-> scn.request.bodyless, method |-> scn.request.method,
             peer |-> scn.request.peer, path |-> scn.request.path]
  /\ IsList(line.headers)

DataShape ==
  /\ IsList(fwd) /\ IsList(ran)
  /\ body = [kind |-> body.kind, bytes |-> body.bytes] /\ IsList(body.bytes)
  /\ body.kind \in {"bodyless", "oneshot", "replayable"}
  /\ resp = [status |-> resp.status, headers |-> resp.headers] /\ IsList(resp.headers)
  /\ held = [bytes |-> held.bytes, rest |-> held.rest, transformed |-> held.transformed]
  /\ IsList(held.bytes) /\ IsList(held.rest) /\ held.transformed \in BOOLEAN

PeerShape ==
  /\ sent # <<>> => /\ sent = <<[headers |-> sent[1].headers, body |-> sent[1].body]>>
                    /\ IsList(sent[1].headers) /\ IsList(sent[1].body)
  /\ up # <<>> => up = <<up[1]>> /\ up[1] \in scn.upstreams

StageShape ==
  /\ stage \in Before \cup {"await", "done"} \cup After
  /\ stage \in {"request", "request_body"} => k \in 1..(N + 1)
  /\ stage \in {"response", "response_body"} => k \in 0..N
  /\ stage \in Before => sent = <<>> /\ up = <<>>
  /\ stage = "await" => sent # <<>> /\ up = <<>>
  /\ stage \in After => sent # <<>> /\ up # <<>>

OutShape ==
  IF stage = "done" THEN out = <<out[1], out[2]>> /\ IsAnswer(out[1]) /\ IsAnswer(out[2])
  ELSE out = <<>>

Shape == LineShape /\ DataShape /\ PeerShape /\ StageShape /\ OutShape

LEMMA ResponseFacts ==
  ASSUME scn \in Scenarios, NEW r \in scn.upstreams
  PROVE  IsResponse(r, scn.request) /\ IsList(r.headers) /\ IsList(r.body)
BY ScenarioAssumption DEF IsResponse, IsHeaders

LEMMA SaidFacts ==
  ASSUME scn \in Scenarios
  PROVE  /\ \A s \in scn.says.on_request : IsSaid(s) /\ s \in Said(scn.says)
         /\ \A s \in scn.says.on_request_body : IsSaid(s) /\ s \in Said(scn.says)
         /\ \A s \in scn.says.on_response : IsSaid(s) /\ s \in Said(scn.says)
         /\ \A s \in scn.says.on_response_body : IsSaid(s) /\ s \in Said(scn.says)
BY ScenarioAssumption DEF Said

LEMMA RouteStays ==
  ASSUME scn' = scn
  PROVE  route' = route /\ Filters' = Filters /\ N' = N /\ inspect' = inspect
BY DEF route, Filters, N, inspect

LEMMA RequestShape ==
  ASSUME scn \in Scenarios
  PROVE  /\ scn.request = [version |-> scn.request.version, scheme |-> scn.request.scheme,
                           uri_scheme |-> scn.request.uri_scheme,
                           uri |-> scn.request.uri, headers |-> scn.request.headers,
                           body |-> scn.request.body, bodyless |-> scn.request.bodyless, method |-> scn.request.method,
                           peer |-> scn.request.peer, path |-> scn.request.path]
         /\ IsList(scn.request.headers) /\ IsList(scn.request.body)
         /\ scn.request.uri = <<>> \/ scn.request.uri = <<scn.request.uri[1]>>
BY RouteFacts DEF IsRequest, IsHeaders

LEMMA InitShape == ASSUME Init PROVE Shape
<1>1. /\ scn \in Scenarios /\ stage = "arrived" /\ line = scn.request /\ fwd = <<>>
      /\ body = [kind |-> "bodyless", bytes |-> <<>>]
      /\ sent = <<>> /\ up = <<>> /\ resp = [status |-> 0, headers |-> <<>>]
      /\ held = [bytes |-> <<>>, rest |-> <<>>, transformed |-> FALSE]
      /\ ran = <<>> /\ out = <<>>
  BY DEF Init
<1>2. LineShape
  BY <1>1, RequestShape DEF LineShape
<1>3. IsList(<<>>)
  BY EmptyList
<1>4. body.kind = "bodyless" /\ body.bytes = <<>> /\ resp.headers = <<>> /\ resp.status = 0
      /\ held.bytes = <<>> /\ held.rest = <<>> /\ held.transformed = FALSE
  BY <1>1
<1>5. DataShape
  BY <1>1, <1>3, <1>4 DEF DataShape
<1> QED  BY <1>1, <1>2, <1>5 DEF Shape, PeerShape, StageShape, OutShape, Before, After

(* A step that answers.                                                    *)
LEMMA RespondKeeps ==
  ASSUME Shape, NEW r, IsAnswer(r), Respond(r), scn' = scn, line' = line, DataShape', PeerShape'
  PROVE  Shape'
<1>1. scn \in Scenarios
  BY DEF Shape, LineShape
<1>2. stage' = "done" /\ out' = <<out'[1], out'[2]>> /\ IsAnswer(out'[1]) /\ IsAnswer(out'[2])
  BY <1>1, RespondIs
<1>3. LineShape'
  BY DEF Shape, LineShape
<1>4. OutShape'
  BY <1>2 DEF OutShape, IsAnswer
<1>5. StageShape'
  BY <1>2 DEF StageShape, Before, After
<1> QED  BY <1>3, <1>4, <1>5 DEF Shape

LEMMA DataKept ==
  ASSUME DataShape, UNCHANGED <<fwd, body, resp, held, ran>>
  PROVE  DataShape'
BY DEF DataShape, IsList, ToSet

LEMMA PeersKept ==
  ASSUME PeerShape, UNCHANGED <<scn, sent, up>>
  PROVE  PeerShape'
BY DEF PeerShape, IsList, ToSet

(* Ingress, or its refusal.                                                *)
ForwardedRequest == WithHeaders(scn.request,
  set_forwarded(scn.request.headers, scn.request.peer, scn.request.scheme, Trusted))

LEMMA ArriveIs ==
  ASSUME scn \in Scenarios, Arrive
  PROVE  LET r == ForwardedRequest IN
         /\ r.headers = set_forwarded(scn.request.headers, scn.request.peer, scn.request.scheme, Trusted)
         /\ IsList(r.headers) /\ r.uri = scn.request.uri /\ r.version = scn.request.version
         /\ r.scheme = scn.request.scheme /\ r.uri_scheme = scn.request.uri_scheme
         /\ stage = "arrived" /\ client' = AttributedClient(scn.request.headers, scn.request.peer, Trusted)
         /\ UNCHANGED <<scn, mode, body, sent, up, resp, held, skip, ran>>
         /\ \/ /\ BadAuthority(r) /\ Unrouted(synth(400, "bad-authority"))
               /\ UNCHANGED <<line, fwd, k>>
            \/ /\ ~BadAuthority(r) /\ stage' = "request" /\ k' = 1 /\ out' = out
               /\ line' = normalize_ingress_authority(r) /\ fwd' = Strip(line'.headers)
               /\ LineShape'
               /\ line'.headers = IF Authorities(r) = <<>> THEN Without(r.headers, {"host"})
                                  ELSE Insert(r.headers, "host", Authorities(r)[1])
               /\ line'.uri = IF Authorities(r) # <<>> /\ HostFallback(r)
                              THEN <<Authorities(r)[1]>> ELSE r.uri
<1> DEFINE q == scn.request
           r == ForwardedRequest
           hs == set_forwarded(q.headers, q.peer, q.scheme, Trusted)
<1>1. q = [version |-> q.version, scheme |-> q.scheme, uri_scheme |-> q.uri_scheme,
           uri |-> q.uri, headers |-> q.headers, body |-> q.body, bodyless |-> q.bodyless, method |-> q.method, peer |-> q.peer, path |-> q.path]
      /\ IsList(q.headers)
  BY RequestShape
<1>2. IsList(hs)
  BY <1>1, ForwardedIs
<1>3. r = [version |-> q.version, scheme |-> q.scheme, uri_scheme |-> q.uri_scheme,
           uri |-> q.uri, headers |-> hs, body |-> q.body, bodyless |-> q.bodyless, method |-> q.method, peer |-> q.peer, path |-> q.path]
  BY <1>1 DEF ForwardedRequest, WithHeaders
<1>4. /\ r = [scn.request EXCEPT !.headers = set_forwarded(@, scn.request.peer, scn.request.scheme, Trusted)]
  BY DEF ForwardedRequest, WithHeaders
<1>5. /\ stage = "arrived" /\ client' = AttributedClient(scn.request.headers, scn.request.peer, Trusted)
      /\ UNCHANGED <<scn, mode, body, sent, up, resp, held, skip, ran>>
      /\ IF BadAuthority(r)
         THEN Unrouted(synth(400, "bad-authority")) /\ UNCHANGED <<line, fwd, k>>
         ELSE /\ line' = normalize_ingress_authority(r) /\ stage' = "request"
              /\ fwd' = to_http_request(line') /\ k' = 1 /\ UNCHANGED out
  BY <1>4, Zenon DEF Arrive
<1> HIDE DEF r
<1>6. /\ r.headers = hs /\ r.uri = q.uri /\ r.version = q.version /\ r.scheme = q.scheme
      /\ r.uri_scheme = q.uri_scheme /\ r.body = q.body /\ r.bodyless = q.bodyless
      /\ r.method = q.method /\ r.peer = q.peer /\ r.path = q.path
  BY <1>3
<1>7. CASE BadAuthority(r)
  BY <1>2, <1>5, <1>6, <1>7 DEF r
<1>8. CASE ~BadAuthority(r)
  <2> DEFINE n == normalize_ingress_authority(r)
             nh == IF Authorities(r) = <<>> THEN Without(r.headers, {"host"})
                   ELSE Insert(r.headers, "host", Authorities(r)[1])
             nu == IF Authorities(r) # <<>> /\ HostFallback(r)
                   THEN <<Authorities(r)[1]>> ELSE r.uri
             ns == IF Authorities(r) # <<>> /\ HostFallback(r)
                   THEN q.scheme ELSE q.uri_scheme
  <2>1. n = [version |-> q.version, scheme |-> q.scheme, uri_scheme |-> ns, uri |-> nu,
             headers |-> nh, body |-> q.body, bodyless |-> q.bodyless, method |-> q.method, peer |-> q.peer, path |-> q.path]
    <3>1. CASE Authorities(r) = <<>>
      BY <3>1, <1>3, <1>6 DEF normalize_ingress_authority
    <3>2. CASE Authorities(r) # <<>>
      BY <3>2, <1>3, <1>6 DEF normalize_ingress_authority
    <3> QED  BY <3>1, <3>2
  <2>2. IsList(nh)
    <3>1. IsList(r.headers)
      BY <1>2, <1>6
    <3> QED  BY <3>1, NormalizedIs
  <2>3. line' = n /\ stage' = "request" /\ fwd' = Strip(line'.headers) /\ k' = 1 /\ out' = out
    BY <1>5, <1>8 DEF to_http_request
  <2> HIDE DEF n, nh, nu, ns
  <2>4. line'.headers = nh /\ line'.uri = nu
    BY <2>1, <2>3
  <2>5. LineShape'
    <3>1. scn' = scn /\ scn \in Scenarios
      BY <1>5
    <3>2. line' = [version |-> q.version, scheme |-> q.scheme, uri_scheme |-> line'.uri_scheme,
             uri |-> line'.uri, headers |-> line'.headers, body |-> q.body,
             bodyless |-> q.bodyless, method |-> q.method, peer |-> q.peer, path |-> q.path]
      BY <2>1, <2>3, <2>4
    <3>3. IsList(line'.headers)
      BY <2>2, <2>4
    <3> QED  BY <3>1, <3>2, <3>3 DEF LineShape, IsList
  <2> QED  BY <1>2, <1>5, <1>6, <1>8, <2>3, <2>4, <2>5 DEF r, nh, nu
<1> QED  BY <1>7, <1>8

-----------------------------------------------------------------------------
(* What each step does, in the terms of the lemmas above.                  *)

(* An answer leaves.                                                       *)
Ended(r) == IsAnswer(r) /\ (Respond(r) \/ (Unrouted(r) /\ r.kind = "synthesised"))

Calm == UNCHANGED <<scn, line, client, fwd, body, sent, up, resp, held, ran>>

LEMMA SynthEnds ==
  ASSUME NEW status, NEW fault
  PROVE  Respond(synth(status, fault)) \/ Unrouted(synth(status, fault)) => Ended(synth(status, fault))
BY SynthIs DEF Ended

(* A step that ends the exchange with a fault of the proxy's own.          *)
Fails == \E status, fault : Ended(synth(status, fault))

LEMMA FailureIs ==
  ASSUME Refuse \/ ChainPanics \/ NoUpstream \/ UpstreamFails
  PROVE  /\ Calm /\ Fails /\ UNCHANGED skip
         /\ stage \in {"request", "request_body", "response", "response_body", "await"}
<1>1. CASE Refuse
  <2>1. stage = "request" /\ Calm /\ UNCHANGED skip
    BY <1>1 DEF Refuse, Calm
  <2>2. \/ \E status \in {400, 404} : Unrouted(synth(status, "not-routed"))
        \/ Respond(synth(429, "rate-limited"))
    BY <1>1, Zenon DEF Refuse
  <2> QED  BY <2>1, <2>2, SynthEnds DEF Fails
<1>2. CASE ChainPanics
  <2>1. stage \in {"request", "request_body", "response", "response_body"} /\ Calm /\ UNCHANGED skip
    BY <1>2 DEF ChainPanics, Calm
  <2>2. Respond(synth(502, "upstream"))
    BY <1>2, Zenon DEF ChainPanics
  <2> QED  BY <2>1, <2>2, SynthEnds DEF Fails
<1>3. CASE UpstreamFails
  <2>1. stage = "await" /\ Calm /\ UNCHANGED skip
    BY <1>3 DEF UpstreamFails, Calm
  <2>2. \E status \in {502, 504} : Respond(synth(status, "upstream"))
    BY <1>3, Zenon DEF UpstreamFails
  <2> QED  BY <2>1, <2>2, SynthEnds DEF Fails
<1>4. CASE NoUpstream
  <2>1. stage = "request" /\ Calm /\ UNCHANGED skip
    BY <1>4 DEF NoUpstream, Calm
  <2>2. Respond(synth(503, "no-healthy-upstream"))
    BY <1>4, Zenon DEF NoUpstream
  <2> QED  BY <2>1, <2>2, SynthEnds DEF Fails
<1> QED  BY <1>1, <1>2, <1>3, <1>4

(* An answer of a guest.                                                   *)
Answers(d) == d.kind \in {"answer", "fault"} /\ Ended(http_response(d))

LEMMA GuestEnds ==
  ASSUME NEW d, NEW s, Decides(d, s), Respond(http_response(d))
  PROVE  Ended(http_response(d))
BY HttpResponseIs DEF Ended, Decides, Spoken

LEMMA RequestFilterIs ==
  ASSUME scn \in Scenarios, RequestFilter
  PROVE  /\ stage = "request" /\ k \in 1..N
         /\ ran' = Append(ran, <<"on-request", k, <<>>>>)
         /\ UNCHANGED <<scn, line, client, body, sent, up, resp, held, skip>>
         /\ \E s \in scn.says.on_request : \E d :
              /\ Decides(d, s)
              /\ \/ /\ stage' = stage /\ k' = k + 1 /\ out' = out
                    /\ fwd' = fwd \/ (fwd' = apply_edit(fwd, d) /\ d.kind = "modified")
                 \/ Answers(d) /\ fwd' = fwd
<1>1. /\ stage = "request" /\ k \in 1..N
      /\ ran' = Append(ran, <<"on-request", k, <<>>>>)
      /\ UNCHANGED <<scn, line, client, body, sent, up, resp, held, skip>>
  BY DEF RequestFilter, MayRun
<1> DEFINE D(s) == call_on_request(Filters[k].version, fwd, s)
<1>2. PICK s \in scn.says.on_request :
        \/ /\ D(s).kind = "continue" /\ k' = k + 1 /\ UNCHANGED <<fwd, out, stage>>
        \/ /\ D(s).kind = "modified" /\ k' = k + 1 /\ fwd' = apply_edit(fwd, D(s))
           /\ UNCHANGED <<out, stage>>
        \/ /\ D(s).kind \in {"answer", "fault"} /\ Respond(http_response(D(s))) /\ UNCHANGED <<k, fwd>>
  BY Zenon DEF RequestFilter
<1>3. IsSaid(s)
  BY SaidFacts
<1> DEFINE d == D(s)
<1>4. Decides(d, s)
  BY <1>3, HookDecides
<1> HIDE DEF d
<1>5. Respond(http_response(d)) => Ended(http_response(d))
  BY <1>4, GuestEnds
<1>6. \/ /\ stage' = stage /\ k' = k + 1 /\ out' = out
         /\ fwd' = fwd \/ (fwd' = apply_edit(fwd, d) /\ d.kind = "modified")
      \/ Answers(d) /\ fwd' = fwd
  BY <1>2, <1>5 DEF d, Answers
<1> QED  BY <1>1, <1>4, <1>6

LEMMA RequestChainDoneIs ==
  ASSUME RequestChainDone
  PROVE  /\ stage = "request" /\ k = N + 1 /\ stage' = "buffer"
         /\ body'.kind = (IF line.bodyless THEN "bodyless" ELSE "oneshot") /\ body'.bytes = line.body
         /\ body' = [kind |-> body'.kind, bytes |-> body'.bytes]
         /\ UNCHANGED <<scn, k, line, client, fwd, sent, up, resp, held, skip, ran, out>>
BY DEF RequestChainDone

LEMMA BufferRequestIs ==
  ASSUME BufferRequest, DataShape
  PROVE  /\ stage = "buffer"
         /\ UNCHANGED <<scn, line, client, fwd, body, sent, up, resp, skip, ran>>
         /\ \/ /\ stage' = "send" /\ UNCHANGED <<k, held, out>>
            \/ /\ stage' = "request_body" /\ k' = 1 /\ UNCHANGED out
               /\ reads("request") /\ body.kind # "bodyless"
               /\ held' = [bytes |-> body.bytes, rest |-> held.rest, transformed |-> held.transformed]
            \/ Fails /\ UNCHANGED held
<1>1. /\ stage = "buffer"
      /\ UNCHANGED <<scn, line, client, fwd, body, sent, up, resp, skip, ran>>
  BY DEF BufferRequest
<1>2. CASE ~reads("request") \/ body.kind = "bodyless"
  BY <1>1, <1>2 DEF BufferRequest
<1>3. CASE ~(~reads("request") \/ body.kind = "bodyless")
  <2> DEFINE St(o) == CASE o = "broken" -> 400 [] o = "slow" -> 408 [] o = "over-cap" -> 413 [] OTHER -> 503
  <2>1. PICK o \in buffer_request_body(body.bytes) :
            IF o = "complete"
            THEN /\ stage' = "request_body" /\ k' = 1
                 /\ held' = [held EXCEPT !.bytes = body.bytes] /\ UNCHANGED out
            ELSE Respond(synth(St(o), o)) /\ UNCHANGED <<k, held>>
    BY <1>3, Zenon DEF BufferRequest
  <2>2. CASE o = "complete"
    BY <1>1, <1>3, <2>1, <2>2 DEF DataShape
  <2>3. CASE o # "complete"
    <3> HIDE DEF St
    <3>1. Respond(synth(St(o), o)) /\ UNCHANGED held
      BY <2>1, <2>3
    <3> QED  BY <1>1, <3>1, SynthEnds DEF Fails
  <2> QED  BY <2>2, <2>3
<1> QED  BY <1>2, <1>3

LEMMA RequestBodyFilterIs ==
  ASSUME Shape, RequestBodyFilter
  PROVE  /\ stage = "request_body" /\ k \in 1..N
         /\ UNCHANGED <<scn, line, client, body, sent, up, resp, skip>>
         /\ \/ /\ k' = k + 1 /\ UNCHANGED <<fwd, held, ran, out, stage>>
            \/ /\ ran' = Append(ran, <<"on-request-body", k, held.bytes>>)
               /\ \E s \in scn.says.on_request_body : \E d :
                    /\ Decides(d, s)
                    /\ \/ stage' = stage /\ k' = k + 1 /\ UNCHANGED <<fwd, held, out>>
                       \/ /\ stage' = stage /\ k' = k + 1 /\ out' = out
                          /\ fwd' = apply_edit(fwd, d) /\ d.kind = "modified"
                          /\ held' = [bytes |-> d.body, rest |-> held.rest, transformed |-> held.transformed]
                       \/ (Fails \/ Answers(d)) /\ UNCHANGED <<fwd, held>>
<1>1. /\ stage = "request_body" /\ k \in 1..N
      /\ UNCHANGED <<scn, line, client, body, sent, up, resp, skip>>
  BY DEF RequestBodyFilter
<1>2. CASE "request" \notin Filters[k].body
  BY <1>1, <1>2 DEF RequestBodyFilter
<1>3. CASE "request" \in Filters[k].body
  <2> DEFINE D(s) == call_body_hook(Filters[k].version, s)
  <2>1. ran' = Append(ran, <<"on-request-body", k, held.bytes>>)
    BY <1>3 DEF RequestBodyFilter
  <2>2. PICK s \in scn.says.on_request_body :
              \/ /\ D(s).kind = "continue" /\ k' = k + 1
                 /\ UNCHANGED <<fwd, held, out, stage>>
              \/ /\ D(s).kind = "modified" /\ k' = k + 1
                 /\ fwd' = apply_edit(fwd, D(s)) /\ held' = [held EXCEPT !.bytes = D(s).body]
                 /\ UNCHANGED <<out, stage>>
              \/ /\ Respond(synth(502, "request-body-guest-oversize"))
                 /\ UNCHANGED <<k, fwd, held>>
              \/ /\ D(s).kind \in {"answer", "fault"} /\ Respond(http_response(D(s)))
                 /\ UNCHANGED <<k, fwd, held>>
    BY <1>3, Zenon DEF RequestBodyFilter
  <2>3. IsSaid(s)
    BY SaidFacts DEF Shape, LineShape
  <2> DEFINE d == D(s)
  <2>4. Decides(d, s)
    BY <2>3, HookDecides
  <2> HIDE DEF d
  <2>5. Respond(http_response(d)) => Ended(http_response(d))
    BY <2>4, GuestEnds
  <2>6. Respond(synth(502, "request-body-guest-oversize")) => Fails
    BY SynthEnds DEF Fails
  <2>7. [held EXCEPT !.bytes = d.body] = [bytes |-> d.body, rest |-> held.rest, transformed |-> held.transformed]
    BY DEF Shape, DataShape
  <2>8. \/ stage' = stage /\ k' = k + 1 /\ UNCHANGED <<fwd, held, out>>
        \/ /\ stage' = stage /\ k' = k + 1 /\ out' = out
           /\ fwd' = apply_edit(fwd, d) /\ d.kind = "modified"
           /\ held' = [bytes |-> d.body, rest |-> held.rest, transformed |-> held.transformed]
        \/ (Fails \/ Answers(d)) /\ UNCHANGED <<fwd, held>>
    BY <2>2, <2>5, <2>6, <2>7 DEF d, Answers
  <2> QED  BY <1>1, <2>1, <2>4, <2>8
<1> QED  BY <1>2, <1>3

LEMMA RequestBodyDoneIs ==
  ASSUME RequestBodyDone
  PROVE  /\ stage = "request_body" /\ stage' = "send"
         /\ body' = [kind |-> "replayable", bytes |-> held.bytes]
         /\ UNCHANGED <<scn, k, line, client, fwd, sent, up, resp, held, skip, ran, out>>
BY DEF RequestBodyDone

LEMMA SendIs ==
  ASSUME Send
  PROVE  /\ stage = "send"
         /\ UNCHANGED <<scn, line, client, fwd, body, up, resp, held, skip, ran>>
         /\ \/ Fails /\ UNCHANGED sent
            \/ /\ stage' = "await" /\ UNCHANGED out
               /\ sent' = <<[headers |-> AttemptHeaders, body |-> body.bytes]>>
<1>1. \/ \E fault : Respond(synth(503, fault)) /\ UNCHANGED sent
      \/ /\ stage' = "await" /\ UNCHANGED out
         /\ sent' = <<[headers |-> AttemptHeaders, body |-> body.bytes]>>
  BY Zenon DEF Send
<1>2. /\ stage = "send"
      /\ UNCHANGED <<scn, line, client, fwd, body, up, resp, held, skip, ran>>
  BY DEF Send
<1> QED  BY <1>1, <1>2, SynthEnds DEF Fails

LEMMA UpstreamAnswersIs ==
  ASSUME UpstreamAnswers
  PROVE  /\ stage = "await"
         /\ UNCHANGED <<scn, line, client, fwd, body, sent, held, skip, ran>>
         /\ \E r \in scn.upstreams :
              /\ up' = <<r>>
              /\ \/ Fails /\ UNCHANGED resp
                 \/ /\ stage' = "response" /\ k' = N /\ UNCHANGED out
                    /\ resp' = [status |-> r.status, headers |-> Strip(r.headers)]
                    /\ r.status = 101 => upstream_switched_to(r)
<1>1. PICK r \in scn.upstreams :
        /\ up' = <<r>>
        /\ IF r.status = 101 /\ ~upstream_switched_to(r)
           THEN Respond(synth(502, "bad-upgrade")) /\ UNCHANGED <<k, mode, resp>>
           ELSE /\ resp' = [status |-> r.status, headers |-> Strip(r.headers)]
                /\ stage' = "response" /\ k' = N /\ mode' = "inline" /\ UNCHANGED out
  BY Zenon DEF UpstreamAnswers
<1>2. Respond(synth(502, "bad-upgrade")) => Fails
  BY SynthEnds DEF Fails
<1>3. /\ stage = "await"
      /\ UNCHANGED <<scn, line, client, fwd, body, sent, held, skip, ran>>
  BY DEF UpstreamAnswers
<1> QED  BY <1>1, <1>2, <1>3

LEMMA ResponseFilterIs ==
  ASSUME scn \in Scenarios, ResponseFilter
  PROVE  /\ stage = "response" /\ k \in 1..N
         /\ ran' = Append(ran, <<"on-response", k, <<>>>>)
         /\ UNCHANGED <<scn, line, client, fwd, body, sent, up, held, skip>>
         /\ \E s \in scn.says.on_response : \E d :
              /\ Decides(d, s)
              /\ \/ stage' = stage /\ k' = k - 1 /\ UNCHANGED <<resp, out>>
                 \/ /\ stage' = stage /\ k' = k - 1 /\ out' = out
                    /\ d.kind = "modified" /\ resp'.headers = apply_edit(resp.headers, d)
                    /\ resp' = [status |-> resp'.status, headers |-> resp'.headers]
                 \/ Answers(d) /\ resp' = resp
<1>1. /\ stage = "response" /\ k \in 1..N
      /\ ran' = Append(ran, <<"on-response", k, <<>>>>)
      /\ UNCHANGED <<scn, line, client, fwd, body, sent, up, held, skip>>
  BY DEF ResponseFilter, MayRun
<1> DEFINE D(s) == call_on_response(Filters[k].version, resp.headers, s)
<1>2. PICK s \in scn.says.on_response :
          \/ D(s).kind = "continue" /\ k' = k - 1 /\ UNCHANGED <<resp, out, stage>>
          \/ /\ D(s).kind = "modified" /\ k' = k - 1
             /\ resp' = [status |-> IF D(s).status = 0 THEN resp.status ELSE D(s).status,
                         headers |-> apply_edit(resp.headers, D(s))]
             /\ UNCHANGED <<out, stage>>
          \/ /\ D(s).kind \in {"answer", "fault"} /\ Respond(http_response(D(s)))
             /\ UNCHANGED <<k, resp>>
  BY Zenon DEF ResponseFilter
<1>3. IsSaid(s)
  BY SaidFacts
<1> DEFINE d == D(s)
<1>4. Decides(d, s)
  BY <1>3, HookDecides
<1> HIDE DEF d
<1>5. Respond(http_response(d)) => Ended(http_response(d))
  BY <1>4, GuestEnds
<1>6. \/ stage' = stage /\ k' = k - 1 /\ UNCHANGED <<resp, out>>
      \/ /\ stage' = stage /\ k' = k - 1 /\ out' = out
         /\ d.kind = "modified" /\ resp'.headers = apply_edit(resp.headers, d)
         /\ resp' = [status |-> resp'.status, headers |-> resp'.headers]
      \/ Answers(d) /\ resp' = resp
  BY <1>2, <1>5 DEF d, Answers
<1> QED  BY <1>1, <1>4, <1>6

(* The upstream's answer in the stages that work on it.                    *)
LEMMA UpFacts ==
  ASSUME Shape, up # <<>>
  PROVE  /\ up = <<up[1]>> /\ up[1] \in scn.upstreams /\ IsResponse(up[1], scn.request)
         /\ IsList(up[1].headers) /\ IsList(up[1].body) /\ scn \in Scenarios
<1>1. up = <<up[1]>> /\ up[1] \in scn.upstreams /\ scn \in Scenarios
  BY DEF Shape, PeerShape, LineShape
<1> DEFINE r == up[1]
<1> HIDE DEF r
<1>2. IsResponse(r, scn.request) /\ IsList(r.headers) /\ IsList(r.body)
  BY <1>1, ResponseFacts DEF r
<1> QED  BY <1>1, <1>2 DEF r

(* A switch a filter demoted: the chain's headers, without the stream.     *)
Demoted == http_response(Says("answer", resp.headers, {}, resp.status, <<>>))

LEMMA DemotedIs ==
  ASSUME IsList(resp.headers)
  PROVE  /\ IsAnswer(Demoted) /\ Demoted.kind = "synthesised" /\ Demoted.body = <<>>
         /\ Names(Demoted.headers) = Names(resp.headers) \ (HopByHop \cup {"content-length"})
<1> DEFINE d == Says("answer", resp.headers, {}, resp.status, <<>>)
<1>1. d.set = resp.headers /\ d.body = <<>>
  BY SaysIs
<1>2. IsList(<<>>)
  BY EmptyList
<1>3. http_response(d) = Demoted
  BY DEF Demoted
<1> HIDE DEF d
<1>4. /\ IsAnswer(http_response(d)) /\ http_response(d).kind = "synthesised"
      /\ http_response(d).body = d.body
      /\ Names(http_response(d).headers) = Names(d.set) \ (HopByHop \cup {"content-length"})
  BY <1>1, <1>2, HttpResponseIs
<1> QED  BY <1>1, <1>3, <1>4

LEMMA ResponseChainDoneIs ==
  ASSUME Shape, ResponseChainDone
  PROVE  /\ stage = "response" /\ k = 0 /\ Calm
         /\ \/ up[1].status = 101 /\ UNCHANGED skip /\ Ended(Demoted)
            \/ up[1].status = 101 /\ UNCHANGED skip /\ Ended(Switched(resp.headers))
            \/ up[1].status # 101 /\ UNCHANGED skip /\ N = 0 /\ Ended(stream_response_direct)
            \/ /\ up[1].status # 101 /\ UNCHANGED skip /\ Ended(stream_response(resp, up[1].body))
               /\ ~reads("response") \/ Inspectability = "out-of-scope"
            \/ /\ up[1].status # 101 /\ skip' = Inspectability
               /\ Inspectability \notin {"inspect", "out-of-scope"}
               /\ inspect.uninspectable = "passthrough" /\ Ended(stream_response(resp, up[1].body))
            \/ Fails
            \/ /\ up[1].status # 101 /\ UNCHANGED <<skip, out, k>> /\ stage' = "inspect"
               /\ reads("response") /\ Inspectability = "inspect"
<1>1. stage = "response" /\ k = 0 /\ Calm
  BY DEF ResponseChainDone, Calm
<1>2. IsList(resp.headers) /\ up # <<>>
  BY <1>1 DEF Shape, DataShape, StageShape, After
<1>3. IsList(up[1].headers) /\ IsList(up[1].body)
  BY <1>2, UpFacts
<1>4. Respond(stream_response(resp, up[1].body)) => Ended(stream_response(resp, up[1].body))
  BY <1>2, <1>3, StreamResponseIs DEF Ended
<1>5. Respond(stream_response_direct) => Ended(stream_response_direct)
  BY <1>3, DirectResponseIs DEF Ended
<1>6. Respond(Demoted) => Ended(Demoted)
  BY <1>2, DemotedIs DEF Ended
<1>7. Respond(Switched(resp.headers)) => Ended(Switched(resp.headers))
  BY <1>2, SwitchedIs DEF Ended
<1>8. Respond(synth(502, "response-body-uninspectable")) => Fails
  BY SynthEnds DEF Fails
<1>9. Switch => Respond(Demoted) \/ Respond(Switched(resp.headers))
  <2>1. CASE resp.status # 101
    BY <2>1, Zenon DEF Switch, Demoted
  <2>2. CASE resp.status = 101
    BY <2>2, Zenon DEF Switch, Switched, SwitchHeaders
  <2> QED  BY <2>1, <2>2
<1>10. \/ up[1].status = 101 /\ Switch /\ UNCHANGED skip
       \/ /\ up[1].status # 101 /\ N = 0
          /\ Respond(stream_response_direct) /\ UNCHANGED skip
       \/ /\ up[1].status # 101 /\ N > 0 /\ (~reads("response") \/ Inspectability = "out-of-scope")
          /\ Respond(stream_response(resp, up[1].body)) /\ UNCHANGED skip
       \/ /\ up[1].status # 101 /\ reads("response")
          /\ Inspectability \notin {"inspect", "out-of-scope"}
          /\ skip' = Inspectability
          /\ \/ inspect.uninspectable = "passthrough" /\ Respond(stream_response(resp, up[1].body))
             \/ Respond(synth(502, "response-body-uninspectable"))
       \/ /\ up[1].status # 101 /\ reads("response") /\ Inspectability = "inspect"
          /\ stage' = "inspect" /\ UNCHANGED <<skip, out>>
  <2> DEFINE A == up[1].status = 101
             a == stream_response(resp, up[1].body)
             b == synth(502, "response-body-uninspectable")
             P == inspect.uninspectable = "passthrough"
  <2>1. Respond(IF P THEN a ELSE b) => (P /\ Respond(a)) \/ Respond(b)
    <3>1. CASE P
      BY <3>1, Zenon
    <3>2. CASE ~P
      BY <3>2, Zenon
    <3> QED  BY <3>1, <3>2
  <2> QED  BY <2>1, Zenon DEF ResponseChainDone
<1>11. UNCHANGED k
  BY DEF ResponseChainDone
<1> HIDE DEF Calm
<1> QED  BY <1>1, <1>4, <1>5, <1>6, <1>7, <1>8, <1>9, <1>10, <1>11

(* The body as the hooks get it.                                           *)
Opening == SubSeq(up[1].body, 1, inspect.max)
Unread == SubSeq(up[1].body, inspect.max + 1, Len(up[1].body))

LEMMA HeadAndRest ==
  ASSUME Shape, up # <<>>, Len(up[1].body) > inspect.max
  PROVE  IsList(Opening) /\ IsList(Unread) /\ Opening \o Unread = up[1].body
<1> DEFINE w == up[1].body
           m == inspect.max
           U == ToSet(w)
           h == SubSeq(w, 1, m)
           r == SubSeq(w, m + 1, Len(w))
<1>1. w \in Seq(U) /\ m \in Nat /\ Len(w) > m
  BY UpFacts, RouteFacts DEF IsList
<1>2. Opening = h /\ Unread = r
  BY DEF Opening, Unread
<1> HIDE DEF w, m, U
<1>3. h \in Seq(U) /\ r \in Seq(U) /\ Len(h) = m /\ Len(r) = Len(w) - m
  BY <1>1
<1>4. /\ \A i \in 1..m : h[i] = w[i]
      /\ \A i \in 1..(Len(w) - m) : r[i] = w[i + m]
  BY <1>1
<1> HIDE DEF h, r
<1>5. h \o r = w
  <2> DEFINE c == h \o r
  <2>1. c \in Seq(U) /\ Len(c) = Len(w)
    BY <1>1, <1>3
  <2>2. ASSUME NEW i \in 1..Len(w) PROVE (h \o r)[i] = w[i]
    <3>0. i <= m \/ i > m
      BY <1>1
    <3>1. CASE i <= m
      BY <1>1, <1>3, <1>4, <3>1
    <3>2. CASE i > m
      <4>1. i - m \in 1..(Len(w) - m) /\ (i - m) + m = i
        BY <1>1, <3>2
      <4>2. (h \o r)[i] = r[i - m]
        BY <1>1, <1>3, <3>2
      <4> QED  BY <1>4, <4>1, <4>2
    <3> QED  BY <3>0, <3>1, <3>2
  <2>3. \A i \in 1..Len(w) : c[i] = w[i]
    BY <2>2
  <2> HIDE DEF c
  <2>4. c = w
    BY <1>1, <2>1, <2>3
  <2> QED  BY <2>4 DEF c
<1>6. IsList(h) /\ IsList(r)
  BY <1>3, SeqIsList
<1> QED  BY <1>2, <1>5, <1>6 DEF w

LEMMA BufferResponseIs ==
  ASSUME Shape, BufferResponse
  PROVE  /\ stage = "inspect" /\ UNCHANGED <<scn, line, client, fwd, body, sent, up, resp, ran>>
         /\ \/ /\ stage' = "response_body" /\ k' = N /\ UNCHANGED <<skip, out>>
               /\ held' = [bytes |-> up[1].body, rest |-> <<>>, transformed |-> FALSE]
            \/ /\ stage' = "response_body" /\ k' = N /\ UNCHANGED out
               /\ skip' = "over-cap" /\ inspect.over_cap = "process-partial"
               /\ Len(up[1].body) > inspect.max
               /\ held' = [bytes |-> Opening, rest |-> Unread, transformed |-> FALSE]
            \/ /\ skip' = "over-cap" /\ inspect.over_cap = "passthrough"
               /\ Len(up[1].body) > inspect.max
               /\ Ended(stream_response(resp, up[1].body)) /\ UNCHANGED held
            \/ Fails /\ UNCHANGED held
<1>1. stage = "inspect" /\ UNCHANGED <<scn, line, client, fwd, body, sent, up, resp, ran>>
  BY DEF BufferResponse
<1>2. IsList(resp.headers) /\ up # <<>>
  BY <1>1 DEF Shape, DataShape, StageShape, After
<1> DEFINE whole == up[1].body
           St(o) == CASE o = "no-budget" -> 503 [] o = "slow" -> 504 [] OTHER -> 502
           Hooks(bytes, left) ==
             /\ held' = [bytes |-> bytes, rest |-> left, transformed |-> FALSE]
             /\ stage' = "response_body" /\ k' = N /\ UNCHANGED out
<1>3. PICK o \in buffer_response_body(whole) :
         /\ skip' = IF o = "over-cap" THEN o ELSE skip
         /\ CASE o = "complete" -> Hooks(whole, <<>>)
              [] o = "over-cap" /\ inspect.over_cap = "process-partial" -> Hooks(Opening, Unread)
              [] o = "over-cap" /\ inspect.over_cap = "passthrough" ->
                   Respond(stream_response(resp, prefixed(Opening, Unread))) /\ UNCHANGED <<k, held>>
              [] OTHER -> Respond(synth(St(o), o)) /\ UNCHANGED <<k, held>>
  BY Zenon DEF BufferResponse, Opening, Unread
<1>4. o = "over-cap" => Len(whole) > inspect.max
  BY DEF buffer_response_body
<1> HIDE DEF whole, St
<1>5. CASE o = "complete"
  BY <1>1, <1>3, <1>5 DEF whole
<1>6. CASE o = "over-cap" /\ inspect.over_cap = "process-partial"
  BY <1>1, <1>3, <1>4, <1>6 DEF whole
<1>7. CASE o = "over-cap" /\ inspect.over_cap = "passthrough"
  <2>1. Respond(stream_response(resp, prefixed(Opening, Unread))) /\ UNCHANGED <<k, held>> /\ skip' = "over-cap"
    BY <1>3, <1>7
  <2>2. prefixed(Opening, Unread) = whole /\ IsList(whole)
    BY <1>2, <1>4, <1>7, HeadAndRest, UpFacts DEF prefixed, whole
  <2>3. Respond(stream_response(resp, whole))
    BY <2>1, <2>2, Zenon
  <2>4. IsAnswer(stream_response(resp, whole))
    BY <1>2, <2>2, StreamResponseIs
  <2>5. Ended(stream_response(resp, up[1].body))
    BY <2>3, <2>4 DEF Ended, whole
  <2> QED  BY <1>1, <1>4, <1>7, <2>1, <2>5 DEF whole
<1>8. CASE o # "complete" /\ ~(o = "over-cap" /\ inspect.over_cap \in {"process-partial", "passthrough"})
  <2>1. Respond(synth(St(o), o)) /\ UNCHANGED <<k, held>>
    BY <1>3, <1>8
  <2> QED  BY <1>1, <2>1, SynthEnds DEF Fails
<1> QED  BY <1>5, <1>6, <1>7, <1>8

LEMMA ResponseBodyFilterIs ==
  ASSUME Shape, ResponseBodyFilter
  PROVE  /\ stage = "response_body" /\ k \in 1..N
         /\ UNCHANGED <<scn, line, client, fwd, body, sent, up, skip>>
         /\ \/ /\ k' = k - 1 /\ UNCHANGED <<resp, held, ran, out, stage>>
               /\ "response" \notin Filters[k].body
            \/ /\ ran' = Append(ran, <<"on-response-body", k, held.bytes>>)
               /\ "response" \in Filters[k].body
               /\ \E s \in scn.says.on_response_body : \E d :
                    /\ Decides(d, s)
                    /\ \/ stage' = stage /\ k' = k - 1 /\ UNCHANGED <<resp, held, out>>
                       \/ /\ stage' = stage /\ k' = k - 1 /\ out' = out /\ d.kind = "modified"
                          /\ resp' = [status |-> resp.status, headers |-> apply_edit(resp.headers, d)]
                          /\ held' = [bytes |-> d.body, rest |-> held.rest, transformed |-> TRUE]
                       \/ (Fails \/ Answers(d)) /\ UNCHANGED <<resp, held>>
<1>1. /\ stage = "response_body" /\ k \in 1..N
      /\ UNCHANGED <<scn, line, client, fwd, body, sent, up, skip>>
  BY DEF ResponseBodyFilter
<1>2. CASE "response" \notin Filters[k].body
  BY <1>1, <1>2 DEF ResponseBodyFilter
<1>3. CASE "response" \in Filters[k].body
  <2> DEFINE D(s) == call_response_body_hook(s)
  <2>1. ran' = Append(ran, <<"on-response-body", k, held.bytes>>)
    BY <1>3 DEF ResponseBodyFilter
  <2>2. PICK s \in scn.says.on_response_body :
              \/ D(s).kind = "continue" /\ k' = k - 1 /\ UNCHANGED <<resp, held, out, stage>>
              \/ /\ D(s).kind = "modified" /\ k' = k - 1
                 /\ resp' = [resp EXCEPT !.headers = apply_edit(@, D(s))]
                 /\ held' = [held EXCEPT !.bytes = D(s).body, !.transformed = TRUE]
                 /\ UNCHANGED <<out, stage>>
              \/ /\ Respond(synth(502, "response-body-guest-oversize"))
                 /\ UNCHANGED <<k, resp, held>>
              \/ /\ D(s).kind \in {"answer", "fault"} /\ Respond(http_response(D(s)))
                 /\ UNCHANGED <<k, resp, held>>
    <3> DEFINE fits(s) == Len(D(s).body) <= inspect.max
    <3>1. \E s \in scn.says.on_response_body :
               /\ \/ D(s).kind = "continue" /\ k' = k - 1 /\ UNCHANGED <<resp, held, out, stage>>
                  \/ /\ D(s).kind = "modified" /\ fits(s) /\ k' = k - 1
                     /\ resp' = [resp EXCEPT !.headers = apply_edit(@, D(s))]
                     /\ held' = [held EXCEPT !.bytes = D(s).body, !.transformed = TRUE]
                     /\ UNCHANGED <<out, stage>>
                  \/ /\ D(s).kind \in {"modified", "answer"} /\ ~fits(s)
                     /\ Respond(synth(502, "response-body-guest-oversize"))
                     /\ UNCHANGED <<k, resp, held>>
                  \/ /\ D(s).kind = "fault" \/ (D(s).kind = "answer" /\ fits(s))
                     /\ Respond(http_response(D(s))) /\ UNCHANGED <<k, resp, held>>
      BY <1>3, Zenon DEF ResponseBodyFilter
    <3> QED  BY <3>1, Zenon
  <2>3. IsSaid(s)
    BY SaidFacts DEF Shape, LineShape
  <2> DEFINE d == D(s)
  <2>4. Decides(d, s)
    BY <2>3, HookDecides
  <2> HIDE DEF d
  <2>5. Respond(http_response(d)) => Ended(http_response(d))
    BY <2>4, GuestEnds
  <2>6. Respond(synth(502, "response-body-guest-oversize")) => Fails
    BY SynthEnds DEF Fails
  <2>7. /\ [held EXCEPT !.bytes = d.body, !.transformed = TRUE]
             = [bytes |-> d.body, rest |-> held.rest, transformed |-> TRUE]
        /\ [resp EXCEPT !.headers = apply_edit(@, d)]
             = [status |-> resp.status, headers |-> apply_edit(resp.headers, d)]
    <3>1. /\ held = [bytes |-> held.bytes, rest |-> held.rest, transformed |-> held.transformed]
          /\ resp = [status |-> resp.status, headers |-> resp.headers]
      BY DEF Shape, DataShape
    <3> DEFINE e == apply_edit(resp.headers, d)
    <3>2. [resp EXCEPT !.headers = apply_edit(@, d)] = [resp EXCEPT !.headers = e]
      OBVIOUS
    <3> HIDE DEF e
    <3>3. [resp EXCEPT !.headers = e] = [status |-> resp.status, headers |-> e]
      BY <3>1
    <3> DEFINE b == d.body
               x == held.bytes
               y == held.rest
               z == held.transformed
               t == TRUE
    <3>5. held = [bytes |-> x, rest |-> y, transformed |-> z]
      BY <3>1
    <3> HIDE DEF b, x, y, z, t
    <3>4. [held EXCEPT !.bytes = b, !.transformed = t] = [bytes |-> b, rest |-> y, transformed |-> t]
      <4> DEFINE h == [bytes |-> x, rest |-> y, transformed |-> z]
                 g == [h EXCEPT !.bytes = b, !.transformed = t]
      <4>1. DOMAIN g = {"bytes", "rest", "transformed"}
        OBVIOUS
      <4>2. g.bytes = b /\ g.rest = y /\ g.transformed = t
        OBVIOUS
      <4>3. g = [i \in {"bytes", "rest", "transformed"} |-> g[i]]
        BY <4>1
      <4>4. [held EXCEPT !.bytes = b, !.transformed = t] = g
        BY <3>5, Zenon
      <4> HIDE DEF g
      <4>5. g = [bytes |-> b, rest |-> y, transformed |-> t]
        BY <4>1, <4>2, <4>3
      <4> QED  BY <4>4, <4>5
    <3> QED  BY <3>2, <3>3, <3>4 DEF e, b, y, t
  <2>8. \/ stage' = stage /\ k' = k - 1 /\ UNCHANGED <<resp, held, out>>
        \/ /\ stage' = stage /\ k' = k - 1 /\ out' = out /\ d.kind = "modified"
           /\ resp' = [status |-> resp.status, headers |-> apply_edit(resp.headers, d)]
           /\ held' = [bytes |-> d.body, rest |-> held.rest, transformed |-> TRUE]
        \/ (Fails \/ Answers(d)) /\ UNCHANGED <<resp, held>>
    BY <2>2, <2>5, <2>6, <2>7 DEF d, Answers
  <2> QED  BY <1>1, <1>3, <2>1, <2>4, <2>8
<1> QED  BY <1>2, <1>3

(* A body inspected whole, framed anew.                                    *)
Whole == [http_response(Says("answer", resp.headers, {}, resp.status, held.bytes)) EXCEPT !.kind = "forwarded"]

LEMMA WholeIs ==
  ASSUME IsList(resp.headers), IsList(held.bytes)
  PROVE  /\ IsAnswer(Whole) /\ Whole.kind = "forwarded" /\ Whole.body = held.bytes
         /\ Names(Whole.headers) = Names(resp.headers) \ (HopByHop \cup {"content-length"})
         /\ Whole.headers = copy_headers_synth(resp.headers)
<1> DEFINE d == Says("answer", resp.headers, {}, resp.status, held.bytes)
           a == http_response(d)
<1>1. d.set = resp.headers /\ d.body = held.bytes
  BY SaysIs
<1>2. Whole = [a EXCEPT !.kind = "forwarded"]
  BY DEF Whole
<1>3. a.headers = copy_headers_synth(d.set)
  BY DEF http_response, Answer
<1> HIDE DEF d
<1>4. /\ IsAnswer(a) /\ a.body = d.body
      /\ Names(a.headers) = Names(d.set) \ (HopByHop \cup {"content-length"})
  BY <1>1, HttpResponseIs
<1> HIDE DEF a
<1>5. a = [status |-> a.status, headers |-> a.headers, body |-> a.body, trailers |-> a.trailers, kind |-> a.kind]
      /\ IsList(a.headers) /\ IsList(a.body)
  BY <1>4 DEF IsAnswer
<1>6. Whole = [status |-> a.status, headers |-> a.headers, body |-> a.body, trailers |-> a.trailers, kind |-> "forwarded"]
  BY <1>2, <1>5
<1>7. Whole.headers = a.headers /\ Whole.body = a.body /\ Whole.kind = "forwarded" /\ Whole.status = a.status
      /\ Whole.trailers = a.trailers
  BY <1>6
<1>8. IsAnswer(Whole)
  BY <1>5, <1>6, <1>7 DEF IsAnswer, Kinds
<1> QED  BY <1>1, <1>3, <1>4, <1>7, <1>8

LEMMA ResponseBodyDoneIs ==
  ASSUME Shape, ResponseBodyDone
  PROVE  /\ stage = "response_body" /\ k = 0 /\ Calm /\ UNCHANGED skip
         /\ \/ skip # "over-cap" /\ Ended(Whole)
            \/ Fails
            \/ /\ skip = "over-cap" /\ ~held.transformed
               /\ Ended(stream_response(resp, held.bytes \o held.rest))
<1>1. stage = "response_body" /\ k = 0 /\ Calm /\ UNCHANGED skip
  BY DEF ResponseBodyDone, Calm
<1>2. IsList(resp.headers) /\ IsList(held.bytes) /\ IsList(held.rest)
  BY DEF Shape, DataShape
<1>3. Respond(Inspected(resp))
  BY Zenon DEF ResponseBodyDone
<1>4. Inspected(resp) = IF skip # "over-cap" THEN Whole
                        ELSE IF held.transformed THEN synth(502, "response-body-partial-modified")
                        ELSE stream_response(resp, held.bytes \o held.rest)
  BY Zenon DEF Inspected, Whole, prefixed
<1>5. CASE skip # "over-cap"
  <2>1. Respond(Whole)
    BY <1>3, <1>4, <1>5, Zenon
  <2> QED  BY <1>1, <1>2, <1>5, <2>1, WholeIs DEF Ended
<1>6. CASE skip = "over-cap" /\ held.transformed
  <2>1. Respond(synth(502, "response-body-partial-modified"))
    BY <1>3, <1>4, <1>6, Zenon
  <2> QED  BY <1>1, <2>1, SynthEnds DEF Fails
<1>7. CASE skip = "over-cap" /\ ~held.transformed
  <2> DEFINE bytes == held.bytes \o held.rest
  <2>1. Respond(stream_response(resp, bytes))
    BY <1>3, <1>4, <1>7, Zenon
  <2>2. IsList(bytes)
    BY <1>2, ConcatList
  <2> HIDE DEF bytes
  <2>3. Ended(stream_response(resp, bytes))
    BY <1>2, <2>1, <2>2, StreamResponseIs DEF Ended
  <2> QED  BY <1>1, <1>7, <2>3 DEF bytes
<1> QED  BY <1>5, <1>6, <1>7

-----------------------------------------------------------------------------
(* Every step keeps the shape.                                             *)
LEMMA EndKeeps ==
  ASSUME Shape, NEW r, Ended(r), scn' = scn, line' = line, DataShape', PeerShape'
  PROVE  Shape'
<1>1. IsAnswer(r)
  BY DEF Ended
<1>2. CASE Respond(r)
  BY <1>1, <1>2, RespondKeeps
<1>3. CASE Unrouted(r)
  <2>1. stage' = "done" /\ out' = <<out'[1], out'[2]>> /\ out'[1] = r /\ out'[2] = r
    BY <1>3 DEF Unrouted
  <2>2. LineShape'
    BY DEF Shape, LineShape
  <2>3. OutShape'
    BY <1>1, <2>1 DEF OutShape, IsAnswer
  <2>4. StageShape'
    BY <2>1 DEF StageShape, Before, After
  <2> QED  BY <2>2, <2>3, <2>4 DEF Shape
<1> QED  BY <1>2, <1>3 DEF Ended

LEMMA FailKeeps ==
  ASSUME Shape, Fails, scn' = scn, line' = line, DataShape', PeerShape'
  PROVE  Shape'
BY EndKeeps DEF Fails

LEMMA CalmKeeps ==
  ASSUME Shape, Calm
  PROVE  DataShape' /\ PeerShape' /\ scn' = scn /\ line' = line
BY DataKept, PeersKept DEF Calm, Shape

(* A step that goes on with the same peers.                                *)
LEMMA GoesOn ==
  ASSUME Shape, UNCHANGED <<scn, line, sent, up, out>>, DataShape', stage # "done",
         stage' \in Before \cup {"await"} \cup After,
         stage' \in {"request", "request_body"} => k' \in 1..(N + 1),
         stage' \in {"response", "response_body"} => k' \in 0..N,
         stage' \in Before => stage \in Before,
         stage' = "await" => stage = "await",
         stage' \in After => stage \in After
  PROVE  Shape'
<1>1. LineShape'
  BY DEF Shape, LineShape
<1>2. PeerShape'
  BY PeersKept DEF Shape
<1>3. OutShape'
  BY DEF Shape, OutShape, Before, After
<1>4. N' = N
  BY RouteStays
<1>5. StageShape'
  BY <1>4 DEF Shape, StageShape
<1> QED  BY <1>1, <1>2, <1>3, <1>5 DEF Shape

LEMMA ArriveShape == ASSUME Shape, Arrive PROVE Shape'
<1>1. scn \in Scenarios
  BY DEF Shape, LineShape
<1> DEFINE r == ForwardedRequest
<1>2. stage = "arrived" /\ UNCHANGED <<scn, body, sent, up, resp, held, ran>>
  BY <1>1, ArriveIs
<1>3. \/ Unrouted(synth(400, "bad-authority")) /\ UNCHANGED <<line, fwd, k>>
      \/ stage' = "request" /\ k' = 1 /\ out' = out /\ fwd' = Strip(line'.headers) /\ LineShape'
  BY <1>1, ArriveIs
<1>4. PeerShape'
  BY <1>2, PeersKept DEF Shape
<1>5. CASE Unrouted(synth(400, "bad-authority")) /\ UNCHANGED <<line, fwd, k>>
  <2>1. DataShape'
    BY <1>2, <1>5, DataKept DEF Shape
  <2>2. Fails
    BY <1>5, SynthEnds DEF Fails
  <2> QED  BY <1>2, <1>4, <1>5, <2>1, <2>2, FailKeeps
<1>6. CASE stage' = "request" /\ k' = 1 /\ out' = out /\ fwd' = Strip(line'.headers) /\ LineShape'
  <2>1. IsList(line'.headers)
    BY <1>6 DEF LineShape, IsList, ToSet
  <2> DEFINE hs == line'.headers
  <2> HIDE DEF hs
  <2>2. IsList(fwd')
    BY <1>6, <2>1, WithoutNames DEF hs, Strip
  <2>3. DataShape'
    BY <1>2, <2>2 DEF Shape, DataShape, IsList, ToSet
  <2>4. OutShape'
    BY <1>2, <1>6 DEF Shape, OutShape
  <2>5. StageShape'
    <3>1. N \in Nat /\ N' = N
      BY <1>1, <1>2, RouteFacts, RouteStays
    <3>2. 1 \in 1..(N + 1)
      BY <3>1
    <3> QED  BY <1>2, <1>6, <3>1, <3>2 DEF Shape, StageShape, Before, After
  <2> QED  BY <1>4, <1>6, <2>3, <2>4, <2>5 DEF Shape
<1> QED  BY <1>3, <1>5, <1>6

LEMMA RequestShapeKept ==
  ASSUME Shape, RequestFilter \/ RequestChainDone \/ WouldBlock
  PROVE  Shape'
<1>1. scn \in Scenarios /\ N \in Nat /\ DataShape
  BY RouteFacts DEF Shape, LineShape
<1>2. CASE RequestFilter
  <2>1. /\ stage = "request" /\ k \in 1..N
        /\ ran' = Append(ran, <<"on-request", k, <<>>>>)
        /\ UNCHANGED <<scn, line, client, body, sent, up, resp, held, skip>>
    BY <1>1, <1>2, RequestFilterIs
  <2>2. PICK s, d :
              /\ Decides(d, s)
              /\ \/ /\ stage' = stage /\ k' = k + 1 /\ out' = out
                    /\ fwd' = fwd \/ (fwd' = apply_edit(fwd, d) /\ d.kind = "modified")
                 \/ Answers(d) /\ fwd' = fwd
    BY <1>1, <1>2, RequestFilterIs
  <2>3. IsList(d.set) /\ IsList(fwd) /\ IsList(ran)
    BY <1>1, <2>2 DEF Decides, Spoken, DataShape
  <2>4. IsList(fwd')
    BY <2>2, <2>3, EditIs
  <2> DEFINE e == <<"on-request", k, <<>>>>
  <2> HIDE DEF e
  <2>5. IsList(ran')
    BY <2>1, <2>3, AppendList DEF e
  <2>6. DataShape'
    BY <1>1, <2>1, <2>4, <2>5 DEF DataShape, IsList, ToSet
  <2>7. CASE stage' = stage /\ k' = k + 1 /\ out' = out
    <3>1. k' \in 1..(N + 1)
      BY <1>1, <2>1, <2>7
    <3> QED  BY <2>1, <2>6, <2>7, <3>1, GoesOn DEF Before, After
  <2>8. CASE Answers(d)
    <3>1. PeerShape'
      BY <2>1, PeersKept DEF Shape
    <3> QED  BY <2>1, <2>6, <2>8, <3>1, EndKeeps DEF Answers
  <2> QED  BY <2>2, <2>7, <2>8
<1>3. CASE RequestChainDone
  <2>1. /\ stage = "request" /\ stage' = "buffer"
        /\ body'.kind = (IF line.bodyless THEN "bodyless" ELSE "oneshot") /\ body'.bytes = line.body
        /\ body' = [kind |-> body'.kind, bytes |-> body'.bytes]
        /\ UNCHANGED <<scn, k, line, client, fwd, sent, up, resp, held, skip, ran, out>>
    BY <1>3, RequestChainDoneIs
  <2>2. IsList(line.body)
    BY <1>1, RequestShape DEF Shape, LineShape
  <2>3. DataShape'
    BY <1>1, <2>1, <2>2 DEF DataShape, IsList, ToSet
  <2> QED  BY <2>1, <2>3, GoesOn DEF Before, After
<1>4. CASE WouldBlock
  <2>1. /\ stage \in {"request", "response"} /\ k' = k /\ k \in 1..N
        /\ UNCHANGED <<scn, stage, line, client, fwd, body, sent, up, resp, held, skip, ran, out>>
    BY <1>4 DEF WouldBlock, Resume
  <2>2. DataShape'
    BY <1>1, <2>1, DataKept
  <2>3. k' \in 1..(N + 1) /\ k' \in 0..N
    BY <1>1, <2>1
  <2> QED  BY <2>1, <2>2, <2>3, GoesOn DEF Before, After
<1> QED  BY <1>2, <1>3, <1>4

LEMMA BodyShapeKept ==
  ASSUME Shape, BufferRequest \/ RequestBodyFilter \/ RequestBodyDone
  PROVE  Shape'
<1>1. scn \in Scenarios /\ N \in Nat /\ DataShape
  BY RouteFacts DEF Shape, LineShape
<1>2. CASE BufferRequest
  <2>1. /\ stage = "buffer"
        /\ UNCHANGED <<scn, line, client, fwd, body, sent, up, resp, skip, ran>>
        /\ \/ stage' = "send" /\ UNCHANGED <<k, held, out>>
           \/ /\ stage' = "request_body" /\ k' = 1 /\ UNCHANGED out
              /\ held' = [bytes |-> body.bytes, rest |-> held.rest, transformed |-> held.transformed]
           \/ Fails /\ UNCHANGED held
    BY <1>1, <1>2, BufferRequestIs
  <2>2. CASE stage' = "send" /\ UNCHANGED <<k, held, out>>
    <3>1. DataShape'
      BY <1>1, <2>1, <2>2, DataKept
    <3> QED  BY <2>1, <2>2, <3>1, GoesOn DEF Before, After
  <2>3. CASE /\ stage' = "request_body" /\ k' = 1 /\ UNCHANGED out
             /\ held' = [bytes |-> body.bytes, rest |-> held.rest, transformed |-> held.transformed]
    <3>1. held'.bytes = body.bytes /\ held'.rest = held.rest /\ held'.transformed = held.transformed
      BY <2>3
    <3>2. DataShape'
      BY <1>1, <2>1, <2>3, <3>1 DEF DataShape, IsList, ToSet
    <3>3. k' \in 1..(N + 1)
      BY <1>1, <2>3
    <3> QED  BY <2>1, <2>3, <3>2, <3>3, GoesOn DEF Before, After
  <2>4. CASE Fails /\ UNCHANGED held
    <3>1. DataShape' /\ PeerShape'
      BY <1>1, <2>1, <2>4, DataKept, PeersKept DEF Shape
    <3> QED  BY <2>1, <2>4, <3>1, FailKeeps
  <2> QED  BY <2>1, <2>2, <2>3, <2>4
<1>3. CASE RequestBodyFilter
  <2>1. /\ stage = "request_body" /\ k \in 1..N
        /\ UNCHANGED <<scn, line, client, body, sent, up, resp, skip>>
    BY <1>3, RequestBodyFilterIs
  <2>2. CASE k' = k + 1 /\ UNCHANGED <<fwd, held, ran, out, stage>>
    <3>1. DataShape'
      BY <1>1, <2>1, <2>2, DataKept
    <3>2. k' \in 1..(N + 1)
      BY <1>1, <2>1, <2>2
    <3> QED  BY <2>1, <2>2, <3>1, <3>2, GoesOn DEF Before, After
  <2>3. CASE ~(k' = k + 1 /\ UNCHANGED <<fwd, held, ran, out, stage>>)
    <3>1. PICK s, d :
                    /\ ran' = Append(ran, <<"on-request-body", k, held.bytes>>)
                    /\ Decides(d, s)
                    /\ \/ stage' = stage /\ k' = k + 1 /\ UNCHANGED <<fwd, held, out>>
                       \/ /\ stage' = stage /\ k' = k + 1 /\ out' = out
                          /\ fwd' = apply_edit(fwd, d) /\ d.kind = "modified"
                          /\ held' = [bytes |-> d.body, rest |-> held.rest, transformed |-> held.transformed]
                       \/ (Fails \/ Answers(d)) /\ UNCHANGED <<fwd, held>>
      BY <1>3, <2>3, RequestBodyFilterIs
    <3>2. IsList(d.set) /\ IsList(d.body) /\ IsList(fwd) /\ IsList(ran)
      BY <1>1, <3>1 DEF Decides, Spoken, DataShape
    <3>3. IsList(fwd')
      BY <3>1, <3>2, EditIs
    <3> DEFINE e == <<"on-request-body", k, held.bytes>>
    <3> HIDE DEF e
    <3>4. IsList(ran')
      BY <3>1, <3>2, AppendList DEF e
    <3>5. \/ held' = held
          \/ /\ held'.bytes = d.body /\ held'.rest = held.rest /\ held'.transformed = held.transformed
             /\ held' = [bytes |-> held'.bytes, rest |-> held'.rest, transformed |-> held'.transformed]
      BY <3>1
    <3>6. DataShape'
      BY <1>1, <2>1, <3>2, <3>3, <3>4, <3>5 DEF DataShape, IsList, ToSet
    <3>7. CASE stage' = stage /\ k' = k + 1 /\ out' = out
      <4>1. k' \in 1..(N + 1)
        BY <1>1, <2>1, <3>7
      <4> QED  BY <2>1, <3>6, <3>7, <4>1, GoesOn DEF Before, After
    <3>8. CASE Fails \/ Answers(d)
      <4>1. PeerShape'
        BY <2>1, PeersKept DEF Shape
      <4> QED  BY <2>1, <3>6, <3>8, <4>1, EndKeeps, FailKeeps DEF Answers
    <3> QED  BY <3>1, <3>7, <3>8
  <2> QED  BY <2>2, <2>3
<1>4. CASE RequestBodyDone
  <2>1. /\ stage = "request_body" /\ stage' = "send"
        /\ body' = [kind |-> "replayable", bytes |-> held.bytes]
        /\ UNCHANGED <<scn, k, line, client, fwd, sent, up, resp, held, skip, ran, out>>
    BY <1>4, RequestBodyDoneIs
  <2>2. body'.kind = "replayable" /\ body'.bytes = held.bytes
    BY <2>1
  <2>3. DataShape'
    BY <1>1, <2>1, <2>2 DEF DataShape, IsList, ToSet
  <2> QED  BY <2>1, <2>3, GoesOn DEF Before, After
<1> QED  BY <1>2, <1>3, <1>4

LEMMA UpstreamShapeKept ==
  ASSUME Shape, Send \/ UpstreamAnswers
  PROVE  Shape'
<1>1. scn \in Scenarios /\ N \in Nat /\ DataShape
  BY RouteFacts DEF Shape, LineShape
<1>2. CASE Send
  <2>1. /\ stage = "send"
        /\ UNCHANGED <<scn, line, client, fwd, body, up, resp, held, skip, ran>>
        /\ \/ Fails /\ UNCHANGED sent
           \/ /\ stage' = "await" /\ UNCHANGED out
              /\ sent' = <<[headers |-> AttemptHeaders, body |-> body.bytes]>>
    BY <1>2, SendIs
  <2>2. DataShape'
    BY <1>1, <2>1, DataKept
  <2>3. CASE Fails /\ UNCHANGED sent
    BY <2>1, <2>2, <2>3, FailKeeps, PeersKept DEF Shape
  <2>4. CASE /\ stage' = "await" /\ UNCHANGED out
             /\ sent' = <<[headers |-> AttemptHeaders, body |-> body.bytes]>>
    <3>1. IsList(line.headers) /\ IsList(fwd) /\ IsList(body.bytes)
      BY DEF Shape, LineShape, DataShape
    <3>2. IsList(AttemptHeaders)
      BY <3>1, BaseIs, HostedIs, TracedIs, AttemptHeadersAre
    <3> DEFINE hs == AttemptHeaders
               b == body.bytes
    <3>3. sent' = <<[headers |-> hs, body |-> b]>>
      BY <2>4
    <3> HIDE DEF hs, b
    <3>4. sent'[1].headers = hs /\ sent'[1].body = b /\ sent' # <<>>
      BY <3>3
    <3>5. PeerShape'
      <4>1. sent' = <<[headers |-> sent'[1].headers, body |-> sent'[1].body]>>
        BY <3>3, <3>4
      <4>2. IsList(sent'[1].headers) /\ IsList(sent'[1].body)
        BY <3>1, <3>2, <3>4 DEF hs, b
      <4> QED  BY <2>1, <4>1, <4>2 DEF Shape, PeerShape, IsList, ToSet
    <3>6. LineShape' /\ OutShape' /\ StageShape'
      BY <2>1, <2>4, <3>4 DEF Shape, LineShape, OutShape, StageShape, Before, After
    <3> QED  BY <2>2, <3>5, <3>6 DEF Shape
  <2> QED  BY <2>1, <2>3, <2>4
<1>3. CASE UpstreamAnswers
  <2>1. /\ stage = "await"
        /\ UNCHANGED <<scn, line, client, fwd, body, sent, held, skip, ran>>
    BY <1>3, UpstreamAnswersIs
  <2>2. PICK r \in scn.upstreams :
              /\ up' = <<r>>
              /\ \/ Fails /\ UNCHANGED resp
                 \/ /\ stage' = "response" /\ k' = N /\ UNCHANGED out
                    /\ resp' = [status |-> r.status, headers |-> Strip(r.headers)]
                    /\ r.status = 101 => upstream_switched_to(r)
    BY <1>3, UpstreamAnswersIs
  <2>3. PeerShape'
    <3>1. up' = <<up'[1]>> /\ up'[1] \in scn.upstreams
      BY <2>2
    <3> QED  BY <2>1, <3>1 DEF Shape, PeerShape, IsList, ToSet
  <2>4. CASE Fails /\ UNCHANGED resp
    <3>1. DataShape'
      BY <1>1, <2>1, <2>4, DataKept
    <3> QED  BY <2>1, <2>3, <2>4, <3>1, FailKeeps
  <2>5. CASE /\ stage' = "response" /\ k' = N /\ UNCHANGED out
             /\ resp' = [status |-> r.status, headers |-> Strip(r.headers)]
    <3>1. IsList(r.headers)
      BY <1>1, ResponseFacts
    <3>2. IsList(Strip(r.headers))
      BY <3>1, WithoutNames DEF Strip
    <3>3. resp'.headers = Strip(r.headers) /\ resp' = [status |-> resp'.status, headers |-> resp'.headers]
      BY <2>5
    <3>4. DataShape'
      BY <1>1, <2>1, <3>2, <3>3 DEF DataShape, IsList, ToSet
    <3>5. N' = N /\ k' \in 0..N /\ up' # <<>>
      BY <1>1, <2>1, <2>2, <2>5, RouteStays
    <3>6. LineShape' /\ OutShape'
      BY <2>1, <2>5 DEF Shape, LineShape, OutShape
    <3>7. StageShape'
      BY <2>1, <2>5, <3>5 DEF Shape, StageShape, Before, After
    <3> QED  BY <2>3, <3>4, <3>6, <3>7 DEF Shape
  <2> QED  BY <2>2, <2>4, <2>5
<1> QED  BY <1>2, <1>3

LEMMA ResponseShapeKept ==
  ASSUME Shape, ResponseFilter \/ ResponseChainDone \/ ResponseBodyDone
  PROVE  Shape'
<1>1. scn \in Scenarios /\ N \in Nat /\ DataShape
  BY RouteFacts DEF Shape, LineShape
<1>2. CASE ResponseFilter
  <2>1. /\ stage = "response" /\ k \in 1..N
        /\ ran' = Append(ran, <<"on-response", k, <<>>>>)
        /\ UNCHANGED <<scn, line, client, fwd, body, sent, up, held, skip>>
    BY <1>1, <1>2, ResponseFilterIs
  <2>2. PICK s, d :
              /\ Decides(d, s)
              /\ \/ stage' = stage /\ k' = k - 1 /\ UNCHANGED <<resp, out>>
                 \/ /\ stage' = stage /\ k' = k - 1 /\ out' = out
                    /\ d.kind = "modified" /\ resp'.headers = apply_edit(resp.headers, d)
                    /\ resp' = [status |-> resp'.status, headers |-> resp'.headers]
                 \/ Answers(d) /\ resp' = resp
    BY <1>1, <1>2, ResponseFilterIs
  <2>3. IsList(d.set) /\ IsList(resp.headers) /\ IsList(ran)
    BY <1>1, <2>2 DEF Decides, Spoken, DataShape
  <2>4. IsList(resp'.headers)
    BY <2>2, <2>3, EditIs
  <2> DEFINE e == <<"on-response", k, <<>>>>
  <2> HIDE DEF e
  <2>5. IsList(ran')
    BY <2>1, <2>3, AppendList DEF e
  <2>6. DataShape'
    BY <1>1, <2>1, <2>2, <2>4, <2>5 DEF DataShape, IsList, ToSet
  <2>7. CASE stage' = stage /\ k' = k - 1 /\ out' = out
    <3>1. k' \in 0..N
      BY <1>1, <2>1, <2>7
    <3> QED  BY <2>1, <2>6, <2>7, <3>1, GoesOn DEF Before, After
  <2>8. CASE Answers(d)
    <3>1. PeerShape'
      BY <2>1, PeersKept DEF Shape
    <3> QED  BY <2>1, <2>6, <2>8, <3>1, EndKeeps DEF Answers
  <2> QED  BY <2>2, <2>7, <2>8
<1>3. CASE ResponseChainDone
  <2>1. stage = "response" /\ k = 0 /\ Calm
    BY <1>3, ResponseChainDoneIs
  <2>2. (\E r : Ended(r)) \/ Fails \/ (stage' = "inspect" /\ UNCHANGED <<out, k>>)
    BY <1>3, ResponseChainDoneIs
  <2>3. DataShape' /\ PeerShape' /\ scn' = scn /\ line' = line
    BY <2>1, CalmKeeps
  <2>4. CASE (\E r : Ended(r)) \/ Fails
    BY <2>3, <2>4, EndKeeps, FailKeeps
  <2>5. CASE stage' = "inspect" /\ UNCHANGED <<out, k>>
    BY <2>1, <2>3, <2>5, GoesOn DEF Calm, Before, After
  <2> QED  BY <2>2, <2>4, <2>5
<1>4. CASE ResponseBodyDone
  <2>1. Calm /\ ((\E r : Ended(r)) \/ Fails)
    BY <1>4, ResponseBodyDoneIs
  <2>2. DataShape' /\ PeerShape' /\ scn' = scn /\ line' = line
    BY <2>1, CalmKeeps
  <2> QED  BY <2>1, <2>2, EndKeeps, FailKeeps
<1> QED  BY <1>2, <1>3, <1>4

LEMMA HeldIs ==
  ASSUME NEW h, NEW b, NEW r, NEW t, h = [bytes |-> b, rest |-> r, transformed |-> t]
  PROVE  /\ h.bytes = b /\ h.rest = r /\ h.transformed = t
         /\ h = [bytes |-> h.bytes, rest |-> h.rest, transformed |-> h.transformed]
OBVIOUS

LEMMA InspectShapeKept ==
  ASSUME Shape, BufferResponse \/ ResponseBodyFilter
  PROVE  Shape'
<1>1. scn \in Scenarios /\ N \in Nat /\ DataShape
  BY RouteFacts DEF Shape, LineShape
<1>2. CASE BufferResponse
  <2>1. stage = "inspect" /\ UNCHANGED <<scn, line, client, fwd, body, sent, up, resp, ran>>
    BY <1>2, BufferResponseIs
  <2>2. up # <<>> /\ PeerShape'
    BY <2>1, PeersKept DEF Shape, StageShape, After
  <2>3. \/ /\ stage' = "response_body" /\ k' = N /\ UNCHANGED out
           /\ \/ held' = [bytes |-> up[1].body, rest |-> <<>>, transformed |-> FALSE]
              \/ /\ Len(up[1].body) > inspect.max
                 /\ held' = [bytes |-> Opening, rest |-> Unread, transformed |-> FALSE]
        \/ (\E r : Ended(r)) /\ UNCHANGED held
        \/ Fails /\ UNCHANGED held
    BY <1>2, BufferResponseIs
  <2>4. CASE /\ stage' = "response_body" /\ k' = N /\ UNCHANGED out
             /\ \/ held' = [bytes |-> up[1].body, rest |-> <<>>, transformed |-> FALSE]
                \/ /\ Len(up[1].body) > inspect.max
                   /\ held' = [bytes |-> Opening, rest |-> Unread, transformed |-> FALSE]
    <3>1. /\ held' = [bytes |-> held'.bytes, rest |-> held'.rest, transformed |-> held'.transformed]
          /\ held'.transformed \in BOOLEAN
          /\ \/ held'.bytes = up[1].body /\ held'.rest = <<>>
             \/ held'.bytes = Opening /\ held'.rest = Unread /\ Len(up[1].body) > inspect.max
      <4> DEFINE f == FALSE
                 none == <<>>
                 w == up[1].body
      <4>1. /\ f \in BOOLEAN
            /\ \/ held' = [bytes |-> w, rest |-> none, transformed |-> f]
               \/ /\ Len(w) > inspect.max
                  /\ held' = [bytes |-> Opening, rest |-> Unread, transformed |-> f]
        BY <2>4
      <4> HIDE DEF f, none, w
      <4>2. /\ held' = [bytes |-> held'.bytes, rest |-> held'.rest, transformed |-> held'.transformed]
            /\ held'.transformed = f
            /\ \/ held'.bytes = w /\ held'.rest = none
               \/ held'.bytes = Opening /\ held'.rest = Unread /\ Len(w) > inspect.max
        BY <4>1, HeldIs
      <4> QED  BY <4>1, <4>2 DEF none, w
    <3>2. IsList(held'.bytes) /\ IsList(held'.rest)
      BY <2>2, <3>1, UpFacts, EmptyList, HeadAndRest
    <3>3. DataShape'
      BY <1>1, <2>1, <3>1, <3>2 DEF DataShape, IsList, ToSet
    <3>4. k' \in 0..N
      BY <1>1, <2>4
    <3> QED  BY <2>1, <2>4, <3>3, <3>4, GoesOn DEF Before, After
  <2>5. CASE UNCHANGED held /\ ((\E r : Ended(r)) \/ Fails)
    <3>1. DataShape'
      BY <1>1, <2>1, <2>5, DataKept
    <3> QED  BY <2>1, <2>2, <2>5, <3>1, EndKeeps, FailKeeps
  <2> QED  BY <2>3, <2>4, <2>5
<1>3. CASE ResponseBodyFilter
  <2>1. /\ stage = "response_body" /\ k \in 1..N
        /\ UNCHANGED <<scn, line, client, fwd, body, sent, up, skip>>
    BY <1>3, ResponseBodyFilterIs
  <2>2. CASE k' = k - 1 /\ UNCHANGED <<resp, held, ran, out, stage>>
    <3>1. DataShape'
      BY <1>1, <2>1, <2>2, DataKept
    <3>2. k' \in 0..N
      BY <1>1, <2>1, <2>2
    <3> QED  BY <2>1, <2>2, <3>1, <3>2, GoesOn DEF Before, After
  <2>3. CASE ~(k' = k - 1 /\ UNCHANGED <<resp, held, ran, out, stage>>)
    <3>1. PICK s, d :
                    /\ ran' = Append(ran, <<"on-response-body", k, held.bytes>>)
                    /\ Decides(d, s)
                    /\ \/ stage' = stage /\ k' = k - 1 /\ UNCHANGED <<resp, held, out>>
                       \/ /\ stage' = stage /\ k' = k - 1 /\ out' = out /\ d.kind = "modified"
                          /\ resp' = [status |-> resp.status, headers |-> apply_edit(resp.headers, d)]
                          /\ held' = [bytes |-> d.body, rest |-> held.rest, transformed |-> TRUE]
                       \/ (Fails \/ Answers(d)) /\ UNCHANGED <<resp, held>>
      BY <1>3, <2>3, ResponseBodyFilterIs
    <3>2. IsList(d.set) /\ IsList(d.body) /\ IsList(resp.headers) /\ IsList(ran)
      BY <1>1, <3>1 DEF Decides, Spoken, DataShape
    <3> DEFINE hs == apply_edit(resp.headers, d)
    <3>3. IsList(hs)
      BY <3>2, EditIs
    <3> HIDE DEF hs
    <3> DEFINE e == <<"on-response-body", k, held.bytes>>
    <3> HIDE DEF e
    <3>4. IsList(ran')
      BY <3>1, <3>2, AppendList DEF e
    <3>5. \/ held' = held /\ resp' = resp
          \/ /\ held'.bytes = d.body /\ held'.rest = held.rest /\ held'.transformed \in BOOLEAN
             /\ held' = [bytes |-> held'.bytes, rest |-> held'.rest, transformed |-> held'.transformed]
             /\ resp' = [status |-> resp'.status, headers |-> resp'.headers] /\ resp'.headers = hs
      <4> DEFINE t == TRUE
                 b == d.body
                 r == held.rest
      <4>1. /\ t \in BOOLEAN
            /\ \/ held' = held /\ resp' = resp
               \/ /\ held' = [bytes |-> b, rest |-> r, transformed |-> t]
                  /\ resp' = [status |-> resp.status, headers |-> hs]
        BY <3>1 DEF hs
      <4> HIDE DEF t, b, r
      <4>2. resp' = [status |-> resp.status, headers |-> hs] =>
              resp' = [status |-> resp'.status, headers |-> resp'.headers] /\ resp'.headers = hs
        OBVIOUS
      <4>3. held' = [bytes |-> b, rest |-> r, transformed |-> t] =>
              /\ held'.bytes = b /\ held'.rest = r /\ held'.transformed = t
              /\ held' = [bytes |-> held'.bytes, rest |-> held'.rest, transformed |-> held'.transformed]
        BY HeldIs
      <4> QED  BY <4>1, <4>2, <4>3 DEF b, r
    <3>6. DataShape'
      BY <1>1, <2>1, <3>2, <3>3, <3>4, <3>5 DEF DataShape, IsList, ToSet
    <3>7. CASE stage' = stage /\ k' = k - 1 /\ out' = out
      <4>1. k' \in 0..N
        BY <1>1, <2>1, <3>7
      <4> QED  BY <2>1, <3>6, <3>7, <4>1, GoesOn DEF Before, After
    <3>8. CASE Fails \/ Answers(d)
      <4>1. PeerShape'
        BY <2>1, PeersKept DEF Shape
      <4> QED  BY <2>1, <3>6, <3>8, <4>1, EndKeeps, FailKeeps DEF Answers
    <3> QED  BY <3>1, <3>7, <3>8
  <2> QED  BY <2>2, <2>3
<1> QED  BY <1>2, <1>3

LEMMA ShapeStep ==
  ASSUME Shape, [Next]_vars
  PROVE  Shape'
<1>1. CASE Refuse \/ ChainPanics \/ NoUpstream \/ UpstreamFails
  BY <1>1, FailureIs, CalmKeeps, FailKeeps
<1>2. CASE UNCHANGED vars
  <2>1. UNCHANGED <<scn, stage, k, line, client, fwd, body, sent, up, resp, held, skip, ran, out>>
    BY <1>2 DEF vars
  <2>2. DataShape' /\ PeerShape' /\ N' = N
    BY <2>1, DataKept, PeersKept, RouteStays DEF Shape
  <2>3. LineShape' /\ StageShape' /\ OutShape'
    BY <2>1, <2>2 DEF Shape, LineShape, StageShape, OutShape
  <2> QED  BY <2>2, <2>3 DEF Shape
<1>3. CASE Over
  BY <1>2, <1>3 DEF Over
<1> QED
  BY <1>1, <1>2, <1>3, ArriveShape, RequestShapeKept, BodyShapeKept, UpstreamShapeKept,
     ResponseShapeKept, InspectShapeKept DEF Next

-----------------------------------------------------------------------------
(* The chain runs in order.                                                *)
LEMMA EndedIs ==
  ASSUME scn \in Scenarios, NEW r, Ended(r)
  PROVE  /\ stage' = "done" /\ out' # <<>> /\ out' = <<out'[1], out'[2]>>
         /\ IsAnswer(r) /\ IsAnswer(out'[1]) /\ IsAnswer(out'[2]) /\ out'[1].kind = r.kind
         /\ \/ out'[2] = Declared(r) /\ Exits(Declared(r), out'[1])
            \/ r.kind = "synthesised" /\ out'[1] = r /\ out'[2] = r
<1>1. IsAnswer(r)
  BY DEF Ended
<1>2. CASE Respond(r)
  <2>1. /\ stage' = "done" /\ out' = <<out'[1], out'[2]>> /\ out'[2] = Declared(r)
        /\ IsAnswer(out'[1]) /\ IsAnswer(out'[2]) /\ out'[1].kind = r.kind
        /\ Exits(Declared(r), out'[1])
    BY <1>1, <1>2, RespondIs
  <2>2. out' # <<>>
    BY <2>1
  <2> QED  BY <1>1, <2>1, <2>2
<1>3. CASE Unrouted(r) /\ r.kind = "synthesised"
  <2>1. stage' = "done" /\ out' = <<r, r>>
    BY <1>3 DEF Unrouted
  <2>2. out' # <<>> /\ out' = <<out'[1], out'[2]>> /\ out'[1] = r /\ out'[2] = r
    BY <2>1
  <2> QED  BY <1>1, <1>3, <2>1, <2>2
<1> QED  BY <1>2, <1>3 DEF Ended

(* An answer that is the proxy's or a guest's own.                         *)
Own == stage' = "done" /\ out' # <<>> /\ out'[1].kind = "synthesised"

LEMMA OwnAnswers ==
  ASSUME scn \in Scenarios
  PROVE  /\ Fails => Own
         /\ \A d, s : Decides(d, s) /\ Answers(d) => Own
<1>1. ASSUME Fails PROVE Own
  BY <1>1, SynthIs, EndedIs DEF Fails, Own
<1>2. ASSUME NEW d, NEW s, Decides(d, s), Answers(d) PROVE Own
  <2>1. http_response(d).kind = "synthesised"
    BY <1>2, HttpResponseIs DEF Decides, Spoken
  <2> QED  BY <1>2, <2>1, EndedIs DEF Answers, Own
<1> QED  BY <1>1, <1>2

There == HooksRun("on-request")
Back == HooksRun("on-response")
Upto(n) == [i \in 1..n |-> i]
Down(m, n) == [i \in 1..n |-> m + 1 - i]

ThereInv ==
  /\ \E n \in 0..N : There = Upto(n)
  /\ stage = "arrived" => There = Upto(0)
  /\ stage = "request" => There = Upto(k - 1)
  /\ stage \in {"buffer", "request_body", "send", "await"} \cup After => There = Upto(N)
  /\ sent # <<>> => There = Upto(N)

BackInv ==
  /\ \E n \in 0..N : Back = Down(N, n)
  /\ stage \in Before \cup {"await"} => Back = Down(N, 0)
  /\ stage = "response" => Back = Down(N, N - k)
  /\ stage \in {"inspect", "response_body"} => Back = Down(N, N)
  /\ out # <<>> => (out[1].kind \in {"forwarded", "switched"} => Back = Down(N, N))

OrderInv == ThereInv /\ BackInv

LEMMA OneFurther ==
  ASSUME NEW n \in Nat, NEW m \in Nat
  PROVE  Append(Upto(n), n + 1) = Upto(n + 1) /\ Append(Down(m, n), m - n) = Down(m, n + 1)
<1> DEFINE a == Append(Upto(n), n + 1)
           b == Append(Down(m, n), m - n)
<1>1. Upto(n) \in Seq(Int) /\ Len(Upto(n)) = n /\ Upto(n + 1) \in Seq(Int) /\ Len(Upto(n + 1)) = n + 1
  BY DEF Upto
<1>2. a \in Seq(Int) /\ Len(a) = n + 1
  BY <1>1
<1>3. \A i \in 1..(n + 1) : a[i] = i /\ Upto(n + 1)[i] = i
  BY <1>1 DEF Upto
<1>4. a = Upto(n + 1)
  <2> HIDE DEF a
  <2> QED  BY <1>1, <1>2, <1>3, SeqEqual
<1>5. b = Down(m, n + 1)
  <2>1. Down(m, n) \in Seq(Int) /\ Len(Down(m, n)) = n /\ Down(m, n + 1) \in Seq(Int) /\ Len(Down(m, n + 1)) = n + 1
    BY DEF Down
  <2>2. b \in Seq(Int) /\ Len(b) = n + 1
    BY <2>1
  <2>3. \A i \in 1..(n + 1) : b[i] = m + 1 - i /\ Down(m, n + 1)[i] = m + 1 - i
    BY <2>1 DEF Down
  <2> HIDE DEF b
  <2> QED  BY <2>1, <2>2, <2>3, SeqEqual
<1> QED  BY <1>4, <1>5

(* The record of a hook after one more.                                    *)
LEMMA OneMoreHook ==
  ASSUME IsList(ran), NEW h, NEW i, NEW bytes, ran' = Append(ran, <<h, i, bytes>>), NEW hook
  PROVE  HooksRun(hook)' = IF hook = h THEN Append(HooksRun(hook), i) ELSE HooksRun(hook)
<1> DEFINE e == <<h, i, bytes>>
<1>1. e[1] = h /\ e[2] = i /\ ran' = Append(ran, e)
  OBVIOUS
<1> HIDE DEF e
<1>2. Values(Append(ran, e), hook) = IF e[1] = hook THEN Append(Values(ran, hook), e[2]) ELSE Values(ran, hook)
  BY ValuesOfAppend
<1>3. HooksRun(hook)' = Values(ran', hook)
  BY DEF HooksRun
<1> QED  BY <1>1, <1>2, <1>3 DEF HooksRun

LEMMA RecordStays ==
  ASSUME ran' = ran
  PROVE  There' = There /\ Back' = Back
BY DEF There, Back, HooksRun

LEMMA InitOrder == ASSUME Init PROVE OrderInv
<1>1. scn \in Scenarios /\ ran = <<>> /\ stage = "arrived" /\ sent = <<>> /\ out = <<>>
  BY DEF Init
<1>2. N \in Nat
  BY <1>1, RouteFacts
<1>3. Values(<<>>, "on-request") = <<>> /\ Values(<<>>, "on-response") = <<>>
  BY EmptyList, ValuesList DEF Names
<1>4. There = <<>> /\ Back = <<>>
  BY <1>1, <1>3 DEF There, Back, HooksRun
<1>5. Upto(0) = <<>> /\ Down(N, 0) = <<>> /\ 0 \in 0..N
  BY <1>2 DEF Upto, Down
<1> QED  BY <1>1, <1>4, <1>5 DEF OrderInv, ThereInv, BackInv, Before, After

(* A step on which no hook of the header chain runs.                       *)
Unhooked == scn' = scn /\ There' = There /\ Back' = Back

LEMMA OrderOn ==
  ASSUME Shape, OrderInv, Unhooked, out' = out, stage # "done",
         \/ stage = "arrived" /\ stage' = "request" /\ k' = 1 /\ sent' = sent
         \/ stage = "request" /\ k = N + 1 /\ stage' = "buffer" /\ sent' = sent
         \/ stage \in {"buffer", "request_body"} /\ stage' \in {"request_body", "send"} /\ sent' = sent
         \/ stage = "send" /\ stage' = "await"
         \/ stage = "await" /\ stage' = "response" /\ k' = N /\ sent' = sent
         \/ stage = "response" /\ k = 0 /\ stage' = "inspect" /\ sent' = sent
         \/ stage \in {"inspect", "response_body"} /\ stage' = "response_body" /\ sent' = sent
         \/ stage' = stage /\ k' = k /\ sent' = sent
  PROVE  OrderInv'
<1>1. N \in Nat /\ out = <<>> /\ N' = N
  BY RouteFacts, RouteStays DEF Shape, LineShape, OutShape, Unhooked
<1>3. (k' = 1 => k' - 1 = 0) /\ (k = N + 1 => k - 1 = N) /\ (k' = N => N - k' = 0) /\ (k = 0 => N - k = N)
  BY <1>1
<1>4. ThereInv'
  BY <1>1, <1>3 DEF OrderInv, ThereInv, Unhooked, After
<1>5. BackInv'
  BY <1>1, <1>3 DEF OrderInv, BackInv, Unhooked, Before
<1> QED  BY <1>4, <1>5 DEF OrderInv

LEMMA OrderEnd ==
  ASSUME Shape, OrderInv, Unhooked, sent' = sent, stage' = "done",
         out'[1].kind \in {"forwarded", "switched"} => Back = Down(N, N)
  PROVE  OrderInv'
<1>1. N \in Nat /\ N' = N
  BY RouteFacts, RouteStays DEF Shape, LineShape, Unhooked
<1> QED  BY <1>1 DEF OrderInv, ThereInv, BackInv, Unhooked, Before, After

LEMMA OrderOwn ==
  ASSUME Shape, OrderInv, Unhooked, sent' = sent, Own
  PROVE  OrderInv'
BY OrderEnd DEF Own

LEMMA CalmRecord ==
  ASSUME UNCHANGED <<scn, ran>>
  PROVE  Unhooked
BY RecordStays DEF Unhooked

LEMMA OtherHook ==
  ASSUME Shape, scn' = scn, NEW h \in {"on-request-body", "on-response-body"}, NEW bytes,
         ran' = Append(ran, <<h, k, bytes>>)
  PROVE  Unhooked
<1>1. IsList(ran)
  BY DEF Shape, DataShape
<1>2. \A hook : HooksRun(hook)' = IF hook = h THEN Append(HooksRun(hook), k) ELSE HooksRun(hook)
  BY <1>1, OneMoreHook
<1>3. h # "on-request" /\ h # "on-response"
  OBVIOUS
<1>4. There' = There
  <2>1. There' = HooksRun("on-request")'
    BY DEF There
  <2> QED  BY <1>2, <1>3, <2>1 DEF There
<1>5. Back' = Back
  <2>1. Back' = HooksRun("on-response")'
    BY DEF Back
  <2> QED  BY <1>2, <1>3, <2>1 DEF Back
<1> QED  BY <1>4, <1>5 DEF Unhooked

LEMMA RequestOrder ==
  ASSUME Shape, OrderInv, RequestFilter
  PROVE  OrderInv'
<1>1. scn \in Scenarios /\ N \in Nat /\ IsList(ran)
  BY RouteFacts DEF Shape, LineShape, DataShape
<1>2. /\ stage = "request" /\ k \in 1..N /\ ran' = Append(ran, <<"on-request", k, <<>>>>)
      /\ UNCHANGED <<scn, sent>>
  BY <1>1, RequestFilterIs
<1>3. (stage' = stage /\ k' = k + 1 /\ out' = out) \/ Own
  BY <1>1, RequestFilterIs, OwnAnswers
<1>4. \A hook : HooksRun(hook)' = IF hook = "on-request" THEN Append(HooksRun(hook), k) ELSE HooksRun(hook)
  <2> DEFINE none == <<>>
             h == "on-request"
  <2>1. ran' = Append(ran, <<h, k, none>>)
    BY <1>2
  <2> HIDE DEF none, h
  <2>2. \A hook : HooksRun(hook)' = IF hook = h THEN Append(HooksRun(hook), k) ELSE HooksRun(hook)
    BY <1>1, <2>1, OneMoreHook
  <2> QED  BY <2>2 DEF h
<1>5. There' = Append(There, k) /\ Back' = Back
  <2>1. There' = HooksRun("on-request")' /\ Back' = HooksRun("on-response")'
    BY DEF There, Back
  <2> QED  BY <1>4, <2>1 DEF There, Back
<1>6. There = Upto(k - 1) /\ sent = <<>> /\ Back = Down(N, 0) /\ out = <<>>
  BY <1>2 DEF OrderInv, ThereInv, BackInv, Shape, StageShape, OutShape, Before
<1>7. k - 1 \in Nat /\ (k - 1) + 1 = k /\ (k + 1) - 1 = k /\ k \in 0..N /\ 0 \in 0..N
  BY <1>1, <1>2
<1>8. There' = Upto(k)
  <2> DEFINE j == k - 1
  <2>1. j \in Nat /\ j + 1 = k /\ There = Upto(j)
    BY <1>6, <1>7
  <2> HIDE DEF j
  <2> QED  BY <1>1, <1>5, <2>1, OneFurther
<1>9. N' = N
  BY <1>2, RouteStays
<1>10. ThereInv'
  BY <1>2, <1>3, <1>6, <1>7, <1>8, <1>9 DEF ThereInv, Own, After
<1>11. BackInv'
  BY <1>2, <1>3, <1>5, <1>6, <1>7, <1>9 DEF BackInv, Own, Before
<1> QED  BY <1>10, <1>11 DEF OrderInv

LEMMA ResponseOrder ==
  ASSUME Shape, OrderInv, ResponseFilter
  PROVE  OrderInv'
<1>1. scn \in Scenarios /\ N \in Nat /\ IsList(ran)
  BY RouteFacts DEF Shape, LineShape, DataShape
<1>2. /\ stage = "response" /\ k \in 1..N /\ ran' = Append(ran, <<"on-response", k, <<>>>>)
      /\ UNCHANGED <<scn, sent>>
  BY <1>1, ResponseFilterIs
<1>3. (stage' = stage /\ k' = k - 1 /\ out' = out) \/ Own
  BY <1>1, ResponseFilterIs, OwnAnswers
<1>4. \A hook : HooksRun(hook)' = IF hook = "on-response" THEN Append(HooksRun(hook), k) ELSE HooksRun(hook)
  <2> DEFINE none == <<>>
             h == "on-response"
  <2>1. ran' = Append(ran, <<h, k, none>>)
    BY <1>2
  <2> HIDE DEF none, h
  <2>2. \A hook : HooksRun(hook)' = IF hook = h THEN Append(HooksRun(hook), k) ELSE HooksRun(hook)
    BY <1>1, <2>1, OneMoreHook
  <2> QED  BY <2>2 DEF h
<1>5. Back' = Append(Back, k) /\ There' = There
  <2>1. There' = HooksRun("on-request")' /\ Back' = HooksRun("on-response")'
    BY DEF There, Back
  <2> QED  BY <1>4, <2>1 DEF There, Back
<1>6. Back = Down(N, N - k) /\ There = Upto(N) /\ out = <<>>
  BY <1>2 DEF OrderInv, ThereInv, BackInv, Shape, OutShape, After
<1>7. N - k \in Nat /\ (N - k) + 1 = N - (k - 1) /\ N - (N - k) = k /\ (N - k) + 1 \in 0..N /\ N \in 0..N
  BY <1>1, <1>2
<1>8. Back' = Down(N, N - (k - 1))
  <2> DEFINE j == N - k
  <2>1. j \in Nat /\ j + 1 = N - (k - 1) /\ Back = Down(N, j) /\ N - j = k
    BY <1>6, <1>7
  <2> HIDE DEF j
  <2>2. Append(Down(N, j), N - j) = Down(N, j + 1)
    BY <1>1, <2>1, OneFurther
  <2> QED  BY <1>5, <2>1, <2>2
<1>9. N' = N
  BY <1>2, RouteStays
<1>10. ThereInv'
  BY <1>2, <1>3, <1>5, <1>6, <1>7, <1>9 DEF ThereInv, Own, After
<1>11. BackInv'
  BY <1>2, <1>3, <1>6, <1>7, <1>8, <1>9 DEF BackInv, Own, Before
<1> QED  BY <1>10, <1>11 DEF OrderInv

LEMMA OrderStep ==
  ASSUME Shape, OrderInv, [Next]_vars
  PROVE  OrderInv'
<1>0. scn \in Scenarios /\ DataShape
  BY DEF Shape, LineShape
<1>1. CASE UNCHANGED vars
  <2>1. UNCHANGED <<scn, stage, k, sent, ran, out>> /\ Unhooked
    BY <1>1, CalmRecord DEF vars
  <2>2. N' = N
    BY <2>1, RouteStays
  <2> QED  BY <2>1, <2>2 DEF OrderInv, ThereInv, BackInv, Unhooked
<1>2. CASE Refuse \/ ChainPanics \/ NoUpstream \/ UpstreamFails
  <2>1. Calm /\ Fails
    BY <1>2, FailureIs
  <2> QED  BY <1>0, <2>1, CalmRecord, OrderOwn, OwnAnswers DEF Calm
<1>3. CASE Arrive
  <2>1. /\ stage = "arrived" /\ UNCHANGED <<scn, sent, ran>>
        /\ \/ Unrouted(synth(400, "bad-authority"))
           \/ stage' = "request" /\ k' = 1 /\ out' = out
    BY <1>0, <1>3, ArriveIs
  <2>2. Unrouted(synth(400, "bad-authority")) => Own
    BY <1>0, SynthEnds, OwnAnswers DEF Fails
  <2> QED  BY <2>1, <2>2, CalmRecord, OrderOwn, OrderOn
<1>4. CASE WouldBlock
  <2>1. stage \in {"request", "response"} /\ UNCHANGED <<scn, stage, k, sent, ran, out>>
    BY <1>4 DEF WouldBlock, Resume
  <2> QED  BY <2>1, CalmRecord, OrderOn
<1>5. CASE RequestChainDone
  BY <1>5, RequestChainDoneIs, CalmRecord, OrderOn
<1>6. CASE BufferRequest
  <2>1. /\ stage = "buffer" /\ UNCHANGED <<scn, sent, ran>>
        /\ (stage' \in {"send", "request_body"} /\ UNCHANGED out) \/ Fails
    BY <1>0, <1>6, BufferRequestIs
  <2> QED  BY <1>0, <2>1, CalmRecord, OrderOn, OrderOwn, OwnAnswers
<1>7. CASE RequestBodyFilter
  <2>1. /\ stage = "request_body" /\ UNCHANGED <<scn, sent>>
        /\ ran' = ran \/ ran' = Append(ran, <<"on-request-body", k, held.bytes>>)
        /\ (stage' = stage /\ UNCHANGED out) \/ Own
    BY <1>0, <1>7, RequestBodyFilterIs, OwnAnswers
  <2>2. Unhooked
    BY <2>1, CalmRecord, OtherHook
  <2> QED  BY <2>1, <2>2, OrderOn, OrderOwn
<1>8. CASE RequestBodyDone
  BY <1>8, RequestBodyDoneIs, CalmRecord, OrderOn
<1>9. CASE Send
  <2>1. /\ stage = "send" /\ UNCHANGED <<scn, ran>>
        /\ (stage' = "await" /\ UNCHANGED out) \/ (Fails /\ UNCHANGED sent)
    BY <1>9, SendIs
  <2> QED  BY <1>0, <2>1, CalmRecord, OrderOn, OrderOwn, OwnAnswers
<1>10. CASE UpstreamAnswers
  <2>1. /\ stage = "await" /\ UNCHANGED <<scn, ran, sent>>
        /\ (stage' = "response" /\ k' = N /\ UNCHANGED out) \/ Fails
    BY <1>10, UpstreamAnswersIs
  <2> QED  BY <1>0, <2>1, CalmRecord, OrderOn, OrderOwn, OwnAnswers
<1>11. CASE ResponseChainDone
  <2>1. /\ stage = "response" /\ k = 0 /\ UNCHANGED <<scn, ran, sent>>
        /\ (stage' = "inspect" /\ UNCHANGED out) \/ Fails \/ \E r : Ended(r)
    BY <1>11, ResponseChainDoneIs DEF Calm
  <2>2. (\E r : Ended(r)) => stage' = "done"
    BY <1>0, EndedIs
  <2>3. Back = Down(N, N)
    <3>1. N \in Nat /\ N - 0 = N
      BY <1>0, RouteFacts
    <3> QED  BY <2>1, <3>1 DEF OrderInv, BackInv
  <2> QED  BY <1>0, <2>1, <2>2, <2>3, CalmRecord, OrderOn, OrderOwn, OrderEnd, OwnAnswers
<1>12. CASE BufferResponse
  <2>1. /\ stage = "inspect" /\ UNCHANGED <<scn, ran, sent>>
        /\ (stage' = "response_body" /\ UNCHANGED out) \/ Fails \/ \E r : Ended(r)
    BY <1>12, BufferResponseIs
  <2>2. (\E r : Ended(r)) => stage' = "done"
    BY <1>0, EndedIs
  <2>3. Back = Down(N, N)
    BY <2>1 DEF OrderInv, BackInv
  <2> QED  BY <1>0, <2>1, <2>2, <2>3, CalmRecord, OrderOn, OrderOwn, OrderEnd, OwnAnswers
<1>13. CASE ResponseBodyFilter
  <2>1. /\ stage = "response_body" /\ UNCHANGED <<scn, sent>>
        /\ ran' = ran \/ ran' = Append(ran, <<"on-response-body", k, held.bytes>>)
        /\ (stage' = stage /\ UNCHANGED out) \/ Own
    BY <1>0, <1>13, ResponseBodyFilterIs, OwnAnswers
  <2>2. Unhooked
    BY <2>1, CalmRecord, OtherHook
  <2> QED  BY <2>1, <2>2, OrderOn, OrderOwn
<1>14. CASE ResponseBodyDone
  <2>1. /\ stage = "response_body" /\ UNCHANGED <<scn, ran, sent>> /\ (Fails \/ \E r : Ended(r))
    BY <1>14, ResponseBodyDoneIs DEF Calm
  <2>2. (\E r : Ended(r)) => stage' = "done"
    BY <1>0, EndedIs
  <2>3. Back = Down(N, N)
    BY <2>1 DEF OrderInv, BackInv
  <2> QED  BY <1>0, <2>1, <2>2, <2>3, CalmRecord, OrderOwn, OrderEnd, OwnAnswers
<1>15. CASE Over
  BY <1>1, <1>15 DEF Over
<1> QED
  BY <1>1, <1>2, <1>3, <1>4, <1>5, <1>6, <1>7, <1>8, <1>9, <1>10, <1>11, <1>12, <1>13, <1>14, <1>15,
     RequestOrder, ResponseOrder DEF Next

LEMMA OrderGives == ASSUME Shape, OrderInv PROVE ChainInOrder
<1>1. N \in Nat
  BY RouteFacts DEF Shape, LineShape
<1>2. PICK n \in 0..N : There = Upto(n)
  BY DEF OrderInv, ThereInv
<1>3. PICK m \in 0..N : Back = Down(N, m)
  BY DEF OrderInv, BackInv
<1>4. /\ DOMAIN There = 1..n /\ \A i \in 1..n : There[i] = i
      /\ DOMAIN Back = 1..m /\ \A i \in 1..m : Back[i] = N + 1 - i
  BY <1>2, <1>3 DEF Upto, Down
<1>5. Len(Upto(N)) = N /\ Len(Down(N, N)) = N
  BY <1>1 DEF Upto, Down
<1>6. /\ sent # <<>> => Len(There) = N
      /\ out # <<>> => (out[1].kind \in {"forwarded", "switched"} => Len(Back) = N)
  BY <1>5 DEF OrderInv, ThereInv, BackInv
<1>7. There = HooksRun("on-request") /\ Back = HooksRun("on-response")
  BY DEF There, Back
<1> HIDE DEF There, Back
<1> QED  BY <1>4, <1>6, <1>7 DEF ChainInOrder

-----------------------------------------------------------------------------
(* List-valued fields, and the coding a client and a route settle on.      *)
Joins(ss, h) == h = [i \in 1..Len(ss) |-> IF i = 1 THEN ss[i] ELSE h[i - 1] \o ss[i]]

LEMMA FlattenUnfolds ==
  ASSUME NEW ss
  PROVE  FlattenSeq(ss) = IF Len(ss) = 0 THEN ss ELSE (CHOOSE h : Joins(ss, h))[Len(ss)]
BY Zenon DEF FlattenSeq, Joins

LEMMA JoinsExists ==
  ASSUME NEW W, NEW ss \in Seq(Seq(W))
  PROVE  \E h : Joins(ss, h)
<1> DEFINE n == Len(ss)
           Good(m, h) == \A i \in 1..m : h[i] = IF i = 1 THEN ss[i] ELSE h[i - 1] \o ss[i]
           G == {m \in Nat : m <= n => \E h \in [1..m -> Seq(W)] : Good(m, h)}
<1>1. n \in Nat /\ \A i \in 1..n : ss[i] \in Seq(W)
  OBVIOUS
<1>2. 0 \in G
  <2> DEFINE z == [i \in 1..0 |-> <<>>]
  <2>1. 1..0 = {} /\ z \in [1..0 -> Seq(W)]
    <3>1. <<>> \in Seq(W)
      OBVIOUS
    <3> DEFINE e == <<>>
    <3> HIDE DEF e
    <3>2. [i \in 1..0 |-> e] \in [1..0 -> Seq(W)]
      BY <3>1 DEF e
    <3>3. 1..0 = {}
      OBVIOUS
    <3> QED  BY <3>2, <3>3 DEF e
  <2> HIDE DEF z
  <2> QED  BY <2>1
<1> HIDE DEF n
<1>3. ASSUME NEW m \in Nat, m \in G PROVE m + 1 \in G
  <2> HIDE DEF Good
  <2> SUFFICES ASSUME m + 1 <= n PROVE \E h \in [1..(m + 1) -> Seq(W)] : Good(m + 1, h)
    OBVIOUS
  <2>1. m <= n /\ m + 1 \in 1..n
    BY <1>1
  <2>2. PICK h \in [1..m -> Seq(W)] : Good(m, h)
    BY <1>3, <2>1
  <2> USE DEF Good
  <2> DEFINE last == IF m + 1 = 1 THEN ss[m + 1] ELSE h[m] \o ss[m + 1]
             g == [i \in 1..(m + 1) |-> IF i = m + 1 THEN last ELSE h[i]]
  <2>3. last \in Seq(W)
    <3>1. ss[m + 1] \in Seq(W)
      BY <1>1, <2>1
    <3>2. m + 1 # 1 => h[m] \in Seq(W)
      BY <2>2
    <3> QED  BY <3>1, <3>2
  <2> HIDE DEF last
  <2>4. g \in [1..(m + 1) -> Seq(W)]
    BY <2>2, <2>3
  <2>5. ASSUME NEW i \in 1..(m + 1)
        PROVE  g[i] = IF i = 1 THEN ss[i] ELSE g[i - 1] \o ss[i]
    <3>1. CASE i = m + 1
      <4>1. g[i] = last /\ (i # 1 => g[i - 1] = h[m])
        BY <3>1
      <4> QED  BY <3>1, <4>1 DEF last
    <3>2. CASE i \in 1..m
      <4>1. g[i] = h[i] /\ (i # 1 => g[i - 1] = h[i - 1])
        BY <3>2
      <4>2. h[i] = IF i = 1 THEN ss[i] ELSE h[i - 1] \o ss[i]
        BY <2>2, <3>2
      <4> QED  BY <4>1, <4>2
    <3> QED  BY <3>1, <3>2
  <2> HIDE DEF g
  <2> QED  BY <2>4, <2>5
<1>4. n \in G
  <2> HIDE DEF G
  <2> QED  BY <1>1, <1>2, <1>3, InductionSet
<1>5. PICK h \in [1..n -> Seq(W)] : Good(n, h)
  <2> HIDE DEF Good
  <2> QED  BY <1>1, <1>4
<1>6. h = [i \in 1..n |-> h[i]]
  BY <1>5
<1>7. Joins(ss, h)
  BY <1>5, <1>6 DEF Joins, n
<1> QED  BY <1>7

LEMMA FlattenType ==
  ASSUME NEW W, NEW ss \in Seq(Seq(W))
  PROVE  FlattenSeq(ss) \in Seq(W)
<1> DEFINE n == Len(ss)
           g == CHOOSE h : Joins(ss, h)
           G == {m \in Nat : m \in 1..n => g[m] \in Seq(W)}
<1>1. n \in Nat /\ \A i \in 1..n : ss[i] \in Seq(W)
  OBVIOUS
<1>2. Joins(ss, g)
  BY JoinsExists
<1>3. FlattenSeq(ss) = IF n = 0 THEN ss ELSE g[n]
  BY FlattenUnfolds
<1> HIDE DEF g
<1>4. \A i \in 1..n : g[i] = IF i = 1 THEN ss[i] ELSE g[i - 1] \o ss[i]
  BY <1>2 DEF Joins
<1>5. n = 0 => ss = <<>>
  OBVIOUS
<1> HIDE DEF n
<1>6. 0 \in G
  OBVIOUS
<1>7. ASSUME NEW m \in Nat, m \in G PROVE m + 1 \in G
  <2> SUFFICES ASSUME m + 1 \in 1..n PROVE g[m + 1] \in Seq(W)
    OBVIOUS
  <2>1. ss[m + 1] \in Seq(W) /\ g[m + 1] = IF m + 1 = 1 THEN ss[m + 1] ELSE g[(m + 1) - 1] \o ss[m + 1]
    BY <1>1, <1>4
  <2>2. CASE m = 0
    BY <2>1, <2>2
  <2>3. CASE m # 0
    <3>1. m \in 1..n /\ (m + 1) - 1 = m /\ m + 1 # 1
      BY <1>1, <2>3
    <3>2. g[m] \in Seq(W)
      BY <1>7, <3>1
    <3> QED  BY <2>1, <3>1, <3>2
  <2> QED  BY <2>2, <2>3
<1>8. n \in G
  <2> HIDE DEF G
  <2> QED  BY <1>1, <1>6, <1>7, InductionSet
<1>9. n # 0 => g[n] \in Seq(W)
  BY <1>1, <1>8
<1> QED  BY <1>3, <1>5, <1>9

(* Each value of a list is a list.                                         *)
Nested(ss) == \A i \in DOMAIN ss : IsList(ss[i])

LEMMA FlattenList ==
  ASSUME NEW ss, IsList(ss), Nested(ss)
  PROVE  /\ IsList(FlattenSeq(ss))
         /\ \A e \in ToSet(FlattenSeq(ss)) : \E v \in ToSet(ss) : e \in ToSet(v)
<1> DEFINE W == UNION {ToSet(v) : v \in ToSet(ss)}
<1>1. \A v \in ToSet(ss) : IsList(v)
  BY DEF Nested, ToSet
<1>2. \A v \in ToSet(ss) : ToSet(v) \subseteq W
  OBVIOUS
<1> HIDE DEF W
<1>3. \A v \in ToSet(ss) : v \in Seq(W)
  BY <1>1, <1>2, ListIn
<1>4. ToSet(ss) \subseteq Seq(W)
  BY <1>3
<1> DEFINE V == Seq(W)
<1> HIDE DEF V
<1>5. ss \in Seq(V)
  BY <1>4, ListIn DEF V
<1>6. FlattenSeq(ss) \in Seq(W)
  BY <1>5, FlattenType DEF V
<1> DEFINE f == FlattenSeq(ss)
<1> HIDE DEF f
<1>7. IsList(f) /\ ToSet(f) \subseteq W
  BY <1>6, SeqIsList DEF f
<1> QED  BY <1>7 DEF W, f

(* The members of a client's Accept-Encoding.                              *)
Weighted(s) == \A e \in ToSet(s) : e[2] \in Int

Offers(hs) ==
  IsList(hs) /\ \A v \in ToSet(Values(hs, "accept-encoding")) : IsList(v) /\ Weighted(v)

LEMMA HeadersOffer ==
  ASSUME NEW hs, IsHeaders(hs)
  PROVE  Offers(hs)
<1>1. IsList(hs)
  BY DEF IsHeaders
<1> DEFINE n == "accept-encoding"
<1>2. \A i \in DOMAIN hs : hs[i][1] = n => IsList(hs[i][2]) /\ \A j \in DOMAIN hs[i][2] : hs[i][2][j][2] \in Int
  BY DEF IsHeaders
<1> HIDE DEF n
<1>3. ToSet(Values(hs, n)) = {x[2] : x \in {y \in ToSet(hs) : y[1] = n}}
  BY <1>1, ValuesList
<1>4. ASSUME NEW v \in ToSet(Values(hs, n)) PROVE IsList(v) /\ Weighted(v)
  <2>1. PICK x \in ToSet(hs) : x[1] = n /\ v = x[2]
    BY <1>3
  <2>2. PICK i \in DOMAIN hs : x = hs[i]
    BY DEF ToSet
  <2>3. IsList(v) /\ \A j \in DOMAIN v : v[j][2] \in Int
    BY <1>2, <2>1, <2>2
  <2> QED  BY <2>3 DEF Weighted, ToSet
<1> QED  BY <1>1, <1>4 DEF Offers, n

LEMMA WeightIs ==
  ASSUME NEW s, IsList(s), Weighted(s), NEW names
  PROVE  /\ Weight(s, names) \in Int
         /\ Weight(s, names) >= 0 => \E e \in ToSet(s) : e[1] \in names /\ e[2] = Weight(s, names)
<1> DEFINE given == {i \in DOMAIN s : s[i][1] \in names /\ s[i][2] >= 0}
<1>1. Len(s) \in Nat /\ DOMAIN s = 1..Len(s) /\ \A i \in 1..Len(s) : s[i] \in ToSet(s)
  BY ListShape
<1>2. Weight(s, names) = IF given = {} THEN -1 ELSE s[Max(given)][2]
  BY DEF Weight
<1>3. given \in SUBSET (1..Len(s))
  BY <1>1
<1>4. \A i \in given : s[i][1] \in names /\ i \in 1..Len(s)
  BY <1>1
<1> HIDE DEF given
<1>5. CASE given = {}
  BY <1>2, <1>5
<1>6. CASE given # {}
  <2>1. Max(given) \in given
    BY <1>1, <1>3, <1>6, MaxIsIn
  <2> DEFINE e == s[Max(given)]
  <2>2. e \in ToSet(s) /\ e[1] \in names /\ Weight(s, names) = e[2]
    BY <1>1, <1>2, <1>4, <1>6, <2>1
  <2> HIDE DEF e
  <2> QED  BY <2>2 DEF Weighted
<1> QED  BY <1>5, <1>6

LEMMA MaxOfTwo ==
  ASSUME NEW x \in Int
  PROVE  Max({0, x}) \in {0, x} /\ Max({0, x}) >= 0 /\ Max({0, x}) \in Int
<1>1. \E y \in {0, x} : \A z \in {0, x} : y >= z
  BY DEF Max
<1> DEFINE m == Max({0, x})
<1>2. m \in {0, x} /\ \A z \in {0, x} : m >= z
  BY <1>1 DEF Max
<1> HIDE DEF m
<1> QED  BY <1>2 DEF m

Quality(s, c) == IF Weight(s, coding_algo(c)) >= 0 THEN Weight(s, coding_algo(c))
                 ELSE Max({0, Weight(s, {"*"})})

LEMMA QualityIs ==
  ASSUME NEW s, IsList(s), Weighted(s), NEW c
  PROVE  /\ Quality(s, c) \in Nat
         /\ Quality(s, c) > 0 =>
              \E e \in ToSet(s) : e[1] \in {"*"} \cup coding_algo(c) /\ e[2] = Quality(s, c)
<1> DEFINE a == coding_algo(c)
           b == {"*"}
           w == Weight(s, a)
           x == Weight(s, b)
<1>1. Quality(s, c) = IF w >= 0 THEN w ELSE Max({0, x})
  BY DEF Quality
<1> HIDE DEF a, b
<1>2. /\ w \in Int /\ (w >= 0 => \E e \in ToSet(s) : e[1] \in a /\ e[2] = w)
      /\ x \in Int /\ (x >= 0 => \E e \in ToSet(s) : e[1] \in b /\ e[2] = x)
  BY WeightIs
<1> HIDE DEF w, x
<1>3. Max({0, x}) \in {0, x} /\ Max({0, x}) >= 0 /\ Max({0, x}) \in Int
  BY <1>2, MaxOfTwo
<1>4. CASE w >= 0
  BY <1>1, <1>2, <1>4 DEF a
<1>5. CASE ~(w >= 0)
  <2>1. Quality(s, c) = Max({0, x})
    BY <1>1, <1>5
  <2>2. Quality(s, c) \in Nat
    BY <1>3, <2>1
  <2>3. ASSUME Quality(s, c) > 0 PROVE x = Quality(s, c) /\ x >= 0
    BY <1>2, <1>3, <2>1, <2>3
  <2>4. Quality(s, c) > 0 => \E e \in ToSet(s) : e[1] \in b /\ e[2] = Quality(s, c)
    BY <1>2, <2>3
  <2> QED  BY <2>2, <2>4 DEF b
<1> QED  BY <1>4, <1>5

(* The best of finitely many weights is one of them, or none is above 0.   *)
LEMMA BestIsOne ==
  ASSUME NEW n \in Nat, NEW f, \A i \in 1..n : f[i] \in Nat
  PROVE  LET S == {0} \cup {f[i] : i \in 1..n} IN Max(S) \in S /\ Max(S) >= 0
<1> DEFINE Q(m) == {0} \cup {f[i] : i \in 1..m}
           G == {m \in Nat : m <= n => \E x \in Q(m) : \A y \in Q(m) : x >= y}
<1>1. 0 \in G
  <2>1. Q(0) = {0}
    OBVIOUS
  <2> QED  BY <2>1
<1>2. ASSUME NEW m \in Nat, m \in G PROVE m + 1 \in G
  <2> SUFFICES ASSUME m + 1 <= n PROVE \E x \in Q(m + 1) : \A y \in Q(m + 1) : x >= y
    OBVIOUS
  <2>1. Q(m + 1) = Q(m) \cup {f[m + 1]} /\ f[m + 1] \in Nat /\ m <= n
    <3>1. 1..(m + 1) = (1..m) \cup {m + 1}
      OBVIOUS
    <3> QED  BY <3>1
  <2>2. Q(m) \subseteq Nat
    BY <2>1
  <2>3. PICK x \in Q(m) : \A y \in Q(m) : x >= y
    BY <1>2, <2>1
  <2> HIDE DEF Q
  <2>4. x \in Nat
    BY <2>2
  <2>5. CASE x >= f[m + 1]
    BY <2>1, <2>3, <2>5
  <2>6. CASE f[m + 1] >= x
    <3>1. \A y \in Q(m) : f[m + 1] >= y
      BY <2>1, <2>2, <2>3, <2>4, <2>6
    <3> QED  BY <2>1, <3>1
  <2> QED  BY <2>1, <2>4, <2>5, <2>6
<1>3. n \in G
  <2> HIDE DEF G
  <2> QED  BY <1>1, <1>2, InductionSet
<1>4. \E x \in Q(n) : \A y \in Q(n) : x >= y
  <2> HIDE DEF Q
  <2> QED  BY <1>3
<1>5. 0 \in Q(n)
  OBVIOUS
<1> HIDE DEF Q
<1>6. Max(Q(n)) \in Q(n) /\ \A y \in Q(n) : Max(Q(n)) >= y
  BY <1>4 DEF Max
<1>7. Max(Q(n)) \in Q(n) /\ Max(Q(n)) >= 0
  BY <1>5, <1>6
<1> QED  BY <1>7 DEF Q

(* A coding that is chosen is one of the route's, and the client gave it   *)
(* or the wildcard a weight above zero.                                    *)
Wanted(hs, c) ==
  \E v \in ToSet(Values(hs, "accept-encoding")) : \E e \in ToSet(v) :
    e[1] \in {"*"} \cup coding_algo(c) /\ e[2] > 0

LEMMA NegotiateIs ==
  ASSUME NEW hs, Offers(hs), NEW algs, IsList(algs), negotiate(hs, algs) # "identity"
  PROVE  negotiate(hs, algs) \in ToSet(algs) /\ Wanted(hs, negotiate(hs, algs))
<1> DEFINE vs == Values(hs, "accept-encoding")
           ms == FlattenSeq(vs)
           n == Len(algs)
           S == {0} \cup {Quality(ms, algs[i]) : i \in DOMAIN algs}
           top == Max(S)
           T == {c \in ToSet(algs) : Quality(ms, c) = top}
           chosen == Only(algs, T)
<1>1. IsList(vs) /\ Nested(vs) /\ \A v \in ToSet(vs) : Weighted(v)
  <2>1. IsList(vs)
    BY ValuesList DEF Offers
  <2> HIDE DEF vs
  <2>2. \A i \in DOMAIN vs : vs[i] \in ToSet(vs)
    BY DEF ToSet
  <2> QED  BY <2>1, <2>2 DEF Offers, Nested, vs
<1>2. negotiate(hs, algs) = IF top = 0 \/ top < Weight(ms, {"identity"}) THEN "identity" ELSE chosen[1]
  BY Zenon DEF negotiate, Quality
<1> HIDE DEF vs
<1>3. IsList(ms) /\ \A e \in ToSet(ms) : \E v \in ToSet(vs) : e \in ToSet(v)
  BY <1>1, FlattenList
<1>4. Weighted(ms)
  BY <1>1, <1>3 DEF Weighted
<1> HIDE DEF ms
<1>5. \A c : /\ Quality(ms, c) \in Nat
             /\ Quality(ms, c) > 0 =>
                  \E e \in ToSet(ms) : e[1] \in {"*"} \cup coding_algo(c) /\ e[2] = Quality(ms, c)
  BY <1>3, <1>4, QualityIs
<1>6. n \in Nat /\ DOMAIN algs = 1..n /\ \A i \in 1..n : algs[i] \in ToSet(algs)
  BY ListShape
<1>7. top \in S /\ top >= 0
  <2> DEFINE f == [i \in 1..n |-> Quality(ms, algs[i])]
  <2>1. (\A i \in 1..n : f[i] \in Nat) /\ S = {0} \cup {f[i] : i \in 1..n}
    BY <1>5, <1>6
  <2> HIDE DEF f, n
  <2> QED  BY <1>6, <2>1, BestIsOne
<1>8. top # 0
  BY <1>2
<1>9. PICK i \in 1..n : Quality(ms, algs[i]) = top
  <2> HIDE DEF top
  <2> QED  BY <1>6, <1>7, <1>8
<1> HIDE DEF top, S
<1>10. algs[i] \in T
  BY <1>6, <1>9
<1> HIDE DEF T
<1>11. IsList(chosen) /\ ToSet(chosen) = ToSet(algs) \cap T
  BY OnlyList
<1>12. ToSet(chosen) # {}
  BY <1>6, <1>10, <1>11
<1> HIDE DEF chosen
<1>13. Len(chosen) \in Nat /\ Len(chosen) # 0 /\ \A j \in 1..Len(chosen) : chosen[j] \in ToSet(chosen)
  BY <1>11, <1>12, ListShape
<1>14. 1 \in 1..Len(chosen)
  BY <1>13
<1>15. chosen[1] \in ToSet(algs) /\ chosen[1] \in T
  BY <1>11, <1>13, <1>14
<1>16. negotiate(hs, algs) = chosen[1]
  BY <1>2
<1> DEFINE c == negotiate(hs, algs)
<1> HIDE DEF c
<1>17. c \in ToSet(algs) /\ Quality(ms, c) = top
  BY <1>15, <1>16 DEF T, c
<1>18. Quality(ms, c) > 0
  BY <1>5, <1>7, <1>8, <1>17
<1>19. PICK e \in ToSet(ms) : e[1] \in {"*"} \cup coding_algo(c) /\ e[2] = Quality(ms, c)
  BY <1>5, <1>18
<1>20. PICK v \in ToSet(vs) : e \in ToSet(v)
  BY <1>3
<1>21. Wanted(hs, c)
  BY <1>18, <1>19, <1>20 DEF Wanted, vs
<1> QED  BY <1>17, <1>21 DEF c

-----------------------------------------------------------------------------
(* Ingress settles the request; nothing after it does.                     *)
LEMMA LineStays ==
  ASSUME Shape, [Next]_vars, ~Arrive
  PROVE  UNCHANGED <<scn, line, client>>
<1>0. scn \in Scenarios /\ DataShape
  BY DEF Shape, LineShape
<1>1. CASE UNCHANGED vars \/ Over
  BY <1>1 DEF vars, Over
<1>2. CASE Refuse \/ ChainPanics \/ NoUpstream \/ UpstreamFails
  BY <1>2, FailureIs DEF Calm
<1>3. CASE WouldBlock \/ RequestFilter \/ RequestChainDone
  BY <1>0, <1>3, RequestFilterIs, RequestChainDoneIs DEF WouldBlock
<1>4. CASE BufferRequest \/ RequestBodyFilter \/ RequestBodyDone
  BY <1>0, <1>4, BufferRequestIs, RequestBodyFilterIs, RequestBodyDoneIs
<1>5. CASE Send \/ UpstreamAnswers
  BY <1>5, SendIs, UpstreamAnswersIs
<1>6. CASE ResponseFilter \/ ResponseChainDone
  BY <1>0, <1>6, ResponseFilterIs, ResponseChainDoneIs DEF Calm
<1>7. CASE BufferResponse \/ ResponseBodyFilter \/ ResponseBodyDone
  BY <1>7, BufferResponseIs, ResponseBodyFilterIs, ResponseBodyDoneIs DEF Calm
<1> QED  BY <1>1, <1>2, <1>3, <1>4, <1>5, <1>6, <1>7 DEF Next

IngressInv ==
  \A n : n \notin ForwardedHeaders \cup {"host"} => Values(line.headers, n) = Values(scn.request.headers, n)

LEMMA IngressStep ==
  ASSUME Shape, IngressInv, [Next]_vars
  PROVE  IngressInv'
<1>1. CASE ~Arrive
  <2>1. UNCHANGED <<scn, line>>
    BY <1>1, LineStays
  <2>2. line'.headers = line.headers /\ scn'.request.headers = scn.request.headers
    BY <2>1
  <2>3. ASSUME NEW n, n \notin ForwardedHeaders \cup {"host"}
        PROVE  Values(line'.headers, n) = Values(scn'.request.headers, n)
    BY <2>2, <2>3 DEF IngressInv
  <2> QED  BY <2>3 DEF IngressInv
<1>2. CASE Arrive
  <2> DEFINE r == ForwardedRequest
             q == scn.request
             hs == set_forwarded(q.headers, q.peer, q.scheme, Trusted)
  <2>1. scn \in Scenarios
    BY DEF Shape, LineShape
  <2>2. r.headers = hs /\ IsList(r.headers) /\ scn' = scn
    BY <1>2, <2>1, ArriveIs
  <2>3. \/ line' = line
        \/ line'.headers = IF Authorities(r) = <<>> THEN Without(r.headers, {"host"})
                           ELSE Insert(r.headers, "host", Authorities(r)[1])
    BY <1>2, <2>1, ArriveIs
  <2>4. IsList(q.headers)
    BY <2>1, RequestShape
  <2>5. \A n : n \notin ForwardedHeaders => Values(hs, n) = Values(q.headers, n)
    BY <2>4, ForwardedIs
  <2> HIDE DEF r, hs
  <2>6. ASSUME NEW n, n \notin ForwardedHeaders \cup {"host"}
        PROVE  Values(line'.headers, n) = Values(scn'.request.headers, n)
    <3>1. Values(hs, n) = Values(q.headers, n) /\ n # "host"
      BY <2>5, <2>6
    <3>2. CASE line' = line
      BY <2>2, <2>6, <3>2 DEF IngressInv
    <3>3. CASE line'.headers = IF Authorities(r) = <<>> THEN Without(r.headers, {"host"})
                               ELSE Insert(r.headers, "host", Authorities(r)[1])
      <4>1. Values(line'.headers, n) = Values(r.headers, n)
        BY <2>2, <3>1, <3>3, NormalizedIs
      <4> QED  BY <2>2, <3>1, <4>1
    <3> QED  BY <2>3, <3>2, <3>3
  <2> QED  BY <2>6 DEF IngressInv
<1> QED  BY <1>1, <1>2

LEMMA LineOffers ==
  ASSUME Shape, IngressInv
  PROVE  Offers(line.headers)
<1>1. IsHeaders(scn.request.headers) /\ IsList(line.headers)
  BY RouteFacts DEF Shape, LineShape, IsRequest
<1>2. "accept-encoding" \notin ForwardedHeaders \cup {"host"}
  BY DEF ForwardedHeaders
<1>3. Values(line.headers, "accept-encoding") = Values(scn.request.headers, "accept-encoding")
  BY <1>2 DEF IngressInv
<1> QED  BY <1>1, <1>3, HeadersOffer DEF Offers

-----------------------------------------------------------------------------
(* What the filters that read a body were shown of it.                     *)
Readers == {i \in 1..N : "response" \in Filters[i].body}
Shown == FieldLines(ran, "on-response-body")
Read == HooksRun("on-response-body")

(* A body that is shown whole, and one whose head is.                      *)
WholeShown == (Shown = <<>> /\ held.bytes = up[1].body) \/ (Shown # <<>> /\ Shown[1][3] = up[1].body)

HeadShown ==
  /\ inspect.over_cap = "process-partial" /\ Len(up[1].body) > inspect.max
  /\ ~held.transformed =>
       held.bytes = Opening /\ held.rest = Unread /\ \A i \in DOMAIN Shown : Shown[i][3] = Opening

InspectInv ==
  /\ stage \notin {"response_body", "done"} => Shown = <<>> /\ skip = "none"
  /\ stage \in {"inspect", "response_body"} =>
       up[1].status # 101 /\ Inspectability = "inspect"
  /\ stage = "response_body" =>
       /\ Read = Only(Down(N, N - k), Readers)
       /\ (skip = "none" /\ WholeShown) \/ (skip = "over-cap" /\ HeadShown)

LEMMA UnshownIs ==
  ASSUME Shape, \/ ran' = ran
                \/ \E h \in {"on-request", "on-request-body", "on-response"} : \E x :
                     ran' = Append(ran, <<h, k, x>>)
  PROVE  Shown' = Shown
<1>1. IsList(ran)
  BY DEF Shape, DataShape
<1>2. Shown' = FieldLines(ran', "on-response-body")
  BY DEF Shown
<1>3. ASSUME NEW h \in {"on-request", "on-request-body", "on-response"}, NEW x,
             ran' = Append(ran, <<h, k, x>>)
      PROVE  Shown' = Shown
  <2> DEFINE e == <<h, k, x>>
             n == "on-response-body"
  <2>1. e[1] # n /\ ran' = Append(ran, e)
    BY <1>3
  <2> HIDE DEF e, n
  <2>2. FieldLines(Append(ran, e), n) = FieldLines(ran, n)
    BY <1>1, <2>1, LinesOfAppend
  <2> QED  BY <1>2, <2>1, <2>2 DEF Shown, n
<1> QED  BY <1>2, <1>3 DEF Shown

LEMMA InspectOn ==
  ASSUME InspectInv, skip' = skip, Shown' = Shown, stage \notin {"response_body", "done"},
         stage' \notin {"inspect", "response_body", "done"}
  PROVE  InspectInv'
BY DEF InspectInv

LEMMA InspectEnd ==
  ASSUME stage' = "done"
  PROVE  InspectInv'
BY DEF InspectInv

LEMMA ResponsesShown ==
  ASSUME Shape, InspectInv, ResponseChainDone
  PROVE  InspectInv'
<1>0. scn \in Scenarios
  BY DEF Shape, LineShape
<1>1. stage = "response" /\ Calm /\ ran' = ran
  BY ResponseChainDoneIs DEF Calm
<1>2. \/ stage' = "done"
      \/ up[1].status # 101 /\ skip' = skip /\ stage' = "inspect" /\ Inspectability = "inspect"
  BY <1>0, ResponseChainDoneIs, EndedIs, OwnAnswers DEF Own
<1>3. CASE stage' = "done"
  BY <1>3, InspectEnd
<1>4. CASE up[1].status # 101 /\ skip' = skip /\ stage' = "inspect" /\ Inspectability = "inspect"
  <2>1. Shown' = Shown /\ Shown = <<>> /\ skip = "none"
    BY <1>1, UnshownIs DEF InspectInv
  <2>2. up' = up /\ inspect' = inspect
    BY <1>1, RouteStays DEF Calm
  <2>3. Inspectability' = Inspectability
    BY <2>2 DEF Inspectability, classify_response
  <2> QED  BY <1>4, <2>1, <2>2, <2>3 DEF InspectInv
<1> QED  BY <1>2, <1>3, <1>4

LEMMA OnlyDownNone ==
  ASSUME N \in Nat
  PROVE  Down(N, N - N) = <<>>
BY DEF Down

LEMMA BufferShown ==
  ASSUME Shape, InspectInv, BufferResponse
  PROVE  InspectInv'
<1>0. scn \in Scenarios /\ N \in Nat
  BY RouteFacts DEF Shape, LineShape
<1>1. stage = "inspect" /\ UNCHANGED <<scn, up, ran>>
  BY BufferResponseIs
<1>2. \/ stage' = "done"
      \/ /\ stage' = "response_body" /\ k' = N
         /\ \/ /\ skip' = skip /\ held' = [bytes |-> up[1].body, rest |-> <<>>, transformed |-> FALSE]
            \/ /\ skip' = "over-cap" /\ inspect.over_cap = "process-partial"
               /\ Len(up[1].body) > inspect.max
               /\ held' = [bytes |-> Opening, rest |-> Unread, transformed |-> FALSE]
  BY <1>0, BufferResponseIs, EndedIs, OwnAnswers DEF Own
<1>3. CASE stage' = "done"
  BY <1>3, InspectEnd
<1>4. CASE stage' = "response_body" /\ k' = N
  <2>1. Shown' = Shown /\ Shown = <<>> /\ skip = "none" /\ up[1].status # 101 /\ Inspectability = "inspect"
    BY <1>1, UnshownIs DEF InspectInv
  <2>2. N' = N /\ inspect' = inspect /\ Filters' = Filters
    BY <1>1, RouteStays
  <2>3. Inspectability' = Inspectability /\ Opening' = Opening /\ Unread' = Unread /\ Readers' = Readers
    BY <1>1, <2>2 DEF Inspectability, classify_response, Opening, Unread, Readers
  <2>4. Read' = Only(Down(N, N - k'), Readers)
    <3>1. Read' = Seconds(Shown')
      BY ValuesAre DEF Read, HooksRun, Shown
    <3>2. Seconds(<<>>) = <<>>
      BY DEF Seconds
    <3>3. Only(Down(N, N - N), Readers) = <<>>
      BY <1>0, OnlyDownNone, OnlyEmpty
    <3> QED  BY <1>4, <2>1, <3>1, <3>2, <3>3
  <2>5. (skip' = "none" /\ WholeShown') \/ (skip' = "over-cap" /\ HeadShown')
    <3> DEFINE f == FALSE
               none == <<>>
               w == up[1].body
    <3>1. CASE skip' = skip /\ held' = [bytes |-> w, rest |-> none, transformed |-> f]
      <4> HIDE DEF f, none, w
      <4>1. held'.bytes = w
        BY <3>1
      <4>2. WholeShown'
        BY <1>1, <2>1, <4>1 DEF WholeShown, w
      <4>3. skip' = "none"
        BY <2>1, <3>1
      <4> HIDE DEF WholeShown
      <4> QED  BY <4>2, <4>3
    <3>2. CASE /\ skip' = "over-cap" /\ inspect.over_cap = "process-partial"
               /\ Len(w) > inspect.max
               /\ held' = [bytes |-> Opening, rest |-> Unread, transformed |-> f]
      <4> HIDE DEF f
      <4>1. held'.bytes = Opening /\ held'.rest = Unread
        BY <3>2
      <4>2. DOMAIN Shown' = {}
        BY <2>1
      <4>3. HeadShown'
        BY <1>1, <2>2, <2>3, <3>2, <4>1, <4>2 DEF HeadShown
      <4> QED  BY <3>2, <4>3
    <3> QED  BY <1>2, <1>4, <3>1, <3>2
  <2> QED  BY <1>1, <1>4, <2>1, <2>2, <2>3, <2>4, <2>5 DEF InspectInv
<1> QED  BY <1>2, <1>3, <1>4

LEMMA ReadIs == Read = Seconds(Shown) /\ Read' = Seconds(Shown')
BY ValuesAre DEF Read, HooksRun, Shown

LEMMA NothingRead ==
  ASSUME Shown = <<>>
  PROVE  Read = <<>>
<1>1. Seconds(<<>>) = <<>>
  BY DEF Seconds
<1> QED  BY <1>1, ReadIs

(* One more filter on the way back, reading or not.                        *)
LEMMA ReadOn ==
  ASSUME Shape, stage = "response_body", k \in 1..N, Read = Only(Down(N, N - k), Readers)
  PROVE  Only(Down(N, N - (k - 1)), Readers)
           = IF "response" \in Filters[k].body THEN Append(Read, k) ELSE Read
<1>0. N \in Nat /\ k \in Nat /\ k <= N
  BY RouteFacts DEF Shape, LineShape
<1>1. Append(Down(N, N - k), k) = Down(N, N - (k - 1))
  <2>1. N - k \in Nat /\ N - (N - k) = k /\ (N - k) + 1 = N - (k - 1)
    BY <1>0
  <2> QED  BY <1>0, <2>1, OneFurther
<1>2. IsList(Down(N, N - k))
  <2>1. Down(N, N - k) \in Seq(Int)
    BY <1>0 DEF Down
  <2> QED  BY <2>1, SeqIsList
<1>3. k \in Readers <=> "response" \in Filters[k].body
  BY DEF Readers
<1> DEFINE s == Down(N, N - k)
<1> HIDE DEF s
<1>4. Only(Append(s, k), Readers) = IF k \in Readers THEN Append(Only(s, Readers), k) ELSE Only(s, Readers)
  BY <1>2, OnlyOfAppend DEF s
<1> QED  BY <1>1, <1>3, <1>4 DEF s

LEMMA ShownMore ==
  ASSUME Shape, ran' = Append(ran, <<"on-response-body", k, held.bytes>>)
  PROVE  /\ IsList(Shown) /\ Shown' = Append(Shown, <<"on-response-body", k, held.bytes>>)
         /\ Read' = Append(Read, k)
<1>0. IsList(ran)
  BY DEF Shape, DataShape
<1> DEFINE n == "on-response-body"
           e == <<n, k, held.bytes>>
<1>1. e[1] = n /\ e[2] = k
  OBVIOUS
<1>2. ran' = Append(ran, e)
  OBVIOUS
<1>3. Shown' = FieldLines(ran', n)
  BY DEF Shown
<1>4. Shown = FieldLines(ran, n)
  BY DEF Shown
<1> HIDE DEF e
<1>5. Shown' = Append(Shown, e)
  BY <1>0, <1>1, <1>2, <1>3, <1>4, LinesOfAppend
<1>6. IsList(Shown)
  BY <1>0, <1>4, LinesList
<1>7. Read' = Append(Read, k)
  BY <1>1, <1>5, <1>6, SecondsOfAppend, ReadIs
<1> QED  BY <1>5, <1>6, <1>7 DEF e

LEMMA FilterShown ==
  ASSUME Shape, InspectInv, ResponseBodyFilter
  PROVE  InspectInv'
<1>0. scn \in Scenarios /\ N \in Nat
  BY RouteFacts DEF Shape, LineShape
<1>1. stage = "response_body" /\ k \in 1..N /\ UNCHANGED <<scn, up, skip>>
  BY ResponseBodyFilterIs
<1>2. /\ Read = Only(Down(N, N - k), Readers) /\ up[1].status # 101 /\ Inspectability = "inspect"
      /\ (skip = "none" /\ WholeShown) \/ (skip = "over-cap" /\ HeadShown)
  BY <1>1 DEF InspectInv
<1>3. N' = N /\ inspect' = inspect /\ Filters' = Filters
  BY <1>1, RouteStays
<1>4. Inspectability' = Inspectability /\ Opening' = Opening /\ Unread' = Unread /\ Readers' = Readers
  BY <1>1, <1>3 DEF Inspectability, classify_response, Opening, Unread, Readers
<1>5. Only(Down(N, N - (k - 1)), Readers)
           = IF "response" \in Filters[k].body THEN Append(Read, k) ELSE Read
  BY <1>1, <1>2, ReadOn
<1>6. ASSUME stage' = stage, k' = k - 1, Read' = Only(Down(N, N - (k - 1)), Readers),
             (skip = "none" /\ WholeShown') \/ (skip = "over-cap" /\ HeadShown')
      PROVE  InspectInv'
  <2>1. (skip' = "none" /\ WholeShown') \/ (skip' = "over-cap" /\ HeadShown')
    <3> HIDE DEF WholeShown, HeadShown
    <3> QED  BY <1>1, <1>6
  <2>2. Read' = Only(Down(N', N' - k'), Readers')
    BY <1>3, <1>4, <1>6
  <2> QED  BY <1>1, <1>2, <1>4, <1>6, <2>1, <2>2 DEF InspectInv
<1>7. CASE /\ k' = k - 1 /\ UNCHANGED <<resp, held, ran, out, stage>>
           /\ "response" \notin Filters[k].body
  <2>1. Shown' = Shown /\ Read' = Read
    BY <1>7, UnshownIs, ReadIs
  <2>2. WholeShown => WholeShown'
    BY <1>1, <1>7, <2>1 DEF WholeShown
  <2>3. HeadShown => HeadShown'
    BY <1>1, <1>3, <1>4, <1>7, <2>1 DEF HeadShown
  <2> QED  BY <1>2, <1>5, <1>6, <1>7, <2>1, <2>2, <2>3
<1>8. ASSUME ran' = Append(ran, <<"on-response-body", k, held.bytes>>),
             "response" \in Filters[k].body, stage' = stage, k' = k - 1,
             held' = held \/ held'.transformed
      PROVE  InspectInv'
  <2>1. /\ IsList(Shown) /\ Shown' = Append(Shown, <<"on-response-body", k, held.bytes>>)
        /\ Read' = Append(Read, k)
    BY <1>8, ShownMore
  <2> DEFINE e == <<"on-response-body", k, held.bytes>>
  <2>2. e[3] = held.bytes /\ Shown' = Append(Shown, e)
    BY <2>1
  <2> HIDE DEF e
  <2>3. /\ Len(Shown) \in Nat /\ DOMAIN Shown = 1..Len(Shown) /\ (Shown = <<>>) <=> (Len(Shown) = 0)
        /\ DOMAIN Shown' = 1..(Len(Shown) + 1) /\ Shown'[Len(Shown) + 1] = e
        /\ Shown' # <<>> /\ \A i \in 1..Len(Shown) : Shown'[i] = Shown[i]
    <3>1. IsList(Shown') /\ Len(Shown') = Len(Shown) + 1
      BY <2>1, <2>2, AppendList
    <3>2. Len(Shown) \in Nat /\ Len(Shown') # 0
      BY <2>1, <3>1, ListShape
    <3> QED  BY <2>1, <2>2, <3>1, <3>2, AppendList, ListShape
  <2>4. WholeShown => WholeShown'
    <3>1. CASE Shown = <<>>
      BY <1>1, <2>2, <2>3, <3>1 DEF WholeShown
    <3>2. CASE Shown # <<>>
      <4>1. 1 \in 1..Len(Shown)
        BY <2>3, <3>2
      <4> QED  BY <1>1, <2>3, <3>2, <4>1 DEF WholeShown
    <3> QED  BY <3>1, <3>2
  <2>5. HeadShown => HeadShown'
    <3>1. CASE held'.transformed
      BY <1>1, <1>3, <3>1 DEF HeadShown
    <3>2. CASE held' = held
      <4>1. HeadShown /\ ~held.transformed => \A i \in DOMAIN Shown' : Shown'[i][3] = Opening
        BY <2>2, <2>3 DEF HeadShown
      <4> QED  BY <1>1, <1>3, <1>4, <3>2, <4>1 DEF HeadShown
    <3> QED  BY <1>8, <3>1, <3>2
  <2> QED  BY <1>2, <1>5, <1>6, <1>8, <2>1, <2>4, <2>5
<1>9. CASE stage' = "done"
  BY <1>9, InspectEnd
<1> DEFINE yes == TRUE
<1>10. ASSUME NEW b, NEW r, held' = [bytes |-> b, rest |-> r, transformed |-> yes]
       PROVE  held'.transformed
  <2> HIDE DEF yes
  <2>1. held'.transformed = yes
    BY <1>10
  <2> QED  BY <2>1 DEF yes
<1>11. CASE /\ ran' = Append(ran, <<"on-response-body", k, held.bytes>>)
            /\ "response" \in Filters[k].body
            /\ \E s \in scn.says.on_response_body : \E d :
                 /\ Decides(d, s)
                 /\ \/ stage' = stage /\ k' = k - 1 /\ UNCHANGED <<resp, held, out>>
                    \/ /\ stage' = stage /\ k' = k - 1 /\ out' = out /\ d.kind = "modified"
                       /\ resp' = [status |-> resp.status, headers |-> apply_edit(resp.headers, d)]
                       /\ held' = [bytes |-> d.body, rest |-> held.rest, transformed |-> yes]
                    \/ (Fails \/ Answers(d)) /\ UNCHANGED <<resp, held>>
  <2>1. PICK s, d : /\ Decides(d, s)
                    /\ \/ stage' = stage /\ k' = k - 1 /\ held' = held
                       \/ /\ stage' = stage /\ k' = k - 1
                          /\ held' = [bytes |-> d.body, rest |-> held.rest, transformed |-> yes]
                       \/ Fails \/ Answers(d)
    BY <1>11, Zenon
  <2>2. CASE Fails \/ Answers(d)
    BY <1>0, <1>9, <2>1, <2>2, OwnAnswers DEF Own
  <2>3. CASE stage' = stage /\ k' = k - 1 /\ held' = held
    BY <1>8, <1>11, <2>3
  <2>4. CASE /\ stage' = stage /\ k' = k - 1
             /\ held' = [bytes |-> d.body, rest |-> held.rest, transformed |-> yes]
    <3>1. held'.transformed
      BY <1>10, <2>4
    <3> QED  BY <1>8, <1>11, <2>4, <3>1
  <2> QED  BY <2>1, <2>2, <2>3, <2>4
<1> QED  BY <1>7, <1>11, ResponseBodyFilterIs, Zenon

LEMMA InspectStep ==
  ASSUME Shape, InspectInv, [Next]_vars
  PROVE  InspectInv'
<1>0. scn \in Scenarios /\ DataShape
  BY DEF Shape, LineShape
<1>1. CASE UNCHANGED vars
  <2>1. UNCHANGED <<scn, stage, k, up, held, skip, ran, out>>
    BY <1>1 DEF vars
  <2>2. N' = N /\ inspect' = inspect /\ Filters' = Filters /\ Shown' = Shown /\ Read' = Read
    BY <2>1, RouteStays, UnshownIs, ReadIs
  <2>3. Inspectability' = Inspectability /\ Opening' = Opening /\ Unread' = Unread /\ Readers' = Readers
    BY <2>1, <2>2 DEF Inspectability, classify_response, Opening, Unread, Readers
  <2>4. WholeShown' = WholeShown /\ HeadShown' = HeadShown
    BY <2>1, <2>2, <2>3 DEF WholeShown, HeadShown
  <2> QED  BY <2>1, <2>2, <2>3, <2>4 DEF InspectInv
<1>2. CASE Refuse \/ ChainPanics \/ NoUpstream \/ UpstreamFails
  BY <1>0, <1>2, FailureIs, OwnAnswers, InspectEnd DEF Own
<1>3. CASE Arrive
  <2>1. /\ stage = "arrived" /\ ran' = ran /\ skip' = skip
        /\ Unrouted(synth(400, "bad-authority")) \/ stage' = "request"
    BY <1>0, <1>3, ArriveIs
  <2> QED  BY <2>1, UnshownIs, InspectOn, InspectEnd DEF Unrouted
<1>4. CASE WouldBlock
  <2>1. stage \in {"request", "response"} /\ UNCHANGED <<stage, ran, skip>>
    BY <1>4 DEF WouldBlock
  <2> QED  BY <2>1, UnshownIs, InspectOn
<1>5. CASE RequestFilter
  <2>1. /\ stage = "request" /\ skip' = skip /\ ran' = Append(ran, <<"on-request", k, <<>>>>)
        /\ stage' = stage \/ stage' = "done"
    BY <1>0, <1>5, RequestFilterIs, OwnAnswers DEF Own
  <2> QED  BY <2>1, UnshownIs, InspectOn, InspectEnd
<1>6. CASE RequestChainDone
  BY <1>6, RequestChainDoneIs, UnshownIs, InspectOn
<1>7. CASE BufferRequest
  <2>1. /\ stage = "buffer" /\ skip' = skip /\ ran' = ran
        /\ stage' \in {"send", "request_body", "done"}
    BY <1>0, <1>7, BufferRequestIs, OwnAnswers DEF Own
  <2> QED  BY <2>1, UnshownIs, InspectOn, InspectEnd
<1>8. CASE RequestBodyFilter
  <2>1. /\ stage = "request_body" /\ skip' = skip
        /\ ran' = ran \/ ran' = Append(ran, <<"on-request-body", k, held.bytes>>)
        /\ stage' = stage \/ stage' = "done"
    BY <1>0, <1>8, RequestBodyFilterIs, OwnAnswers DEF Own
  <2> QED  BY <2>1, UnshownIs, InspectOn, InspectEnd
<1>9. CASE RequestBodyDone
  BY <1>9, RequestBodyDoneIs, UnshownIs, InspectOn
<1>10. CASE Send
  <2>1. /\ stage = "send" /\ skip' = skip /\ ran' = ran /\ stage' \in {"await", "done"}
    BY <1>0, <1>10, SendIs, OwnAnswers DEF Own
  <2> QED  BY <2>1, UnshownIs, InspectOn, InspectEnd
<1>11. CASE UpstreamAnswers
  <2>1. /\ stage = "await" /\ skip' = skip /\ ran' = ran /\ stage' \in {"response", "done"}
    BY <1>0, <1>11, UpstreamAnswersIs, OwnAnswers DEF Own
  <2> QED  BY <2>1, UnshownIs, InspectOn, InspectEnd
<1>12. CASE ResponseFilter
  <2>1. /\ stage = "response" /\ skip' = skip /\ ran' = Append(ran, <<"on-response", k, <<>>>>)
        /\ stage' = stage \/ stage' = "done"
    BY <1>0, <1>12, ResponseFilterIs, OwnAnswers DEF Own
  <2> QED  BY <2>1, UnshownIs, InspectOn, InspectEnd
<1>13. CASE ResponseBodyDone
  <2>1. stage' = "done"
    BY <1>0, <1>13, ResponseBodyDoneIs, OwnAnswers, EndedIs DEF Own
  <2> QED  BY <2>1, InspectEnd
<1>14. CASE Over
  BY <1>1, <1>14 DEF Over
<1> QED
  BY <1>1, <1>2, <1>3, <1>4, <1>5, <1>6, <1>7, <1>8, <1>9, <1>10, <1>11, <1>12, <1>13, <1>14,
     ResponsesShown, BufferShown, FilterShown DEF Next

LEMMA InitInspect == ASSUME Init PROVE InspectInv
<1>1. ran = <<>> /\ stage = "arrived" /\ skip = "none"
  BY DEF Init
<1>2. Shown = <<>>
  BY <1>1, OnlyEmpty DEF Shown, FieldLines
<1> QED  BY <1>1, <1>2 DEF InspectInv

-----------------------------------------------------------------------------
(* How an exchange ends.                                                   *)
LetPast ==
  \/ stage = "response" /\ skip' = skip /\ (~reads("response") \/ Inspectability = "out-of-scope")
  \/ /\ stage = "response" /\ skip' = Inspectability /\ Inspectability \notin {"inspect", "out-of-scope"}
     /\ inspect.uninspectable = "passthrough"
  \/ /\ stage = "inspect" /\ skip' = "over-cap" /\ inspect.over_cap = "passthrough"
     /\ Len(up[1].body) > inspect.max

EndsWith(r) ==
  \/ \E status, fault : r = synth(status, fault)
  \/ \E s \in Said(scn.says) : \E d : Decides(d, s) /\ r = http_response(d)
  \/ Calm /\ stage = "response" /\ up[1].status = 101 /\ (r = Demoted \/ r = Switched(resp.headers))
  \/ Calm /\ stage = "response" /\ up[1].status # 101 /\ N = 0 /\ r = stream_response_direct
  \/ /\ LetPast /\ up[1].status # 101
     /\ UNCHANGED <<scn, line, sent, up, resp, held, ran>> /\ r = stream_response(resp, up[1].body)
  \/ Calm /\ stage = "response_body" /\ k = 0 /\ skip' = skip /\ skip # "over-cap" /\ r = Whole
  \/ /\ Calm /\ stage = "response_body" /\ k = 0 /\ skip' = skip /\ skip = "over-cap" /\ ~held.transformed
     /\ r = stream_response(resp, held.bytes \o held.rest)

LEMMA FailsEnd ==
  ASSUME Fails
  PROVE  \E r : Ended(r) /\ EndsWith(r)
BY Zenon DEF Fails, EndsWith

LEMMA AnswersEnd ==
  ASSUME NEW s \in Said(scn.says), NEW d, Decides(d, s), Answers(d)
  PROVE  \E r : Ended(r) /\ EndsWith(r)
BY Zenon DEF Answers, EndsWith

LEMMA Endings ==
  ASSUME Shape, InspectInv, [Next]_vars, stage # "done", stage' = "done"
  PROVE  \E r : Ended(r) /\ EndsWith(r)
<1>0. scn \in Scenarios /\ DataShape
  BY DEF Shape, LineShape
<1> DEFINE Ends == \E r : Ended(r) /\ EndsWith(r)
<1>1. Fails => Ends
  BY FailsEnd, Zenon
<1>2. \A s \in Said(scn.says) : \A d : Decides(d, s) /\ Answers(d) => Ends
  BY AnswersEnd, Zenon
<1> SUFFICES Ends
  OBVIOUS
<1> HIDE DEF Ends
<1>3. CASE Refuse \/ ChainPanics \/ NoUpstream \/ UpstreamFails
  BY <1>1, <1>3, FailureIs
<1>4. CASE Arrive
  <2>1. Unrouted(synth(400, "bad-authority"))
    BY <1>0, <1>4, ArriveIs
  <2>2. Ended(synth(400, "bad-authority"))
    BY <2>1, SynthEnds
  <2> QED  BY <1>1, <2>2 DEF Fails
<1>5. CASE RequestFilter
  BY <1>0, <1>2, <1>5, RequestFilterIs, SaidFacts
<1>6. CASE BufferRequest
  BY <1>0, <1>1, <1>6, BufferRequestIs
<1>7. CASE RequestBodyFilter
  BY <1>0, <1>1, <1>2, <1>7, RequestBodyFilterIs, SaidFacts
<1>8. CASE Send \/ UpstreamAnswers
  BY <1>1, <1>8, SendIs, UpstreamAnswersIs
<1>9. CASE ResponseFilter
  BY <1>0, <1>2, <1>9, ResponseFilterIs, SaidFacts
<1>10. CASE ResponseChainDone
  BY <1>1, <1>10, ResponseChainDoneIs DEF Ends, EndsWith, Calm, LetPast
<1>11. CASE BufferResponse
  <2>1. Fails \/ (Ended(stream_response(resp, up[1].body)) /\ UNCHANGED held /\ LetPast)
    BY <1>11, BufferResponseIs DEF LetPast
  <2>2. stage = "inspect" /\ UNCHANGED <<scn, line, sent, up, resp, ran>>
    BY <1>11, BufferResponseIs
  <2>3. up[1].status # 101
    BY <2>2 DEF InspectInv
  <2> QED  BY <1>1, <2>1, <2>2, <2>3 DEF Ends, EndsWith
<1>12. CASE ResponseBodyFilter
  BY <1>0, <1>1, <1>2, <1>12, ResponseBodyFilterIs, SaidFacts
<1>13. CASE ResponseBodyDone
  BY <1>1, <1>13, ResponseBodyDoneIs, Zenon DEF Ends, EndsWith
<1>14. CASE WouldBlock \/ RequestChainDone \/ RequestBodyDone \/ UNCHANGED vars \/ Over
  <2>1. stage' \in {stage, "buffer", "send"}
    BY <1>14, RequestChainDoneIs, RequestBodyDoneIs DEF WouldBlock, vars, Over
  <2> QED  BY <2>1
<1> QED
  BY <1>3, <1>4, <1>5, <1>6, <1>7, <1>8, <1>9, <1>10, <1>11, <1>12, <1>13, <1>14 DEF Next

LEMMA ExitBody ==
  ASSUME Shape, IngressInv, NEW r, Ended(r)
  PROVE  out'[1].body \in Codings(r.body)
<1>0. scn \in Scenarios /\ IsRoute(route)
  BY RouteFacts DEF Shape, LineShape
<1>1. IsAnswer(r) /\ (out'[1] = r \/ Exits(Declared(r), out'[1]))
  BY <1>0, EndedIs
<1>2. IsAnswer(Declared(r)) /\ Declared(r).body = r.body
  BY <1>0, <1>1, DeclaredIs
<1>3. ASSUME NEW c \in {"gzip", "br", "zstd"}, out'[1] = Coded(Varied(Declared(r)), c)
      PROVE  out'[1].body \in Codings(r.body)
  <2>1. IsAnswer(Varied(Declared(r))) /\ Varied(Declared(r)).body = r.body
    BY <1>2, VariedIs
  <2>2. out'[1].body = <<c>> \o r.body \o <<"end">>
    BY <1>3, <2>1, CodedIs
  <2> QED  BY <2>2, Zenon DEF Codings
<1>4. CASE out'[1] \in {r, Declared(r), Varied(Declared(r))}
  BY <1>2, <1>4, VariedIs DEF Codings
<1>5. CASE /\ route.compression # <<>>
           /\ negotiate(line.headers, route.compression[1].algorithms) # "identity"
           /\ out'[1] = Coded(Varied(Declared(r)), negotiate(line.headers, route.compression[1].algorithms))
  <2> DEFINE algs == route.compression[1].algorithms
  <2>1. IsList(algs) /\ ToSet(algs) \subseteq {"gzip", "br", "zstd"}
    BY <1>0, <1>5 DEF IsRoute
  <2>2. negotiate(line.headers, algs) \in ToSet(algs)
    BY <1>5, <2>1, LineOffers, NegotiateIs
  <2> QED  BY <1>3, <1>5, <2>1, <2>2
<1> QED  BY <1>1, <1>4, <1>5 DEF Exits

-----------------------------------------------------------------------------
(* InspectionComplete in named parts.                                      *)
AllReaders == Only(Down(N, N), Readers)

Asked ==
  LET type == Values(up[1].headers, "content-type") IN
  /\ AllReaders # <<>> /\ up[1].status # 101 /\ type # <<>>
  /\ type[1] \in inspect.types \cup {"text/event-stream"}

SeenWhole ==
  /\ Read = AllReaders /\ Shown[1][3] = up[1].body
  /\ \A c \in ToSet(Values(up[1].headers, "content-encoding")) : c \subseteq {"identity"}
  /\ up[1].status # 206
  /\ out[1].body \in Codings(held.bytes)

SeenHead ==
  /\ inspect.over_cap # "reject" /\ Len(up[1].body) > inspect.max
  /\ inspect.over_cap = "process-partial" =>
       Read = AllReaders /\ \A i \in DOMAIN Shown : IsPrefix(Shown[i][3], up[1].body)
  /\ out[1].body \in Codings(up[1].body)

LEMMA CompleteIf ==
  ASSUME (stage' = "done" /\ Asked' /\ out'[1].kind = "forwarded") =>
           \/ skip' = "none" /\ SeenWhole'
           \/ skip' = "over-cap" /\ SeenHead'
           \/ skip' \notin {"none", "over-cap"} /\ inspect'.uninspectable = "passthrough"
  PROVE  InspectionComplete'
<1>1. AllReaders' = Only([i \in 1..N |-> N + 1 - i], {i \in 1..N : "response" \in Filters[i].body})'
  BY DEF AllReaders, Down, Readers
<1> QED  BY <1>1 DEF InspectionComplete, Asked, SeenWhole, SeenHead, Shown, Read

LEMMA SamePlaces ==
  ASSUME Shape, UNCHANGED <<scn, up, ran>>
  PROVE  /\ N' = N /\ inspect' = inspect /\ Filters' = Filters /\ Readers' = Readers
         /\ AllReaders' = AllReaders /\ Asked' = Asked /\ Shown' = Shown /\ Read' = Read
<1>1. N' = N /\ inspect' = inspect /\ Filters' = Filters
  BY RouteStays
<1>2. Readers' = Readers /\ Shown' = Shown /\ Read' = Read
  BY <1>1, UnshownIs, ReadIs DEF Readers
<1>3. AllReaders' = AllReaders
  BY <1>1, <1>2 DEF AllReaders
<1> QED  BY <1>1, <1>2, <1>3 DEF Asked

LEMMA DownList ==
  ASSUME NEW m \in Nat, NEW n \in Nat
  PROVE  IsList(Down(m, n))
<1>1. Down(m, n) \in Seq(Int)
  BY DEF Down
<1> QED  BY <1>1, SeqIsList

LEMMA NoReaders ==
  ASSUME scn \in Scenarios, N = 0 \/ ~reads("response")
  PROVE  AllReaders = <<>>
<1>1. N \in Nat /\ IsList(Down(N, N))
  BY RouteFacts, DownList
<1>2. Readers = {}
  <2>1. \A i \in 1..N : "response" \notin Filters[i].body
    BY <1>1 DEF reads
  <2> QED  BY <2>1 DEF Readers
<1>3. ToSet(Down(N, N)) \cap Readers = {}
  BY <1>2
<1> QED  BY <1>1, <1>3, OnlyNone DEF AllReaders

LEMMA AskedIsInScope ==
  ASSUME IsList(up[1].headers), Asked
  PROVE  Inspectability # "out-of-scope"
<1> DEFINE type == Values(up[1].headers, "content-type")
<1>1. type # <<>> /\ type[1] \in inspect.types \cup {"text/event-stream"}
  BY DEF Asked
<1>2. (type \o <<"">>)[1] = type[1]
  <2>1. IsList(type)
    BY ValuesList
  <2> DEFINE t == type
  <2> HIDE DEF t
  <2>2. Len(t) \in Nat /\ t = [i \in 1..Len(t) |-> t[i]] /\ Len(t) # 0 /\ t \in Seq(ToSet(t))
    BY <1>1, <2>1, ListShape DEF t, IsList
  <2> DEFINE e == ""
  <2> HIDE DEF e
  <2>3. (t \o <<e>>)[1] = t[1]
    BY <2>2
  <2> QED  BY <2>3 DEF t, e
<1> HIDE DEF type
<1>3. CASE type[1] = "text/event-stream"
  BY <1>2, <1>3 DEF Inspectability, classify_response, type
<1>4. CASE type[1] # "text/event-stream" /\ type[1] \in inspect.types
  BY <1>2, <1>4 DEF Inspectability, classify_response, type
<1> QED  BY <1>1, <1>3, <1>4

LEMMA InspectableIs ==
  /\ Inspectability \notin {"none", "over-cap"}
  /\ Inspectability = "inspect" =>
       /\ up[1].status # 206
       /\ \A c \in ToSet(Values(up[1].headers, "content-encoding")) : c \subseteq {"identity"}
<1>1. Inspectability \notin {"none", "over-cap"}
  BY DEF Inspectability, classify_response
<1>2. Inspectability = "inspect" => up[1].status # 206 /\ ~is_content_encoded(up[1].headers)
  BY DEF Inspectability, classify_response
<1>3. ~is_content_encoded(up[1].headers) =>
        \A c \in ToSet(Values(up[1].headers, "content-encoding")) : c \subseteq {"identity"}
  <2> SUFFICES ASSUME ~is_content_encoded(up[1].headers),
                      NEW c \in ToSet(Values(up[1].headers, "content-encoding"))
               PROVE  c \subseteq {"identity"}
    OBVIOUS
  <2> DEFINE T == ToSet(Values(up[1].headers, "content-encoding"))
             i == "identity"
  <2>1. (UNION T) \ {i} = {} /\ c \in T
    BY DEF is_content_encoded
  <2> HIDE DEF T, i
  <2>2. ASSUME NEW x \in c
        PROVE  x \in {i}
    <3>1. x \in UNION T
      BY <2>1
    <3> QED  BY <2>1, <3>1
  <2> QED  BY <2>2 DEF i
<1> QED  BY <1>1, <1>2, <1>3

LEMMA HeadIsPrefix ==
  ASSUME Shape, up # <<>>, Len(up[1].body) > inspect.max
  PROVE  IsPrefix(Opening, up[1].body)
<1>1. inspect.max \in Nat /\ IsList(up[1].body)
  BY UpFacts, RouteFacts
<1> DEFINE s == up[1].body
           m == inspect.max
<1> HIDE DEF s, m
<1>2. s \in Seq(ToSet(s)) /\ m \in Nat /\ Len(s) > m /\ Opening = SubSeq(s, 1, m)
  BY <1>1 DEF s, m, IsList, Opening
<1>3. Len(Opening) = m /\ Opening \in Seq(ToSet(s)) /\ \A i \in 1..m : Opening[i] = s[i]
  BY <1>2
<1>4. SubSeq(Opening, 1, Len(Opening)) = SubSeq(s, 1, Len(Opening))
  BY <1>2, <1>3
<1> QED  BY <1>2, <1>3, <1>4 DEF IsPrefix, s

LEMMA DoneStays ==
  ASSUME stage = "done", [Next]_vars
  PROVE  UNCHANGED vars
<1>1. ~Arrive /\ ~RequestFilter /\ ~RequestChainDone /\ ~BufferRequest
  BY DEF Arrive, RequestFilter, RequestChainDone, BufferRequest
<1>2. ~Refuse /\ ~ChainPanics /\ ~NoUpstream /\ ~UpstreamFails /\ ~WouldBlock
  BY DEF Refuse, ChainPanics, NoUpstream, UpstreamFails, WouldBlock
<1>3. ~RequestBodyFilter /\ ~RequestBodyDone /\ ~Send /\ ~UpstreamAnswers
  BY DEF RequestBodyFilter, RequestBodyDone, Send, UpstreamAnswers
<1>4. ~ResponseFilter /\ ~ResponseChainDone /\ ~BufferResponse /\ ~ResponseBodyFilter /\ ~ResponseBodyDone
  BY DEF ResponseFilter, ResponseChainDone, BufferResponse, ResponseBodyFilter, ResponseBodyDone
<1> QED  BY <1>1, <1>2, <1>3, <1>4 DEF Next, Over

LEMMA PassedComplete ==
  ASSUME Shape, InspectInv, LetPast, up # <<>>, up[1].status # 101, UNCHANGED <<scn, up, ran>>,
         out'[1].body \in Codings(up[1].body)
  PROVE  InspectionComplete'
<1>0. scn \in Scenarios /\ IsList(up[1].headers)
  BY UpFacts
<1>1. N' = N /\ inspect' = inspect /\ AllReaders' = AllReaders /\ Asked' = Asked
  BY SamePlaces
<1>2. CASE ~reads("response") \/ Inspectability = "out-of-scope"
  <2>1. ~Asked
    BY <1>0, <1>2, AskedIsInScope, NoReaders DEF Asked
  <2> QED  BY <1>1, <2>1, CompleteIf
<1>3. CASE skip' = Inspectability /\ inspect.uninspectable = "passthrough"
  <2>1. skip' \notin {"none", "over-cap"} /\ inspect'.uninspectable = "passthrough"
    BY <1>1, <1>3, InspectableIs
  <2> QED  BY <2>1, CompleteIf
<1>4. CASE skip' = "over-cap" /\ inspect.over_cap = "passthrough" /\ Len(up[1].body) > inspect.max
  <2>1. SeenHead'
    BY <1>1, <1>4 DEF SeenHead
  <2> HIDE DEF SeenHead
  <2> QED  BY <1>4, <2>1, CompleteIf
<1> QED  BY <1>2, <1>3, <1>4 DEF LetPast

LEMMA InspectedComplete ==
  ASSUME Shape, InspectInv, stage = "response_body", k = 0, up # <<>>, UNCHANGED <<scn, up, ran, held, skip>>,
         \/ skip # "over-cap" /\ out'[1].body \in Codings(held.bytes)
         \/ /\ skip = "over-cap" /\ ~held.transformed
            /\ out'[1].body \in Codings(held.bytes \o held.rest)
  PROVE  InspectionComplete'
<1>0. scn \in Scenarios /\ N \in Nat
  BY UpFacts, RouteFacts
<1>1. /\ N' = N /\ inspect' = inspect /\ AllReaders' = AllReaders /\ Asked' = Asked
      /\ Shown' = Shown /\ Read' = Read
  BY SamePlaces
<1>2. /\ Read = AllReaders /\ Inspectability = "inspect"
      /\ (skip = "none" /\ WholeShown) \/ (skip = "over-cap" /\ HeadShown)
  <2>1. N - k = N
    BY <1>0
  <2> QED  BY <2>1 DEF InspectInv, AllReaders
<1>3. CASE skip = "none" /\ WholeShown /\ out'[1].body \in Codings(held.bytes)
  <2>1. Asked => Shown[1][3] = up[1].body
    BY <1>2, <1>3, NothingRead DEF Asked, WholeShown
  <2>2. Asked => SeenWhole'
    BY <1>1, <1>2, <1>3, <2>1, InspectableIs DEF SeenWhole
  <2> HIDE DEF SeenWhole
  <2> QED  BY <1>1, <1>3, <2>2, CompleteIf
<1>4. CASE skip = "over-cap" /\ HeadShown /\ ~held.transformed /\ out'[1].body \in Codings(held.bytes \o held.rest)
  <2>1. /\ inspect.over_cap = "process-partial" /\ Len(up[1].body) > inspect.max
        /\ held.bytes = Opening /\ held.rest = Unread /\ \A i \in DOMAIN Shown : Shown[i][3] = Opening
    BY <1>4 DEF HeadShown
  <2>2. Opening \o Unread = up[1].body /\ IsPrefix(Opening, up[1].body)
    BY <2>1, HeadAndRest, HeadIsPrefix
  <2>3. SeenHead'
    BY <1>1, <1>2, <1>4, <2>1, <2>2 DEF SeenHead
  <2> HIDE DEF SeenHead
  <2> QED  BY <1>4, <2>3, CompleteIf
<1> QED  BY <1>2, <1>3, <1>4

LEMMA CompleteStep ==
  ASSUME Shape, IngressInv, InspectInv, InspectionComplete, [Next]_vars
  PROVE  InspectionComplete'
<1>0. scn \in Scenarios /\ DataShape
  BY DEF Shape, LineShape
<1>1. CASE stage' # "done"
  BY <1>1 DEF InspectionComplete
<1>2. CASE stage = "done"
  <2>1. UNCHANGED <<scn, stage, up, held, skip, ran, out>>
    BY <1>2, DoneStays DEF vars
  <2>2. N' = N /\ inspect' = inspect /\ Filters' = Filters
    BY <2>1, RouteStays
  <2> QED  BY <2>1, <2>2 DEF InspectionComplete, HooksRun
<1>3. CASE stage # "done" /\ stage' = "done"
  <2>1. PICK r : Ended(r) /\ EndsWith(r)
    BY <1>3, Endings
  <2>2. out'[1].kind = r.kind /\ IsAnswer(r) /\ out'[1].body \in Codings(r.body)
    BY <1>0, <2>1, EndedIs, ExitBody
  <2>3. CASE r.kind # "forwarded"
    BY <2>2, <2>3, CompleteIf
  <2>4. stage \in After => up # <<>> /\ IsList(up[1].headers) /\ IsList(up[1].body)
    BY UpFacts DEF Shape, StageShape, After
  <2>5. IsList(resp.headers) /\ IsList(held.bytes) /\ IsList(held.rest)
    BY <1>0 DEF DataShape
  <2>6. CASE \E status, fault : r = synth(status, fault)
    BY <2>3, <2>6, SynthIs
  <2>7. CASE \E s \in Said(scn.says) : \E d : Decides(d, s) /\ r = http_response(d)
    BY <2>3, <2>7, HttpResponseIs DEF Decides, Spoken
  <2>8. CASE r = Demoted \/ r = Switched(resp.headers)
    BY <2>3, <2>5, <2>8, DemotedIs, SwitchedIs
  <2>9. CASE Calm /\ stage = "response" /\ up[1].status # 101 /\ N = 0 /\ r = stream_response_direct
    <3>1. Asked' = Asked /\ ~Asked
      BY <1>0, <2>9, SamePlaces, NoReaders DEF Asked, Calm
    <3> QED  BY <3>1, CompleteIf
  <2>10. CASE /\ LetPast /\ up[1].status # 101 /\ UNCHANGED <<scn, line, sent, up, resp, held, ran>>
              /\ r = stream_response(resp, up[1].body)
    <3>1. up # <<>> /\ IsList(up[1].body)
      BY <2>4, <2>10 DEF LetPast, After
    <3>2. r.body = up[1].body
      BY <2>5, <2>10, <3>1, StreamResponseIs
    <3> QED  BY <2>2, <2>10, <3>1, <3>2, PassedComplete
  <2>11. ASSUME Calm, stage = "response_body", k = 0, skip' = skip,
                \/ skip # "over-cap" /\ r = Whole
                \/ /\ skip = "over-cap" /\ ~held.transformed
                   /\ r = stream_response(resp, held.bytes \o held.rest)
         PROVE  InspectionComplete'
    <3>1. IsList(held.bytes \o held.rest) /\ up # <<>>
      BY <2>4, <2>5, <2>11, ConcatList DEF After
    <3>2. r.body = IF skip = "over-cap" THEN held.bytes \o held.rest ELSE held.bytes
      BY <2>5, <2>11, <3>1, StreamResponseIs, WholeIs
    <3>3. UNCHANGED <<scn, up, ran, held, skip>>
      BY <2>11 DEF Calm
    <3> QED  BY <2>2, <2>11, <3>1, <3>2, <3>3, InspectedComplete
  <2> QED  BY <2>1, <2>6, <2>7, <2>8, <2>9, <2>10, <2>11 DEF EndsWith
<1> QED  BY <1>1, <1>2, <1>3

-----------------------------------------------------------------------------
(* What holds of every exchange.                                           *)
ChainInv == Shape /\ IngressInv /\ OrderInv /\ InspectInv /\ InspectionComplete

LEMMA InitChain == ASSUME Init PROVE ChainInv
<1>1. IngressInv
  BY DEF Init, IngressInv
<1>2. InspectionComplete
  BY DEF Init, InspectionComplete
<1> QED  BY <1>1, <1>2, InitShape, InitOrder, InitInspect DEF ChainInv

(* Every filter runs in its turn and sees the bytes that go on, for every  *)
(* request, route, response and every word of the guests.                  *)
THEOREM ChainIsSound == Spec => []ChainSound
<1>1. Init => ChainInv
  BY InitChain
<1>2. ChainInv /\ [Next]_vars => ChainInv'
  BY ShapeStep, IngressStep, OrderStep, InspectStep, CompleteStep DEF ChainInv
<1>3. ChainInv => ChainSound
  BY OrderGives DEF ChainInv, ChainSound
<1> QED  BY <1>1, <1>2, <1>3, PTL DEF Spec

-----------------------------------------------------------------------------
(* Lengths.                                                                *)
True(hs, bytes) == Values(hs, "content-length") \in {<<>>, <<Len(bytes)>>}

LEMMA NoLength ==
  ASSUME NEW hs, IsList(hs), "content-length" \notin Names(hs), NEW bytes
  PROVE  True(hs, bytes)
BY ValuesList DEF True

LEMMA DeclaredLength ==
  ASSUME scn \in Scenarios, NEW r, IsAnswer(r)
  PROVE  Values(Declared(r).headers, "content-length") \in {<<>>, Values(r.headers, "content-length")}
<1> DEFINE n == "content-length"
           w == Without(r.headers, route.declared.remove)
           acc == DeclaredHeaders(r.headers)
<1>1. Changed(w, route.declared.set, acc) /\ Declared(r).headers = acc
  BY DeclaredIs
<1>2. n \notin Names(route.declared.set)
  BY RouteFacts, HasName DEF IsRoute
<1> HIDE DEF n, acc
<1>3. Values(acc, n) = Values(w, n)
  BY <1>1, <1>2 DEF Changed
<1>4. Values(w, n) \in {<<>>, Values(r.headers, n)}
  BY ValuesWithout DEF IsAnswer
<1> QED  BY <1>1, <1>3, <1>4 DEF n

LEMMA VaryValues ==
  ASSUME NEW hs, IsList(hs), NEW n, n # "vary"
  PROVE  Values(add_vary_accept_encoding(hs), n) = Values(hs, n)
<1> DEFINE h == <<"vary", {"accept-encoding"}>>
<1>1. add_vary_accept_encoding(hs) \in {hs, Append(hs, h)} /\ h[1] # n
  BY DEF add_vary_accept_encoding
<1> HIDE DEF h
<1>2. Values(Append(hs, h), n) = Values(hs, n)
  BY <1>1, ValuesOfAppend
<1> DEFINE new == add_vary_accept_encoding(hs)
<1> HIDE DEF new
<1>3. new = hs \/ new = Append(hs, h)
  BY <1>1 DEF new
<1> QED  BY <1>2, <1>3 DEF new

LEMMA WeakenedIs ==
  ASSUME NEW hs, IsList(hs)
  PROVE  /\ IsList(Weakened(hs)) /\ Names(Weakened(hs)) = Names(hs)
         /\ \A n : n # "etag" => Values(Weakened(hs), n) = Values(hs, n)
<1> DEFINE e == "etag"
           t == WeakTag(hs)
<1>1. CASE Weakened(hs) = hs
  BY <1>1
<1>2. CASE Values(hs, e) # <<>> /\ Weakened(hs) = Insert(hs, e, t)
  <2> HIDE DEF e, t
  <2>1. IsList(Insert(hs, e, t)) /\ Names(Insert(hs, e, t)) = Names(hs) \cup {e}
    BY InsertList
  <2>2. e \in Names(hs)
    BY <1>2, ValuesList
  <2>3. \A n : n # e => Values(Insert(hs, e, t), n) = Values(hs, n)
    BY InsertValues
  <2> QED  BY <1>2, <2>1, <2>2, <2>3 DEF e
<1> QED  BY <1>1, <1>2 DEF Weakened

LEMMA CodedLength ==
  ASSUME NEW r, IsAnswer(r), NEW c
  PROVE  Values(Coded(r, c).headers, "content-length") = <<>>
<1> DEFINE hs == CodedHeaders(r.headers, c)
<1>1. Coded(r, c).headers = Weakened(hs)
  BY CodedIs, MarkIs
<1>2. IsList(hs) /\ "content-length" \notin Names(hs)
  BY MarkList DEF IsAnswer
<1> HIDE DEF hs
<1> QED  BY <1>1, <1>2, WeakenedIs, ValuesList

LEMMA ExitLength ==
  ASSUME scn \in Scenarios, NEW r, Ended(r)
  PROVE  \/ Values(out'[1].headers, "content-length") = <<>>
         \/ /\ Values(out'[1].headers, "content-length") = Values(r.headers, "content-length")
            /\ out'[1].body = r.body
<1>1. IsAnswer(r) /\ (out'[1] = r \/ Exits(Declared(r), out'[1]))
  BY EndedIs
<1> DEFINE d == Declared(r)
           n == "content-length"
<1>2. IsAnswer(d) /\ d.body = r.body /\ Values(d.headers, n) \in {<<>>, Values(r.headers, n)}
  BY <1>1, DeclaredIs, DeclaredLength
<1> HIDE DEF d
<1>3. CASE out'[1] = r \/ out'[1] = d
  BY <1>2, <1>3
<1>4. CASE out'[1] = Varied(d)
  <2>1. out'[1].headers = add_vary_accept_encoding(d.headers) /\ out'[1].body = r.body
    BY <1>2, <1>4, VariedIs
  <2>2. Values(out'[1].headers, n) = Values(d.headers, n)
    BY <1>2, <2>1, VaryValues DEF IsAnswer
  <2> QED  BY <1>2, <2>1, <2>2
<1>5. ASSUME NEW c, out'[1] = Coded(Varied(d), c)
      PROVE  Values(out'[1].headers, n) = <<>>
  BY <1>2, <1>5, VariedIs, CodedLength
<1> QED  BY <1>1, <1>3, <1>4, <1>5 DEF Exits, d

-----------------------------------------------------------------------------
(* The lengths of both legs.                                               *)
SentTrue == \A i \in DOMAIN sent : True(sent[i].headers, sent[i].body)

(* The upstream's own word on a body that was not sent.                    *)
Borrowed(hs) ==
  /\ Unsent(up[1].status, scn.request.method)
  /\ ToSet(Values(hs, "content-length")) \subseteq ToSet(Values(up[1].headers, "content-length"))

OutTrue == (stage = "done" /\ out[1].kind # "switched") =>
             True(out[1].headers, out[1].body) \/ (out[1].kind = "forwarded" /\ Borrowed(out[1].headers))

FramingInv ==
  /\ body.kind = "oneshot" => body.bytes = scn.request.body
  /\ SentTrue /\ OutTrue

LEMMA RequestLength ==
  ASSUME Shape, IngressInv
  PROVE  True(line.headers, scn.request.body)
<1>1. LengthIsTrue(scn.request.headers, scn.request.body)
  BY RouteFacts DEF Shape, LineShape, IsRequest
<1>2. Values(line.headers, "content-length") = Values(scn.request.headers, "content-length")
  BY DEF IngressInv, ForwardedHeaders
<1> QED  BY <1>1, <1>2 DEF True, LengthIsTrue

LEMMA AttemptLength ==
  ASSUME Shape, IngressInv, FramingInv
  PROVE  True(AttemptHeaders, body.bytes)
<1>1. IsList(line.headers) /\ IsList(fwd)
  BY DEF Shape, LineShape, DataShape
<1>2. IsList(Traced)
  BY <1>1, BaseIs, HostedIs, TracedIs
<1>3. Values(AttemptHeaders, "content-length") = Values(Traced, "content-length")
  BY <1>2, AttemptHeadersAre DEF Issued
<1>4. Values(Traced, "content-length") = IF SentLength = <<>> THEN <<>> ELSE <<SentLength[1]>>
  BY <1>1, BaseIs, HostedIs, TracedIs
<1>5. SentLength \in {<<>>, <<Len(body.bytes)>>}
  <2>1. CASE body.kind = "replayable"
    BY <2>1 DEF SentLength
  <2>2. CASE body.kind = "oneshot"
    <3>1. SentLength = Values(line.headers, "content-length") /\ body.bytes = scn.request.body
      BY <2>2 DEF SentLength, FramingInv
    <3> QED  BY <3>1, RequestLength DEF True
  <2>3. CASE body.kind = "bodyless"
    BY <2>3 DEF SentLength
  <2> QED  BY <2>1, <2>2, <2>3 DEF Shape, DataShape
<1> DEFINE m == Len(body.bytes)
<1> HIDE DEF m
<1>6. (IF SentLength = <<>> THEN <<>> ELSE <<SentLength[1]>>) \in {<<>>, <<m>>}
  BY <1>5 DEF m
<1> QED  BY <1>3, <1>4, <1>6 DEF True, m

(* What the upstream says of a body it did send is true.                   *)
LEMMA UpLength ==
  ASSUME Shape, stage \in After
  PROVE  /\ IsList(up[1].headers) /\ IsList(up[1].body)
         /\ Unsent(up[1].status, scn.request.method) \/ True(up[1].headers, up[1].body)
<1>1. up # <<>>
  BY DEF Shape, StageShape
<1>2. IsResponse(up[1], scn.request) /\ IsList(up[1].headers) /\ IsList(up[1].body)
  BY <1>1, UpFacts
<1> QED  BY <1>2 DEF IsResponse, LengthIsTrue, True

LEMMA StreamLength ==
  ASSUME Shape, stage \in After, NEW r, IsList(r.headers)
  PROVE  LET hs == stream_response(r, up[1].body).headers IN True(hs, up[1].body) \/ Borrowed(hs)
<1> DEFINE v == Values(up[1].headers, "content-length")
           m == Len(up[1].body)
           w == Values(stream_response(r, up[1].body).headers, "content-length")
<1>1. IsList(v) /\ IsList(up[1].body) /\ (Unsent(up[1].status, scn.request.method) \/ v \in {<<>>, <<m>>})
  BY UpLength, ValuesList DEF True
<1>2. w = IF v = <<>> THEN <<>> ELSE <<v[1]>>
  BY <1>1, StreamResponseIs
<1> HIDE DEF v, m, w
<1>3. CASE v \in {<<>>, <<m>>}
  <2>1. w \in {<<>>, <<m>>}
    BY <1>2, <1>3
  <2> QED  BY <2>1 DEF True, w, m
<1>4. CASE Unsent(up[1].status, scn.request.method)
  <2>1. CASE v = <<>>
    BY <1>2, <2>1 DEF True, w
  <2>2. CASE v # <<>>
    <3>1. Len(v) \in Nat /\ Len(v) # 0
      BY <1>1, <2>2, ListShape
    <3>2. 1 \in 1..Len(v)
      BY <3>1
    <3>3. v[1] \in ToSet(v)
      BY <1>1, <3>2, ListShape
    <3>4. ToSet(w) = {v[1]}
      BY <1>2, <2>2, PairList
    <3> QED  BY <1>4, <3>3, <3>4 DEF Borrowed, v, w
  <2> QED  BY <2>1, <2>2
<1> QED  BY <1>1, <1>3, <1>4

LEMMA DirectLength ==
  ASSUME Shape, stage \in After
  PROVE  LET hs == stream_response_direct.headers IN True(hs, up[1].body) \/ Borrowed(hs)
<1> DEFINE v == Values(up[1].headers, "content-length")
           w == Values(stream_response_direct.headers, "content-length")
<1>1. IsList(up[1].headers) /\ IsList(up[1].body)
      /\ (Unsent(up[1].status, scn.request.method) \/ v \in {<<>>, <<Len(up[1].body)>>})
  BY UpLength DEF True
<1>2. w \in {<<>>, v}
  BY <1>1, DirectResponseIs, ValuesWithout DEF Strip
<1> HIDE DEF v, w
<1>3. CASE w = <<>> \/ v \in {<<>>, <<Len(up[1].body)>>}
  BY <1>2, <1>3 DEF True, w
<1>4. CASE Unsent(up[1].status, scn.request.method) /\ w = v
  BY <1>4 DEF Borrowed, v, w
<1> QED  BY <1>1, <1>2, <1>3, <1>4

LEMMA EndedLength ==
  ASSUME Shape, InspectInv, [Next]_vars, stage # "done", stage' = "done", out'[1].kind # "switched"
  PROVE  \/ True(out'[1].headers, out'[1].body)
         \/ up' = up /\ out'[1].kind = "forwarded" /\ Borrowed(out'[1].headers)
<1>0. scn \in Scenarios /\ DataShape
  BY DEF Shape, LineShape
<1>1. PICK r : Ended(r) /\ EndsWith(r)
  BY Endings
<1>2. out'[1].kind = r.kind /\ IsAnswer(r)
  BY <1>0, <1>1, EndedIs
<1>3. SUFFICES True(r.headers, r.body) \/ (up' = up /\ r.kind = "forwarded" /\ Borrowed(r.headers))
  <2>1. CASE Values(out'[1].headers, "content-length") = <<>>
    BY <2>1 DEF True
  <2>2. CASE /\ Values(out'[1].headers, "content-length") = Values(r.headers, "content-length")
             /\ out'[1].body = r.body
    BY <1>2, <1>3, <2>2 DEF True, Borrowed
  <2> QED  BY <1>0, <1>1, <2>1, <2>2, ExitLength
<1>4. IsList(resp.headers) /\ IsList(held.bytes) /\ IsList(held.rest) /\ IsList(r.headers)
  BY <1>0, <1>2 DEF DataShape, IsAnswer
<1>5. stage \in After => up # <<>> /\ IsList(up[1].headers) /\ IsList(up[1].body)
  BY UpFacts DEF Shape, StageShape
<1>6. CASE \E status, fault : r = synth(status, fault)
  <2>1. "content-length" \notin Names(r.headers)
    BY <1>6, SynthIs
  <2> QED  BY <1>4, <2>1, NoLength
<1>7. CASE \E s \in Said(scn.says) : \E d : Decides(d, s) /\ r = http_response(d)
  <2>1. "content-length" \notin Names(r.headers)
    BY <1>7, HttpResponseIs DEF Decides, Spoken
  <2> QED  BY <1>4, <2>1, NoLength
<1>8. CASE r = Demoted \/ r = Whole
  <2>1. "content-length" \notin Names(r.headers)
    BY <1>4, <1>8, DemotedIs, WholeIs
  <2> QED  BY <1>4, <2>1, NoLength
<1>9. CASE r = Switched(resp.headers)
  BY <1>2, <1>4, <1>9, SwitchedIs
<1>10. CASE Calm /\ stage = "response" /\ r = stream_response_direct
  <2>1. stage \in After /\ up' = up
    BY <1>10 DEF After, Calm
  <2> QED  BY <1>5, <1>10, <2>1, DirectLength, DirectResponseIs
<1>11. CASE LetPast /\ up' = up /\ r = stream_response(resp, up[1].body)
  <2>1. stage \in After
    BY <1>11 DEF After, LetPast
  <2> QED  BY <1>4, <1>5, <1>11, <2>1, StreamLength, StreamResponseIs
<1>12. CASE /\ Calm /\ stage = "response_body" /\ skip = "over-cap" /\ ~held.transformed
            /\ r = stream_response(resp, held.bytes \o held.rest)
  <2>1. stage \in After /\ up' = up
    BY <1>12 DEF After, Calm
  <2>2. held.bytes = Opening /\ held.rest = Unread /\ Len(up[1].body) > inspect.max
    BY <1>12 DEF InspectInv, HeadShown
  <2>3. held.bytes \o held.rest = up[1].body
    BY <1>5, <2>1, <2>2, HeadAndRest
  <2> QED  BY <1>4, <1>5, <1>12, <2>1, <2>3, StreamLength, StreamResponseIs
<1> QED  BY <1>1, <1>6, <1>7, <1>8, <1>9, <1>10, <1>11, <1>12, Zenon DEF EndsWith

LEMMA BodyStep ==
  ASSUME Shape, [Next]_vars, body.kind = "oneshot" => body.bytes = scn.request.body
  PROVE  body'.kind = "oneshot" => body'.bytes = scn'.request.body
<1>0. scn \in Scenarios /\ DataShape
  BY DEF Shape, LineShape
<1>1. CASE RequestChainDone
  <2>1. body'.bytes = line.body /\ scn' = scn
    BY <1>1, RequestChainDoneIs
  <2>2. line.body = scn.request.body
    BY DEF Shape, LineShape
  <2> QED  BY <2>1, <2>2
<1>2. CASE RequestBodyDone
  <2> DEFINE kd == "replayable"
             b == held.bytes
  <2>1. body' = [kind |-> kd, bytes |-> b]
    BY <1>2, RequestBodyDoneIs
  <2> HIDE DEF kd, b
  <2>2. body'.kind = kd
    BY <2>1
  <2> QED  BY <2>2 DEF kd
<1>3. CASE UNCHANGED <<scn, body>>
  BY <1>3
<1>4. CASE ~RequestChainDone /\ ~RequestBodyDone
  <2>1. CASE Refuse \/ ChainPanics \/ NoUpstream \/ UpstreamFails
    BY <1>3, <2>1, FailureIs DEF Calm
  <2>2. CASE Arrive \/ WouldBlock \/ RequestFilter \/ UNCHANGED vars \/ Over
    BY <1>0, <1>3, <2>2, ArriveIs, RequestFilterIs DEF WouldBlock, vars, Over
  <2>3. CASE BufferRequest \/ RequestBodyFilter \/ Send \/ UpstreamAnswers
    BY <1>0, <1>3, <2>3, BufferRequestIs, RequestBodyFilterIs, SendIs, UpstreamAnswersIs
  <2>4. CASE ResponseFilter \/ ResponseChainDone
    BY <1>0, <1>3, <2>4, ResponseFilterIs, ResponseChainDoneIs DEF Calm
  <2>5. CASE BufferResponse \/ ResponseBodyFilter \/ ResponseBodyDone
    BY <1>3, <2>5, BufferResponseIs, ResponseBodyFilterIs, ResponseBodyDoneIs DEF Calm
  <2> QED  BY <1>4, <2>1, <2>2, <2>3, <2>4, <2>5 DEF Next
<1> QED  BY <1>1, <1>2, <1>4

LEMMA SentStays ==
  ASSUME Shape, [Next]_vars, ~Send
  PROVE  sent' = sent
<1>0. scn \in Scenarios /\ DataShape
  BY DEF Shape, LineShape
<1>1. CASE Refuse \/ ChainPanics \/ NoUpstream \/ UpstreamFails
  BY <1>1, FailureIs DEF Calm
<1>2. CASE Arrive \/ WouldBlock \/ RequestFilter \/ UNCHANGED vars \/ Over
  BY <1>0, <1>2, ArriveIs, RequestFilterIs DEF WouldBlock, vars, Over
<1>3. CASE RequestChainDone \/ BufferRequest \/ RequestBodyFilter \/ RequestBodyDone \/ UpstreamAnswers
  BY <1>0, <1>3, RequestChainDoneIs, BufferRequestIs, RequestBodyFilterIs, RequestBodyDoneIs, UpstreamAnswersIs
<1>4. CASE ResponseFilter \/ ResponseChainDone
  BY <1>0, <1>4, ResponseFilterIs, ResponseChainDoneIs DEF Calm
<1>5. CASE BufferResponse \/ ResponseBodyFilter \/ ResponseBodyDone
  BY <1>5, BufferResponseIs, ResponseBodyFilterIs, ResponseBodyDoneIs DEF Calm
<1> QED  BY <1>1, <1>2, <1>3, <1>4, <1>5 DEF Next

LEMMA FramingStep ==
  ASSUME Shape, IngressInv, InspectInv, FramingInv, [Next]_vars
  PROVE  FramingInv'
<1>1. body'.kind = "oneshot" => body'.bytes = scn'.request.body
  BY BodyStep DEF FramingInv
<1>2. SentTrue'
  <2>1. CASE sent' = sent
    BY <2>1 DEF FramingInv, SentTrue
  <2>2. CASE Send /\ sent' # sent
    <3> DEFINE hs == AttemptHeaders
               b == body.bytes
    <3>1. sent' = <<[headers |-> hs, body |-> b]>>
      BY <2>2, SendIs
    <3>2. True(hs, b)
      BY AttemptLength
    <3> HIDE DEF hs, b
    <3>3. DOMAIN sent' = {1} /\ sent'[1].headers = hs /\ sent'[1].body = b
      BY <3>1
    <3> QED  BY <3>2, <3>3 DEF SentTrue
  <2> QED  BY <2>1, <2>2, SentStays
<1>3. OutTrue'
  <2>1. scn' = scn
    BY LineStays, ArriveIs DEF Shape, LineShape
  <2>4. CASE stage' # "done"
    BY <2>4 DEF OutTrue
  <2>5. CASE stage = "done"
    <3>1. UNCHANGED <<stage, out, up>>
      BY <2>5, DoneStays DEF vars
    <3> QED  BY <2>1, <3>1 DEF OutTrue, Borrowed, FramingInv
  <2>6. CASE stage # "done" /\ stage' = "done"
    <3>1. out'[1].kind # "switched" =>
            \/ True(out'[1].headers, out'[1].body)
            \/ up' = up /\ out'[1].kind = "forwarded" /\ Borrowed(out'[1].headers)
      BY <2>6, EndedLength
    <3> QED  BY <2>1, <3>1 DEF OutTrue, Borrowed
  <2> QED  BY <2>4, <2>5, <2>6
<1> QED  BY <1>1, <1>2, <1>3 DEF FramingInv

LEMMA InitFraming == ASSUME Init PROVE FramingInv
<1> DEFINE kd == "bodyless"
           e == <<>>
<1>1. body = [kind |-> kd, bytes |-> e] /\ sent = <<>> /\ stage = "arrived"
  BY DEF Init
<1> HIDE DEF kd, e
<1>2. body.kind = kd
  BY <1>1
<1>3. SentTrue
  BY <1>1 DEF SentTrue
<1> QED  BY <1>1, <1>2, <1>3 DEF FramingInv, OutTrue, kd

LEMMA FramingGives == ASSUME Shape, FramingInv PROVE FramingTrue
<1>1. out # <<>> => stage = "done"
  BY DEF Shape, OutShape
<1>2. line.method = scn.request.method
  BY DEF Shape, LineShape
<1> QED  BY <1>1, <1>2 DEF FramingInv, FramingTrue, SentTrue, OutTrue, True, Borrowed, LengthIsTrue

-----------------------------------------------------------------------------
(* Coding.                                                                 *)
LEMMA VariedVaries ==
  ASSUME NEW r, IsAnswer(r)
  PROVE  Varies(Varied(r))
<1> DEFINE hs == r.headers
           n == "vary"
           ae == "accept-encoding"
           T(new) == (UNION ToSet(Values(new, n))) \cap {"*", ae}
           h == <<n, {ae}>>
<1>1. IsList(hs) /\ Varied(r).headers = add_vary_accept_encoding(hs)
  BY VariedIs DEF IsAnswer
<1>2. add_vary_accept_encoding(hs) = IF T(hs) # {} THEN hs ELSE Append(hs, h)
  BY DEF add_vary_accept_encoding
<1>3. Varies(Varied(r)) <=> T(Varied(r).headers) # {}
  BY DEF Varies
<1>4. T(Append(hs, h)) # {}
  <2>1. h[1] = n /\ h[2] = {ae}
    OBVIOUS
  <2> HIDE DEF h, n
  <2>2. Values(Append(hs, h), n) = Append(Values(hs, n), {ae})
    BY <1>1, <2>1, ValuesOfAppend
  <2>3. {ae} \in ToSet(Append(Values(hs, n), {ae}))
    BY <1>1, ValuesList, AppendList
  <2> HIDE DEF ae
  <2> QED  BY <2>2, <2>3
<1> HIDE DEF T
<1> QED  BY <1>1, <1>2, <1>3, <1>4

(* What coding leaves of the fields it does not name.                      *)
LEMMA CodedValues ==
  ASSUME NEW r, IsAnswer(r), NEW c, NEW n,
         n \notin {"content-length", "accept-ranges", "content-encoding", "etag"}
  PROVE  Values(Coded(r, c).headers, n) = Values(r.headers, n)
<1> DEFINE hs == CodedHeaders(r.headers, c)
           S == {"content-length", "accept-ranges"}
           rest == Without(r.headers, S)
           ce == "content-encoding"
           v == {c}
<1>1. Coded(r, c).headers = Weakened(hs) /\ IsList(hs) /\ IsList(r.headers)
  BY CodedIs, MarkIs, MarkList DEF IsAnswer
<1>2. hs = Insert(rest, ce, v) /\ IsList(rest) /\ n # ce /\ n \notin S
  BY <1>1, WithoutNames DEF CodedHeaders
<1>3. Values(Weakened(hs), n) = Values(hs, n)
  BY <1>1, WeakenedIs
<1> HIDE DEF ce, v, S
<1>4. Values(rest, n) = Values(r.headers, n)
  BY <1>1, <1>2, ValuesWithout
<1> HIDE DEF rest
<1>5. Values(Insert(rest, ce, v), n) = Values(rest, n)
  BY <1>2, InsertValues
<1> HIDE DEF hs
<1> QED  BY <1>1, <1>2, <1>3, <1>4, <1>5

LEMMA CodedVaries ==
  ASSUME NEW r, IsAnswer(r), Varies(r), NEW c
  PROVE  Varies(Coded(r, c))
BY CodedValues DEF Varies

LEMMA CodedNames ==
  ASSUME NEW r, IsAnswer(r), NEW c
  PROVE  Values(Coded(r, c).headers, "content-encoding")[1] = {c}
<1> DEFINE hs == CodedHeaders(r.headers, c)
           rest == Without(r.headers, {"content-length", "accept-ranges"})
           n == "content-encoding"
           v == {c}
<1>1. Coded(r, c).headers = Weakened(hs) /\ IsList(hs) /\ IsList(r.headers)
  BY CodedIs, MarkIs, MarkList DEF IsAnswer
<1>2. hs = Insert(rest, n, v) /\ IsList(rest)
  BY <1>1, WithoutNames DEF CodedHeaders
<1>3. Values(Weakened(hs), n) = Values(hs, n)
  BY <1>1, WeakenedIs
<1> HIDE DEF rest, n, v
<1>4. Values(Insert(rest, n, v), n) = <<v>>
  BY <1>2, InsertValues
<1> HIDE DEF hs
<1> QED  BY <1>1, <1>2, <1>3, <1>4 DEF n, v

(* More than one validator, and the first is weak.                         *)
Hidden(hs) == Len(Values(hs, "etag")) > 1 /\ Values(hs, "etag")[1].weak

LEMMA NoneStrong ==
  ASSUME NEW s, IsList(s), \A e \in ToSet(s) : e.weak
  PROVE  Only(s, {e \in ToSet(s) : ~e.weak}) = <<>>
<1>1. ToSet(s) \cap {e \in ToSet(s) : ~e.weak} = {}
  OBVIOUS
<1> QED  BY <1>1, OnlyNone

LEMMA CodedIsWeak ==
  ASSUME NEW r, IsAnswer(r), NEW c
  PROVE  Strong(Coded(r, c)) = <<>> \/ Hidden(r.headers)
<1> DEFINE n == "etag"
           hs == CodedHeaders(r.headers, c)
           t == Values(r.headers, n)
           s == Values(Weakened(hs), n)
<1>1. Coded(r, c).headers = Weakened(hs) /\ IsList(hs) /\ IsList(r.headers)
  BY CodedIs, MarkIs, MarkList DEF IsAnswer
<1>2. Values(hs, n) = t
  <2> DEFINE S == {"content-length", "accept-ranges"}
             rest == Without(r.headers, S)
             ce == "content-encoding"
             v == {c}
  <2>1. hs = Insert(rest, ce, v) /\ IsList(rest) /\ n # ce /\ n \notin S
    BY <1>1, WithoutNames DEF CodedHeaders
  <2> HIDE DEF ce, v, S, n
  <2>2. Values(rest, n) = t
    BY <1>1, <2>1, ValuesWithout
  <2> HIDE DEF rest, hs, t
  <2> QED  BY <2>1, <2>2, InsertValues
<1>3. Strong(Coded(r, c)) = Only(s, {e \in ToSet(s) : ~e.weak}) /\ IsList(t) /\ IsList(s)
  BY <1>1, ValuesList, WeakenedIs DEF Strong
<1>4. CASE t = <<>>
  <2>1. s = t
    BY <1>2, <1>4 DEF Weakened
  <2>2. \A e \in ToSet(s) : e.weak
    BY <1>4, <2>1, EmptyList
  <2> HIDE DEF s
  <2> QED  BY <1>3, <2>2, NoneStrong
<1>5. CASE t # <<>> /\ t[1].weak
  <2>1. s = t
    BY <1>2, <1>5 DEF Weakened
  <2> HIDE DEF s, n
  <2>2. CASE Len(t) > 1
    BY <1>5, <2>2 DEF Hidden, n
  <2>3. CASE ~(Len(t) > 1)
    <3> HIDE DEF t
    <3>0. IsList(t) /\ t # <<>>
      BY <1>3, <1>5
    <3>4. Len(t) \in Nat /\ DOMAIN t = 1..Len(t) /\ Len(t) # 0
      BY <3>0, ListShape
    <3>1. Len(t) = 1 /\ DOMAIN t = 1..Len(t)
      BY <2>3, <3>4
    <3>2. \A e \in ToSet(t) : e = t[1]
      BY <3>1 DEF ToSet
    <3>3. \A e \in ToSet(s) : e.weak
      BY <1>5, <2>1, <3>2
    <3> QED  BY <1>3, <3>3, NoneStrong
  <2> QED  BY <2>2, <2>3
<1>6. CASE t # <<>> /\ ~t[1].weak
  <2> DEFINE w == WeakTag(hs)
  <2>1. w.weak
    BY DEF WeakTag
  <2>2. Weakened(hs) = Insert(hs, n, w)
    BY <1>2, <1>6 DEF Weakened
  <2> HIDE DEF w, n, hs, t
  <2>3. s = <<w>>
    BY <1>1, <2>2, InsertValues
  <2> HIDE DEF s
  <2>4. \A e \in ToSet(s) : e.weak
    BY <2>1, <2>3, PairList
  <2> QED  BY <1>3, <2>4, NoneStrong
<1> QED  BY <1>4, <1>5, <1>6

(* What a client gets of a response before coding.                         *)
Given(p, cfg, hs, a) ==
  \/ a = Varied(p)
  \/ negotiate(hs, cfg.algorithms) # "identity" /\ a = Coded(Varied(p), negotiate(hs, cfg.algorithms))

LEMMA GivenIs ==
  ASSUME NEW p, IsAnswer(p), NEW cfg, IsList(cfg.algorithms),
         NEW hs, Offers(hs), NEW a, Given(p, cfg, hs, a)
  PROVE  /\ Varies(a)
         /\ a.body = p.body \/ Strong(a) = <<>> \/ Hidden(p.headers)
         /\ a.body = p.body \/ \E c : Values(a.headers, "content-encoding")[1] = {c} /\ Wanted(hs, c)
<1> DEFINE v == Varied(p)
           c == negotiate(hs, cfg.algorithms)
<1>1. IsAnswer(v) /\ Varies(v) /\ v.body = p.body
  BY VariedIs, VariedVaries
<1>4. Values(v.headers, "etag") = Values(p.headers, "etag")
  BY VariedIs, VaryValues DEF IsAnswer
<1>2. CASE a = v
  BY <1>1, <1>2
<1>3. CASE c # "identity" /\ a = Coded(v, c)
  <2>1. Wanted(hs, c)
    BY <1>3, NegotiateIs
  <2> HIDE DEF v, c
  <2>2. Strong(a) = <<>> \/ Hidden(p.headers)
    BY <1>1, <1>3, <1>4, CodedIsWeak DEF Hidden
  <2> QED  BY <1>1, <1>3, <2>1, <2>2, CodedVaries, CodedNames
<1> QED  BY <1>2, <1>3 DEF Given

LEMMA AppliedIs ==
  ASSUME NEW p, NEW compression, NEW method, NEW hs, NEW codec
  PROVE  LET a == apply_compression(p, compression, method, hs, codec) IN
         IF compression # <<>> /\ method # "HEAD" /\ response_eligible(p, compression[1])
         THEN Given(p, compression[1], hs, a)
         ELSE a = p
BY CompressForms DEF apply_compression, Given

LEMMA WantedIs ==
  ASSUME NEW hs, IsHeaders(hs), NEW c, Wanted(hs, c)
  PROVE  \E i \in DOMAIN hs : \E j \in DOMAIN hs[i][2] :
           hs[i][2][j][1] \in {"*"} \cup coding_algo(c) /\ hs[i][2][j][2] > 0
<1> DEFINE n == "accept-encoding"
<1>1. IsList(hs)
  BY DEF IsHeaders
<1>2. PICK v \in ToSet(Values(hs, n)) : \E e \in ToSet(v) : e[1] \in {"*"} \cup coding_algo(c) /\ e[2] > 0
  BY DEF Wanted
<1>0. PICK e \in ToSet(v) : e[1] \in {"*"} \cup coding_algo(c) /\ e[2] > 0
  BY <1>2
<1> HIDE DEF n
<1>3. ToSet(Values(hs, n)) = {x[2] : x \in {y \in ToSet(hs) : y[1] = n}}
  BY <1>1, ValuesList
<1>4. PICK y \in ToSet(hs) : v = y[2]
  BY <1>3
<1>5. PICK i \in DOMAIN hs : y = hs[i]
  BY DEF ToSet
<1>6. PICK j \in DOMAIN v : e = v[j]
  BY DEF ToSet
<1> QED  BY <1>0, <1>4, <1>5, <1>6

LEMMA CacheHolds ==
  ASSUME scn \in Scenarios, IsAnswer(out[2])
  PROVE  CacheSafe
<1> DEFINE plain == out[2]
           cfg == route.compression[1]
           of(ae, codec) == apply_compression(plain, route.compression, line.method, ae, codec)
           coding == /\ route.compression # <<>> /\ line.method # "HEAD" /\ response_eligible(plain, cfg)
<1> SUFFICES ASSUME NEW one \in AcceptEncodings, NEW other \in AcceptEncodings,
                    NEW c1 \in BOOLEAN, NEW c2 \in BOOLEAN
             PROVE  LET a == of(one, c1)
                        b == of(other, c2)
                        coded == Values(a.headers, "content-encoding")
                    IN /\ a.body # b.body =>
                            /\ Varies(a) /\ Varies(b)
                            /\ Hidden(plain.headers) \/ Strong(a) = <<>> \/ Strong(a) # Strong(b)
                       /\ a.body # plain.body =>
                            \E i \in DOMAIN one : \E j \in DOMAIN one[i][2] :
                              one[i][2][j][1] \in {"*"} \cup UNION {coding_algo(c) : c \in coded[1]}
                                /\ one[i][2][j][2] > 0
  BY DEF CacheSafe, Hidden
<1> DEFINE a == of(one, c1)
           b == of(other, c2)
<1>1. IsHeaders(one) /\ IsHeaders(other) /\ Offers(one) /\ Offers(other)
  BY ScenarioAssumption, HeadersOffer
<1>2. IF coding THEN Given(plain, cfg, one, a) /\ Given(plain, cfg, other, b) ELSE a = plain /\ b = plain
  BY AppliedIs
<1>3. coding => IsList(cfg.algorithms)
  BY RouteFacts DEF IsRoute
<1> HIDE DEF a, b, of
<1>4. CASE ~coding
  BY <1>2, <1>4 DEF a, b
<1>5. CASE coding
  <2> HIDE DEF plain
  <2>1. IsAnswer(plain) /\ IsList(cfg.algorithms)
    BY <1>3, <1>5 DEF plain
  <2>2. Given(plain, cfg, one, a) /\ Given(plain, cfg, other, b)
    BY <1>2, <1>5
  <2> HIDE DEF cfg, coding
  <2>3. /\ Varies(a) /\ (a.body = plain.body \/ Strong(a) = <<>> \/ Hidden(plain.headers))
        /\ a.body = plain.body \/ \E c : Values(a.headers, "content-encoding")[1] = {c} /\ Wanted(one, c)
    BY <1>1, <2>1, <2>2, GivenIs
  <2>4. Varies(b) /\ (b.body = plain.body \/ Strong(b) = <<>> \/ Hidden(plain.headers))
    BY <1>1, <2>1, <2>2, GivenIs
  <2>5. a.body # b.body => (Hidden(plain.headers) \/ Strong(a) = <<>> \/ Strong(a) # Strong(b))
    BY <2>3, <2>4
  <2>6. ASSUME a.body # plain.body
        PROVE  \E i \in DOMAIN one : \E j \in DOMAIN one[i][2] :
                 one[i][2][j][1] \in {"*"} \cup UNION {coding_algo(c) : c \in Values(a.headers, "content-encoding")[1]}
                   /\ one[i][2][j][2] > 0
    <3>1. PICK c : Values(a.headers, "content-encoding")[1] = {c} /\ Wanted(one, c)
      BY <2>3, <2>6
    <3>2. UNION {coding_algo(d) : d \in {c}} = coding_algo(c)
      OBVIOUS
    <3> QED  BY <1>1, <3>1, <3>2, WantedIs
  <2> QED  BY <2>3, <2>4, <2>5, <2>6 DEF a, b
<1> QED  BY <1>4, <1>5

-----------------------------------------------------------------------------
(* How the headers of the two directions move.                             *)
Edited(hs, d) == apply_edit(hs, d)

ResponseArrives ==
  \E r \in scn.upstreams :
    /\ up' = <<r>> /\ scn' = scn /\ stage = "await" /\ stage' = "response"
    /\ resp' = [status |-> r.status, headers |-> Strip(r.headers)]
    /\ r.status = 101 => upstream_switched_to(r)

ResponseEdited ==
  /\ stage \in After /\ UNCHANGED <<scn, up>>
  /\ \E s \in Said(scn.says) : \E d :
       Decides(d, s) /\ d.kind = "modified" /\ resp'.headers = Edited(resp.headers, d)

LEMMA ResponseMoves ==
  ASSUME Shape, [Next]_vars
  PROVE  \/ ResponseArrives
         \/ ResponseEdited
         \/ UNCHANGED <<scn, up, resp>> /\ (stage' \in After => stage \in After)
         \/ stage' = "done" /\ out'[1].kind = "synthesised" /\ UNCHANGED <<scn, resp>> /\ stage \notin After
<1>0. scn \in Scenarios /\ DataShape
  BY DEF Shape, LineShape
<1>1. CASE UNCHANGED vars \/ Over
  BY <1>1 DEF vars, Over
<1>2. CASE Refuse \/ ChainPanics \/ NoUpstream \/ UpstreamFails
  BY <1>0, <1>2, FailureIs, OwnAnswers DEF Calm, Own, After
<1>3. CASE Arrive
  <2>1. UNCHANGED <<scn, up, resp>> /\ (stage' = "request" \/ Unrouted(synth(400, "bad-authority")))
    BY <1>0, <1>3, ArriveIs
  <2> QED  BY <2>1 DEF Unrouted, After
<1>4. CASE WouldBlock
  BY <1>4 DEF WouldBlock
<1>5. CASE RequestFilter
  BY <1>0, <1>5, RequestFilterIs, OwnAnswers DEF Own, After
<1>6. CASE RequestChainDone \/ RequestBodyDone
  BY <1>6, RequestChainDoneIs, RequestBodyDoneIs DEF After
<1>7. CASE BufferRequest
  BY <1>0, <1>7, BufferRequestIs, OwnAnswers DEF Own, After
<1>8. CASE RequestBodyFilter
  BY <1>0, <1>8, RequestBodyFilterIs, OwnAnswers DEF Own, After
<1>9. CASE Send
  BY <1>0, <1>9, SendIs, OwnAnswers DEF Own, After
<1>10. CASE UpstreamAnswers
  BY <1>0, <1>10, UpstreamAnswersIs, OwnAnswers DEF Own, After, ResponseArrives
<1>11. CASE ResponseFilter
  <2>1. /\ stage = "response" /\ UNCHANGED <<scn, up>>
        /\ \E s \in scn.says.on_response : \E d :
              /\ Decides(d, s)
              /\ \/ resp' = resp
                 \/ d.kind = "modified" /\ resp'.headers = Edited(resp.headers, d)
    BY <1>0, <1>11, ResponseFilterIs DEF Edited
  <2>2. \A s \in scn.says.on_response : s \in Said(scn.says)
    BY <1>0, SaidFacts
  <2> QED  BY <2>1, <2>2 DEF ResponseEdited, After
<1>12. CASE ResponseChainDone
  BY <1>12, ResponseChainDoneIs DEF Calm, After
<1>13. CASE BufferResponse
  BY <1>13, BufferResponseIs DEF After
<1>14. CASE ResponseBodyDone
  BY <1>14, ResponseBodyDoneIs DEF Calm, After
<1>15. CASE ResponseBodyFilter
  <2>1. stage = "response_body" /\ UNCHANGED <<scn, up>>
    BY <1>15, ResponseBodyFilterIs
  <2>2. \A s \in scn.says.on_response_body : s \in Said(scn.says)
    BY <1>0, SaidFacts
  <2>3. \/ resp' = resp
        \/ \E s \in scn.says.on_response_body : \E d :
             /\ Decides(d, s) /\ d.kind = "modified"
             /\ resp' = [status |-> resp.status, headers |-> apply_edit(resp.headers, d)]
    BY <1>15, ResponseBodyFilterIs
  <2>4. ASSUME NEW s \in scn.says.on_response_body, NEW d, Decides(d, s), d.kind = "modified",
               resp' = [status |-> resp.status, headers |-> Edited(resp.headers, d)]
        PROVE  ResponseEdited
    <3>1. resp'.headers = Edited(resp.headers, d)
      BY <2>4
    <3> QED  BY <2>1, <2>2, <2>4, <3>1 DEF ResponseEdited, After
  <2> QED  BY <2>1, <2>3, <2>4 DEF After, Edited
<1> QED  BY <1>1, <1>2, <1>3, <1>4, <1>5, <1>6, <1>7, <1>8, <1>9, <1>10, <1>11, <1>12, <1>13, <1>14, <1>15 DEF Next

-----------------------------------------------------------------------------
MessageInv == ChainInv /\ FramingInv

(* A message says of its own bytes what is true of them, for every         *)
(* request, route, response and every word of the guests.                  *)
THEOREM MessageIsSound == Spec => []MessageSound
<1>1. Init => MessageInv
  BY InitChain, InitFraming DEF MessageInv
<1>2. MessageInv /\ [Next]_vars => MessageInv'
  BY ShapeStep, IngressStep, OrderStep, InspectStep, CompleteStep, FramingStep
  DEF MessageInv, ChainInv
<1>3. MessageInv => MessageSound
  <2> SUFFICES ASSUME MessageInv
               PROVE  FramingTrue /\ CacheSafe
    BY DEF MessageSound
  <2>1. Shape /\ FramingInv
    BY DEF MessageInv, ChainInv
  <2>2. CASE ~(stage = "done" /\ out[1].kind = "forwarded")
    BY <2>1, <2>2, FramingGives DEF CacheSafe
  <2>3. CASE stage = "done" /\ out[1].kind = "forwarded"
    <3>1. scn \in Scenarios /\ IsAnswer(out[2])
      BY <2>1, <2>3 DEF Shape, LineShape, OutShape
    <3> QED  BY <2>1, <3>1, FramingGives, CacheHolds
  <2> QED  BY <2>2, <2>3
<1> QED  BY <1>1, <1>2, <1>3, PTL DEF Spec

-----------------------------------------------------------------------------
(* The requests' own headers on the way.                                   *)
RequestEdited ==
  /\ UNCHANGED <<scn, line, client, sent>> /\ stage \notin {"arrived", "done"} /\ stage' # "arrived"
  /\ \E s \in scn.says.on_request \cup scn.says.on_request_body : \E d :
       Decides(d, s) /\ d.kind = "modified" /\ fwd' = Edited(fwd, d)

Settled == stage \notin {"arrived", "done"} \/ sent # <<>>

LEMMA RequestMoves ==
  ASSUME Shape, [Next]_vars
  PROVE  \/ Arrive
         \/ RequestEdited
         \/ Send /\ UNCHANGED <<scn, line, client, fwd>>
         \/ UNCHANGED <<scn, line, client, fwd, sent>> /\ (stage = "arrived" <=> stage' = "arrived")
<1>0. scn \in Scenarios /\ DataShape
  BY DEF Shape, LineShape
<1>1. CASE UNCHANGED vars \/ Over
  BY <1>1 DEF vars, Over
<1>2. CASE Refuse \/ ChainPanics \/ NoUpstream \/ UpstreamFails
  BY <1>0, <1>2, FailureIs, OwnAnswers DEF Calm, Own
<1>3. CASE WouldBlock
  BY <1>3 DEF WouldBlock
<1>4. CASE RequestFilter
  <2>1. /\ stage = "request" /\ UNCHANGED <<scn, line, client, sent>> /\ stage' \in {"request", "done"}
        /\ \E s \in scn.says.on_request : \E d :
              /\ Decides(d, s)
              /\ fwd' = fwd \/ (fwd' = Edited(fwd, d) /\ d.kind = "modified")
    BY <1>0, <1>4, RequestFilterIs, OwnAnswers DEF Edited, Own
  <2> QED  BY <2>1 DEF RequestEdited
<1>5. CASE RequestChainDone \/ RequestBodyDone
  BY <1>5, RequestChainDoneIs, RequestBodyDoneIs
<1>6. CASE BufferRequest
  BY <1>0, <1>6, BufferRequestIs, OwnAnswers DEF Own
<1>7. CASE RequestBodyFilter
  <2>1. /\ stage = "request_body" /\ UNCHANGED <<scn, line, client, sent>> /\ stage' \in {"request_body", "done"}
        /\ \/ fwd' = fwd
           \/ \E s \in scn.says.on_request_body : \E d :
                Decides(d, s) /\ fwd' = Edited(fwd, d) /\ d.kind = "modified"
    BY <1>0, <1>7, RequestBodyFilterIs, OwnAnswers DEF Own, Edited
  <2> QED  BY <2>1 DEF RequestEdited
<1>8. CASE Send
  BY <1>8, SendIs
<1>9. CASE UpstreamAnswers
  BY <1>0, <1>9, UpstreamAnswersIs, OwnAnswers DEF Own
<1>10. CASE ResponseFilter
  BY <1>0, <1>10, ResponseFilterIs, OwnAnswers DEF Own
<1>11. CASE ResponseChainDone
  <2>1. stage = "response" /\ Calm /\ stage' \in {"done", "inspect"}
    BY <1>0, <1>11, ResponseChainDoneIs, EndedIs, OwnAnswers DEF Own
  <2> QED  BY <2>1 DEF Calm
<1>12. CASE BufferResponse
  <2>1. /\ stage = "inspect" /\ UNCHANGED <<scn, line, client, fwd, sent>>
        /\ stage' \in {"done", "response_body"}
    BY <1>0, <1>12, BufferResponseIs, EndedIs, OwnAnswers DEF Own
  <2> QED  BY <2>1
<1>13. CASE ResponseBodyFilter
  <2>1. /\ stage = "response_body" /\ UNCHANGED <<scn, line, client, fwd, sent>>
        /\ stage' \in {"done", "response_body"}
    BY <1>0, <1>13, ResponseBodyFilterIs, OwnAnswers DEF Own
  <2> QED  BY <2>1
<1>14. CASE ResponseBodyDone
  <2>1. stage = "response_body" /\ Calm /\ stage' = "done"
    BY <1>0, <1>14, ResponseBodyDoneIs, EndedIs, OwnAnswers DEF Own
  <2> QED  BY <2>1 DEF Calm
<1> QED  BY <1>1, <1>2, <1>3, <1>4, <1>5, <1>6, <1>7, <1>8, <1>9, <1>10, <1>11, <1>12, <1>13, <1>14 DEF Next

-----------------------------------------------------------------------------
(* One authority.                                                          *)
Denoted(q, x, scheme) ==
  \A i \in DOMAIN Authorities(q) : x # <<>> /\ authorities_match(Authorities(q)[i], x[1], scheme)

LEMMA MatchSame ==
  ASSUME NEW x, NEW scheme
  PROVE  authorities_match(x, x, scheme)
BY DEF authorities_match

LEMMA MatchSwaps ==
  ASSUME NEW x, NEW y, NEW scheme, authorities_match(x, y, scheme)
  PROVE  authorities_match(y, x, scheme)
<1>1. {x.port, y.port} = {y.port, x.port}
  OBVIOUS
<1> QED  BY <1>1 DEF authorities_match

LEMMA AtMostOne ==
  ASSUME NEW s, IsList(s), Len(s) <= 1
  PROVE  s = <<>> \/ s = <<s[1]>>
<1>1. Len(s) \in Nat /\ s \in Seq(ToSet(s))
  BY ListShape DEF IsList
<1>2. CASE Len(s) = 0
  BY <1>2, ListShape
<1>3. CASE Len(s) = 1
  BY <1>1, <1>3
<1> QED  BY <1>1, <1>2, <1>3

LEMMA ArrivedAuthority ==
  ASSUME Shape, Arrive, stage' # "done"
  PROVE  /\ Values(line'.headers, "host") = request_authority(line')
         /\ Denoted(scn'.request, request_authority(line'), SchemeOf(scn'.request))
<1>0. scn \in Scenarios
  BY DEF Shape, LineShape
<1> DEFINE r == ForwardedRequest
           q == scn.request
           A == Authorities(r)
           n == "host"
           hosts == Values(q.headers, n)
<1>1. /\ r.headers = set_forwarded(q.headers, q.peer, q.scheme, Trusted)
      /\ IsList(r.headers) /\ r.uri = q.uri /\ r.version = q.version
      /\ SchemeOf(r) = SchemeOf(q) /\ scn' = scn
      /\ ~BadAuthority(r) /\ LineShape'
      /\ line'.headers = IF A = <<>> THEN Without(r.headers, {n}) ELSE Insert(r.headers, n, A[1])
      /\ line'.uri = IF A # <<>> /\ HostFallback(r) THEN <<A[1]>> ELSE r.uri
  BY <1>0, ArriveIs DEF Unrouted, SchemeOf
<1>2. IsList(q.headers) /\ (q.uri = <<>> \/ q.uri = <<q.uri[1]>>)
  BY <1>0, RequestShape
<1>3. Values(r.headers, n) = hosts /\ IsList(hosts)
  <2>1. n \notin ForwardedHeaders
    BY DEF ForwardedHeaders
  <2> QED  BY <1>1, <1>2, <2>1, ForwardedIs, ValuesList
<1>4. A = q.uri \o hosts /\ Authorities(q) = q.uri \o hosts
  BY <1>1, <1>3 DEF Authorities
<1>6. /\ Len(hosts) <= 1
      /\ q.uri # <<>> /\ hosts # <<>> => authorities_match(q.uri[1], hosts[1], SchemeOf(q))
  <2>1. ~(Len(hosts) > 1)
    BY <1>1, <1>3 DEF BadAuthority
  <2>2. Len(hosts) \in Nat
    BY <1>3, ListShape
  <2>3. ~(q.uri # <<>> /\ hosts # <<>> /\ ~authorities_match(q.uri[1], hosts[1], SchemeOf(q)))
    BY <1>1, <1>3 DEF BadAuthority
  <2> QED  BY <2>1, <2>2, <2>3
<1>7. hosts = <<>> \/ hosts = <<hosts[1]>>
  BY <1>3, <1>6, AtMostOne
<1>8. Values(line'.headers, n) = IF A = <<>> THEN <<>> ELSE <<A[1]>>
  <2> HIDE DEF r, A, n
  <2>1. Values(Without(r.headers, {n}), n) = <<>>
    BY <1>1, ValuesWithout
  <2>2. Values(Insert(r.headers, n, A[1]), n) = <<A[1]>>
    BY <1>1, InsertValues
  <2> QED  BY <1>1, <2>1, <2>2
<1>9. Authorities(line') = line'.uri \o Values(line'.headers, n)
  BY DEF Authorities
<1> DEFINE u == q.uri[1]
           h == hosts[1]
           new == line'.uri
           named == Values(line'.headers, n)
           sch == SchemeOf(q)
<1>10. CASE q.uri = <<>> /\ hosts = <<>>
  <2>1. A = <<>> /\ Authorities(q) = <<>>
    BY <1>4, <1>10
  <2>2. new = <<>> /\ named = <<>>
    BY <1>1, <1>8, <1>10, <2>1
  <2>3. Authorities(line') = <<>>
    BY <1>9, <2>2
  <2>4. request_authority(line') = <<>>
    BY <2>3 DEF request_authority
  <2> QED  BY <1>1, <2>1, <2>2, <2>4 DEF Denoted
<1>11. ASSUME NEW x, A # <<>>, A[1] = x, new \in {<<>>, <<x>>},
              \A i \in DOMAIN A : authorities_match(A[i], x, sch)
       PROVE  /\ Values(line'.headers, n) = request_authority(line')
              /\ Denoted(scn'.request, request_authority(line'), SchemeOf(scn'.request))
  <2>1. named = <<x>>
    BY <1>8, <1>11
  <2> HIDE DEF named, new, A, q, r, sch, hosts
  <2>2. new \o named # <<>> /\ (new \o named)[1] = x
    BY <1>11, <2>1
  <2>3. request_authority(line') = <<x>>
    BY <1>9, <2>2 DEF request_authority, new, named
  <2>4. Authorities(scn'.request) = A
    BY <1>1, <1>4 DEF q
  <2>5. \A i \in DOMAIN A : <<x>> # <<>> /\ authorities_match(A[i], <<x>>[1], sch)
    BY <1>11
  <2> QED  BY <1>1, <2>1, <2>3, <2>4, <2>5 DEF Denoted, named, sch, q
<1>12. CASE q.uri = <<u>> /\ hosts = <<>>
  <2>1. A = <<u>>
    <3> HIDE DEF u, A, hosts, q
    <3>1. <<u>> \o <<>> = <<u>>
      OBVIOUS
    <3> QED  BY <1>4, <1>12, <3>1
  <2>2. new \in {<<>>, <<u>>}
    BY <1>1, <1>12, <2>1
  <2>3. \A i \in DOMAIN A : authorities_match(A[i], u, sch)
    BY <2>1, MatchSame
  <2> QED  BY <1>11, <2>1, <2>2, <2>3
<1>13. CASE q.uri = <<>> /\ hosts = <<h>>
  <2>1. A = <<h>>
    BY <1>4, <1>13
  <2>2. new \in {<<>>, <<h>>}
    BY <1>1, <1>13, <2>1
  <2>3. \A i \in DOMAIN A : authorities_match(A[i], h, sch)
    BY <2>1, MatchSame
  <2> QED  BY <1>11, <2>1, <2>2, <2>3
<1>14. CASE q.uri = <<u>> /\ hosts = <<h>>
  <2>1. A # <<>> /\ A[1] = u /\ \A i \in DOMAIN A : A[i] \in {u, h}
    <3> HIDE DEF u, h, A, hosts, q
    <3> DEFINE c == <<u>> \o <<h>>
    <3>1. c # <<>> /\ c[1] = u
      OBVIOUS
    <3>2. ToSet(c) = {u} \cup {h}
      BY PairList, ConcatList
    <3>3. \A i \in DOMAIN c : c[i] \in ToSet(c)
      BY DEF ToSet
    <3> QED  BY <1>4, <1>14, <3>1, <3>2, <3>3
  <2>2. new \in {<<>>, <<u>>}
    BY <1>1, <1>14, <2>1
  <2>3. authorities_match(u, h, sch)
    BY <1>6, <1>14
  <2>4. \A i \in DOMAIN A : authorities_match(A[i], u, sch)
    <3>1. authorities_match(u, u, sch) /\ authorities_match(h, u, sch)
      BY <2>3, MatchSame, MatchSwaps
    <3> HIDE DEF u, h, sch, A
    <3> QED  BY <2>1, <3>1
  <2> QED  BY <1>11, <2>1, <2>2, <2>4
<1> QED  BY <1>2, <1>7, <1>10, <1>12, <1>13, <1>14

NoHostEdits == ~\E s \in scn.says.on_request \cup scn.says.on_request_body : Has(s.set, "host")

Host == IF request_authority(line) = <<>> THEN <<NoAuthority>> ELSE request_authority(line)

AuthorityInv ==
  Settled =>
    /\ Values(line.headers, "host") = request_authority(line)
    /\ Denoted(scn.request, request_authority(line), SchemeOf(scn.request))
    /\ NoHostEdits => Values(fwd, "host") \in {<<>>, request_authority(line)}
    /\ (NoHostEdits /\ sent # <<>>) => Values(sent[1].headers, "host") = Host

LEMMA EditedValues ==
  ASSUME NEW hs, IsList(hs), NEW d, NEW s, Decides(d, s), NEW n, ~Has(s.set, n)
  PROVE  Values(Edited(hs, d), n) \in {<<>>, Values(hs, n)}
<1>1. IsList(d.set) /\ n \notin Names(d.set)
  BY HasName DEF Decides, Spoken
<1>2. Changed(Without(hs, d.remove), d.set, apply_edit(hs, d))
  BY <1>1, EditIs
<1>3. Values(Without(hs, d.remove), n) \in {<<>>, Values(hs, n)}
  BY ValuesWithout
<1> QED  BY <1>1, <1>2, <1>3 DEF Changed, Edited

LEMMA BaseLists ==
  ASSUME Shape
  PROVE  IsList(line.headers) /\ IsList(fwd) /\ IsList(Base) /\ IsList(Hosted) /\ IsList(Traced)
<1>1. IsList(line.headers) /\ IsList(fwd)
  BY DEF Shape, LineShape, DataShape
<1> QED  BY <1>1, BaseIs, HostedIs, TracedIs

LEMMA AuthorityShape == request_authority(line) = <<>> \/ request_authority(line) = <<request_authority(line)[1]>>
BY DEF request_authority

LEMMA SentHost ==
  ASSUME Shape, AuthorityInv, Settled, NoHostEdits
  PROVE  Values(AttemptHeaders, "host") = Host
<1> DEFINE n == "host"
           ra == request_authority(line)
           na == NoAuthority
<1>1. IsList(line.headers) /\ IsList(fwd) /\ IsList(Base) /\ IsList(Hosted) /\ IsList(Traced)
  BY BaseLists
<1>2. Values(line.headers, n) = ra /\ Values(fwd, n) \in {<<>>, ra}
  BY DEF AuthorityInv
<1>3. Values(AttemptHeaders, n) = Values(Hosted, n)
  <2>1. Values(AttemptHeaders, n) = Values(Traced, n)
    BY <1>1, AttemptHeadersAre DEF Issued
  <2>2. Values(Traced, n) = Values(Hosted, n)
    BY <1>1, TracedIs
  <2> QED  BY <2>1, <2>2
<1>4. Values(Hosted, n) = IF Has(Base, n) THEN Values(Base, n) ELSE <<(ra \o <<na>>)[1]>>
  BY <1>1, HostedIs
<1>5. CASE Has(Base, n)
  <2>1. Values(Base, n) # <<>>
    BY <1>1, <1>5, HasName, ValuesList
  <2>2. Values(Base, n) \in {<<>>, Values(line.headers, n), Values(fwd, n)}
    BY <1>1, BaseIs
  <2>3. Values(Base, n) = ra /\ ra # <<>>
    BY <1>2, <2>1, <2>2
  <2> QED  BY <1>3, <1>4, <1>5, <2>3 DEF Host
<1>6. CASE ~Has(Base, n)
  <2>1. Values(AttemptHeaders, n) = <<(ra \o <<na>>)[1]>>
    BY <1>3, <1>4, <1>6
  <2>2. ra = <<>> \/ ra = <<ra[1]>>
    BY AuthorityShape
  <2>3. Host = IF ra = <<>> THEN <<na>> ELSE ra
    BY DEF Host
  <2> HIDE DEF ra, na
  <2>4. CASE ra = <<>>
    BY <2>1, <2>3, <2>4
  <2>5. CASE ra = <<ra[1]>>
    <3> DEFINE x == ra[1]
    <3> HIDE DEF x
    <3>1. ra = <<x>>
      BY <2>5 DEF x
    <3>2. (<<x>> \o <<na>>)[1] = x /\ <<x>> # <<>>
      OBVIOUS
    <3> QED  BY <2>1, <2>3, <3>1, <3>2
  <2> QED  BY <2>2, <2>4, <2>5
<1> QED  BY <1>5, <1>6

LEMMA AuthorityStep ==
  ASSUME Shape, AuthorityInv, [Next]_vars
  PROVE  AuthorityInv'
<1>0. scn \in Scenarios /\ IsList(fwd)
  BY DEF Shape, LineShape, DataShape
<1>1. CASE Arrive
  <2>1. stage = "arrived" /\ UNCHANGED <<scn, sent>>
    BY <1>0, <1>1, ArriveIs
  <2>2. sent' = <<>>
    BY <2>1 DEF Shape, StageShape, Before
  <2>3. CASE stage' = "done"
    BY <2>2, <2>3 DEF AuthorityInv, Settled
  <2>4. CASE stage' # "done"
    <3>1. /\ Values(line'.headers, "host") = request_authority(line')
          /\ Denoted(scn'.request, request_authority(line'), SchemeOf(scn'.request))
      BY <1>1, <2>4, ArrivedAuthority
    <3>2. fwd' = Strip(line'.headers) /\ IsList(line'.headers)
      BY <1>0, <1>1, <2>4, ArriveIs DEF Unrouted, LineShape
    <3>3. Values(fwd', "host") \in {<<>>, Values(line'.headers, "host")}
      BY <3>2, ValuesWithout DEF Strip
    <3> QED  BY <2>2, <3>1, <3>3 DEF AuthorityInv
  <2> QED  BY <2>3, <2>4
<1>2. CASE RequestEdited
  <2>1. UNCHANGED <<scn, line, sent>> /\ Settled
    BY <1>2 DEF RequestEdited, Settled
  <2>2. NoHostEdits' = NoHostEdits /\ Host' = Host /\ request_authority(line') = request_authority(line)
    BY <2>1 DEF NoHostEdits, Host
  <2>3. ASSUME NoHostEdits
        PROVE  Values(fwd', "host") \in {<<>>, Values(fwd, "host")}
    BY <1>0, <1>2, <2>3, EditedValues DEF RequestEdited, NoHostEdits
  <2> QED  BY <2>1, <2>2, <2>3 DEF AuthorityInv
<1>3. CASE Send /\ UNCHANGED <<scn, line, fwd>>
  <2>1. Settled
    BY <1>3, SendIs DEF Settled
  <2>2. NoHostEdits' = NoHostEdits /\ Host' = Host /\ request_authority(line') = request_authority(line)
    BY <1>3 DEF NoHostEdits, Host
  <2>3. CASE sent' = sent
    BY <1>3, <2>1, <2>2, <2>3 DEF AuthorityInv
  <2>4. CASE sent' # sent
    <3> DEFINE hs == AttemptHeaders
               b == body.bytes
    <3>1. sent' = <<[headers |-> hs, body |-> b]>>
      BY <1>3, <2>4, SendIs
    <3>2. NoHostEdits => Values(hs, "host") = Host
      BY <2>1, SentHost
    <3> HIDE DEF hs, b
    <3>3. sent'[1].headers = hs
      BY <3>1
    <3> QED  BY <1>3, <2>1, <2>2, <3>2, <3>3 DEF AuthorityInv
  <2> QED  BY <2>3, <2>4
<1>4. CASE UNCHANGED <<scn, line, fwd, sent>> /\ (stage = "arrived" <=> stage' = "arrived")
  <2>1. Settled' => Settled
    BY <1>4, DoneStays DEF Settled, vars
  <2>2. NoHostEdits' = NoHostEdits /\ Host' = Host /\ request_authority(line') = request_authority(line)
    BY <1>4 DEF NoHostEdits, Host
  <2> QED  BY <1>4, <2>1, <2>2 DEF AuthorityInv
<1> QED  BY <1>1, <1>2, <1>3, <1>4, RequestMoves

LEMMA AuthorityGives == ASSUME Shape, AuthorityInv PROVE OneAuthority
<1> SUFFICES ASSUME sent # <<>>, NoHostEdits
             PROVE  /\ Values(sent[1].headers, "host") = Host
                    /\ Has(fwd, "host") => Values(fwd, "host") = request_authority(line)
                    /\ \A i \in DOMAIN Authorities(scn.request) :
                         authorities_match(Authorities(scn.request)[i], Values(sent[1].headers, "host")[1],
                                           SchemeOf(scn.request))
  BY DEF OneAuthority, NoHostEdits, Host
<1>1. Settled /\ IsList(fwd)
  BY DEF Settled, Shape, DataShape
<1>2. Values(sent[1].headers, "host") = Host
  BY <1>1 DEF AuthorityInv
<1>3. Has(fwd, "host") => Values(fwd, "host") # <<>>
  BY <1>1, HasName, ValuesList
<1>4. Has(fwd, "host") => Values(fwd, "host") = request_authority(line)
  BY <1>1, <1>3 DEF AuthorityInv
<1>5. \A i \in DOMAIN Authorities(scn.request) :
        /\ request_authority(line) # <<>>
        /\ authorities_match(Authorities(scn.request)[i], request_authority(line)[1], SchemeOf(scn.request))
  BY <1>1 DEF AuthorityInv, Denoted
<1> QED  BY <1>2, <1>4, <1>5 DEF Host

-----------------------------------------------------------------------------
(* The hop a request is attributed to.                                     *)
Foreign(path) == {i \in DOMAIN path : path[i] \notin Trusted}

LEMMA AddressLists ==
  ASSUME NEW hs, IsHeaders(hs), NEW n \in {"upgrade", "accept-encoding", "x-forwarded-for"}
  PROVE  IsList(Values(hs, n)) /\ Nested(Values(hs, n))
<1>1. IsList(hs)
  BY DEF IsHeaders
<1>2. \A i \in DOMAIN hs : hs[i][1] = n => IsList(hs[i][2])
  BY DEF IsHeaders
<1> DEFINE vs == Values(hs, n)
<1>3. ToSet(vs) = {x[2] : x \in {y \in ToSet(hs) : y[1] = n}} /\ IsList(vs)
  BY <1>1, ValuesList
<1>4. ASSUME NEW v \in ToSet(vs) PROVE IsList(v)
  <2>1. PICK x \in ToSet(hs) : x[1] = n /\ v = x[2]
    BY <1>3
  <2>2. PICK i \in DOMAIN hs : x = hs[i]
    BY DEF ToSet
  <2> QED  BY <1>2, <2>1, <2>2
<1>5. \A i \in DOMAIN vs : vs[i] \in ToSet(vs)
  BY DEF ToSet
<1> QED  BY <1>3, <1>4, <1>5 DEF Nested

Addresses(hs) == FlattenSeq(Values(hs, "x-forwarded-for"))

Stops(hs) == {i \in DOMAIN Addresses(hs) : Addresses(hs)[i] \notin Trusted}

LEMMA AddressesList ==
  ASSUME NEW hs, IsHeaders(hs)
  PROVE  IsList(Addresses(hs))
<1> DEFINE n == "x-forwarded-for"
<1>1. IsList(Values(hs, n)) /\ Nested(Values(hs, n))
  BY AddressLists
<1> QED  BY <1>1, FlattenList DEF Addresses

LEMMA MaxOfPlaces ==
  ASSUME NEW s, IsList(s), NEW t, t \subseteq DOMAIN s, t # {}
  PROVE  Max(t) \in t /\ Max(t) \in 1..Len(s) /\ \A y \in t : Max(t) >= y
<1>1. Len(s) \in Nat /\ DOMAIN s = 1..Len(s)
  BY ListShape
<1>2. t \in SUBSET (1..Len(s))
  BY <1>1
<1> QED  BY <1>1, <1>2, MaxIsIn

(* The scan from the right ends on the address the last proxy of the path  *)
(* had it from.                                                            *)
LEMMA ScanFinds ==
  ASSUME NEW hs, IsHeaders(hs), NEW path, IsPath(path, hs), Max(Foreign(path)) # Len(path)
  PROVE  LET m == Max(Foreign(path))
             p == Len(Addresses(hs)) - (Len(path) - m) + 1
         IN /\ path[Len(path)] \in Trusted /\ m \in 1..Len(path)
            /\ Stops(hs) # {} /\ Max(Stops(hs)) = p
            /\ Addresses(hs)[p] = path[m] /\ path[m] # "malformed" /\ Len(Addresses(hs)) \in Nat
<1> DEFINE list == Addresses(hs)
           last == Len(path)
           foreign == Foreign(path)
           m == Max(foreign)
           n == Len(list)
           p == n - (last - m) + 1
           stops == Stops(hs)
<1>1. IsList(list) /\ n \in Nat /\ DOMAIN list = 1..n
  BY AddressesList, ListShape
<1>2. IsList(path) /\ last \in Nat /\ last > 0 /\ DOMAIN path = 1..last /\ path[1] \notin Trusted
  BY ListShape DEF IsPath
<1>3. \A i \in 1..last : path[i] # "malformed"
  BY DEF IsPath
<1>4. ASSUME NEW j \in 1..(last - 1), \A i \in (j + 1)..last : path[i] \in Trusted
      PROVE  last - j <= n /\ list[n - (last - j) + 1] = path[j]
  BY <1>4 DEF IsPath, Addresses
<1>5. m \in foreign /\ m \in 1..last /\ \A y \in foreign : m >= y
  <2>1. foreign \subseteq DOMAIN path /\ 1 \in foreign
    BY <1>2 DEF Foreign
  <2> QED  BY <1>2, <2>1, MaxOfPlaces
<1> HIDE DEF m, list, last, n
<1>6. ASSUME NEW i \in (m + 1)..last PROVE path[i] \in Trusted
  <2>1. i \in 1..last /\ ~(m >= i)
    BY <1>2, <1>5, <1>6
  <2> QED  BY <1>2, <1>5, <2>1 DEF Foreign
<1>7. m < last
  BY <1>2, <1>5 DEF m, last, foreign
<1>8. m \in 1..(last - 1) /\ last \in (m + 1)..last
  BY <1>2, <1>5, <1>7
<1>9. last - m <= n /\ list[p] = path[m]
  BY <1>4, <1>6, <1>8
<1>10. p \in 1..n
  BY <1>1, <1>2, <1>5, <1>7, <1>9
<1>11. path[m] \notin Trusted /\ path[m] # "malformed"
  BY <1>3, <1>5 DEF Foreign
<1>12. p \in stops
  BY <1>1, <1>9, <1>10, <1>11 DEF Stops, list
<1>13. ASSUME NEW q \in stops PROVE q <= p
  <2>1. q \in 1..n /\ list[q] \notin Trusted
    BY <1>1, <1>13 DEF Stops, list
  <2> DEFINE j == q - n + last - 1
  <2>2. SUFFICES ASSUME q > p PROVE FALSE
    BY <1>1, <1>10, <2>1
  <2>3. j \in 1..(last - 1) /\ j > m /\ n - (last - j) + 1 = q
    BY <1>1, <1>2, <1>5, <1>7, <1>9, <2>1, <2>2
  <2> HIDE DEF j
  <2>4. \A i \in (j + 1)..last : path[i] \in Trusted
    <3>1. \A i \in (j + 1)..last : i \in (m + 1)..last
      BY <1>2, <1>5, <2>3
    <3> QED  BY <1>6, <3>1
  <2>5. list[q] = path[j]
    BY <1>4, <2>3, <2>4
  <2>6. j \in (m + 1)..last
    BY <1>2, <1>5, <2>3
  <2> QED  BY <1>6, <2>1, <2>5, <2>6
<1>14. Max(stops) = p
  <2>1. stops \subseteq DOMAIN list /\ stops # {}
    BY <1>12 DEF Stops, list
  <2>2. Max(stops) \in stops /\ Max(stops) \in 1..n /\ Max(stops) >= p
    BY <1>1, <1>12, <2>1, MaxOfPlaces DEF n
  <2>3. Max(stops) <= p
    BY <1>13, <2>2
  <2> QED  BY <1>1, <1>10, <2>2, <2>3
<1> QED  BY <1>1, <1>5, <1>6, <1>8, <1>9, <1>11, <1>12, <1>14 DEF m, list, last, n, p, stops, foreign

LEMMA HopIs ==
  ASSUME NEW hs, IsHeaders(hs), NEW path, IsPath(path, hs)
  PROVE  LET c == AttributedClient(hs, path[Len(path)], Trusted)
             m == Max(Foreign(path))
         IN /\ Foreign(path) # {} /\ c \in {path[Len(path)], path[m]}
            /\ Len(path) - m <= MaxForwarded => c = path[m]
<1> DEFINE c == AttributedClient(hs, path[Len(path)], Trusted)
           m == Max(Foreign(path))
           last == Len(path)
           list == Addresses(hs)
           stops == Stops(hs)
           top == Max(stops)
           peer == path[last]
           first == path[m]
<1>1. IsList(path) /\ last \in Nat /\ last > 0 /\ DOMAIN path = 1..last /\ path[1] \notin Trusted
  BY ListShape DEF IsPath
<1>2. MaxForwarded \in Nat
  BY ScenarioAssumption
<1>3. 1 \in Foreign(path) /\ m \in Foreign(path)
  <2>1. Foreign(path) \subseteq DOMAIN path /\ 1 \in Foreign(path)
    BY <1>1 DEF Foreign
  <2> QED  BY <1>1, <2>1, MaxOfPlaces
<1>4. CASE m = last
  <2>1. peer \notin Trusted
    BY <1>3, <1>4 DEF Foreign
  <2>2. c = peer
    BY <2>1 DEF AttributedClient
  <2> QED  BY <1>3, <1>4, <2>2
<1>5. CASE m # last
  <2>1. /\ peer \in Trusted /\ m \in 1..last /\ stops # {} /\ top = Len(list) - (last - m) + 1
        /\ list[top] = first /\ first # "malformed" /\ Len(list) \in Nat
    BY <1>5, ScanFinds
  <2>2. Len(list) - top = last - m - 1
    BY <1>1, <2>1
  <2>3. forwarded_client(hs, Trusted)
          = IF stops = {} \/ Len(list) - top >= MaxForwarded \/ list[top] = "malformed"
            THEN <<>> ELSE <<list[top]>>
    BY DEF forwarded_client, Stops, Addresses
  <2> HIDE DEF m, last, list, stops, top, first, peer
  <2>4. forwarded_client(hs, Trusted) = IF last - m <= MaxForwarded THEN <<first>> ELSE <<>>
    BY <1>1, <1>2, <2>1, <2>2, <2>3
  <2>5. c = IF last - m <= MaxForwarded THEN first ELSE peer
    <3>1. <<first>> # <<>> /\ <<first>>[1] = first
      OBVIOUS
    <3>2. c = IF peer \in Trusted /\ forwarded_client(hs, Trusted) # <<>>
              THEN forwarded_client(hs, Trusted)[1] ELSE peer
      BY DEF AttributedClient, peer, last
    <3> QED  BY <2>1, <2>4, <3>1, <3>2
  <2> QED  BY <1>3, <2>5 DEF m, last, first, peer
<1> QED  BY <1>4, <1>5

Unnamed == ~\E s \in Said(scn.says) : Has(s.set, "x-forwarded-for")

(* The filters and the upstream are told of the client and of no other.    *)
HopInv ==
  /\ stage = "arrived" => fwd = <<>>
  /\ stage # "arrived" => client = AttributedClient(scn.request.headers, scn.request.peer, Trusted)
  /\ Settled => Values(line.headers, "x-forwarded-for") = <<<<client>>>>
  /\ Unnamed =>
       /\ Values(fwd, "x-forwarded-for") \in {<<>>, <<<<client>>>>}
       /\ sent # <<>> => Values(sent[1].headers, "x-forwarded-for") \in {<<>>, <<<<client>>>>}

LEMMA NoValues ==
  ASSUME NEW n
  PROVE  Values(<<>>, n) = <<>>
<1>1. Names(<<>>) = {} /\ IsList(<<>>)
  BY EmptyList DEF Names
<1> QED  BY <1>1, ValuesList

LEMMA InitHop == ASSUME Init PROVE HopInv
<1>1. stage = "arrived" /\ fwd = <<>> /\ sent = <<>>
  BY DEF Init
<1>2. Values(fwd, "x-forwarded-for") = <<>>
  BY <1>1, NoValues
<1> QED  BY <1>1, <1>2 DEF HopInv, Settled

LEMMA ArrivedHop ==
  ASSUME Shape, Arrive, stage' # "done"
  PROVE  /\ Values(line'.headers, "x-forwarded-for") = <<<<client'>>>>
         /\ Values(fwd', "x-forwarded-for") \in {<<>>, <<<<client'>>>>}
<1>0. scn \in Scenarios
  BY DEF Shape, LineShape
<1> DEFINE r == ForwardedRequest
           q == scn.request
           n == "x-forwarded-for"
           A == Authorities(r)
           a == A[1]
<1>1. /\ r.headers = set_forwarded(q.headers, q.peer, q.scheme, Trusted) /\ IsList(r.headers)
      /\ client' = AttributedClient(q.headers, q.peer, Trusted) /\ IsList(line'.headers)
      /\ fwd' = Strip(line'.headers)
      /\ line'.headers = IF A = <<>> THEN Without(r.headers, {"host"}) ELSE Insert(r.headers, "host", A[1])
  BY <1>0, ArriveIs DEF Unrouted, LineShape
<1>2. IsList(q.headers)
  BY <1>0, RequestShape
<1>3. Values(r.headers, n) = <<<<client'>>>>
  BY <1>1, <1>2, ForwardedIs
<1>4. n # "host"
  OBVIOUS
<1> HIDE DEF n, r
<1>5. Values(line'.headers, n) = Values(r.headers, n)
  BY <1>1, <1>4, NormalizedIs
<1>6. Values(fwd', n) \in {<<>>, Values(line'.headers, n)}
  BY <1>1, ValuesWithout DEF Strip
<1> QED  BY <1>3, <1>5, <1>6 DEF n

LEMMA SentHop ==
  ASSUME Shape, HopInv, Settled, Unnamed
  PROVE  Values(AttemptHeaders, "x-forwarded-for") \in {<<>>, <<<<client>>>>}
<1> DEFINE n == "x-forwarded-for"
<1>1. IsList(line.headers) /\ IsList(fwd) /\ IsList(Base) /\ IsList(Hosted) /\ IsList(Traced)
  BY BaseLists
<1>2. Values(line.headers, n) = <<<<client>>>> /\ Values(fwd, n) \in {<<>>, <<<<client>>>>}
  BY DEF HopInv
<1>3. Values(AttemptHeaders, n) = Values(Base, n)
  <2>1. Values(AttemptHeaders, n) = Values(Traced, n)
    BY <1>1, AttemptHeadersAre DEF Issued
  <2>2. Values(Traced, n) = Values(Hosted, n)
    BY <1>1, TracedIs
  <2>3. Values(Hosted, n) = Values(Base, n)
    BY <1>1, HostedIs
  <2> QED  BY <2>1, <2>2, <2>3
<1>4. Values(Base, n) \in {<<>>, Values(line.headers, n), Values(fwd, n)}
  BY <1>1, BaseIs
<1> QED  BY <1>2, <1>3, <1>4

LEMMA HopStep ==
  ASSUME Shape, HopInv, [Next]_vars
  PROVE  HopInv'
<1>0. scn \in Scenarios /\ IsList(fwd)
  BY DEF Shape, LineShape, DataShape
<1> DEFINE n == "x-forwarded-for"
           now == <<<<client>>>>
           then == <<<<client'>>>>
           given == AttributedClient(scn.request.headers, scn.request.peer, Trusted)
<1>1. CASE Arrive
  <2>1. stage = "arrived" /\ UNCHANGED <<scn, sent>> /\ client' = given
    BY <1>0, <1>1, ArriveIs
  <2>2. sent' = <<>> /\ fwd = <<>>
    BY <2>1 DEF Shape, StageShape, Before, HopInv
  <2>3. given' = given
    BY <2>1
  <2>4. CASE stage' = "done"
    <3>1. fwd' = <<>>
      BY <1>0, <1>1, <2>2, <2>4, ArriveIs
    <3>2. Values(fwd', n) = <<>>
      BY <3>1, NoValues
    <3> QED  BY <2>1, <2>2, <2>3, <2>4, <3>2 DEF HopInv, Settled
  <2>5. CASE stage' # "done"
    <3>1. Values(line'.headers, n) = then /\ Values(fwd', n) \in {<<>>, then}
      BY <1>1, <2>5, ArrivedHop
    <3>2. stage' # "arrived"
      BY <1>0, <1>1, ArriveIs DEF Unrouted
    <3> QED  BY <2>1, <2>2, <2>3, <3>1, <3>2 DEF HopInv
  <2> QED  BY <2>4, <2>5
<1>2. CASE RequestEdited
  <2>1. UNCHANGED <<scn, line, client, sent>> /\ Settled /\ stage # "arrived" /\ stage' # "arrived"
    BY <1>2 DEF RequestEdited, Settled
  <2>2. Unnamed' = Unnamed
    BY <2>1 DEF Unnamed
  <2>3. ASSUME Unnamed
        PROVE  Values(fwd', n) \in {<<>>, Values(fwd, n)}
    <3>1. \A s \in scn.says.on_request \cup scn.says.on_request_body : ~Has(s.set, n)
      BY <2>3 DEF Unnamed, Said
    <3> QED  BY <1>0, <1>2, <3>1, EditedValues DEF RequestEdited
  <2> QED  BY <2>1, <2>2, <2>3 DEF HopInv
<1>3. CASE Send /\ UNCHANGED <<scn, line, client, fwd>>
  <2>1. Settled /\ stage # "arrived" /\ stage' # "arrived"
    BY <1>0, <1>3, SendIs, OwnAnswers DEF Settled, Own
  <2>2. Unnamed' = Unnamed
    BY <1>3 DEF Unnamed
  <2>3. CASE sent' = sent
    BY <1>3, <2>1, <2>2, <2>3 DEF HopInv
  <2>4. CASE sent' # sent
    <3> DEFINE hs == AttemptHeaders
               b == body.bytes
    <3>1. sent' = <<[headers |-> hs, body |-> b]>>
      BY <1>3, <2>4, SendIs
    <3>2. Unnamed => Values(hs, n) \in {<<>>, now}
      BY <2>1, SentHop
    <3> HIDE DEF hs, b
    <3>3. sent'[1].headers = hs
      BY <3>1
    <3> QED  BY <1>3, <2>1, <2>2, <3>2, <3>3 DEF HopInv
  <2> QED  BY <2>3, <2>4
<1>4. CASE UNCHANGED <<scn, line, client, fwd, sent>> /\ (stage = "arrived" <=> stage' = "arrived")
  <2>1. Settled' => Settled
    BY <1>4, DoneStays DEF Settled, vars
  <2>2. Unnamed' = Unnamed
    BY <1>4 DEF Unnamed
  <2> QED  BY <1>4, <2>1, <2>2 DEF HopInv
<1> QED  BY <1>1, <1>2, <1>3, <1>4, RequestMoves

LEMMA HopGives == ASSUME Shape, HopInv PROVE ClientIsTheHop
<1> DEFINE path == scn.request.path
           foreign == {i \in DOMAIN path : path[i] \notin Trusted}
           told == Values(IF sent = <<>> THEN fwd ELSE sent[1].headers, "x-forwarded-for")
<1> SUFFICES ASSUME stage # "arrived"
             PROVE  /\ client \in {path[Len(path)]} \cup (IF foreign = {} THEN {} ELSE {path[Max(foreign)]})
                    /\ foreign # {} /\ Len(path) - Max(foreign) <= MaxForwarded =>
                         client = path[Max(foreign)]
                    /\ Unnamed => told \in {<<>>, <<<<client>>>>}
  BY DEF ClientIsTheHop, Unnamed
<1>1. IsHeaders(scn.request.headers) /\ IsPath(path, scn.request.headers) /\ scn.request.peer = path[Len(path)]
  BY RouteFacts DEF Shape, LineShape, IsRequest
<1>2. foreign = Foreign(path)
  BY DEF Foreign
<1>3. client = AttributedClient(scn.request.headers, path[Len(path)], Trusted)
  BY <1>1 DEF HopInv
<1>4. Unnamed => told \in {<<>>, <<<<client>>>>}
  BY DEF HopInv
<1> HIDE DEF path, foreign, told
<1> QED  BY <1>1, <1>2, <1>3, <1>4, HopIs

-----------------------------------------------------------------------------
(* Hop-by-hop headers: what is issued anew, and what may not cross.        *)
Fresh == {"host", "content-length", "traceparent", "vary", "content-encoding", "x-plecto-fault"}
         \cup (UNION {Names(s.set) : s \in Said(scn.says)}) \cup Names(route.declared.set)

Bound(from) == connection_named(from) \ Fresh

Crossed(hs, from) == Names(hs) \cap (HopByHop \cup Bound(from))

AskedFor == IF Has(scn.request.headers, "upgrade")
            THEN ToSet(Values(scn.request.headers, "upgrade")[1]) \cap route.upgrade ELSE {}

IsGranted(hs) == Has(hs, "upgrade") =>
  ToSet(Values(hs, "upgrade")[1]) \subseteq AskedFor /\ Has(hs, "connection")

SentClean(hs) ==
  /\ Crossed(hs, scn.request.headers) \subseteq {"te", "upgrade", "connection"}
  /\ Has(hs, "te") => route.scheme = "https" /\ te_requests_trailers(scn.request.headers)
  /\ IsGranted(hs)

OutClean(o) ==
  /\ up # <<>> => Crossed(o.headers, up[1].headers) \subseteq
                    (IF o.kind = "switched" THEN {"upgrade", "connection"} ELSE {})
  /\ o.kind = "switched" => Has(o.headers, "upgrade") /\ IsGranted(o.headers)

ThereClean ==
  /\ stage = "arrived" => fwd = <<>>
  /\ Names(fwd) \cap Bound(scn.request.headers) = {}
  /\ sent # <<>> => SentClean(sent[1].headers)

BackClean ==
  /\ stage \in After =>
       /\ Names(resp.headers) \cap Bound(up[1].headers) = {}
       /\ up[1].status = 101 => upgrade_intent # <<>>
  /\ stage = "done" => OutClean(out[1])

LEMMA CleanGives == ASSUME Shape, ThereClean, BackClean PROVE HopByHopEnds
<1>1. \A i \in DOMAIN sent : SentClean(sent[i].headers)
  <2>1. sent = <<>> \/ DOMAIN sent = {1}
    BY DEF Shape, PeerShape
  <2>2. CASE sent = <<>>
    BY <2>2
  <2>3. CASE DOMAIN sent = {1}
    BY <2>3 DEF ThereClean
  <2> QED  BY <2>1, <2>2, <2>3
<1>2. out # <<>> => OutClean(out[1])
  BY DEF Shape, OutShape, BackClean
<1> QED  BY <1>1, <1>2, Zenon DEF HopByHopEnds, SentClean, OutClean, IsGranted, AskedFor, Crossed, Bound, Fresh

LEMMA ScenarioStays ==
  ASSUME Shape, [Next]_vars
  PROVE  scn' = scn
<1>1. scn \in Scenarios
  BY DEF Shape, LineShape
<1> QED  BY <1>1, LineStays, ArriveIs

LEMMA FreshStays ==
  ASSUME scn' = scn
  PROVE  Fresh' = Fresh /\ AskedFor' = AskedFor /\ route' = route
BY DEF Fresh, AskedFor, route

(* The request after ingress still says what it said of its connection.    *)
LEMMA SameConnection ==
  ASSUME Shape, IngressInv
  PROVE  /\ connection_named(line.headers) = connection_named(scn.request.headers)
         /\ te_requests_trailers(line.headers) <=> te_requests_trailers(scn.request.headers)
         /\ Values(line.headers, "upgrade") = Values(scn.request.headers, "upgrade")
         /\ Has(line.headers, "upgrade") <=> Has(scn.request.headers, "upgrade")
<1>1. \A n \in {"connection", "te", "upgrade"} : Values(line.headers, n) = Values(scn.request.headers, n)
  <2>1. \A n \in {"connection", "te", "upgrade"} : n \notin ForwardedHeaders \cup {"host"}
    BY DEF ForwardedHeaders
  <2> QED  BY <2>1 DEF IngressInv
<1>2. IsList(line.headers) /\ IsList(scn.request.headers)
  BY RequestShape DEF Shape, LineShape
<1>3. Has(line.headers, "upgrade") <=> Has(scn.request.headers, "upgrade")
  BY <1>1, <1>2, HasName, ValuesList
<1> QED  BY <1>1, <1>3 DEF connection_named, te_requests_trailers

LEMMA IntentIs ==
  ASSUME Shape, IngressInv, upgrade_intent # <<>>
  PROVE  ToSet(upgrade_intent) \subseteq AskedFor
<1> DEFINE u == "upgrade"
           offered == Values(line.headers, u)[1]
           allowed == Only(offered, route.upgrade)
           token == allowed[1]
<1>1. /\ upgrade_request_header(line.headers)
      /\ allowed # <<>> /\ upgrade_intent = <<token>>
  <2>1. CASE upgrade_request_header(line.headers)
    BY <2>1 DEF upgrade_intent
  <2>2. CASE ~upgrade_request_header(line.headers)
    <3>1. Only(<<>>, route.upgrade) = <<>>
      BY OnlyEmpty
    <3> QED  BY <2>2, <3>1 DEF upgrade_intent
  <2> QED  BY <2>1, <2>2
<1>2. Has(scn.request.headers, u) /\ offered = Values(scn.request.headers, u)[1]
  BY <1>1, SameConnection DEF upgrade_request_header
<1>3. IsList(offered)
  <2>1. IsHeaders(scn.request.headers)
    BY RouteFacts DEF Shape, LineShape, IsRequest
  <2>2. IsList(Values(scn.request.headers, u)) /\ Nested(Values(scn.request.headers, u))
    BY <2>1, AddressLists
  <2>3. Values(scn.request.headers, u) # <<>>
    BY <1>2, <2>1, HasName, ValuesList DEF IsHeaders
  <2>4. 1 \in DOMAIN Values(scn.request.headers, u)
    <3>1. Len(Values(scn.request.headers, u)) \in Nat \ {0}
      BY <2>2, <2>3, ListShape
    <3> QED  BY <2>2, <3>1, ListShape
  <2> QED  BY <1>2, <2>2, <2>4 DEF Nested
<1>4. IsList(allowed) /\ ToSet(allowed) = ToSet(offered) \cap route.upgrade
  BY <1>3, OnlyList
<1>5. token \in ToSet(allowed)
  <2>1. Len(allowed) \in Nat \ {0}
    BY <1>1, <1>4, ListShape
  <2> QED  BY <1>4, <2>1, ListShape
<1>6. ToSet(<<token>>) = {token}
  BY PairList
<1> QED  BY <1>1, <1>2, <1>4, <1>5, <1>6 DEF AskedFor

LEMMA SentIsClean ==
  ASSUME Shape, IngressInv, Names(fwd) \cap Bound(scn.request.headers) = {}
  PROVE  SentClean(AttemptHeaders)
<1> DEFINE own == {"host", "content-length", "traceparent"}
           cn == connection_named(scn.request.headers)
           hs == AttemptHeaders
<1>1. IsList(line.headers) /\ IsList(fwd) /\ IsList(Base) /\ IsList(Hosted) /\ IsList(Traced)
  BY BaseLists
<1>2. Names(Traced) \subseteq Names(Base) \cup own
  BY <1>1, HostedIs, TracedIs
<1>3. own \cap HopByHop = {} /\ own \subseteq Fresh
  BY DEF HopByHop, Fresh
<1>4. Names(Base) \cap HopByHop = {}
  BY <1>1, BaseIs
<1>5. Names(Base) \cap Bound(scn.request.headers) = {}
  <2>1. CASE N = 0
    BY <1>1, <2>1, BaseIs, SameConnection DEF Bound
  <2>2. CASE N # 0
    BY <1>1, <2>2, BaseIs
  <2> QED  BY <2>1, <2>2
<1>6. Names(Traced) \cap HopByHop = {} /\ Names(Traced) \cap Bound(scn.request.headers) = {}
  BY <1>2, <1>3, <1>4, <1>5 DEF Bound
<1>7. Names(hs) \subseteq Names(Traced) \cup Issued
  BY <1>1, AttemptHeadersAre
<1>8. Crossed(hs, scn.request.headers) \subseteq {"te", "upgrade", "connection"}
  BY <1>6, <1>7 DEF Crossed, Issued
<1>9. Has(hs, "te") => route.scheme = "https" /\ te_requests_trailers(scn.request.headers)
  <2>1. "te" \notin Names(Traced)
    BY <1>6 DEF HopByHop
  <2> QED  BY <1>1, <2>1, AttemptHeadersAre, HasName, SameConnection
<1>10. IsGranted(hs)
  <2>1. CASE upgrade_intent = <<>>
    <3>1. "upgrade" \notin Names(Traced) \cup {"te"}
      BY <1>6 DEF HopByHop
    <3>2. ~Has(hs, "upgrade")
      BY <1>1, <2>1, <3>1, AttemptHeadersAre, HasName
    <3> QED  BY <3>2 DEF IsGranted
  <2>2. CASE upgrade_intent # <<>>
    <3> DEFINE i == upgrade_intent
    <3>1. Values(hs, "upgrade") = <<i>> /\ Has(hs, "connection")
      BY <1>1, <2>2, AttemptHeadersAre, HasName
    <3>2. ToSet(i) \subseteq AskedFor
      BY <2>2, IntentIs
    <3> HIDE DEF i, hs
    <3>3. Values(hs, "upgrade")[1] = i
      BY <3>1
    <3> QED  BY <3>1, <3>2, <3>3 DEF IsGranted
  <2> QED  BY <2>1, <2>2
<1> QED  BY <1>8, <1>9, <1>10 DEF SentClean

LEMMA SaidIsFresh ==
  ASSUME NEW s \in Said(scn.says), NEW d, Decides(d, s)
  PROVE  Names(d.set) \subseteq Fresh /\ IsList(d.set) /\ IsList(d.body)
<1>1. Names(s.set) \subseteq Fresh
  BY DEF Fresh
<1> QED  BY <1>1 DEF Decides, Spoken

LEMMA EditedClean ==
  ASSUME NEW s \in Said(scn.says), NEW d, Decides(d, s), NEW hs, IsList(hs), NEW from,
         Names(hs) \cap Bound(from) = {}
  PROVE  Names(Edited(hs, d)) \cap Bound(from) = {}
<1>1. Names(d.set) \subseteq Fresh /\ IsList(d.set)
  BY SaidIsFresh
<1>2. Names(apply_edit(hs, d)) \subseteq Names(hs) \cup Names(d.set)
  BY <1>1, EditIs
<1> QED  BY <1>1, <1>2 DEF Bound, Edited

LEMMA ThereCleanStep ==
  ASSUME Shape, IngressInv, ThereClean, [Next]_vars
  PROVE  ThereClean'
<1>0. scn \in Scenarios /\ IsList(fwd)
  BY DEF Shape, LineShape, DataShape
<1>s. scn' = scn /\ Fresh' = Fresh /\ AskedFor' = AskedFor /\ route' = route
  BY ScenarioStays, FreshStays
<1>b. Bound(scn.request.headers)' = Bound(scn.request.headers)
  BY <1>s DEF Bound
<1> DEFINE bound == Bound(scn.request.headers)
<1>c. ASSUME NEW hs, SentClean(hs), sent'[1].headers = hs PROVE SentClean(sent[1].headers)'
  BY <1>s, <1>b, <1>c DEF SentClean, Crossed, IsGranted
<1>1. CASE Arrive
  <2>1. stage = "arrived" /\ sent' = sent
    BY <1>0, <1>1, ArriveIs
  <2>2. sent' = <<>> /\ fwd = <<>>
    BY <2>1 DEF Shape, StageShape, Before, ThereClean
  <2>3. CASE stage' = "done"
    <3>1. fwd' = fwd
      BY <1>0, <1>1, <2>3, ArriveIs
    <3> QED  BY <1>b, <2>2, <2>3, <3>1 DEF ThereClean
  <2>4. CASE stage' # "done"
    <3>1. fwd' = Strip(line'.headers) /\ IsList(line'.headers) /\ stage' # "arrived"
      BY <1>0, <1>1, <2>4, ArriveIs DEF Unrouted, LineShape
    <3>2. Shape' /\ IngressInv'
      BY ShapeStep, IngressStep
    <3>3. connection_named(line'.headers) = connection_named(scn'.request.headers)
      <4>1. Values(line'.headers, "connection") = Values(scn'.request.headers, "connection")
        BY <3>2 DEF IngressInv, ForwardedHeaders
      <4> QED  BY <4>1 DEF connection_named
    <3>4. Names(fwd') \cap connection_named(line'.headers) = {}
      BY <3>1, WithoutNames DEF Strip
    <3>5. Names(fwd') \cap bound = {}
      BY <1>s, <3>3, <3>4 DEF Bound
    <3> QED  BY <1>b, <2>2, <3>1, <3>5 DEF ThereClean
  <2> QED  BY <2>3, <2>4
<1>2. CASE RequestEdited
  <2>1. sent' = sent /\ stage' # "arrived"
    BY <1>2 DEF RequestEdited
  <2>2. Names(fwd') \cap bound = {}
    <3>1. PICK s \in scn.says.on_request \cup scn.says.on_request_body :
            \E d : Decides(d, s) /\ fwd' = Edited(fwd, d)
      BY <1>2 DEF RequestEdited
    <3>2. s \in Said(scn.says)
      BY DEF Said
    <3> QED  BY <1>0, <3>1, <3>2, EditedClean DEF ThereClean
  <2> QED  BY <1>b, <1>c, <2>1, <2>2 DEF ThereClean
<1>3. CASE Send /\ UNCHANGED <<scn, line, fwd>>
  <2>1. stage # "arrived" /\ stage' # "arrived"
    BY <1>0, <1>3, SendIs, OwnAnswers DEF Own
  <2>2. CASE sent' = sent
    BY <1>3, <1>b, <1>c, <2>1, <2>2 DEF ThereClean
  <2>3. CASE sent' # sent
    <3> DEFINE hs == AttemptHeaders
               b == body.bytes
    <3>1. sent' = <<[headers |-> hs, body |-> b]>>
      BY <1>3, <2>3, SendIs
    <3>2. SentClean(hs)
      BY SentIsClean DEF ThereClean
    <3> HIDE DEF hs, b
    <3>3. sent'[1].headers = hs
      BY <3>1
    <3> QED  BY <1>3, <1>b, <1>c, <2>1, <3>2, <3>3 DEF ThereClean
  <2> QED  BY <2>2, <2>3
<1>4. CASE UNCHANGED <<scn, line, fwd, sent>> /\ (stage = "arrived" <=> stage' = "arrived")
  BY <1>4, <1>b, <1>c DEF ThereClean
<1> QED  BY <1>1, <1>2, <1>3, <1>4, RequestMoves

LEMMA InitClean == ASSUME Init PROVE ThereClean /\ BackClean
<1>1. stage = "arrived" /\ fwd = <<>> /\ sent = <<>>
  BY DEF Init
<1>2. Names(fwd) = {}
  BY <1>1 DEF Names
<1> QED  BY <1>1, <1>2 DEF ThereClean, BackClean, After

-----------------------------------------------------------------------------
(* The way back.                                                           *)
Extra == {"vary", "content-encoding"} \cup Names(route.declared.set)

LEMMA ExtraIs ==
  ASSUME scn \in Scenarios
  PROVE  Extra \subseteq Fresh /\ Extra \cap HopByHop = {}
<1>1. \A n \in HopByHop : ~Has(route.declared.set, n)
  BY RouteFacts DEF IsRoute
<1>2. Names(route.declared.set) \cap HopByHop = {}
  BY <1>1, HasName
<1>3. {"vary", "content-encoding"} \cap HopByHop = {}
  BY DEF HopByHop
<1> QED  BY <1>2, <1>3 DEF Extra, Fresh

LEMMA ExitNames ==
  ASSUME scn \in Scenarios, NEW r, Ended(r)
  PROVE  Names(out'[1].headers) \subseteq Names(r.headers) \cup Extra
<1> DEFINE d == Declared(r)
           v == Varied(d)
           c == negotiate(line.headers, route.compression[1].algorithms)
<1>1. IsAnswer(r) /\ ((out'[2] = d /\ Exits(d, out'[1])) \/ out'[1] = r)
  BY EndedIs
<1>2. IsAnswer(d) /\ Names(d.headers) \subseteq Names(r.headers) \cup Names(route.declared.set)
  <2>1. Names(d.headers) \subseteq Names(Without(r.headers, route.declared.remove)) \cup Names(route.declared.set)
    BY <1>1, DeclaredIs DEF Changed
  <2>2. Names(Without(r.headers, route.declared.remove)) \subseteq Names(r.headers)
    BY <1>1, WithoutNames DEF IsAnswer
  <2> QED  BY <1>1, <2>1, <2>2, DeclaredIs
<1> HIDE DEF d, v, c
<1>3. IsAnswer(v) /\ Names(v.headers) \subseteq Names(d.headers) \cup {"vary"}
  BY <1>2, VariedIs, VaryList DEF v, IsAnswer
<1>4. Names(Coded(v, c).headers) \subseteq Names(v.headers) \cup {"content-encoding"}
  <2>1. IsList(v.headers)
    BY <1>3 DEF IsAnswer
  <2>2. Coded(v, c).headers = Weakened(CodedHeaders(v.headers, c))
    BY <1>3, CodedIs, MarkIs
  <2>3. /\ IsList(CodedHeaders(v.headers, c))
        /\ Names(CodedHeaders(v.headers, c)) \subseteq Names(v.headers) \cup {"content-encoding"}
    BY <2>1, MarkList
  <2> QED  BY <2>2, <2>3, WeakenedIs
<1>5. out'[1] = r \/ out'[1] = d \/ out'[1] = v \/ out'[1] = Coded(v, c)
  BY <1>1 DEF Exits, v, c
<1> QED  BY <1>2, <1>3, <1>4, <1>5 DEF Extra

(* What the proxy answers with carries nothing of the upstream's           *)
(* connection but a granted switch.                                        *)
AnswerClean(r, from) ==
  Names(r.headers) \cap (HopByHop \cup Bound(from)) \subseteq
    (IF r.kind = "switched" THEN {"upgrade", "connection"} ELSE {})

LEMMA OwnClean ==
  ASSUME scn \in Scenarios, NEW r, NEW from,
         \/ \E status, fault : r = synth(status, fault)
         \/ \E s \in Said(scn.says) : \E d : Decides(d, s) /\ r = http_response(d)
  PROVE  AnswerClean(r, from) /\ r.kind = "synthesised"
<1>1. CASE \E status, fault : r = synth(status, fault)
  <2>1. Names(r.headers) = {"x-plecto-fault"} /\ r.kind = "synthesised"
    BY <1>1, SynthIs
  <2>2. "x-plecto-fault" \in Fresh /\ "x-plecto-fault" \notin HopByHop
    BY DEF Fresh, HopByHop
  <2> QED  BY <2>1, <2>2 DEF AnswerClean, Bound
<1>2. CASE \E s \in Said(scn.says) : \E d : Decides(d, s) /\ r = http_response(d)
  <2>1. PICK s \in Said(scn.says) : \E d : Decides(d, s) /\ r = http_response(d)
    BY <1>2
  <2>2. PICK d : Decides(d, s) /\ r = http_response(d)
    BY <2>1
  <2>3. Names(d.set) \subseteq Fresh /\ IsList(d.set) /\ IsList(d.body)
    BY <2>2, SaidIsFresh
  <2>4. Names(r.headers) = Names(d.set) \ (HopByHop \cup {"content-length"}) /\ r.kind = "synthesised"
    BY <2>2, <2>3, HttpResponseIs
  <2> QED  BY <2>3, <2>4 DEF AnswerClean, Bound
<1> QED  BY <1>1, <1>2

LEMMA ReturnedClean ==
  ASSUME Shape, stage \in After, Names(resp.headers) \cap Bound(up[1].headers) = {}, NEW r,
         \/ r = Demoted \/ r = Switched(resp.headers) \/ r = stream_response_direct
         \/ r = stream_response(resp, up[1].body) \/ r = Whole
         \/ r = stream_response(resp, held.bytes \o held.rest)
  PROVE  AnswerClean(r, up[1].headers)
<1> DEFINE from == up[1].headers
<1>1. IsList(resp.headers) /\ IsList(held.bytes) /\ IsList(held.rest) /\ IsList(held.bytes \o held.rest)
  BY ConcatList DEF Shape, DataShape
<1>2. IsList(from) /\ IsList(up[1].body)
  BY UpFacts DEF Shape, StageShape
<1>3. "content-length" \in Fresh /\ "content-length" \notin HopByHop
  BY DEF Fresh, HopByHop
<1>4. CASE r = Demoted \/ r = Whole
  <2>1. Names(r.headers) \subseteq Names(resp.headers) \ HopByHop
    BY <1>1, <1>4, DemotedIs, WholeIs
  <2> QED  BY <2>1 DEF AnswerClean
<1>5. CASE r = Switched(resp.headers)
  <2>1. Names(r.headers) = (Names(resp.headers) \ HopByHop) \cup {"upgrade", "connection"} /\ r.kind = "switched"
    BY <1>1, <1>5, SwitchedIs, SwitchHeadersAre
  <2> QED  BY <2>1 DEF AnswerClean
<1>6. CASE r = stream_response(resp, up[1].body) \/ r = stream_response(resp, held.bytes \o held.rest)
  <2>1. Names(r.headers) \subseteq (Names(resp.headers) \ HopByHop) \cup {"content-length"}
    BY <1>1, <1>2, <1>6, StreamResponseIs
  <2> QED  BY <1>3, <2>1 DEF AnswerClean, Bound
<1>7. CASE r = stream_response_direct
  <2>1. r.headers = Strip(from)
    BY <1>2, <1>7, DirectResponseIs
  <2>2. Names(r.headers) = Names(from) \ (HopByHop \cup connection_named(from))
    BY <1>2, <2>1, WithoutNames DEF Strip
  <2> QED  BY <2>2 DEF AnswerClean, Bound
<1> QED  BY <1>4, <1>5, <1>6, <1>7

LEMMA DeclaredKeeps ==
  ASSUME scn \in Scenarios, NEW r, IsAnswer(r), NEW n \in HopByHop
  PROVE  Values(Declared(r).headers, n) = Values(r.headers, n)
<1>1. ~Has(route.declared.set, n) /\ n \notin route.declared.remove
  BY RouteFacts DEF IsRoute
<1>2. n \notin Names(route.declared.set)
  BY <1>1, HasName
<1>3. Values(Declared(r).headers, n) = Values(Without(r.headers, route.declared.remove), n)
  BY <1>2, DeclaredIs DEF Changed
<1> QED  BY <1>1, <1>3, ValuesWithout DEF IsAnswer

LEMMA SwitchClean ==
  ASSUME Shape, IngressInv, upgrade_intent # <<>>, Ended(Switched(resp.headers))
  PROVE  Has(out'[1].headers, "upgrade") /\ IsGranted(out'[1].headers)
<1> DEFINE r == Switched(resp.headers)
           o == out'[1].headers
           i == upgrade_intent
           u == "upgrade"
           c == "connection"
<1>0. scn \in Scenarios /\ IsList(resp.headers)
  BY DEF Shape, LineShape, DataShape
<1>1. IsAnswer(r) /\ r.kind = "switched" /\ r.headers = SwitchHeaders(resp.headers)
  BY <1>0, SwitchedIs
<1>2. Exits(Declared(r), out'[1]) /\ Declared(r).kind = r.kind /\ IsAnswer(Declared(r))
  BY <1>0, <1>1, EndedIs, DeclaredIs
<1>3. o = Declared(r).headers /\ IsList(o)
  BY <1>1, <1>2 DEF Exits, IsAnswer
<1>4. u \in HopByHop /\ c \in HopByHop
  BY DEF HopByHop
<1>5. Values(o, u) = Values(r.headers, u) /\ Values(o, c) = Values(r.headers, c)
  BY <1>0, <1>1, <1>3, <1>4, DeclaredKeeps
<1>6. IsList(r.headers) /\ Values(r.headers, u) = <<i>> /\ c \in Names(r.headers)
  BY <1>0, <1>1, SwitchHeadersAre
<1>7. Values(o, u) = <<i>> /\ Has(o, c)
  <2>1. Values(o, c) # <<>>
    BY <1>5, <1>6, ValuesList
  <2> QED  BY <1>3, <1>5, <1>6, <2>1, ValuesList, HasName
<1>8. ToSet(i) \subseteq AskedFor
  BY IntentIs
<1> HIDE DEF o, i, r
<1>9. <<i>> # <<>> /\ Values(o, u)[1] = i
  BY <1>7
<1>10. Has(o, u)
  BY <1>3, <1>7, <1>9, ValuesList, HasName
<1> QED  BY <1>7, <1>8, <1>9, <1>10 DEF IsGranted, o

LEMMA EndedClean ==
  ASSUME Shape, IngressInv, InspectInv, BackClean, [Next]_vars, stage # "done", stage' = "done"
  PROVE  OutClean(out[1])'
<1>0. scn \in Scenarios
  BY DEF Shape, LineShape
<1>s. scn' = scn /\ Fresh' = Fresh /\ AskedFor' = AskedFor /\ route' = route
  BY ScenarioStays, FreshStays
<1>1. PICK r : Ended(r) /\ EndsWith(r)
  BY Endings
<1>2. out'[1].kind = r.kind /\ Names(out'[1].headers) \subseteq Names(r.headers) \cup Extra
  BY <1>0, <1>1, EndedIs, ExitNames
<1>3. Extra \subseteq Fresh /\ Extra \cap HopByHop = {}
  BY <1>0, ExtraIs
<1> DEFINE from == up'[1].headers
           o == out'[1]
<1>4. ASSUME AnswerClean(r, from)
      PROVE  Names(o.headers) \cap (HopByHop \cup Bound(from)) \subseteq
               (IF o.kind = "switched" THEN {"upgrade", "connection"} ELSE {})
  BY <1>2, <1>3, <1>4 DEF AnswerClean, Bound
<1>5. ASSUME AnswerClean(r, from), o.kind = "switched" => Has(o.headers, "upgrade") /\ IsGranted(o.headers)
      PROVE  OutClean(out[1])'
  <2>1. Crossed(out[1].headers, up[1].headers)' = Names(o.headers) \cap (HopByHop \cup Bound(from))
    BY <1>s DEF Crossed, Bound
  <2>2. IsGranted(o.headers) => IsGranted(out[1].headers)'
    BY <1>s DEF IsGranted
  <2> QED  BY <1>4, <1>5, <2>1, <2>2 DEF OutClean
<1>6. CASE \/ \E status, fault : r = synth(status, fault)
           \/ \E s \in Said(scn.says) : \E d : Decides(d, s) /\ r = http_response(d)
  <2>1. AnswerClean(r, from) /\ r.kind = "synthesised"
    BY <1>0, <1>6, OwnClean
  <2> QED  BY <1>2, <1>5, <2>1
<1>7. CASE /\ stage \in After /\ up' = up /\ (r = Switched(resp.headers) => up[1].status = 101)
           /\ \/ r = Demoted \/ r = Switched(resp.headers) \/ r = stream_response_direct
              \/ r = stream_response(resp, up[1].body) \/ r = Whole
              \/ r = stream_response(resp, held.bytes \o held.rest)
  <2>1. /\ Names(resp.headers) \cap Bound(up[1].headers) = {}
        /\ up[1].status = 101 => upgrade_intent # <<>>
    BY <1>7 DEF BackClean
  <2>2. AnswerClean(r, up[1].headers)
    BY <1>7, <2>1, ReturnedClean
  <2>3. r.kind = "switched" => r = Switched(resp.headers)
    <3>1. IsList(resp.headers) /\ IsList(held.bytes) /\ IsList(held.rest) /\ IsList(held.bytes \o held.rest)
      BY ConcatList DEF Shape, DataShape
    <3>2. IsList(up[1].headers) /\ IsList(up[1].body)
      BY <1>7, UpFacts DEF Shape, StageShape
    <3> QED  BY <1>7, <3>1, <3>2, DemotedIs, WholeIs, StreamResponseIs, DirectResponseIs
  <2>4. o.kind = "switched" => Has(o.headers, "upgrade") /\ IsGranted(o.headers)
    BY <1>1, <1>2, <1>7, <2>1, <2>3, SwitchClean
  <2> QED  BY <1>5, <1>7, <2>2, <2>4
<1>8. \/ \E status, fault : r = synth(status, fault)
      \/ \E s \in Said(scn.says) : \E d : Decides(d, s) /\ r = http_response(d)
      \/ /\ stage \in After /\ up' = up /\ (r = Switched(resp.headers) => up[1].status = 101)
         /\ \/ r = Demoted \/ r = Switched(resp.headers) \/ r = stream_response_direct
            \/ r = stream_response(resp, up[1].body) \/ r = Whole
            \/ r = stream_response(resp, held.bytes \o held.rest)
  <2>1. stage \in {"response", "inspect", "response_body"} => stage \in After
    BY DEF After
  <2>2. Calm => up' = up
    BY DEF Calm
  <2>3. LetPast => stage \in After
    BY <2>1 DEF LetPast
  <2>4. IsList(resp.headers) /\ IsList(held.bytes) /\ IsList(held.rest) /\ IsList(held.bytes \o held.rest)
    BY ConcatList DEF Shape, DataShape
  <2>5. stage \in After => IsList(up[1].headers) /\ IsList(up[1].body)
    BY UpFacts DEF Shape, StageShape
  <2>6. ASSUME stage \in After,
               \/ r = stream_response_direct \/ r = stream_response(resp, up[1].body) \/ r = Whole
               \/ r = stream_response(resp, held.bytes \o held.rest)
        PROVE  r # Switched(resp.headers)
    BY <2>4, <2>5, <2>6, SwitchedIs, WholeIs, StreamResponseIs, DirectResponseIs
  <2> QED  BY <1>1, <2>1, <2>2, <2>3, <2>6, Zenon DEF EndsWith
<1> QED  BY <1>6, <1>7, <1>8

LEMMA BackCleanStep ==
  ASSUME Shape, IngressInv, InspectInv, BackClean, [Next]_vars
  PROVE  BackClean'
<1>0. scn \in Scenarios /\ DataShape
  BY DEF Shape, LineShape
<1>s. scn' = scn /\ Fresh' = Fresh /\ AskedFor' = AskedFor /\ route' = route
  BY ScenarioStays, FreshStays
<1>i. ~Arrive => upgrade_intent' = upgrade_intent
  BY <1>s, LineStays DEF upgrade_intent
<1>1. stage' \in After => /\ Names(resp'.headers) \cap Bound(up'[1].headers) = {}
                          /\ up'[1].status = 101 => upgrade_intent' # <<>>
  <2>0. Arrive => stage' \notin After /\ stage = "arrived"
    BY <1>0, ArriveIs DEF Unrouted, After
  <2>1. CASE ResponseArrives
    <3>1. PICK r \in scn.upstreams :
            /\ up' = <<r>> /\ stage = "await" /\ resp' = [status |-> r.status, headers |-> Strip(r.headers)]
            /\ r.status = 101 => upstream_switched_to(r)
      BY <2>1 DEF ResponseArrives
    <3>2. IsList(r.headers)
      BY <1>0, ResponseFacts
    <3>3. resp'.headers = Strip(r.headers) /\ up'[1] = r
      BY <3>1
    <3>4. Names(Strip(r.headers)) \cap Bound(r.headers) = {}
      BY <3>2, WithoutNames DEF Strip, Bound
    <3>5. r.status = 101 => upgrade_intent # <<>>
      BY <3>1 DEF upstream_switched_to
    <3> QED  BY <1>i, <2>0, <3>1, <3>3, <3>4, <3>5
  <2>2. CASE ResponseEdited
    <3>1. stage \in After /\ up' = up
      BY <2>2 DEF ResponseEdited
    <3>2. PICK s \in Said(scn.says) : \E d : Decides(d, s) /\ resp'.headers = Edited(resp.headers, d)
      BY <2>2 DEF ResponseEdited
    <3>3. Names(resp'.headers) \cap Bound(up[1].headers) = {}
      BY <1>0, <3>1, <3>2, EditedClean DEF BackClean, DataShape
    <3>4. stage # "arrived"
      BY <3>1 DEF After
    <3> QED  BY <1>i, <2>0, <3>1, <3>3, <3>4 DEF BackClean
  <2>3. CASE UNCHANGED <<scn, up, resp>> /\ (stage' \in After => stage \in After)
    BY <1>i, <2>0, <2>3 DEF BackClean
  <2> QED  BY <2>1, <2>2, <2>3, ResponseMoves DEF After
<1>2. stage' = "done" => OutClean(out[1])'
  <2>1. CASE stage = "done"
    <3>1. up' = up /\ out' = out
      BY <2>1, DoneStays DEF vars
    <3> QED  BY <1>s, <2>1, <3>1 DEF BackClean, OutClean, Crossed, Bound, IsGranted
  <2> QED  BY <2>1, EndedClean
<1>3. (Bound(up[1].headers))' = Bound(up'[1].headers)
  BY <1>s DEF Bound
<1> QED  BY <1>1, <1>2, <1>3 DEF BackClean

HeadersInv == ChainInv /\ AuthorityInv /\ HopInv /\ ThereClean /\ BackClean

(* Each hop learns who asks, for whom, and nothing of the hop before, for  *)
(* every request, route, response and every word of the guests.            *)
THEOREM HeadersAreSound == Spec => []HeadersSound
<1>1. Init => HeadersInv
  BY InitChain, InitHop, InitClean DEF HeadersInv, AuthorityInv, Settled, Init
<1>2. HeadersInv /\ [Next]_vars => HeadersInv'
  BY ShapeStep, IngressStep, OrderStep, InspectStep, CompleteStep, AuthorityStep, HopStep,
     ThereCleanStep, BackCleanStep
  DEF HeadersInv, ChainInv
<1>3. HeadersInv => HeadersSound
  BY AuthorityGives, HopGives, CleanGives DEF HeadersInv, ChainInv, HeadersSound
<1> QED  BY <1>1, <1>2, <1>3, PTL DEF Spec
=============================================================================
