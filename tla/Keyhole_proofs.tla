---------------------------- MODULE Keyhole_proofs ----------------------------
(***************************************************************************)
(* Proofs about Keyhole, for every dialect of lines, length of program and *)
(* length of queue that satisfy KeyholeAssumption: the rules keep every    *)
(* label where it is defined, and the ones they add are new.               *)
(***************************************************************************)
EXTENDS Keyhole, TLAPS, WellFoundedInduction, FiniteSetTheorems

(* Sequences whose elements are of no particular kind.                     *)
IsList(s) == s \in Seq(Range(s))

LEMMA ListOf == ASSUME NEW S, NEW s \in Seq(S) PROVE IsList(s)
<1>1. \A k \in 1 .. Len(s) : s[k] \in Range(s)
  BY DEF Range
<1>. QED
  BY <1>1 DEF IsList

LEMMA EmptyList == IsList(<< >>) /\ Len(<< >>) = 0 /\ DOMAIN << >> = {}
BY DEF IsList

LEMMA ListFacts == ASSUME NEW s, IsList(s) PROVE Len(s) \in Nat /\ DOMAIN s = 1 .. Len(s)
BY DEF IsList

LEMMA Singleton == ASSUME NEW x PROVE IsList(<<x>>) /\ Len(<<x>>) = 1 /\ DOMAIN <<x>> = {1} /\ <<x>>[1] = x
<1>1. <<x>> \in Seq({x})
  OBVIOUS
<1>2. IsList(<<x>>)
  BY <1>1, ListOf
<1>. QED
  BY <1>2

IsJoin(j, s, t) == j = s \o t
LEMMA Joined ==
  ASSUME NEW s, IsList(s), NEW t, IsList(t), NEW j, IsJoin(j, s, t)
  PROVE  /\ IsList(j) /\ Len(j) = Len(s) + Len(t)
         /\ \A k \in DOMAIN s : k \in DOMAIN j /\ j[k] = s[k]
         /\ \A k \in DOMAIN t : Len(s) + k \in DOMAIN j /\ j[Len(s) + k] = t[k]
         /\ \A k \in DOMAIN j : k \in DOMAIN s \/ \E l \in DOMAIN t : k = Len(s) + l
<1> DEFINE S == Range(s) \cup Range(t)
<1>1. s \in Seq(S) /\ t \in Seq(S)
  BY DEF IsList
<1>2. /\ j \in Seq(S) /\ Len(j) = Len(s) + Len(t) /\ Len(s) \in Nat /\ Len(t) \in Nat
      /\ DOMAIN s = 1 .. Len(s) /\ DOMAIN t = 1 .. Len(t) /\ DOMAIN j = 1 .. Len(s) + Len(t)
      /\ \A k \in DOMAIN s : j[k] = s[k]
      /\ \A k \in DOMAIN t : j[Len(s) + k] = t[k]
  BY <1>1 DEF IsJoin
<1>3. IsList(j)
  BY <1>2, ListOf
<1>4. ASSUME NEW k \in DOMAIN j, k \notin DOMAIN s PROVE \E l \in DOMAIN t : k = Len(s) + l
  <2>1. k - Len(s) \in DOMAIN t /\ k = Len(s) + (k - Len(s))
    BY <1>2, <1>4
  <2>. QED
    BY <2>1
<1>. QED
  BY <1>2, <1>3, <1>4

-----------------------------------------------------------------------------
(* Labels                                                                  *)

LEMMA LabelFacts ==
  ASSUME NEW l
  PROVE  /\ Label(l).op = "label" /\ Label(l).to = <<l>> /\ Label(l).to[1] = l
         /\ \A m : Label(l) = Label(m) => l = m
BY DEF Label, Line

(* The lines of s define the labels of M, and each of them once.           *)
Once(s, M) ==
  /\ \A i \in DOMAIN s : s[i].op = "label" => s[i] = Label(s[i].to[1]) /\ s[i].to[1] \in M
  /\ \A l \in M : \E i \in DOMAIN s : s[i] = Label(l)
  /\ \A i, j \in DOMAIN s : s[i].op = "label" /\ s[j] = s[i] => i = j

LEMMA OnceLabels == ASSUME NEW s, NEW M, Once(s, M) PROVE Labels(s) = M
<1>1. ASSUME NEW l \in M PROVE l \in Labels(s)
  <2>1. PICK i \in DOMAIN s : s[i] = Label(l)
    BY DEF Once
  <2>. QED
    BY <2>1, LabelFacts DEF Labels
<1>2. ASSUME NEW l \in Labels(s) PROVE l \in M
  BY DEF Labels, Once
<1>. QED
  BY <1>1, <1>2

LEMMA OnceEmpty == Once(<< >>, {})
BY EmptyList DEF Once

(* What is defined once in each of two parts, and not in both, is defined  *)
(* once in the whole.                                                      *)
LEMMA OnceJoined ==
  ASSUME NEW s, IsList(s), NEW t, IsList(t), NEW j, IsJoin(j, s, t),
         NEW M, Once(s, M), NEW N, Once(t, N), M \cap N = {}
  PROVE  Once(j, M \cup N)
<1>1. /\ Len(s) \in Nat /\ Len(t) \in Nat /\ DOMAIN s = 1 .. Len(s) /\ DOMAIN t = 1 .. Len(t)
  BY ListFacts
<1>2. /\ \A k \in DOMAIN s : k \in DOMAIN j /\ j[k] = s[k]
      /\ \A k \in DOMAIN t : Len(s) + k \in DOMAIN j /\ j[Len(s) + k] = t[k]
      /\ \A k \in DOMAIN j : k \in DOMAIN s \/ \E l \in DOMAIN t : k = Len(s) + l
  BY Joined
<1>3. /\ \A i \in DOMAIN s : s[i].op = "label" => s[i] = Label(s[i].to[1]) /\ s[i].to[1] \in M
      /\ \A i \in DOMAIN t : t[i].op = "label" => t[i] = Label(t[i].to[1]) /\ t[i].to[1] \in N
  BY DEF Once
<1>4. ASSUME NEW i \in DOMAIN j, j[i].op = "label"
      PROVE  j[i] = Label(j[i].to[1]) /\ j[i].to[1] \in M \cup N
  BY <1>2, <1>3, <1>4
<1>5. ASSUME NEW l \in M \cup N PROVE \E i \in DOMAIN j : j[i] = Label(l)
  BY <1>2 DEF Once
<1>6. ASSUME NEW i \in DOMAIN j, NEW k \in DOMAIN j, j[i].op = "label", j[k] = j[i]
      PROVE  i = k
  <2>1. CASE i \in DOMAIN s /\ k \in DOMAIN s
    BY <1>2, <1>6, <2>1 DEF Once
  <2>2. ASSUME NEW l \in DOMAIN t, NEW n \in DOMAIN t, i = Len(s) + l, k = Len(s) + n
        PROVE  i = k
    BY <1>2, <1>6, <2>2 DEF Once
  <2>3. ASSUME NEW l \in DOMAIN s, NEW n \in DOMAIN t, j[l].op = "label", j[Len(s) + n] = j[l]
        PROVE  FALSE
    BY <1>2, <1>3, <2>3
  <2>. QED
    BY <1>2, <1>6, <2>1, <2>2, <2>3
<1>. QED
  BY <1>4, <1>5, <1>6 DEF Once

(* The two parts of a sequence share the labels it defines.                *)
LEMMA OnceParts ==
  ASSUME NEW s, IsList(s), NEW t, IsList(t), NEW j, IsJoin(j, s, t), NEW M, Once(j, M)
  PROVE  /\ Once(s, Labels(s)) /\ Once(t, Labels(t))
         /\ Labels(s) \cap Labels(t) = {} /\ Labels(s) \cup Labels(t) = M
<1>1. /\ Len(s) \in Nat /\ Len(t) \in Nat /\ DOMAIN s = 1 .. Len(s) /\ DOMAIN t = 1 .. Len(t)
  BY ListFacts
<1>2. /\ \A k \in DOMAIN s : k \in DOMAIN j /\ j[k] = s[k]
      /\ \A k \in DOMAIN t : Len(s) + k \in DOMAIN j /\ j[Len(s) + k] = t[k]
      /\ \A k \in DOMAIN j : k \in DOMAIN s \/ \E l \in DOMAIN t : k = Len(s) + l
  BY Joined
<1>3. /\ \A i \in DOMAIN j : j[i].op = "label" => j[i] = Label(j[i].to[1]) /\ j[i].to[1] \in M
      /\ \A l \in M : \E i \in DOMAIN j : j[i] = Label(l)
      /\ \A i, k \in DOMAIN j : j[i].op = "label" /\ j[k] = j[i] => i = k
  BY DEF Once
<1>4. /\ \A i \in DOMAIN s : s[i].op = "label" => s[i] = Label(s[i].to[1]) /\ s[i].to[1] \in Labels(s)
      /\ \A i \in DOMAIN t : t[i].op = "label" => t[i] = Label(t[i].to[1]) /\ t[i].to[1] \in Labels(t)
  BY <1>2, <1>3 DEF Labels
<1>5. /\ \A l \in Labels(s) : \E i \in DOMAIN s : s[i] = Label(l)
      /\ \A l \in Labels(t) : \E i \in DOMAIN t : t[i] = Label(l)
  BY <1>4 DEF Labels
<1>6. Once(s, Labels(s))
  BY <1>2, <1>3, <1>4, <1>5 DEF Once
<1>7. Once(t, Labels(t))
  <2>1. ASSUME NEW i \in DOMAIN t, NEW k \in DOMAIN t, t[i].op = "label", t[k] = t[i]
        PROVE  i = k
    <3>1. Len(s) + i = Len(s) + k
      BY <1>2, <1>3, <2>1
    <3>. QED
      BY <1>1, <3>1
  <2>. QED
    BY <1>4, <1>5, <2>1 DEF Once
<1>8. ASSUME NEW l \in Labels(s), l \in Labels(t) PROVE FALSE
  <2>1. PICK i \in DOMAIN s : s[i] = Label(l)
    BY <1>5
  <2>2. PICK k \in DOMAIN t : t[k] = Label(l)
    BY <1>5, <1>8
  <2>3. i = Len(s) + k
    BY <1>2, <1>3, <2>1, <2>2, LabelFacts
  <2>. QED
    BY <1>1, <2>3
<1>9. ASSUME NEW l \in M PROVE l \in Labels(s) \cup Labels(t)
  <2>1. PICK i \in DOMAIN j : j[i] = Label(l)
    BY <1>3
  <2>2. CASE i \in DOMAIN s
    BY <1>2, <1>4, <2>1, <2>2, LabelFacts
  <2>3. ASSUME NEW k \in DOMAIN t, i = Len(s) + k PROVE l \in Labels(t)
    BY <1>2, <1>4, <2>1, <2>3, LabelFacts
  <2>. QED
    BY <1>2, <2>2, <2>3
<1>10. ASSUME NEW l \in Labels(s) \cup Labels(t) PROVE l \in M
  <2>1. PICK i \in DOMAIN j : j[i] = Label(l)
    BY <1>2, <1>5
  <2>. QED
    BY <1>3, <2>1, LabelFacts
<1>. QED
  BY <1>6, <1>7, <1>8, <1>9, <1>10

(* Lines with the operands of their instructions.                          *)
AllLines(s, names) == IsList(s) /\ \A i \in DOMAIN s : KeyholeLine(s[i], names)

LEMMA LineAmong ==
  ASSUME NEW names, NEW more, names \subseteq more, NEW i, KeyholeLine(i, names)
  PROVE  KeyholeLine(i, more)
<1>1. i.to \in Seq(more)
  BY DEF KeyholeLine
<1>. QED
  BY <1>1 DEF KeyholeLine

LEMMA LinesAmong ==
  ASSUME NEW names, NEW more, names \subseteq more, NEW s, AllLines(s, names)
  PROVE  AllLines(s, more)
BY LineAmong DEF AllLines

LEMMA LinesJoined ==
  ASSUME NEW names, NEW s, AllLines(s, names), NEW t, AllLines(t, names), NEW j, IsJoin(j, s, t)
  PROVE  AllLines(j, names)
<1>1. IsList(s) /\ IsList(t)
  BY DEF AllLines
<1>2. /\ IsList(j)
      /\ \A k \in DOMAIN s : k \in DOMAIN j /\ j[k] = s[k]
      /\ \A k \in DOMAIN t : Len(s) + k \in DOMAIN j /\ j[Len(s) + k] = t[k]
      /\ \A k \in DOMAIN j : k \in DOMAIN s \/ \E l \in DOMAIN t : k = Len(s) + l
  BY <1>1, Joined
<1>3. ASSUME NEW k \in DOMAIN j PROVE KeyholeLine(j[k], names)
  BY <1>2 DEF AllLines
<1>. QED
  BY <1>2, <1>3 DEF AllLines

LEMMA LinesParts ==
  ASSUME NEW names, NEW s, IsList(s), NEW t, IsList(t), NEW j, IsJoin(j, s, t), AllLines(j, names)
  PROVE  AllLines(s, names) /\ AllLines(t, names)
<1>1. /\ \A k \in DOMAIN s : k \in DOMAIN j /\ j[k] = s[k]
      /\ \A k \in DOMAIN t : Len(s) + k \in DOMAIN j /\ j[Len(s) + k] = t[k]
  BY Joined
<1>. QED
  BY <1>1 DEF AllLines

-----------------------------------------------------------------------------
(* Induction over the numbers, with the set of those that satisfy the      *)
(* predicate in its place.                                                 *)

LEMMA SetInduction ==
  ASSUME NEW T, 0 \in T, \A n \in T \cap Nat : n + 1 \in T
  PROVE  Nat \subseteq T
<1> SUFFICES ASSUME NEW m \in Nat, m \notin T PROVE FALSE
  OBVIOUS
<1> DEFINE U == Nat \ T
<1>1. IsWellFoundedOn(OpToRel(<, Nat), Nat)
  BY NatLessThanWellFounded
<1>2. U \subseteq Nat /\ U # {}
  OBVIOUS
<1>3. \E x \in U : \A y \in U : ~ (<<y, x>> \in OpToRel(<, Nat))
  BY <1>1, <1>2, WFMin
<1>4. PICK x \in U : \A y \in U : ~ (<<y, x>> \in OpToRel(<, Nat))
  BY <1>3
<1>5. \A y \in U : ~ (y < x)
  BY <1>2, <1>4 DEF OpToRel
<1>6. x - 1 \in Nat /\ x - 1 < x /\ (x - 1) + 1 = x
  OBVIOUS
<1>7. x - 1 \in T
  BY <1>5, <1>6
<1>. QED
  BY <1>6, <1>7

LEMMA Upwards ==
  ASSUME NEW T, NEW n \in Nat, NEW N \in Nat, n <= N, n \in T,
         \A m \in n .. N - 1 : m \in T => m + 1 \in T
  PROVE  N \in T
<1> DEFINE U == {m \in Nat : n + m <= N => n + m \in T}
<1>1. 0 \in U
  OBVIOUS
<1>2. ASSUME NEW m \in U \cap Nat
      PROVE  m + 1 \in U
  <2>1. CASE n + (m + 1) <= N
    <3>1. n + m \in n .. N - 1 /\ n + m \in T
      BY <2>1
    <3>2. (n + m) + 1 \in T /\ (n + m) + 1 = n + (m + 1)
      BY <3>1
    <3>. QED
      BY <3>2
  <2>2. CASE ~ (n + (m + 1) <= N)
    BY <2>2
  <2>. QED
    BY <2>1, <2>2
<1> HIDE DEF U
<1>3. Nat \subseteq U
  BY <1>1, <1>2, SetInduction
<1>4. N - n \in Nat /\ n + (N - n) = N
  OBVIOUS
<1>5. N - n \in U
  BY <1>3, <1>4
<1>. QED
  BY <1>4, <1>5 DEF U

-----------------------------------------------------------------------------
(* Pieces that are joined to one sequence: F[k] joins the first k of them. *)

IsFlat(F, p, n) ==
  /\ F = [k \in 1 .. n |-> F[k]]
  /\ \A k \in 1 .. n : F[k] = IF k = 1 THEN p[k] ELSE F[k - 1] \o p[k]

LEMMA FlatExists ==
  ASSUME NEW p, NEW n \in Nat, 1 <= n
  PROVE  \E F : IsFlat(F, p, n)
<1> DEFINE T == {m \in Nat : \E F : IsFlat(F, p, m)}
<1>1. 1 \in T
  <2> DEFINE F == [k \in 1 .. 1 |-> p[k]]
  <2>1. IsFlat(F, p, 1)
    BY DEF IsFlat
  <2>. QED
    BY <2>1
<1>2. ASSUME NEW m \in 1 .. n - 1, m \in T
      PROVE  m + 1 \in T
  <2>1. PICK F : IsFlat(F, p, m)
    BY <1>2
  <2> DEFINE G == [k \in 1 .. m + 1 |-> IF k = m + 1 THEN F[m] \o p[k] ELSE F[k]]
  <2>2. G = [k \in 1 .. m + 1 |-> G[k]]
    OBVIOUS
  <2>3. ASSUME NEW k \in 1 .. m + 1
        PROVE  G[k] = IF k = 1 THEN p[k] ELSE G[k - 1] \o p[k]
    <3>1. CASE k = m + 1
      <4>1. k # 1 /\ k - 1 = m /\ m \in 1 .. m + 1 /\ m # m + 1
        BY <3>1
      <4>2. G[m] = F[m] /\ G[k] = F[m] \o p[k]
        BY <3>1, <4>1
      <4>. QED
        BY <4>1, <4>2
    <3>2. CASE k # m + 1 /\ k # 1
      <4>1. k \in 1 .. m /\ k - 1 \in 1 .. m + 1 /\ k - 1 # m + 1
        BY <3>2
      <4>2. G[k] = F[k] /\ G[k - 1] = F[k - 1]
        BY <3>2, <4>1
      <4>3. F[k] = F[k - 1] \o p[k]
        BY <2>1, <3>2, <4>1 DEF IsFlat
      <4>. QED
        BY <3>2, <4>2, <4>3
    <3>3. CASE k = 1 /\ k # m + 1
      <4>1. k \in 1 .. m
        BY <3>3
      <4>. QED
        BY <2>1, <3>3, <4>1 DEF IsFlat
    <3>. QED
      BY <3>1, <3>2, <3>3
  <2> HIDE DEF G
  <2>4. IsFlat(G, p, m + 1)
    BY <2>2, <2>3 DEF IsFlat
  <2>5. m + 1 \in Nat
    OBVIOUS
  <2>. QED
    BY <2>4, <2>5
<1>3. n \in T
  <2> HIDE DEF T
  <2>. QED
    BY <1>1, <1>2, Upwards
<1>. QED
  BY <1>3

LEMMA FlatLast ==
  ASSUME NEW p, IsList(p), 1 <= Len(p), NEW F, IsFlat(F, p, Len(p))
  PROVE  FlattenSeq(p) = F[Len(p)]
<1> DEFINE n == Len(p)
           Goes(f) == f = [k \in 1 .. n |-> IF k = 1 THEN p[k] ELSE f[k - 1] \o p[k]]
           E == CHOOSE f : Goes(f)
<1>1. n \in Nat
  BY ListFacts
<1>2. FlattenSeq(p) = E[n]
  BY <1>1 DEF FlattenSeq
<1>3. Goes(F)
  BY DEF IsFlat
<1>4. Goes(E)
  <2> HIDE DEF Goes
  <2>. QED
    BY <1>3
<1>5. ASSUME NEW k \in 1 .. n
      PROVE  E[k] = IF k = 1 THEN p[k] ELSE E[k - 1] \o p[k]
  BY <1>4
<1> HIDE DEF E, Goes, n
<1> DEFINE T == {m \in Nat : E[m] = F[m]}
<1>6. 1 \in 1 .. n
  BY <1>1 DEF n
<1>7. 1 \in T
  BY <1>5, <1>6 DEF IsFlat, n
<1>8. ASSUME NEW m \in 1 .. n - 1, m \in T
      PROVE  m + 1 \in T
  <2>1. m + 1 \in 1 .. n /\ m + 1 # 1 /\ (m + 1) - 1 = m /\ m + 1 \in Nat
    BY <1>1
  <2>2. E[m + 1] = E[m] \o p[m + 1]
    BY <1>5, <2>1
  <2>3. F[m + 1] = F[m] \o p[m + 1]
    BY <2>1 DEF IsFlat, n
  <2>. QED
    BY <1>8, <2>1, <2>2, <2>3
<1>9. n \in T
  <2>1. 1 <= n
    BY DEF n
  <2> HIDE DEF T
  <2>. QED
    BY <1>1, <1>7, <1>8, <2>1, Upwards
<1>. QED
  BY <1>2, <1>9 DEF n

(* Pieces that each define the labels of a set of their own.               *)
LEMMA FlatOnce ==
  ASSUME NEW names, NEW p, IsList(p), 1 <= Len(p), NEW Own,
         \A i \in 1 .. Len(p) : Once(p[i], Own[i]) /\ AllLines(p[i], names),
         \A i, k \in 1 .. Len(p) : i # k => Own[i] \cap Own[k] = {}
  PROVE  /\ Once(FlattenSeq(p), UNION {Own[i] : i \in 1 .. Len(p)})
         /\ AllLines(FlattenSeq(p), names)
<1> DEFINE n == Len(p)
           Upto(m) == UNION {Own[i] : i \in 1 .. m}
<1>1. n \in Nat
  BY ListFacts
<1>2. PICK F : IsFlat(F, p, n)
  BY <1>1, FlatExists
<1>3. FlattenSeq(p) = F[n]
  BY <1>2, FlatLast
<1> DEFINE T == {m \in Nat : Once(F[m], Upto(m)) /\ AllLines(F[m], names)}
<1>4. 1 \in T
  <2>0. 1 \in 1 .. n
    BY <1>1
  <2>1. F[1] = p[1] /\ 1 \in 1 .. n
    <3> HIDE DEF n, Upto
    <3>. QED
      BY <1>2, <2>0 DEF IsFlat
  <2>2. Upto(1) = Own[1]
    OBVIOUS
  <2> HIDE DEF Upto, n
  <2>. QED
    BY <2>1, <2>2 DEF n
<1>5. ASSUME NEW m \in 1 .. n - 1, m \in T
      PROVE  m + 1 \in T
  <2>1. m + 1 \in 1 .. n /\ m + 1 # 1 /\ (m + 1) - 1 = m /\ m + 1 \in Nat
    BY <1>1
  <2>2. IsJoin(F[m + 1], F[m], p[m + 1])
    BY <1>2, <2>1 DEF IsFlat, IsJoin
  <2>3. /\ Once(F[m], Upto(m)) /\ AllLines(F[m], names)
        /\ Once(p[m + 1], Own[m + 1]) /\ AllLines(p[m + 1], names)
    BY <1>5, <2>1
  <2>4. Upto(m) \cap Own[m + 1] = {}
    <3>1. ASSUME NEW i \in 1 .. m PROVE i \in 1 .. n /\ i # m + 1
      BY <1>1
    <3>. QED
      BY <2>1, <3>1
  <2>5. Upto(m + 1) = Upto(m) \cup Own[m + 1]
    <3>1. 1 .. m + 1 = (1 .. m) \cup {m + 1}
      OBVIOUS
    <3>. QED
      BY <3>1
  <2> HIDE DEF Upto, n
  <2>6. Once(F[m + 1], Upto(m) \cup Own[m + 1])
    BY <2>2, <2>3, <2>4, OnceJoined DEF AllLines
  <2>7. AllLines(F[m + 1], names)
    BY <2>2, <2>3, LinesJoined
  <2>. QED
    BY <2>1, <2>5, <2>6, <2>7
<1> HIDE DEF Upto, n
<1>6. n \in T
  <2>1. 1 <= n
    BY DEF n
  <2> HIDE DEF T
  <2>. QED
    BY <1>1, <1>4, <1>5, <2>1, Upwards
<1>. QED
  BY <1>3, <1>6 DEF Upto, n

-----------------------------------------------------------------------------
(* The rule sets.  Their patterns have the operands of the instructions,   *)
(* the variables 0, 1 and 2 for names.                                     *)

Variables == {0, 1, 2}
Pattern(p) ==
  /\ p.to \in Seq(Variables) /\ Len(p.to) <= 2
  /\ p.op = "label" => p.to = <<0>> \/ p.to = <<2>>
  /\ p.op \in {"br", "brt", "brf"} => Len(p.to) = 1
  /\ p.op = "brtf" => Len(p.to) = 2
  /\ p.op \notin {"label", "br", "brt", "brf", "brtf"} => Len(p.to) = 0

(* A rule keeps the label it matched, or matches an instruction.           *)
SoundRule(rule) ==
  /\ Pattern(rule.in)
  /\ IsList(rule.out) /\ \A k \in DOMAIN rule.out : Pattern(rule.out[k])
  /\ rule.in.op = "label" => rule.in = Label(0) /\ rule.out = <<Label(0)>>

(* The label 2, if no pattern of the input has it, is defined behind the   *)
(* line that the last rule matches, and nowhere else.                      *)
InputNames(rs, n) == UNION {Range(rs[r].in.to) : r \in 1 .. n}
RuleSet(rs, new) ==
  /\ IsList(rs) /\ 1 <= Len(rs)
  /\ new = {} \/ new = {2}
  /\ \A r \in DOMAIN rs : SoundRule(rs[r])
  /\ OutputNames(rs) \subseteq InputNames(rs, Len(rs)) \cup new
  /\ new \subseteq OutputNames(rs) /\ new \cap InputNames(rs, Len(rs)) = {}
  /\ \A r \in DOMAIN rs : \A k \in DOMAIN rs[r].out :
       rs[r].out[k].op = "label" /\ rs[r].in.op # "label" =>
         rs[r].out[k] = Label(2) /\ new = {2} /\ r = Len(rs)
  /\ new = {2} => /\ rs[Len(rs)].in.op # "label"
                  /\ \E k \in DOMAIN rs[Len(rs)].out :
                       /\ rs[Len(rs)].out[k] = Label(2)
                       /\ \A l \in DOMAIN rs[Len(rs)].out : rs[Len(rs)].out[l].op = "label" => l = k

LEMMA InstructionPattern ==
  ASSUME NEW op, op \in {"swap", "concat", "sconcat", "append", "sappend"}, NEW regs
  PROVE  /\ Line(op, << >>, regs).to = << >> /\ Line(op, << >>, regs).op = op /\ op # "label"
         /\ Pattern(Line(op, << >>, regs))
BY DEF Pattern, Line, Variables

LEMMA BranchPattern ==
  ASSUME NEW l \in Variables, NEW m \in Variables
  PROVE  /\ Pattern(Brt(l)) /\ Brt(l).to = <<l>> /\ Brt(l).op = "brt"
         /\ Pattern(Brf(l)) /\ Brf(l).to = <<l>> /\ Brf(l).op = "brf"
         /\ Pattern(Brtf(l, m)) /\ Brtf(l, m).to = <<l, m>> /\ Brtf(l, m).op = "brtf"
         /\ Pattern(Br) /\ Br.to = <<0>> /\ Br.op = "br"
BY DEF Pattern, Line, Variables, Brt, Brf, Brtf, Br

LEMMA LabelPattern ==
  /\ Pattern(Label(0)) /\ Label(0).op = "label" /\ Label(0).to = <<0>>
  /\ Pattern(Label(2)) /\ Label(2).op = "label" /\ Label(2).to = <<2>>
BY DEF Pattern, Variables, Label, Line

LEMMA Pair ==
  ASSUME NEW x, NEW y
  PROVE  /\ IsList(<<x, y>>) /\ Len(<<x, y>>) = 2 /\ DOMAIN <<x, y>> = {1, 2}
         /\ <<x, y>>[1] = x /\ <<x, y>>[2] = y
<1>1. <<x, y>> \in Seq({x, y})
  OBVIOUS
<1>2. IsList(<<x, y>>)
  BY <1>1, ListOf
<1>. QED
  BY <1>2

LEMMA Triple ==
  ASSUME NEW x, NEW y, NEW z
  PROVE  /\ IsList(<<x, y, z>>) /\ Len(<<x, y, z>>) = 3 /\ DOMAIN <<x, y, z>> = {1, 2, 3}
         /\ <<x, y, z>>[1] = x /\ <<x, y, z>>[2] = y /\ <<x, y, z>>[3] = z
<1>1. <<x, y, z>> \in Seq({x, y, z})
  OBVIOUS
<1>2. IsList(<<x, y, z>>)
  BY <1>1, ListOf
<1>. QED
  BY <1>2

LEMMA Behind ==
  ASSUME NEW x, NEW y, NEW out
  PROVE  /\ IsJoin(out, <<x>>, << >>) => IsList(out) /\ DOMAIN out = {1} /\ out[1] = x
         /\ IsJoin(out, <<x>>, <<y>>) =>
              IsList(out) /\ DOMAIN out = {1, 2} /\ out[1] = x /\ out[2] = y
<1>1. <<x>> \in Seq({x, y}) /\ <<y>> \in Seq({x, y})
  OBVIOUS
<1>2. ASSUME out = <<x>> \o << >> PROVE IsList(out) /\ DOMAIN out = {1} /\ out[1] = x
  <2>1. out = <<x>>
    BY <1>1, <1>2
  <2>. QED
    BY <2>1, Singleton
<1>3. ASSUME out = <<x>> \o <<y>>
      PROVE  IsList(out) /\ DOMAIN out = {1, 2} /\ out[1] = x /\ out[2] = y
  <2>1. out \in Seq({x, y}) /\ Len(out) = 2 /\ out[1] = x /\ out[2] = y
    BY <1>1, <1>3
  <2>2. IsList(out) /\ DOMAIN out = 1 .. 2
    BY <2>1, ListOf
  <2>3. 1 .. 2 = {1, 2}
    OBVIOUS
  <2>. QED
    BY <2>1, <2>2, <2>3
<1>. QED
  BY <1>2, <1>3 DEF IsJoin

(* What a rule set reads and writes, name by name.                         *)
LEMMA Names ==
  ASSUME NEW rs, IsList(rs)
  PROVE  /\ \A n : n \in OutputNames(rs) <=>
              \E r \in DOMAIN rs : \E k \in DOMAIN rs[r].out : n \in Range(rs[r].out[k].to)
         /\ \A m \in Nat : \A n : n \in InputNames(rs, m) <=>
              \E r \in 1 .. m : n \in Range(rs[r].in.to)
<1>1. \A n : n \in OutputNames(rs) <=>
              \E r \in DOMAIN rs : \E k \in DOMAIN rs[r].out : n \in Range(rs[r].out[k].to)
  BY DEF OutputNames, Range
<1>2. \A m \in Nat : \A n : n \in InputNames(rs, m) <=> \E r \in 1 .. m : n \in Range(rs[r].in.to)
  BY DEF InputNames
<1>. QED
  BY <1>1, <1>2

LEMMA RuleFields ==
  ASSUME NEW flag, NEW in, NEW out
  PROVE  Rule(flag, in, out).in = in /\ Rule(flag, in, out).out = out
BY DEF Rule

LEMMA Ranges ==
  /\ Range(<< >>) = {}
  /\ \A x : Range(<<x>>) = {x}
  /\ \A x, y : Range(<<x, y>>) = {x, y}
<1>1. Range(<< >>) = {}
  BY DEF Range
<1>2. ASSUME NEW x PROVE Range(<<x>>) = {x}
  BY Singleton DEF Range
<1>3. ASSUME NEW x, NEW y PROVE Range(<<x, y>>) = {x, y}
  BY Pair DEF Range
<1>. QED
  BY <1>1, <1>2, <1>3

LEMMA SwapSets ==
  ASSUME NEW second
  PROVE  RuleSet(CancelledSwaps(second), {})
<1> DEFINE rs == CancelledSwaps(second)
           p == Line("swap", << >>, <<0, 1>>)
           q == Line("swap", << >>, second)
<1>1. /\ Pattern(p) /\ p.to = << >> /\ p.op # "label"
      /\ Pattern(q) /\ q.to = << >> /\ q.op # "label"
  BY InstructionPattern
<1>2. rs = <<Rule("NO_HAZARD", p, << >>), Rule("NO_HAZARD", q, << >>)>>
  BY DEF CancelledSwaps
<1> HIDE DEF p, q, rs
<1>3. /\ IsList(rs) /\ Len(rs) = 2 /\ DOMAIN rs = {1, 2}
      /\ rs[1].in = p /\ rs[1].out = << >> /\ rs[2].in = q /\ rs[2].out = << >>
  BY <1>2, Pair, RuleFields
<1>4. \A r \in DOMAIN rs : SoundRule(rs[r])
  BY <1>1, <1>3, EmptyList DEF SoundRule
<1>5. OutputNames(rs) = {}
  BY <1>3, EmptyList, Names
<1>. QED
  BY <1>3, <1>4, <1>5, EmptyList DEF RuleSet, rs

LEMMA AppendSets ==
  ASSUME NEW c \in {"concat", "sconcat"}, NEW a \in {"append", "sappend"}
  PROVE  RuleSet(Appending(c, a), {})
<1> DEFINE rs == Appending(c, a)
           p == Line(c, << >>, <<0, 0, 1>>)
           q == Line(a, << >>, <<0, 1>>)
<1>1. /\ Pattern(p) /\ p.to = << >> /\ p.op # "label"
      /\ Pattern(q) /\ q.to = << >> /\ q.op # "label"
  BY InstructionPattern
<1>2. rs = <<Rule("NO_HAZARD", p, <<q>>)>>
  BY DEF Appending
<1> HIDE DEF p, q, rs
<1>3. /\ IsList(rs) /\ Len(rs) = 1 /\ DOMAIN rs = {1}
      /\ rs[1].in = p /\ rs[1].out = <<q>>
  BY <1>2, Singleton, RuleFields
<1>4. IsList(<<q>>) /\ DOMAIN <<q>> = {1} /\ <<q>>[1] = q
  BY Singleton
<1>5. \A r \in DOMAIN rs : SoundRule(rs[r])
  BY <1>1, <1>3, <1>4 DEF SoundRule
<1>6. OutputNames(rs) = {}
  BY <1>1, <1>3, <1>4, Names, Ranges
<1>. QED
  BY <1>1, <1>3, <1>4, <1>5, <1>6 DEF RuleSet, rs

(* Whether a label is put behind the target tells whether one is new.      *)
LEMMA BranchSets ==
  ASSUME NEW branch, Pattern(branch), branch.op # "label", Range(branch.to) = {0},
         NEW becomes, Pattern(becomes), becomes.op # "label",
         NEW target, Pattern(target), target.op # "label",
         NEW label, NEW new,
         \/ new = {} /\ label = << >>
         \/ new = {2} /\ label = <<Label(2)>>,
         2 \notin Range(target.to) \/ new = {},
         Range(becomes.to) \subseteq {0} \cup Range(target.to) \cup new
  PROVE  RuleSet(BranchTo(branch, becomes, target, label), new)
<1> DEFINE rs == BranchTo(branch, becomes, target, label)
           out == <<target>> \o label
<1>1. rs = <<Rule("ANY_GAP", branch, <<becomes>>), Rule("ANY_GAP", Label(0), <<Label(0)>>),
             Rule("NO_GAP", target, out)>>
  BY DEF BranchTo
<1> HIDE DEF rs, out
<1>3. /\ IsList(rs) /\ Len(rs) = 3 /\ DOMAIN rs = {1, 2, 3}
      /\ rs[1].in = branch /\ rs[1].out = <<becomes>>
      /\ rs[2].in = Label(0) /\ rs[2].out = <<Label(0)>>
      /\ rs[3].in = target /\ rs[3].out = out
  BY <1>1, Triple, RuleFields
<1>4. /\ IsList(<<becomes>>) /\ DOMAIN <<becomes>> = {1} /\ <<becomes>>[1] = becomes
      /\ IsList(<<Label(0)>>) /\ DOMAIN <<Label(0)>> = {1} /\ <<Label(0)>>[1] = Label(0)
  BY Singleton
<1>5. /\ new = {} => IsList(out) /\ DOMAIN out = {1} /\ out[1] = target
      /\ new = {2} => IsList(out) /\ DOMAIN out = {1, 2} /\ out[1] = target /\ out[2] = Label(2)
  <2>1. {} # {2}
    OBVIOUS
  <2>2. new = {} => IsJoin(out, <<target>>, << >>)
    BY <2>1 DEF IsJoin, out
  <2>3. new = {2} => IsJoin(out, <<target>>, <<Label(2)>>)
    BY <2>1 DEF IsJoin, out
  <2>. QED
    BY <2>2, <2>3, Behind
<1>6. new = {} \/ new = {2}
  OBVIOUS
<1>7. /\ SoundRule(rs[1]) /\ SoundRule(rs[2]) /\ SoundRule(rs[3])
  BY <1>3, <1>4, <1>5, <1>6, LabelPattern DEF SoundRule
<1>8. \A n : n \in OutputNames(rs) <=> n \in Range(becomes.to) \cup {0} \cup Range(target.to) \cup new
  <2>1. \A n : n \in OutputNames(rs) <=>
          \/ n \in Range(becomes.to) \/ n \in Range(Label(0).to)
          \/ \E k \in DOMAIN out : n \in Range(out[k].to)
    BY <1>3, <1>4, Names
  <2>2. Range(Label(0).to) = {0} /\ Range(Label(2).to) = {2}
    BY LabelPattern, Ranges
  <2>. QED
    BY <1>5, <1>6, <2>1, <2>2
<1>9. \A n : n \in InputNames(rs, 3) <=> n \in {0} \cup Range(target.to)
  <2>1. Range(Label(0).to) = {0}
    BY LabelPattern, Ranges
  <2>2. 1 .. 3 = {1, 2, 3}
    OBVIOUS
  <2>3. \A n : n \in InputNames(rs, 3) <=> \E r \in 1 .. 3 : n \in Range(rs[r].in.to)
    BY <1>3, Names
  <2>. QED
    BY <1>3, <2>1, <2>2, <2>3
<1>10. /\ OutputNames(rs) \subseteq InputNames(rs, 3) \cup new
       /\ new \subseteq OutputNames(rs) /\ new \cap InputNames(rs, 3) = {}
  BY <1>6, <1>8, <1>9
<1>11. \A r \in DOMAIN rs : \A k \in DOMAIN rs[r].out :
         rs[r].out[k].op = "label" /\ rs[r].in.op # "label" =>
           rs[r].out[k] = Label(2) /\ new = {2} /\ r = 3
  BY <1>3, <1>4, <1>5, <1>6, LabelPattern
<1>12. new = {2} => /\ rs[3].in.op # "label"
                    /\ \E k \in DOMAIN rs[3].out :
                         /\ rs[3].out[k] = Label(2)
                         /\ \A l \in DOMAIN rs[3].out : rs[3].out[l].op = "label" => l = k
  BY <1>3, <1>5
<1>. QED
  BY <1>3, <1>6, <1>7, <1>10, <1>11, <1>12 DEF RuleSet, rs

IsRuleSet(rs) == RuleSet(rs, {}) \/ RuleSet(rs, {2})

(* The rule sets that put a new label behind the line they match last.     *)
LEMMA NewLabelSets ==
  ASSUME NEW branch, Pattern(branch), branch.op # "label", Range(branch.to) = {0},
         NEW becomes, Pattern(becomes), becomes.op # "label", Range(becomes.to) \subseteq {1, 2},
         NEW target, Pattern(target), target.op # "label", Range(target.to) = {1}
  PROVE  RuleSet(BranchTo(branch, becomes, target, <<Label(2)>>), {2})
<1>1. 2 \notin Range(target.to) /\ Range(becomes.to) \subseteq {0} \cup Range(target.to) \cup {2}
  OBVIOUS
<1> DEFINE new == {2}
           label == <<Label(2)>>
<1>2. new = {2} /\ label = <<Label(2)>>
  OBVIOUS
<1>3. Range(becomes.to) \subseteq {0} \cup Range(target.to) \cup new
  BY <1>1
<1> HIDE DEF new, label
<1>4. RuleSet(BranchTo(branch, becomes, target, label), new)
  BY <1>1, <1>2, <1>3, BranchSets, Zenon
<1>. QED
  BY <1>4 DEF new, label

LEMMA BranchRuleSets ==
  /\ IsRuleSet(BranchTo(Br, Brtf(1, 2), Brt(1), <<Label(2)>>))
  /\ IsRuleSet(BranchTo(Br, Brtf(2, 1), Brf(1), <<Label(2)>>))
  /\ IsRuleSet(BranchTo(Br, Brtf(1, 2), Brtf(1, 2), << >>))
  /\ IsRuleSet(BranchTo(Brt(0), Brt(1), Brt(1), << >>))
  /\ IsRuleSet(BranchTo(Brf(0), Brf(1), Brf(1), << >>))
  /\ IsRuleSet(BranchTo(Brt(0), Brt(2), Brf(1), <<Label(2)>>))
  /\ IsRuleSet(BranchTo(Brf(0), Brf(2), Brt(1), <<Label(2)>>))
<1>1. 0 \in Variables /\ 1 \in Variables /\ 2 \in Variables
  BY DEF Variables
<1>2. \A l \in Variables : /\ Pattern(Brt(l)) /\ Range(Brt(l).to) = {l} /\ Brt(l).op # "label"
                           /\ Pattern(Brf(l)) /\ Range(Brf(l).to) = {l} /\ Brf(l).op # "label"
  BY BranchPattern, Ranges
<1>3. \A l, m \in Variables :
        Pattern(Brtf(l, m)) /\ Range(Brtf(l, m).to) = {l, m} /\ Brtf(l, m).op # "label"
  BY BranchPattern, Ranges
<1>4. Pattern(Br) /\ Range(Br.to) = {0} /\ Br.op # "label"
  BY <1>1, BranchPattern, Ranges
<1>5. /\ Range(Brtf(1, 2).to) \subseteq {1, 2} /\ Range(Brtf(2, 1).to) \subseteq {1, 2}
      /\ Range(Brt(2).to) \subseteq {1, 2} /\ Range(Brf(2).to) \subseteq {1, 2}
  BY <1>1, <1>2, <1>3
<1>9. RuleSet(BranchTo(Br, Brtf(1, 2), Brt(1), <<Label(2)>>), {2})
  BY <1>1, <1>2, <1>3, <1>4, <1>5, NewLabelSets, Zenon
<1>10. RuleSet(BranchTo(Br, Brtf(2, 1), Brf(1), <<Label(2)>>), {2})
  BY <1>1, <1>2, <1>3, <1>4, <1>5, NewLabelSets, Zenon
<1>6. RuleSet(BranchTo(Br, Brtf(1, 2), Brtf(1, 2), << >>), {})
  BY <1>1, <1>3, <1>4, BranchSets
<1>7. /\ RuleSet(BranchTo(Brt(0), Brt(1), Brt(1), << >>), {})
      /\ RuleSet(BranchTo(Brf(0), Brf(1), Brf(1), << >>), {})
  BY <1>1, <1>2, BranchSets
<1>8. /\ RuleSet(BranchTo(Brt(0), Brt(2), Brf(1), <<Label(2)>>), {2})
      /\ RuleSet(BranchTo(Brf(0), Brf(2), Brt(1), <<Label(2)>>), {2})
  BY <1>1, <1>2, <1>5, NewLabelSets, Zenon
<1>. QED
  BY <1>6, <1>7, <1>8, <1>9, <1>10 DEF IsRuleSet

(* Each of the eleven rule sets of the code is one.                        *)
LEMMA EveryRuleSet == Len(Rules) = 11 /\ \A n \in 1 .. 11 : IsRuleSet(Rules[n])
<1>1. /\ IsRuleSet(CancelledSwaps(<<0, 1>>)) /\ IsRuleSet(CancelledSwaps(<<1, 0>>))
      /\ IsRuleSet(Appending("sconcat", "sappend")) /\ IsRuleSet(Appending("concat", "append"))
  BY SwapSets, AppendSets DEF IsRuleSet
<1>2. /\ Len(Rules) = 11
      /\ Rules[1] = CancelledSwaps(<<0, 1>>) /\ Rules[2] = CancelledSwaps(<<1, 0>>)
      /\ Rules[3] = Appending("sconcat", "sappend") /\ Rules[4] = Appending("concat", "append")
      /\ Rules[5] = BranchTo(Br, Brtf(1, 2), Brt(1), <<Label(2)>>)
      /\ Rules[6] = BranchTo(Br, Brtf(2, 1), Brf(1), <<Label(2)>>)
      /\ Rules[7] = BranchTo(Br, Brtf(1, 2), Brtf(1, 2), << >>)
      /\ Rules[8] = BranchTo(Brt(0), Brt(1), Brt(1), << >>)
      /\ Rules[9] = BranchTo(Brf(0), Brf(1), Brf(1), << >>)
      /\ Rules[10] = BranchTo(Brt(0), Brt(2), Brf(1), <<Label(2)>>)
      /\ Rules[11] = BranchTo(Brf(0), Brf(2), Brt(1), <<Label(2)>>)
  BY DEF Rules
<1>3. \A n \in 1 .. 11 : n \in {1, 2, 3, 4, 5, 6, 7, 8, 9, 10, 11}
  OBVIOUS
<1>. QED
  BY <1>1, <1>2, <1>3, BranchRuleSets

-----------------------------------------------------------------------------
(* Matching                                                                *)

(* An instruction that has the name of a pattern has as many operands.     *)
LEMMA Operands ==
  ASSUME NEW p, Pattern(p), NEW names, NEW i, KeyholeLine(i, names), i.op = p.op
  PROVE  /\ Len(p.to) \in 0 .. 2 /\ DOMAIN p.to = 1 .. Len(p.to)
         /\ \A k \in DOMAIN p.to : k \in DOMAIN i.to /\ i.to[k] \in names
<1>1. Len(p.to) \in 0 .. 2 /\ DOMAIN p.to = 1 .. Len(p.to)
  <2>1. p.to \in Seq(Variables) /\ Len(p.to) <= 2
    BY DEF Pattern
  <2>2. Len(p.to) \in Nat /\ DOMAIN p.to = 1 .. Len(p.to)
    BY <2>1
  <2>3. \A n \in Nat : n <= 2 => n \in 0 .. 2
    OBVIOUS
  <2>. QED
    BY <2>1, <2>2, <2>3, Zenon
<1>2. CASE p.op = "label"
  <2>0. p.to = <<0>> \/ p.to = <<2>>
    BY <1>2 DEF Pattern
  <2>1. Len(p.to) = 1
    BY <2>0
  <2>2. i.to = <<i.to[1]>>
    BY <1>2, LabelFacts DEF KeyholeLine
  <2>3. Len(i.to) = 1
    BY <2>2
  <2>4. i.to \in Seq(names)
    BY DEF KeyholeLine
  <2>5. 1 \in DOMAIN i.to /\ i.to[1] \in names
    BY <2>3, <2>4
  <2>6. \A k \in DOMAIN p.to : k = 1
    BY <1>1, <2>1
  <2>. QED
    BY <1>1, <2>5, <2>6
<1>3. CASE p.op \in {"br", "brt", "brf"}
  BY <1>1, <1>3 DEF Pattern, KeyholeLine
<1>4. CASE p.op = "brtf"
  BY <1>1, <1>4 DEF Pattern, KeyholeLine
<1>5. CASE p.op \notin {"label", "br", "brt", "brf", "brtf"}
  BY <1>1, <1>5 DEF Pattern
<1>. QED
  BY <1>1, <1>2, <1>3, <1>4, <1>5

Few(s) == Len(s) \in 0 .. 2 /\ DOMAIN s = 1 .. Len(s)
IsBind(b, bound, numbers, operands) == b = Bind(bound, numbers, operands)
LEMMA BoundNames ==
  ASSUME NEW bound, NEW numbers, NEW operands, NEW b, IsBind(b, bound, numbers, operands)
  PROVE  DOMAIN b = DOMAIN bound \cup Range(numbers)
BY DEF Bind, IsBind

LEMMA BoundBefore ==
  ASSUME NEW bound, NEW numbers, NEW operands, NEW b, IsBind(b, bound, numbers, operands)
  PROVE  \A n \in DOMAIN bound : b[n] = bound[n]
BY DEF Bind, IsBind

LEMMA BoundNow ==
  ASSUME NEW bound, NEW numbers, NEW operands, NEW b, IsBind(b, bound, numbers, operands), Few(numbers)
  PROVE  \A k \in DOMAIN numbers : numbers[k] \notin DOMAIN bound =>
           \E l \in DOMAIN numbers :
             numbers[l] = numbers[k] /\ b[numbers[k]] = operands[l]
<1> DEFINE First(n, k) == numbers[k] = n /\ \A j \in 1 .. k - 1 : numbers[j] # n
<1>2. ASSUME NEW k \in DOMAIN numbers, numbers[k] \notin DOMAIN bound
      PROVE  \E l \in DOMAIN numbers : numbers[l] = numbers[k] /\ b[numbers[k]] = operands[l]
  <2> DEFINE n == numbers[k]
             l == CHOOSE m \in DOMAIN numbers : First(n, m)
  <2>1. \E m \in DOMAIN numbers : First(n, m)
    <3> USE DEF Few
    <3>1. CASE numbers[1] = n
      <4>1. 1 \in DOMAIN numbers
        BY <1>2
      <4>2. First(n, 1)
        BY <3>1
      <4>. QED
        BY <4>1, <4>2
    <3>2. CASE numbers[1] # n
      <4>1. k = 2
        BY <1>2, <3>2
      <4>2. First(n, k)
        BY <3>2, <4>1
      <4>. QED
        BY <4>2
    <3>. QED
      BY <3>1, <3>2
  <2>2. n \in Range(numbers)
    BY DEF Range
  <2>3. b[n] = operands[l]
    BY <1>2, <2>2 DEF Bind, IsBind
  <2> HIDE DEF First
  <2>4. l \in DOMAIN numbers /\ First(n, l)
    BY <2>1
  <2>. QED
    BY <2>3, <2>4 DEF First
<1>. QED
  BY <1>2

(* What the search knows when it has looked at the lines up to i: each     *)
(* rule before the next one is mapped by one line, of its instruction, and *)
(* the names of their patterns are bound.                                  *)
IsSearch(s) ==
  s = [map |-> s.map, inst_mapped |-> s.inst_mapped, r |-> s.r, failed |-> s.failed]
Mapped(rs, lines, im, lab, j) ==
  /\ lines[j].op = rs[im[j]].in.op
  /\ lines[j].op = "label" => 0 \in DOMAIN lab /\ lab[0] = lines[j].to[1]
Searched(rs, lines, names, i, s) ==
  /\ IsSearch(s)
  /\ s.r \in 2 .. Len(rs) + 1
  /\ s.inst_mapped \in [DOMAIN lines -> 0 .. Len(rs)]
  /\ \A j \in DOMAIN lines : s.inst_mapped[j] # 0 => j <= i /\ s.inst_mapped[j] < s.r
  /\ \A j, k \in DOMAIN lines : s.inst_mapped[j] = s.inst_mapped[k] /\ s.inst_mapped[j] # 0 => j = k
  /\ \A r \in 1 .. s.r - 1 : \E j \in DOMAIN lines : s.inst_mapped[j] = r
  /\ \A j \in DOMAIN lines :
       s.inst_mapped[j] # 0 => Mapped(rs, lines, s.inst_mapped, s.map.lab, j)
  /\ DOMAIN s.map.lab = InputNames(rs, s.r - 1)
  /\ \A n \in DOMAIN s.map.lab : s.map.lab[n] \in names

(* A line that matches a pattern binds its names.                          *)
Binds(lab, old, p, i, names) ==
  /\ i.op = p.op
  /\ DOMAIN lab = DOMAIN old \cup Range(p.to)
  /\ \A n \in DOMAIN old : lab[n] = old[n]
  /\ \A n \in DOMAIN lab : lab[n] \in names
  /\ i.op = "label" => 0 \in DOMAIN lab /\ lab[0] = i.to[1]
IsMapped(lab, map, p, i) == lab = MapOperands(map, p, i).lab
LEMMA Maps ==
  ASSUME NEW names, NEW i, KeyholeLine(i, names), NEW p, Pattern(p),
         p.op = "label" => p = Label(0),
         NEW map, CanMap(map, p, i), \A n \in DOMAIN map.lab : map.lab[n] \in names,
         NEW lab, IsMapped(lab, map, p, i)
  PROVE  Binds(lab, map.lab, p, i, names)
<1>1. IsBind(lab, map.lab, p.to, i.to)
  BY DEF MapOperands, IsBind, IsMapped
<1>2. i.op = p.op /\ \A k \in DOMAIN p.to : p.to[k] \in DOMAIN map.lab => map.lab[p.to[k]] = i.to[k]
  BY DEF CanMap
<1>3. /\ Len(p.to) \in 0 .. 2 /\ DOMAIN p.to = 1 .. Len(p.to)
      /\ \A k \in DOMAIN p.to : k \in DOMAIN i.to /\ i.to[k] \in names
  BY <1>2, Operands
<1>4. /\ DOMAIN lab = DOMAIN map.lab \cup Range(p.to)
      /\ \A n \in DOMAIN map.lab : lab[n] = map.lab[n]
      /\ \A k \in DOMAIN p.to : p.to[k] \notin DOMAIN map.lab =>
           \E l \in DOMAIN p.to : p.to[l] = p.to[k] /\ lab[p.to[k]] = i.to[l]
  <2> DEFINE numbers == p.to
             operands == i.to
             bound == map.lab
  <2>1. Few(numbers)
    BY <1>3 DEF Few
  <2>2. IsBind(lab, bound, numbers, operands)
    BY <1>1
  <2> HIDE DEF numbers, operands, bound
  <2>3. DOMAIN lab = DOMAIN bound \cup Range(numbers)
    BY <2>2, BoundNames
  <2>4. \A n \in DOMAIN bound : lab[n] = bound[n]
    BY <2>2, BoundBefore
  <2>5. \A k \in DOMAIN numbers : numbers[k] \notin DOMAIN bound =>
          \E l \in DOMAIN numbers : numbers[l] = numbers[k] /\ lab[numbers[k]] = operands[l]
    BY <2>1, <2>2, BoundNow
  <2>. QED
    BY <2>3, <2>4, <2>5 DEF numbers, operands, bound
<1>5. ASSUME NEW n \in DOMAIN lab PROVE lab[n] \in names
  <2>1. CASE n \in DOMAIN map.lab
    BY <1>4, <2>1
  <2>2. CASE n \notin DOMAIN map.lab
    <3>1. PICK k \in DOMAIN p.to : n = p.to[k]
      BY <1>4, <2>2 DEF Range
    <3>. QED
      BY <1>3, <1>4, <2>2, <3>1
  <2>. QED
    BY <2>1, <2>2
<1>6. ASSUME i.op = "label" PROVE 0 \in DOMAIN lab /\ lab[0] = i.to[1]
  <2>1. p = Label(0)
    BY <1>2, <1>6
  <2>2. p.to = <<0>>
    BY <2>1, LabelPattern
  <2>3. DOMAIN p.to = {1} /\ p.to[1] = 0
    BY <2>2, Singleton
  <2>4. 0 \in DOMAIN lab
    BY <1>4, <2>3 DEF Range
  <2>. QED
    BY <1>2, <1>4, <2>3, <2>4
<1>. QED
  BY <1>2, <1>4, <1>5, <1>6 DEF Binds

LEMMA MatchLineFields ==
  ASSUME NEW rs, NEW lines, NEW s, IsSearch(s), NEW i
  PROVE  LET t == MatchLine(rs, lines, s, i) IN
         \/ /\ IsSearch(t) /\ t.map = s.map /\ t.inst_mapped = s.inst_mapped /\ t.r = s.r
         \/ /\ ~ (s.r > Len(rs)) /\ CanMap(s.map, rs[s.r].in, lines[i])
            /\ IsSearch(t) /\ t.map = MapOperands(s.map, rs[s.r].in, lines[i])
            /\ t.inst_mapped = [s.inst_mapped EXCEPT ![i] = s.r] /\ t.r = s.r + 1
<1> DEFINE t == MatchLine(rs, lines, s, i)
           m == MapOperands(s.map, rs[s.r].in, lines[i])
           skip == MayBeSkipped(s.map, rs[s.r], lines[i])
           im == [s.inst_mapped EXCEPT ![i] = s.r]
<1>1. CASE s.failed \/ s.r > Len(rs)
  BY <1>1 DEF MatchLine
<1>2. CASE ~ (s.failed \/ s.r > Len(rs)) /\ CanMap(s.map, rs[s.r].in, lines[i])
  <2>1. t = [s EXCEPT !.map = m, !.inst_mapped = im, !.r = s.r + 1]
    BY <1>2 DEF MatchLine
  <2> HIDE DEF m, im, t
  <2>2. /\ t = [map |-> m, inst_mapped |-> im, r |-> s.r + 1, failed |-> s.failed]
    BY <2>1 DEF IsSearch
  <2>3. t.map = m /\ t.inst_mapped = im /\ t.r = s.r + 1 /\ t.failed = s.failed
    BY <2>2
  <2>4. IsSearch(t)
    BY <2>2, <2>3, Zenon DEF IsSearch
  <2>. QED
    BY <1>2, <2>3, <2>4 DEF m, im, t
<1>3. CASE ~ (s.failed \/ s.r > Len(rs)) /\ ~ CanMap(s.map, rs[s.r].in, lines[i])
  <2>1. t = [s EXCEPT !.failed = ~ skip]
    BY <1>3 DEF MatchLine
  <2> HIDE DEF skip, t
  <2>2. t = [map |-> s.map, inst_mapped |-> s.inst_mapped, r |-> s.r, failed |-> ~ skip]
    BY <2>1 DEF IsSearch
  <2>3. t.map = s.map /\ t.inst_mapped = s.inst_mapped /\ t.r = s.r /\ t.failed = ~ skip
    BY <2>2
  <2>4. IsSearch(t)
    BY <2>2, <2>3, Zenon DEF IsSearch
  <2>. QED
    BY <2>3, <2>4 DEF t
<1>. QED
  BY <1>1, <1>2, <1>3

LEMMA RuleSetFacts ==
  ASSUME NEW rs, IsRuleSet(rs)
  PROVE  /\ Len(rs) \in Nat /\ 1 <= Len(rs) /\ DOMAIN rs = 1 .. Len(rs)
         /\ \A r \in 1 .. Len(rs) :
              /\ SoundRule(rs[r]) /\ Pattern(rs[r].in)
              /\ rs[r].in.op = "label" => rs[r].in = Label(0) /\ rs[r].out = <<Label(0)>>
<1>1. IsList(rs) /\ 1 <= Len(rs) /\ \A r \in DOMAIN rs : SoundRule(rs[r])
  BY DEF IsRuleSet, RuleSet
<1>2. Len(rs) \in Nat /\ DOMAIN rs = 1 .. Len(rs)
  BY <1>1, ListFacts
<1>. QED
  BY <1>1, <1>2 DEF SoundRule

LEMMA MoreInputs ==
  ASSUME NEW rs, NEW n \in Nat
  PROVE  /\ InputNames(rs, n + 1) = InputNames(rs, n) \cup Range(rs[n + 1].in.to)
         /\ InputNames(rs, 1) = Range(rs[1].in.to)
<1>1. 1 .. n + 1 = (1 .. n) \cup {n + 1} /\ 1 .. 1 = {1}
  OBVIOUS
<1>2. InputNames(rs, n + 1) = InputNames(rs, n) \cup Range(rs[n + 1].in.to)
  BY <1>1 DEF InputNames
<1>3. InputNames(rs, 1) = Range(rs[1].in.to)
  BY <1>1 DEF InputNames
<1>. QED
  BY <1>2, <1>3

(* The first line that matches begins such a search.                       *)
LEMMA FirstSearched ==
  ASSUME NEW rs, IsRuleSet(rs), NEW names, NEW lines, AllLines(lines, names),
         NEW start \in DOMAIN lines, MapsFirst(rs[1].in, lines[start])
  PROVE  Searched(rs, lines, names, start, FirstLine(rs, lines, start))
<1> DEFINE s == FirstLine(rs, lines, start)
           p == rs[1].in
           lab == MapOperands(EmptyMap, p, lines[start]).lab
<1>1. /\ IsSearch(s) /\ s.map = MapOperands(EmptyMap, p, lines[start])
      /\ s.inst_mapped = [i \in DOMAIN lines |-> IF i = start THEN 1 ELSE 0]
      /\ s.r = 2
  BY DEF FirstLine, IsSearch
<1>2. /\ Len(rs) \in Nat /\ 1 <= Len(rs)
      /\ Pattern(p) /\ (p.op = "label" => p = Label(0))
  BY RuleSetFacts
<1>3. KeyholeLine(lines[start], names) /\ CanMap(EmptyMap, p, lines[start])
  BY DEF AllLines, MapsFirst
<1>4. DOMAIN EmptyMap.lab = {}
  BY DEF EmptyMap
<1>5. /\ lines[start].op = p.op
      /\ DOMAIN lab = DOMAIN EmptyMap.lab \cup Range(p.to)
      /\ \A n \in DOMAIN lab : lab[n] \in names
      /\ lines[start].op = "label" => 0 \in DOMAIN lab /\ lab[0] = lines[start].to[1]
  <2>1. IsMapped(lab, EmptyMap, p, lines[start]) /\ \A n \in DOMAIN EmptyMap.lab : EmptyMap.lab[n] \in names
    BY <1>4 DEF IsMapped
  <2> HIDE DEF lab, p
  <2>2. Binds(lab, EmptyMap.lab, p, lines[start], names)
    BY <1>2, <1>3, <2>1, Maps
  <2>. QED
    BY <2>2 DEF Binds
<1>6. s.map.lab = lab
  BY <1>1
<1>7. DOMAIN lab = InputNames(rs, 1)
  BY <1>4, <1>5, MoreInputs
<1>9. Len(lines) \in Nat /\ DOMAIN lines = 1 .. Len(lines)
  BY ListFacts DEF AllLines
<1> HIDE DEF s, lab, p
<1>8. /\ s.r \in 2 .. Len(rs) + 1 /\ s.r - 1 = 1
      /\ s.inst_mapped \in [DOMAIN lines -> 0 .. Len(rs)]
  BY <1>1, <1>2
<1>10. \A j \in DOMAIN lines : s.inst_mapped[j] = IF j = start THEN 1 ELSE 0
  BY <1>1
<1>11. /\ \A j \in DOMAIN lines : s.inst_mapped[j] # 0 => j <= start /\ s.inst_mapped[j] < s.r
       /\ \A j, k \in DOMAIN lines : s.inst_mapped[j] = s.inst_mapped[k] /\ s.inst_mapped[j] # 0 => j = k
       /\ \A r \in 1 .. s.r - 1 : \E j \in DOMAIN lines : s.inst_mapped[j] = r
  BY <1>1, <1>9, <1>10
<1>12. ASSUME NEW j \in DOMAIN lines, s.inst_mapped[j] # 0
       PROVE  Mapped(rs, lines, s.inst_mapped, s.map.lab, j)
  <2>1. j = start /\ s.inst_mapped[j] = 1
    BY <1>10, <1>12
  <2>. QED
    BY <1>5, <1>6, <2>1 DEF Mapped, p
<1>. QED
  BY <1>1, <1>5, <1>6, <1>7, <1>8, <1>11, <1>12 DEF Searched, s

(* A line that matches the next rule, or is skipped, continues it.         *)
LEMMA NextSearched ==
  ASSUME NEW rs, IsRuleSet(rs), NEW names, NEW lines, AllLines(lines, names),
         NEW i \in Nat, i + 1 \in DOMAIN lines, NEW s, Searched(rs, lines, names, i, s)
  PROVE  Searched(rs, lines, names, i + 1, MatchLine(rs, lines, s, i + 1))
<1> DEFINE t == MatchLine(rs, lines, s, i + 1)
           p == rs[s.r].in
           lab == MapOperands(s.map, p, lines[i + 1]).lab
<1>1. /\ IsSearch(s)
      /\ s.r \in 2 .. Len(rs) + 1
      /\ s.inst_mapped \in [DOMAIN lines -> 0 .. Len(rs)]
      /\ \A j \in DOMAIN lines : s.inst_mapped[j] # 0 => j <= i /\ s.inst_mapped[j] < s.r
      /\ \A j, k \in DOMAIN lines : s.inst_mapped[j] = s.inst_mapped[k] /\ s.inst_mapped[j] # 0 => j = k
      /\ \A r \in 1 .. s.r - 1 : \E j \in DOMAIN lines : s.inst_mapped[j] = r
      /\ \A j \in DOMAIN lines :
           s.inst_mapped[j] # 0 => Mapped(rs, lines, s.inst_mapped, s.map.lab, j)
      /\ DOMAIN s.map.lab = InputNames(rs, s.r - 1)
      /\ \A n \in DOMAIN s.map.lab : s.map.lab[n] \in names
  BY DEF Searched
<1>2. Len(rs) \in Nat /\ Len(lines) \in Nat /\ DOMAIN lines = 1 .. Len(lines)
  BY RuleSetFacts, ListFacts DEF AllLines
<1>3. CASE IsSearch(t) /\ t.map = s.map /\ t.inst_mapped = s.inst_mapped /\ t.r = s.r
  <2>1. \A j \in DOMAIN lines : j <= i => j <= i + 1
    BY <1>2
  <2> HIDE DEF t
  <2>. QED
    BY <1>1, <1>3, <2>1 DEF Searched, t
<1>4. CASE /\ ~ (s.r > Len(rs)) /\ CanMap(s.map, p, lines[i + 1])
           /\ IsSearch(t) /\ t.map = MapOperands(s.map, p, lines[i + 1])
           /\ t.inst_mapped = [s.inst_mapped EXCEPT ![i + 1] = s.r] /\ t.r = s.r + 1
  <2>1. s.r \in 1 .. Len(rs) /\ s.r \in Nat /\ s.r # 0
    BY <1>1, <1>2, <1>4
  <2>2. Pattern(p) /\ (p.op = "label" => p = Label(0))
    BY <2>1, RuleSetFacts
  <2>3. KeyholeLine(lines[i + 1], names)
    BY DEF AllLines
  <2>4. /\ lines[i + 1].op = p.op
        /\ DOMAIN lab = DOMAIN s.map.lab \cup Range(p.to)
        /\ \A n \in DOMAIN s.map.lab : lab[n] = s.map.lab[n]
        /\ \A n \in DOMAIN lab : lab[n] \in names
        /\ lines[i + 1].op = "label" => 0 \in DOMAIN lab /\ lab[0] = lines[i + 1].to[1]
    <3>1. IsMapped(lab, s.map, p, lines[i + 1])
      BY DEF IsMapped
    <3> HIDE DEF lab, p
    <3>2. Binds(lab, s.map.lab, p, lines[i + 1], names)
      BY <1>1, <1>4, <2>2, <2>3, <3>1, Maps
    <3>. QED
      BY <3>2 DEF Binds
  <2>5. t.map.lab = lab /\ t.r = s.r + 1 /\ t.r - 1 = s.r
    BY <1>4, <2>1
  <2>6. DOMAIN lab = InputNames(rs, s.r)
    <3>1. s.r - 1 \in Nat /\ (s.r - 1) + 1 = s.r
      BY <1>1, <1>2
    <3>2. InputNames(rs, (s.r - 1) + 1) = InputNames(rs, s.r - 1) \cup Range(rs[(s.r - 1) + 1].in.to)
      BY <3>1, MoreInputs
    <3>. QED
      BY <1>1, <2>4, <3>1, <3>2
  <2>7. \A j \in DOMAIN lines : t.inst_mapped[j] = IF j = i + 1 THEN s.r ELSE s.inst_mapped[j]
    BY <1>1, <1>4
  <2>8. t.r \in 2 .. Len(rs) + 1 /\ t.inst_mapped \in [DOMAIN lines -> 0 .. Len(rs)]
    <3>1. s.r \in 0 .. Len(rs) /\ s.r + 1 \in 2 .. Len(rs) + 1
      BY <1>1, <1>2, <2>1
    <3> HIDE DEF t, lab, p
    <3>2. t.inst_mapped \in [DOMAIN lines -> 0 .. Len(rs)]
      BY <1>1, <1>4, <3>1
    <3>. QED
      BY <1>4, <3>1, <3>2
  <2>9. s.inst_mapped[i + 1] = 0
    BY <1>1, <1>2
  <2>10. IsSearch(t)
    BY <1>4
  <2> HIDE DEF t, lab, p
  <2>11. \A j \in DOMAIN lines : t.inst_mapped[j] # 0 => j <= i + 1 /\ t.inst_mapped[j] < t.r
    <3>1. ASSUME NEW j \in DOMAIN lines, t.inst_mapped[j] # 0 PROVE j <= i + 1 /\ t.inst_mapped[j] < s.r + 1
      <4>1. CASE j = i + 1
        BY <1>2, <2>1, <2>7, <4>1
      <4>2. CASE j # i + 1
        <5>1. t.inst_mapped[j] = s.inst_mapped[j] /\ s.inst_mapped[j] \in Nat
          BY <1>1, <1>2, <2>7, <4>2
        <5>2. j <= i /\ s.inst_mapped[j] < s.r
          BY <1>1, <3>1, <5>1
        <5>. QED
          BY <1>2, <2>1, <5>1, <5>2
      <4>. QED
        BY <4>1, <4>2
    <3>. QED
      BY <2>5, <3>1
  <2>12. ASSUME NEW j \in DOMAIN lines, NEW k \in DOMAIN lines,
                t.inst_mapped[j] = t.inst_mapped[k], t.inst_mapped[j] # 0
         PROVE  j = k
    <3>1. \A l \in DOMAIN lines : s.inst_mapped[l] # 0 => s.inst_mapped[l] # s.r
      BY <1>1, <1>2, <2>1
    <3>. QED
      BY <1>1, <2>1, <2>7, <2>12, <3>1
  <2>13. ASSUME NEW r \in 1 .. t.r - 1
         PROVE  \E j \in DOMAIN lines : t.inst_mapped[j] = r
    <3>1. CASE r = s.r
      BY <2>7, <3>1
    <3>2. CASE r # s.r
      <4>1. r \in 1 .. s.r - 1
        BY <2>1, <2>5, <3>2
      <4>2. PICK j \in DOMAIN lines : s.inst_mapped[j] = r
        BY <1>1, <4>1
      <4>3. j # i + 1
        BY <2>9, <4>1, <4>2
      <4>. QED
        BY <2>7, <4>2, <4>3
    <3>. QED
      BY <3>1, <3>2
  <2>14. ASSUME NEW j \in DOMAIN lines, t.inst_mapped[j] # 0
         PROVE  Mapped(rs, lines, t.inst_mapped, t.map.lab, j)
    <3>1. CASE j = i + 1
      <4>1. t.inst_mapped[j] = s.r
        BY <2>7, <3>1
      <4>. QED
        BY <2>4, <2>5, <3>1, <4>1 DEF Mapped, p
    <3>2. CASE j # i + 1
      <4>1. t.inst_mapped[j] = s.inst_mapped[j]
        BY <2>7, <3>2
      <4>2. Mapped(rs, lines, s.inst_mapped, s.map.lab, j)
        BY <1>1, <2>14, <4>1
      <4>. QED
        BY <2>4, <2>5, <4>1, <4>2 DEF Mapped
    <3>. QED
      BY <3>1, <3>2
  <2>. QED
    BY <2>4, <2>5, <2>6, <2>8, <2>10, <2>11, <2>12, <2>13, <2>14 DEF Searched, t
<1>. QED
  BY <1>1, <1>3, <1>4, MatchLineFields DEF t, p

(* The search, line by line: A[i] is what it knows at line i.              *)
IsWalk(A, rs, lines, start, n) ==
  /\ A = [i \in start .. n |-> A[i]]
  /\ \A i \in start .. n : A[i] = IF i = start THEN FirstLine(rs, lines, start)
                                  ELSE MatchLine(rs, lines, A[i - 1], i)

LEMMA WalkExists ==
  ASSUME NEW rs, NEW lines, NEW start \in Nat, NEW n \in Nat, start <= n
  PROVE  \E A : IsWalk(A, rs, lines, start, n)
<1> DEFINE T == {m \in Nat : \E A : IsWalk(A, rs, lines, start, m)}
<1>1. start \in T
  <2> DEFINE A == [i \in start .. start |-> FirstLine(rs, lines, start)]
  <2>1. \A i \in start .. start : i = start
    OBVIOUS
  <2>2. IsWalk(A, rs, lines, start, start)
    BY <2>1 DEF IsWalk
  <2>. QED
    BY <2>2
<1>2. ASSUME NEW m \in start .. n - 1, m \in T
      PROVE  m + 1 \in T
  <2>1. PICK A : IsWalk(A, rs, lines, start, m)
    BY <1>2
  <2> DEFINE B == [i \in start .. m + 1 |-> IF i = m + 1 THEN MatchLine(rs, lines, A[m], i) ELSE A[i]]
  <2>2. B = [i \in start .. m + 1 |-> B[i]]
    OBVIOUS
  <2>3. ASSUME NEW i \in start .. m + 1
        PROVE  B[i] = IF i = start THEN FirstLine(rs, lines, start)
                      ELSE MatchLine(rs, lines, B[i - 1], i)
    <3>1. CASE i = m + 1
      <4>1. i # start /\ i - 1 = m /\ m \in start .. m + 1 /\ m # m + 1
        BY <3>1
      <4>2. B[m] = A[m] /\ B[i] = MatchLine(rs, lines, A[m], i)
        BY <3>1, <4>1
      <4>. QED
        BY <4>1, <4>2
    <3>2. CASE i # m + 1 /\ i # start
      <4>1. i \in start .. m /\ i - 1 \in start .. m + 1 /\ i - 1 # m + 1
        BY <3>2
      <4>2. B[i] = A[i] /\ B[i - 1] = A[i - 1]
        BY <3>2, <4>1
      <4>3. A[i] = MatchLine(rs, lines, A[i - 1], i)
        BY <2>1, <3>2, <4>1 DEF IsWalk
      <4>. QED
        BY <3>2, <4>2, <4>3
    <3>3. CASE i = start /\ i # m + 1
      <4>1. i \in start .. m
        BY <3>3
      <4>. QED
        BY <2>1, <3>3, <4>1 DEF IsWalk
    <3>. QED
      BY <3>1, <3>2, <3>3
  <2> HIDE DEF B
  <2>4. IsWalk(B, rs, lines, start, m + 1)
    BY <2>2, <2>3 DEF IsWalk
  <2>5. m + 1 \in Nat
    OBVIOUS
  <2>. QED
    BY <2>4, <2>5
<1>3. n \in T
  <2> HIDE DEF T
  <2>. QED
    BY <1>1, <1>2, Upwards
<1>. QED
  BY <1>3

LEMMA SearchIsLast ==
  ASSUME NEW rs, NEW lines, NEW start \in Nat, Len(lines) \in Nat, start <= Len(lines),
         NEW A, IsWalk(A, rs, lines, start, Len(lines))
  PROVE  Search(rs, lines, start) = A[Len(lines)]
<1> DEFINE n == Len(lines)
           Goes(f) == f = [i \in start .. n |-> IF i = start THEN FirstLine(rs, lines, start)
                                                ELSE MatchLine(rs, lines, f[i - 1], i)]
           E == CHOOSE f : Goes(f)
<1>1. Search(rs, lines, start) = E[n]
  BY DEF Search
<1>2. Goes(A)
  BY DEF IsWalk
<1>3. Goes(E)
  <2> HIDE DEF Goes
  <2>. QED
    BY <1>2
<1>4. ASSUME NEW i \in start .. n
      PROVE  E[i] = IF i = start THEN FirstLine(rs, lines, start) ELSE MatchLine(rs, lines, E[i - 1], i)
  BY <1>3
<1> HIDE DEF E, Goes
<1> DEFINE T == {m \in Nat : E[m] = A[m]}
<1>5. start \in T
  <2>1. start \in start .. n
    OBVIOUS
  <2>. QED
    BY <1>4, <2>1 DEF IsWalk
<1>6. ASSUME NEW m \in start .. n - 1, m \in T
      PROVE  m + 1 \in T
  <2>1. m + 1 \in start .. n /\ m + 1 # start /\ (m + 1) - 1 = m /\ m + 1 \in Nat
    OBVIOUS
  <2>2. E[m + 1] = MatchLine(rs, lines, E[m], m + 1)
    BY <1>4, <2>1
  <2>3. A[m + 1] = MatchLine(rs, lines, A[m], m + 1)
    BY <2>1 DEF IsWalk
  <2>. QED
    BY <1>6, <2>1, <2>2, <2>3
<1>7. n \in T
  <2> HIDE DEF T
  <2>. QED
    BY <1>5, <1>6, Upwards
<1>. QED
  BY <1>1, <1>7

(* So it is when the search ends, however many lines were skipped.         *)
LEMMA SearchSearched ==
  ASSUME NEW rs, IsRuleSet(rs), NEW names, NEW lines, AllLines(lines, names),
         NEW start \in DOMAIN lines, MapsFirst(rs[1].in, lines[start])
  PROVE  Searched(rs, lines, names, Len(lines), Search(rs, lines, start))
<1> DEFINE n == Len(lines)
<1>1. n \in Nat /\ DOMAIN lines = 1 .. n
  BY ListFacts DEF AllLines
<1>2. start \in Nat /\ start <= n
  BY <1>1
<1> HIDE DEF n
<1>3. PICK A : IsWalk(A, rs, lines, start, n)
  BY <1>1, <1>2, WalkExists
<1>4. Search(rs, lines, start) = A[n]
  BY <1>1, <1>2, <1>3, SearchIsLast DEF n
<1> DEFINE T == {m \in Nat : Searched(rs, lines, names, m, A[m])}
<1>5. start \in T
  <2>1. start \in start .. n
    BY <1>1, <1>2
  <2>2. A[start] = FirstLine(rs, lines, start)
    BY <1>3, <2>1 DEF IsWalk
  <2>. QED
    BY <1>2, <2>2, FirstSearched
<1>6. ASSUME NEW m \in start .. n - 1, m \in T
      PROVE  m + 1 \in T
  <2>1. m \in Nat /\ m + 1 \in Nat /\ m + 1 \in start .. n /\ m + 1 # start /\ (m + 1) - 1 = m
    BY <1>1, <1>2
  <2>2. m + 1 \in DOMAIN lines
    BY <1>1, <2>1
  <2>3. A[m + 1] = MatchLine(rs, lines, A[m], m + 1)
    BY <1>3, <2>1 DEF IsWalk
  <2>4. Searched(rs, lines, names, m, A[m])
    BY <1>6
  <2>5. Searched(rs, lines, names, m + 1, MatchLine(rs, lines, A[m], m + 1))
    BY <2>1, <2>2, <2>4, NextSearched
  <2>. QED
    BY <2>1, <2>3, <2>5
<1>7. n \in T
  <2> HIDE DEF T
  <2>. QED
    BY <1>1, <1>2, <1>5, <1>6, Upwards
<1>. QED
  BY <1>4, <1>7 DEF n

-----------------------------------------------------------------------------
(* Rewriting                                                               *)

LEMMA FilledLabel ==
  ASSUME NEW map, NEW n
  PROVE  Fill(map, Label(n)) = Label(map.lab[n])
<1> DEFINE x == map.lab[n]
           t == [k \in DOMAIN <<n>> |-> map.lab[<<n>>[k]]]
           r == [k \in DOMAIN << >> |-> map.reg[<< >>[k]]]
<1>1. Label(n).op = "label" /\ Label(n).to = <<n>> /\ Label(n).regs = << >>
  BY DEF Label, Line
<1>2. Fill(map, Label(n)) = Line("label", t, r)
  BY <1>1, Zenon DEF Fill
<1>3. t = <<x>>
  <2>1. t \in [1 .. 1 -> {x}]
    BY Singleton
  <2>2. t \in Seq({x}) /\ Len(t) = 1
    BY <2>1
  <2>. QED
    BY <2>1, <2>2
<1>4. r = << >>
  <2>1. DOMAIN << >> = {}
    BY EmptyList
  <2>. QED
    BY <2>1
<1> HIDE DEF t, r
<1>. QED
  BY <1>2, <1>3, <1>4 DEF Label

LEMMA Filled ==
  ASSUME NEW p, Pattern(p), NEW map, NEW names,
         \A n \in Range(p.to) : map.lab[n] \in names
  PROVE  /\ Fill(map, p).op = p.op
         /\ p.op # "label" => KeyholeLine(Fill(map, p), names)
<1> DEFINE t == [k \in DOMAIN p.to |-> map.lab[p.to[k]]]
<1>1. Fill(map, p).op = p.op /\ Fill(map, p).to = t
  BY DEF Fill, Line
<1>2. p.to \in Seq(Variables)
  BY DEF Pattern
<1>3. DOMAIN p.to = 1 .. Len(p.to) /\ Len(p.to) \in Nat
  BY <1>2
<1>4. \A k \in DOMAIN p.to : map.lab[p.to[k]] \in names
  BY DEF Range
<1>5. t \in [1 .. Len(p.to) -> names]
  BY <1>3, <1>4
<1>6. t \in Seq(names) /\ Len(t) = Len(p.to)
  BY <1>3, <1>5
<1> HIDE DEF t
<1>. QED
  BY <1>1, <1>6 DEF KeyholeLine, Pattern

LEMMA LabelLine ==
  ASSUME NEW names, NEW l \in names
  PROVE  KeyholeLine(Label(l), names)
<1>1. <<l>> \in Seq(names)
  OBVIOUS
<1>. QED
  BY <1>1, LabelFacts DEF KeyholeLine

(* A line alone.                                                           *)
LEMMA Alone ==
  ASSUME NEW line
  PROVE  /\ \A l : line = Label(l) => Once(<<line>>, {l})
         /\ line.op # "label" => Once(<<line>>, {})
         /\ \A names : KeyholeLine(line, names) => AllLines(<<line>>, names)
<1>1. IsList(<<line>>) /\ DOMAIN <<line>> = {1} /\ <<line>>[1] = line
  BY Singleton
<1>2. ASSUME NEW l, line = Label(l) PROVE Once(<<line>>, {l})
  BY <1>1, <1>2, LabelFacts DEF Once
<1>3. ASSUME line.op # "label" PROVE Once(<<line>>, {})
  BY <1>1, <1>3 DEF Once
<1>4. ASSUME NEW names, KeyholeLine(line, names) PROVE AllLines(<<line>>, names)
  BY <1>1, <1>4 DEF AllLines
<1>. QED
  BY <1>2, <1>3, <1>4

(* The lines a rule puts in the place of one.                              *)
IsPiece(piece, map, out) == piece = [k \in DOMAIN out |-> Fill(map, out[k])]
LEMMA PieceList ==
  ASSUME NEW map, NEW out, IsList(out), NEW piece, IsPiece(piece, map, out)
  PROVE  /\ IsList(piece) /\ DOMAIN piece = DOMAIN out
         /\ \A k \in DOMAIN out : piece[k] = Fill(map, out[k])
<1>1. Len(out) \in Nat /\ DOMAIN out = 1 .. Len(out)
  BY ListFacts
<1>2. DOMAIN piece = DOMAIN out /\ \A k \in DOMAIN out : piece[k] = Fill(map, out[k])
  BY DEF IsPiece
<1>3. piece \in [1 .. Len(out) -> Range(piece)]
  BY <1>1, <1>2 DEF IsPiece, Range
<1>4. piece \in Seq(Range(piece))
  BY <1>1, <1>3
<1>. QED
  BY <1>2, <1>4 DEF IsList

(* What the new label of a rule set is named, and which line defines which *)
(* label when the rules are applied.                                       *)
Added(u, new) == {Unique(u) : n \in new}
Own(rs, lines, im, u, new, j) ==
  IF lines[j].op = "label" THEN {lines[j].to[1]}
  ELSE IF im[j] = Len(rs) THEN Added(u, new) ELSE {}

(* The names for the rewritten lines: those that were bound, and new ones. *)
Renames(lab, rs, new, old, u, names) ==
  /\ \A n \in DOMAIN old : lab[n] = old[n]
  /\ \A n \in OutputNames(rs) : lab[n] \in names \cup Added(u, new)
  /\ \A n \in new : lab[n] = Unique(u)

LEMMA Renamed ==
  ASSUME NEW rs, NEW new, RuleSet(rs, new), NEW names, NEW lines, NEW u,
         NEW s, Searched(rs, lines, names, Len(lines), s), s.r > Len(rs)
  PROVE  /\ NewLabels(rs, s.map) = new
         /\ Renames(MappedLabels(rs, s.map, u), rs, new, s.map.lab, u, names)
<1> DEFINE lab == MappedLabels(rs, s.map, u)
           old == s.map.lab
<1>1. Len(rs) \in Nat /\ s.r \in 2 .. Len(rs) + 1
  BY RuleSetFacts DEF Searched, IsRuleSet, RuleSet
<1>2. s.r - 1 = Len(rs)
  BY <1>1
<1>3. DOMAIN old = InputNames(rs, Len(rs)) /\ \A n \in DOMAIN old : old[n] \in names
  BY <1>2 DEF Searched
<1>4. /\ OutputNames(rs) \subseteq InputNames(rs, Len(rs)) \cup new
      /\ new \subseteq OutputNames(rs) /\ new \cap InputNames(rs, Len(rs)) = {}
  BY DEF RuleSet
<1>5. NewLabels(rs, s.map) = new
  BY <1>3, <1>4 DEF NewLabels
<1>6. lab = [n \in DOMAIN old \cup new |-> IF n \in DOMAIN old THEN old[n] ELSE Unique(u)]
  BY <1>5 DEF MappedLabels
<1> HIDE DEF lab, old
<1>7. \A n \in DOMAIN old : lab[n] = old[n]
  BY <1>6
<1>8. \A n \in new : lab[n] = Unique(u)
  BY <1>3, <1>4, <1>6
<1>9. ASSUME NEW n \in OutputNames(rs) PROVE lab[n] \in names \cup Added(u, new)
  BY <1>3, <1>4, <1>7, <1>8 DEF Added
<1>. QED
  BY <1>5, <1>7, <1>8, <1>9 DEF Renames, lab, old

(* The output of a rule defines what the line had defined, or the new      *)
(* label.                                                                  *)
LEMMA RulePiece ==
  ASSUME NEW rs, NEW new, RuleSet(rs, new), NEW names, NEW lines, AllLines(lines, names), NEW u,
         NEW s, Searched(rs, lines, names, Len(lines), s),
         NEW map, Renames(map.lab, rs, new, s.map.lab, u, names),
         NEW M, Once(lines, M),
         NEW j \in DOMAIN lines, s.inst_mapped[j] # 0,
         NEW piece, IsPiece(piece, map, rs[s.inst_mapped[j]].out)
  PROVE  /\ Once(piece, Own(rs, lines, s.inst_mapped, u, new, j))
         /\ AllLines(piece, names \cup Added(u, new))
<1> DEFINE r == s.inst_mapped[j]
           out == rs[r].out
           more == names \cup Added(u, new)
           own == Own(rs, lines, s.inst_mapped, u, new, j)
<1>1. Len(rs) \in Nat /\ DOMAIN rs = 1 .. Len(rs) /\ IsRuleSet(rs) /\ IsList(rs)
  BY RuleSetFacts DEF IsRuleSet, RuleSet
<1>2. r \in 1 .. Len(rs)
  <2>1. r \in 0 .. Len(rs)
    BY DEF Searched
  <2>. QED
    BY <1>1, <2>1
<1>3. Mapped(rs, lines, s.inst_mapped, s.map.lab, j)
  BY DEF Searched
<1>4. lines[j].op = rs[r].in.op
  BY <1>3 DEF Mapped
<1>5. SoundRule(rs[r])
  BY <1>1, <1>2, RuleSetFacts
<1>6. IsList(out) /\ \A k \in DOMAIN out : Pattern(out[k])
  BY <1>5 DEF SoundRule
<1>7. IsPiece(piece, map, out)
  OBVIOUS
<1> HIDE DEF out
<1>8. /\ IsList(piece) /\ DOMAIN piece = DOMAIN out
      /\ \A k \in DOMAIN out : piece[k] = Fill(map, out[k])
  BY <1>6, <1>7, PieceList
<1>9. CASE lines[j].op = "label"
  <2>1. out = <<Label(0)>>
    BY <1>4, <1>5, <1>9 DEF SoundRule, out
  <2>2. DOMAIN out = {1} /\ out[1] = Label(0)
    BY <2>1, Singleton
  <2>3. piece[1] = Label(map.lab[0])
    BY <1>8, <2>2, FilledLabel
  <2>4. 0 \in DOMAIN s.map.lab /\ s.map.lab[0] = lines[j].to[1]
    BY <1>3, <1>9 DEF Mapped
  <2>5. map.lab[0] = lines[j].to[1]
    BY <2>4 DEF Renames
  <2>6. lines[j] = Label(lines[j].to[1])
    BY <1>9 DEF Once
  <2>7. piece[1] = lines[j]
    BY <2>3, <2>5, <2>6
  <2>8. own = {lines[j].to[1]}
    BY <1>9 DEF Own
  <2>9. \A k \in DOMAIN piece : k = 1
    BY <1>8, <2>2
  <2>10. 1 \in DOMAIN piece
    BY <1>8, <2>2
  <2>11. Once(piece, own)
    <3>1. \A l \in own : l = lines[j].to[1]
      BY <2>8
    <3>2. lines[j].to[1] \in own
      BY <2>8
    <3> HIDE DEF own
    <3>. QED
      BY <2>6, <2>7, <2>9, <2>10, <3>1, <3>2 DEF Once
  <2>12. KeyholeLine(lines[j], more)
    BY LineAmong DEF AllLines
  <2>13. AllLines(piece, more)
    <3> HIDE DEF more
    <3>. QED
      BY <1>8, <2>7, <2>9, <2>12 DEF AllLines
  <2>. QED
    BY <2>11, <2>13
<1>10. CASE lines[j].op # "label"
  <2>1. own = IF r = Len(rs) THEN Added(u, new) ELSE {}
    BY <1>10 DEF Own
  <2>2. \A k \in DOMAIN out : out[k].op = "label" => out[k] = Label(2) /\ new = {2} /\ r = Len(rs)
    BY <1>1, <1>2, <1>4, <1>10 DEF RuleSet, out
  <2>3. \A k \in DOMAIN out : \A n \in Range(out[k].to) : map.lab[n] \in more
    <3>1. \A k \in DOMAIN out : \A n \in Range(out[k].to) : n \in OutputNames(rs)
      BY <1>1, <1>2, Names DEF out
    <3>. QED
      BY <3>1 DEF Renames
  <2>4. ASSUME NEW k \in DOMAIN out, out[k].op = "label"
        PROVE  piece[k] = Label(Unique(u)) /\ new = {2} /\ r = Len(rs) /\ Unique(u) \in own
    <3>1. out[k] = Label(2) /\ new = {2} /\ r = Len(rs)
      BY <2>2, <2>4
    <3>2. map.lab[2] = Unique(u)
      BY <3>1 DEF Renames
    <3>3. piece[k] = Label(map.lab[2])
      BY <1>8, <3>1, FilledLabel
    <3>4. Unique(u) \in Added(u, new)
      BY <3>1 DEF Added
    <3>. QED
      BY <2>1, <3>1, <3>2, <3>3, <3>4
  <2>5. ASSUME NEW k \in DOMAIN out
        PROVE  piece[k].op = out[k].op /\ KeyholeLine(piece[k], more)
    <3>1. piece[k] = Fill(map, out[k]) /\ Pattern(out[k])
      BY <1>6, <1>8
    <3>2. \A n \in Range(out[k].to) : map.lab[n] \in more
      BY <2>3
    <3> HIDE DEF more
    <3>3. /\ Fill(map, out[k]).op = out[k].op
          /\ out[k].op # "label" => KeyholeLine(Fill(map, out[k]), more)
      BY <3>1, <3>2, Filled
    <3>4. ASSUME out[k].op = "label" PROVE KeyholeLine(piece[k], more)
      <4>1. piece[k] = Label(Unique(u)) /\ new = {2}
        BY <2>4, <3>4
      <4>2. Unique(u) \in more
        BY <4>1 DEF more, Added
      <4>. QED
        BY <4>1, <4>2, LabelLine
    <3>. QED
      BY <3>1, <3>3, <3>4
  <2>6. AllLines(piece, more)
    <3> HIDE DEF more
    <3>. QED
      BY <1>8, <2>5 DEF AllLines
  <2>7. CASE own = {}
    <3>1. \A k \in DOMAIN out : out[k].op # "label"
      BY <2>4, <2>7
    <3> HIDE DEF own
    <3>2. Once(piece, {})
      BY <1>8, <2>5, <3>1 DEF Once
    <3>. QED
      BY <2>6, <2>7, <3>2 DEF own
  <2>8. CASE own # {}
    <3>1. r = Len(rs) /\ own = Added(u, new) /\ new # {}
      BY <2>1, <2>8 DEF Added
    <3>2. new = {2} /\ own = {Unique(u)}
      BY <3>1 DEF RuleSet, Added
    <3>3. PICK k \in DOMAIN out : out[k] = Label(2) /\ \A l \in DOMAIN out : out[l].op = "label" => l = k
      BY <3>1, <3>2 DEF RuleSet, out
    <3>4. out[k].op = "label"
      BY <3>3, LabelFacts
    <3>5. piece[k] = Label(Unique(u))
      BY <2>4, <3>4
    <3>6. \A l \in DOMAIN piece : piece[l].op = "label" => l = k
      BY <1>8, <2>5, <3>3
    <3>7. k \in DOMAIN piece /\ Label(Unique(u)).op = "label" /\ Label(Unique(u)).to[1] = Unique(u)
      BY <1>8, LabelFacts
    <3> HIDE DEF own, r
    <3>8. Once(piece, {Unique(u)})
      <4> DEFINE x == Unique(u)
      <4> HIDE DEF x
      <4>1. piece[k] = Label(x) /\ Label(x).op = "label" /\ Label(x).to[1] = x
        BY <3>5, <3>7 DEF x
      <4>2. Once(piece, {x})
        BY <3>6, <3>7, <4>1 DEF Once
      <4>. QED
        BY <4>2 DEF x
    <3>. QED
      BY <2>6, <3>2, <3>8 DEF own
  <2>. QED
    BY <2>7, <2>8
<1>. QED
  BY <1>9, <1>10

(* Applying the rules of a set keeps the labels, and defines the new one.  *)
LEMMA RewrittenOnce ==
  ASSUME NEW rs, NEW new, RuleSet(rs, new), NEW names, NEW lines, AllLines(lines, names),
         NEW start \in DOMAIN lines, NEW u,
         NEW s, Searched(rs, lines, names, Len(lines), s), s.r > Len(rs),
         NEW M, Once(lines, M), Unique(u) \notin M
  PROVE  /\ NewLabels(rs, s.map) = new
         /\ Once(Rewritten(rs, s, lines, u), M \cup Added(u, new))
         /\ AllLines(Rewritten(rs, s, lines, u), names \cup Added(u, new))
<1> DEFINE map == [reg |-> s.map.reg, lab |-> MappedLabels(rs, s.map, u)]
           im == s.inst_mapped
           more == names \cup Added(u, new)
           Piece(i) == IF im[i] = 0 THEN <<lines[i]>>
                       ELSE [k \in DOMAIN rs[im[i]].out |-> Fill(map, rs[im[i]].out[k])]
           p == [i \in DOMAIN lines |-> Piece(i)]
           own == [j \in DOMAIN lines |-> Own(rs, lines, im, u, new, j)]
<1>1. Rewritten(rs, s, lines, u) = FlattenSeq(p)
  BY DEF Rewritten
<1>2. /\ NewLabels(rs, s.map) = new
      /\ Renames(map.lab, rs, new, s.map.lab, u, names)
  BY Renamed
<1>3. /\ Len(rs) \in Nat /\ 1 <= Len(rs) /\ DOMAIN rs = 1 .. Len(rs)
      /\ Len(lines) \in Nat /\ DOMAIN lines = 1 .. Len(lines) /\ 1 <= Len(lines)
  <2>1. Len(rs) \in Nat /\ 1 <= Len(rs) /\ DOMAIN rs = 1 .. Len(rs)
    <3>1. new = {} \/ new = {2}
      BY DEF RuleSet
    <3>2. IsRuleSet(rs)
      BY <3>1 DEF IsRuleSet
    <3>. QED
      BY <3>2, RuleSetFacts
  <2>2. Len(lines) \in Nat /\ DOMAIN lines = 1 .. Len(lines)
    BY ListFacts DEF AllLines
  <2>. QED
    BY <2>1, <2>2
<1>4. ASSUME NEW j \in DOMAIN lines
      PROVE  Once(p[j], own[j]) /\ AllLines(p[j], more)
  <2>1. own[j] = Own(rs, lines, im, u, new, j) /\ p[j] = Piece(j)
    OBVIOUS
  <2>2. CASE im[j] = 0
    <3>1. p[j] = <<lines[j]>>
      BY <2>1, <2>2
    <3>2. own[j] = IF lines[j].op = "label" THEN {lines[j].to[1]} ELSE {}
      BY <1>3, <2>1, <2>2 DEF Own
    <3>3. KeyholeLine(lines[j], more)
      BY LineAmong DEF AllLines
    <3>4. lines[j].op = "label" => lines[j] = Label(lines[j].to[1])
      BY DEF Once
    <3> HIDE DEF p, own, more
    <3>5. AllLines(p[j], more)
      BY <3>1, <3>3, Alone
    <3>6. Once(p[j], own[j])
      BY <3>1, <3>2, <3>4, Alone
    <3>. QED
      BY <3>5, <3>6
  <2>3. CASE im[j] # 0
    <3>1. IsPiece(p[j], map, rs[im[j]].out)
      BY <2>1, <2>3 DEF IsPiece
    <3> HIDE DEF p, own, map
    <3>2. /\ Once(p[j], Own(rs, lines, s.inst_mapped, u, new, j))
          /\ AllLines(p[j], names \cup Added(u, new))
      BY <1>2, <2>3, <3>1, RulePiece
    <3>. QED
      BY <2>1, <3>2
  <2>. QED
    BY <2>2, <2>3
<1>5. IsList(p) /\ Len(p) = Len(lines) /\ 1 <= Len(p)
  <2>1. p \in [1 .. Len(lines) -> Range(p)]
    BY <1>3 DEF Range
  <2> HIDE DEF p
  <2>2. p \in Seq(Range(p)) /\ Len(p) = Len(lines)
    BY <1>3, <2>1
  <2>. QED
    BY <1>3, <2>2 DEF IsList
<1>6. ASSUME NEW j \in DOMAIN lines
      PROVE  own[j] = IF lines[j].op = "label" THEN {lines[j].to[1]}
                      ELSE IF im[j] = Len(rs) THEN Added(u, new) ELSE {}
  BY DEF Own
<1>7. ASSUME NEW j \in DOMAIN lines, lines[j].op = "label"
      PROVE  lines[j] = Label(lines[j].to[1]) /\ lines[j].to[1] \in M
  BY <1>7 DEF Once
<1>8. \A x \in Added(u, new) : x = Unique(u)
  BY DEF Added
<1> HIDE DEF p, own, map, Piece
<1>9. ASSUME NEW j \in DOMAIN lines, NEW k \in DOMAIN lines, j # k, NEW x \in own[j], x \in own[k]
      PROVE  FALSE
  <2>1. CASE lines[j].op = "label" /\ lines[k].op = "label"
    <3>0. x = lines[j].to[1] /\ x = lines[k].to[1]
      <4>1. own[j] = {lines[j].to[1]} /\ own[k] = {lines[k].to[1]}
        BY <1>6, <2>1
      <4>. QED
        BY <1>9, <4>1
    <3>1. lines[j] = lines[k]
      <4>1. lines[j] = Label(x) /\ lines[k] = Label(x)
        BY <1>7, <2>1, <3>0
      <4>. QED
        BY <4>1
    <3>. QED
      BY <1>9, <2>1, <3>1 DEF Once
  <2>2. CASE lines[j].op # "label" /\ lines[k].op # "label"
    <3>1. im[j] = Len(rs) /\ im[k] = Len(rs)
      BY <1>6, <1>9, <2>2
    <3>. QED
      BY <1>3, <1>9, <3>1 DEF Searched
  <2>3. CASE lines[j].op = "label" /\ lines[k].op # "label"
    BY <1>6, <1>7, <1>8, <1>9, <2>3
  <2>4. CASE lines[j].op # "label" /\ lines[k].op = "label"
    BY <1>6, <1>7, <1>8, <1>9, <2>4
  <2>. QED
    BY <2>1, <2>2, <2>3, <2>4
<1> DEFINE all == UNION {own[j] : j \in 1 .. Len(p)}
<1>10. Once(FlattenSeq(p), all) /\ AllLines(FlattenSeq(p), more)
  <2>1. \A j \in 1 .. Len(p) : Once(p[j], own[j]) /\ AllLines(p[j], more)
    BY <1>3, <1>4, <1>5
  <2>2. \A j, k \in 1 .. Len(p) : j # k => own[j] \cap own[k] = {}
    BY <1>3, <1>5, <1>9
  <2> HIDE DEF more
  <2>. QED
    BY <1>5, <2>1, <2>2, FlatOnce
<1>11. \A x : x \in all <=> \E j \in DOMAIN lines : x \in own[j]
  BY <1>3, <1>5
<1> HIDE DEF all
<1>12. ASSUME NEW x \in all PROVE x \in M \cup Added(u, new)
  <2>1. PICK j \in DOMAIN lines : x \in own[j]
    BY <1>11, <1>12
  <2>. QED
    BY <1>6, <1>7, <2>1
<1>13. ASSUME NEW x \in M PROVE x \in all
  <2>1. PICK j \in DOMAIN lines : lines[j] = Label(x)
    BY DEF Once
  <2>2. lines[j].op = "label" /\ lines[j].to[1] = x
    BY <2>1, LabelFacts
  <2>3. x \in own[j]
    BY <1>6, <2>2
  <2>. QED
    BY <1>11, <2>3
<1>14. ASSUME NEW x \in Added(u, new) PROVE x \in all
  <2>1. new = {2}
    BY DEF RuleSet, Added
  <2>2. rs[Len(rs)].in.op # "label"
    BY <2>1 DEF RuleSet
  <2>3. Len(rs) \in 1 .. s.r - 1
    BY <1>3 DEF Searched
  <2>4. PICK j \in DOMAIN lines : im[j] = Len(rs)
    BY <2>3 DEF Searched
  <2>5. lines[j].op = rs[Len(rs)].in.op
    BY <1>3, <2>4 DEF Searched, Mapped
  <2>6. x \in own[j]
    BY <1>6, <2>2, <2>4, <2>5
  <2>. QED
    BY <1>11, <2>6
<1>15. all = M \cup Added(u, new)
  BY <1>12, <1>13, <1>14
<1>. QED
  BY <1>1, <1>2, <1>10, <1>15 DEF more

-----------------------------------------------------------------------------
(* The rules, one set after the other, on the queue.                       *)

LEMMA MinAmong ==
  ASSUME NEW S \in SUBSET Nat, S # {}
  PROVE  Min(S) \in S
<1>1. IsWellFoundedOn(OpToRel(<, Nat), Nat)
  BY NatLessThanWellFounded
<1>2. \E x \in S : \A y \in S : ~ (<<y, x>> \in OpToRel(<, Nat))
  BY <1>1, WFMin
<1>3. PICK x \in S : \A y \in S : ~ (<<y, x>> \in OpToRel(<, Nat))
  BY <1>2
<1>4. \A y \in S : ~ (y < x)
  BY <1>3 DEF OpToRel
<1>5. \A y \in S : x <= y
  BY <1>4
<1>. QED
  BY <1>5 DEF Min

(* The labels the optimiser has added when its counter is at n.            *)
Uniques(n) == {Unique(k) : k \in 0 .. n - 1}

(* The next unique label is neither a name of the source nor one of those  *)
(* made before.                                                            *)
LEMMA NextUnique ==
  ASSUME NEW n \in Nat
  PROVE  /\ Unique(n) \notin Uniques(n) /\ Unique(n) \notin Name
         /\ Uniques(n + 1) = Uniques(n) \cup {Unique(n)} /\ Uniques(0) = {}
<1>1. \A k, m : Unique(k) = Unique(m) => k = m
  BY DEF Unique
<1>2. Unique(n) \in UniqueLabels
  BY DEF Unique, UniqueLabels
<1>3. Unique(n) \notin Name
  BY <1>2, KeyholeAssumption
<1>4. 0 .. (n + 1) - 1 = (0 .. n - 1) \cup {n} /\ n \notin 0 .. n - 1 /\ 0 .. 0 - 1 = {}
  OBVIOUS
<1>5. Unique(n) \notin Uniques(n)
  BY <1>1, <1>4 DEF Uniques
<1>6. Uniques(n + 1) = Uniques(n) \cup {Unique(n)}
  BY <1>4 DEF Uniques
<1>7. Uniques(0) = {}
  BY <1>4 DEF Uniques
<1>. QED
  BY <1>3, <1>5, <1>6, <1>7

(* The queue, and the labels that are not in the code that has left it.    *)
Queued(state, names, defined, gone, least) ==
  /\ least \in Nat /\ least <= state.counter
  /\ state.counter \in Nat /\ state.changed \in BOOLEAN
  /\ AllLines(state.queue, names \cup Uniques(state.counter))
  /\ gone \subseteq defined \cup Uniques(state.counter)
  /\ Once(state.queue, (defined \cup Uniques(state.counter)) \ gone)

(* A rule set that matches in the queue, at whatever line, keeps what is   *)
(* defined there and adds at most the next unique label.                   *)
LEMMA RuleInQueue ==
  ASSUME NEW rs, IsRuleSet(rs), NEW names, NEW defined \in SUBSET Name, NEW gone, NEW least,
         NEW state, Queued(state, names, defined, gone, least)
  PROVE  Queued(OptimiseRuleInQueue(state, rs), names, defined, gone, least)
<1> DEFINE q == state.queue
           n == state.counter
           starts == {i \in DOMAIN q : Matches(rs, q, i)}
           s == Search(rs, q, Min(starts))
           M == (defined \cup Uniques(n)) \ gone
           among == names \cup Uniques(n)
           r == Rewritten(rs, s, q, n)
           after == OptimiseRuleInQueue(state, rs)
<1>1. /\ n \in Nat /\ least \in Nat /\ least <= n /\ state.changed \in BOOLEAN /\ AllLines(q, among)
      /\ gone \subseteq defined \cup Uniques(n) /\ Once(q, M)
  BY DEF Queued
<1>2. CASE starts = {}
  BY <1>2 DEF OptimiseRuleInQueue
<1>3. CASE starts # {}
  <2>1. Len(q) \in Nat /\ DOMAIN q = 1 .. Len(q)
    BY <1>1, ListFacts DEF AllLines
  <2>2. starts \in SUBSET Nat
    BY <2>1
  <2>3. Min(starts) \in starts
    <3> HIDE DEF starts
    <3>. QED
      BY <1>3, <2>2, MinAmong
  <2>4. after = [queue |-> r, counter |-> n + Cardinality(NewLabels(rs, s.map)), changed |-> TRUE]
    BY <1>3 DEF OptimiseRuleInQueue
  <2> DEFINE first == Min(starts)
  <2>5. first \in DOMAIN q /\ Matches(rs, q, first)
    BY <2>3
  <2>6. s = Search(rs, q, first)
    OBVIOUS
  <2> HIDE DEF first, starts, s
  <2>7. MapsFirst(rs[1].in, q[first]) /\ s.r > Len(rs)
    BY <2>5, <2>6 DEF Matches, Found
  <2> HIDE DEF q, n, among, M, r, after
  <2>8. Searched(rs, q, among, Len(q), s)
    BY <1>1, <2>5, <2>6, <2>7, SearchSearched
  <2>9. Unique(n) \notin M
    BY <1>1, NextUnique DEF M
  <2>10. PICK new : RuleSet(rs, new) /\ (new = {} \/ new = {2})
    BY DEF IsRuleSet
  <2>11. /\ NewLabels(rs, s.map) = new
         /\ Once(Rewritten(rs, s, q, n), M \cup Added(n, new))
         /\ AllLines(Rewritten(rs, s, q, n), among \cup Added(n, new))
    BY <1>1, <2>5, <2>7, <2>8, <2>9, <2>10, RewrittenOnce
  <2>12. /\ after.queue = r /\ after.counter = n + Cardinality(new) /\ after.changed = TRUE
    BY <2>4, <2>11
  <2>13. CASE new = {}
    <3>1. Cardinality(new) = 0
      BY <2>13, FS_EmptySet
    <3>2. after.counter = n
      BY <1>1, <2>12, <3>1
    <3>3. Added(n, new) = {}
      BY <2>13 DEF Added
    <3>4. M \cup Added(n, new) = M /\ among \cup Added(n, new) = among
      BY <3>3
    <3>. QED
      BY <1>1, <2>11, <2>12, <3>2, <3>4 DEF Queued, M, among, r, after
  <2>14. CASE new = {2}
    <3>1. Cardinality(new) = 1
      BY <2>14, FS_Singleton
    <3>2. after.counter = n + 1 /\ n + 1 \in Nat /\ least <= n + 1
      BY <1>1, <2>12, <3>1
    <3>3. Added(n, new) = {Unique(n)}
      BY <2>14 DEF Added
    <3>4. Uniques(n + 1) = Uniques(n) \cup {Unique(n)} /\ Unique(n) \notin Uniques(n) /\ Unique(n) \notin Name
      BY <1>1, NextUnique
    <3>5. M \cup Added(n, new) = (defined \cup Uniques(n + 1)) \ gone
      BY <1>1, <3>3, <3>4 DEF M
    <3>6. among \cup Added(n, new) = names \cup Uniques(n + 1)
      BY <3>3, <3>4 DEF among
    <3>7. gone \subseteq defined \cup Uniques(n + 1)
      BY <1>1, <3>4
    <3>. QED
      BY <2>11, <2>12, <3>2, <3>5, <3>6, <3>7 DEF Queued, r, after
  <2>. QED
    BY <2>10, <2>13, <2>14 DEF after
<1>. QED
  BY <1>2, <1>3

(* The eleven of them: A[n] is the state after n.                          *)
IsApplied(A, state, n) ==
  /\ A = [k \in 0 .. n |-> A[k]]
  /\ \A k \in 0 .. n : A[k] = IF k = 0 THEN state ELSE OptimiseRuleInQueue(A[k - 1], Rules[k])

LEMMA AppliedExists ==
  ASSUME NEW state, NEW n \in Nat
  PROVE  \E A : IsApplied(A, state, n)
<1> DEFINE T == {m \in Nat : \E A : IsApplied(A, state, m)}
<1>1. 0 \in T
  <2> DEFINE A == [k \in 0 .. 0 |-> state]
  <2>1. \A k \in 0 .. 0 : k = 0
    OBVIOUS
  <2>2. IsApplied(A, state, 0)
    BY <2>1 DEF IsApplied
  <2>. QED
    BY <2>2
<1>2. ASSUME NEW m \in T \cap Nat
      PROVE  m + 1 \in T
  <2>1. PICK A : IsApplied(A, state, m)
    BY <1>2
  <2> DEFINE B == [k \in 0 .. m + 1 |-> IF k = m + 1 THEN OptimiseRuleInQueue(A[m], Rules[k]) ELSE A[k]]
  <2>2. B = [k \in 0 .. m + 1 |-> B[k]]
    OBVIOUS
  <2>3. ASSUME NEW k \in 0 .. m + 1
        PROVE  B[k] = IF k = 0 THEN state ELSE OptimiseRuleInQueue(B[k - 1], Rules[k])
    <3>1. CASE k = m + 1
      <4>1. k # 0 /\ k - 1 = m /\ m \in 0 .. m + 1 /\ m # m + 1
        BY <3>1
      <4>2. B[m] = A[m] /\ B[k] = OptimiseRuleInQueue(A[m], Rules[k])
        BY <3>1, <4>1
      <4>. QED
        BY <4>1, <4>2
    <3>2. CASE k # m + 1 /\ k # 0
      <4>1. k \in 0 .. m /\ k - 1 \in 0 .. m + 1 /\ k - 1 # m + 1
        BY <3>2
      <4>2. B[k] = A[k] /\ B[k - 1] = A[k - 1]
        BY <3>2, <4>1
      <4>3. A[k] = OptimiseRuleInQueue(A[k - 1], Rules[k])
        BY <2>1, <3>2, <4>1 DEF IsApplied
      <4>. QED
        BY <3>2, <4>2, <4>3
    <3>3. CASE k = 0 /\ k # m + 1
      <4>1. k \in 0 .. m
        BY <3>3
      <4>. QED
        BY <2>1, <3>3, <4>1 DEF IsApplied
    <3>. QED
      BY <3>1, <3>2, <3>3
  <2> HIDE DEF B
  <2>4. IsApplied(B, state, m + 1)
    BY <2>2, <2>3 DEF IsApplied
  <2>5. m + 1 \in Nat
    OBVIOUS
  <2>. QED
    BY <2>4, <2>5
<1> HIDE DEF T
<1>3. n \in T
  BY <1>1, <1>2, SetInduction
<1>. QED
  BY <1>3 DEF T

(* And so does a turn of the loop, with all rule sets one after the other. *)
LEMMA RulesInQueue ==
  ASSUME NEW names, NEW defined \in SUBSET Name, NEW gone, NEW least,
         NEW state, Queued(state, names, defined, gone, least)
  PROVE  Queued(ApplyRules(state), names, defined, gone, least)
<1> DEFINE n == Len(Rules)
           Goes(f) == f = [k \in 0 .. n |->
                             IF k = 0 THEN state ELSE OptimiseRuleInQueue(f[k - 1], Rules[k])]
           E == CHOOSE f : Goes(f)
<1>1. n = 11 /\ n \in Nat
  BY EveryRuleSet
<1>2. ApplyRules(state) = E[n]
  BY DEF ApplyRules
<1> HIDE DEF n
<1>3. PICK A : IsApplied(A, state, n)
  BY <1>1, AppliedExists
<1>4. Goes(A)
  BY <1>3 DEF IsApplied
<1>5. Goes(E)
  <2> HIDE DEF Goes
  <2>. QED
    BY <1>4
<1>6. ASSUME NEW k \in 0 .. n
      PROVE  E[k] = IF k = 0 THEN state ELSE OptimiseRuleInQueue(E[k - 1], Rules[k])
  BY <1>5
<1> HIDE DEF E, Goes
<1> DEFINE T == {k \in Nat : Queued(E[k], names, defined, gone, least)}
<1>7. 0 \in T
  <2>1. 0 \in 0 .. n
    BY <1>1
  <2>. QED
    BY <1>6, <2>1
<1>8. ASSUME NEW k \in 0 .. n - 1, k \in T
      PROVE  k + 1 \in T
  <2>1. k + 1 \in 0 .. n /\ k + 1 # 0 /\ (k + 1) - 1 = k /\ k + 1 \in Nat /\ k + 1 \in 1 .. 11
    BY <1>1
  <2>2. E[k + 1] = OptimiseRuleInQueue(E[k], Rules[k + 1])
    BY <1>6, <2>1
  <2>3. IsRuleSet(Rules[k + 1])
    BY <2>1, EveryRuleSet
  <2>4. Queued(E[k], names, defined, gone, least)
    BY <1>8
  <2>5. Queued(OptimiseRuleInQueue(E[k], Rules[k + 1]), names, defined, gone, least)
    BY <2>3, <2>4, RuleInQueue
  <2>. QED
    BY <2>1, <2>2, <2>5
<1>9. n \in T
  <2>1. 0 <= n
    BY <1>1
  <2> HIDE DEF T
  <2>. QED
    BY <1>1, <1>7, <1>8, <2>1, Upwards
<1>. QED
  BY <1>2, <1>9

-----------------------------------------------------------------------------
(* The state.  The inductive invariant says where every label of the       *)
(* source and every new label is defined, in the code or in the queue, and *)
(* that all lines have the operands of their instructions: without these   *)
(* a rule could bind its names to nothing.                                 *)

Written(d) == UNION {Range(l.to) : l \in Dialect[d]}
Kept(d, src, cd, q, o, n) ==
  /\ d \in DOMAIN Dialect
  /\ src \in Seq(Dialect[d]) /\ Len(src) <= MaxLines[d]
  /\ o \in BOOLEAN /\ n \in Nat
  /\ AllLines(cd, Written(d) \cup Uniques(n)) /\ AllLines(q, Written(d) \cup Uniques(n))
  /\ \E C, Q : /\ Once(cd, C) /\ Once(q, Q)
               /\ C \cap Q = {} /\ C \cup Q = Labels(src) \cup Uniques(n)

LEMMA SourceLine ==
  ASSUME NEW d \in DOMAIN Dialect, NEW i \in Dialect[d]
  PROVE  /\ KeyholeLine(i, Name) /\ KeyholeLine(i, Written(d))
         /\ i.op = "label" => i = Label(i.to[1]) /\ i.to[1] \in Name
<1>1. KeyholeLine(i, Name)
  BY KeyholeAssumption
<1>2. i.to \in Seq(Written(d))
  <2>1. i.to \in Seq(Range(i.to))
    <3>1. i.to \in Seq(Name)
      BY <1>1 DEF KeyholeLine
    <3>. QED
      BY <3>1, ListOf DEF IsList
  <2>2. Range(i.to) \subseteq Written(d)
    BY DEF Written
  <2>. QED
    BY <2>1, <2>2
<1>3. KeyholeLine(i, Written(d))
  BY <1>1, <1>2 DEF KeyholeLine
<1>4. ASSUME i.op = "label" PROVE i = Label(i.to[1]) /\ i.to[1] \in Name
  <2>1. i = Label(i.to[1]) /\ i.to \in Seq(Name)
    BY <1>1, <1>4 DEF KeyholeLine
  <2>2. i.to = <<i.to[1]>>
    BY <2>1, LabelFacts
  <2>3. Len(i.to) = 1
    BY <2>2
  <2>. QED
    BY <2>1, <2>3
<1>. QED
  BY <1>1, <1>3, <1>4

(* The labels of a source are names, and a line adds at most one.          *)
LEMMA SourceLabels ==
  ASSUME NEW d \in DOMAIN Dialect, NEW src \in Seq(Dialect[d])
  PROVE  /\ Labels(src) \subseteq Name
         /\ \A i : Labels(Append(src, i)) =
                     Labels(src) \cup (IF i.op = "label" THEN {i.to[1]} ELSE {})
<1>1. Labels(src) \subseteq Name
  BY SourceLine DEF Labels
<1>2. ASSUME NEW i
      PROVE  Labels(Append(src, i)) = Labels(src) \cup (IF i.op = "label" THEN {i.to[1]} ELSE {})
  <2> DEFINE S == Dialect[d] \cup {i}
             t == Append(src, i)
  <2>1. src \in Seq(S)
    OBVIOUS
  <2>2. /\ Len(src) \in Nat /\ DOMAIN src = 1 .. Len(src) /\ DOMAIN t = 1 .. Len(src) + 1
        /\ \A k \in DOMAIN src : t[k] = src[k]
        /\ t[Len(src) + 1] = i
    BY <2>1
  <2> HIDE DEF t
  <2>3. \A k \in DOMAIN t : k \in DOMAIN src \/ k = Len(src) + 1
    BY <2>2
  <2>4. \A k \in DOMAIN src : k \in DOMAIN t
    BY <2>2
  <2>5. Len(src) + 1 \in DOMAIN t
    BY <2>2
  <2>6. \A l : l \in Labels(t) <=> \E k \in DOMAIN t : t[k].op = "label" /\ t[k].to[1] = l
    BY DEF Labels
  <2>7. \A l : l \in Labels(src) <=> \E k \in DOMAIN src : src[k].op = "label" /\ src[k].to[1] = l
    BY DEF Labels
  <2>8. \A l : l \in Labels(t) <=> l \in Labels(src) \/ (i.op = "label" /\ i.to[1] = l)
    BY <2>2, <2>3, <2>4, <2>5, <2>6, <2>7
  <2>9. Labels(t) = Labels(src) \cup (IF i.op = "label" THEN {i.to[1]} ELSE {})
    BY <2>8
  <2>. QED
    BY <2>9 DEF t
<1>. QED
  BY <1>1, <1>2

(* The three steps keep the invariant: a turn of the loop,                 *)
LEMMA KeptOptimise ==
  ASSUME NEW d, NEW src, NEW cd, NEW q, NEW o, NEW n, Kept(d, src, cd, q, o, n),
         NEW state, state = ApplyRules([queue |-> q, counter |-> n, changed |-> FALSE])
  PROVE  Kept(d, src, cd, state.queue, state.changed, state.counter)
<1> DEFINE before == [queue |-> q, counter |-> n, changed |-> FALSE]
           L == Labels(src)
           W == Written(d)
<1>1. PICK C, Q : Once(cd, C) /\ Once(q, Q) /\ C \cap Q = {} /\ C \cup Q = L \cup Uniques(n)
  BY DEF Kept
<1>2. /\ d \in DOMAIN Dialect /\ src \in Seq(Dialect[d]) /\ Len(src) <= MaxLines[d] /\ n \in Nat
      /\ AllLines(cd, W \cup Uniques(n)) /\ AllLines(q, W \cup Uniques(n))
  BY DEF Kept
<1>3. L \in SUBSET Name
  BY <1>2, SourceLabels
<1>4. Q = (L \cup Uniques(n)) \ C /\ C \subseteq L \cup Uniques(n)
  BY <1>1
<1>5. before.queue = q /\ before.counter = n /\ before.changed = FALSE
  OBVIOUS
<1>6. state = ApplyRules(before)
  OBVIOUS
<1> HIDE DEF before, L, W
<1>7. Queued(before, W, L, C, n)
  <2>1. n <= n
    BY <1>2
  <2>2. Once(before.queue, (L \cup Uniques(before.counter)) \ C)
    BY <1>1, <1>4, <1>5, Zenon
  <2>3. AllLines(before.queue, W \cup Uniques(before.counter))
    BY <1>2, <1>5, Zenon
  <2>4. before.changed \in BOOLEAN
    BY <1>5, Zenon
  <2>. QED
    BY <1>2, <1>4, <1>5, <2>1, <2>2, <2>3, <2>4, Zenon DEF Queued
<1>8. Queued(state, W, L, C, n)
  BY <1>3, <1>6, <1>7, RulesInQueue
<1> DEFINE m == state.counter
           R == (L \cup Uniques(m)) \ C
<1>9. /\ m \in Nat /\ n <= m /\ state.changed \in BOOLEAN
      /\ AllLines(state.queue, W \cup Uniques(m))
      /\ C \subseteq L \cup Uniques(m) /\ Once(state.queue, R)
  BY <1>8 DEF Queued
<1>10. Uniques(n) \subseteq Uniques(m)
  BY <1>2, <1>9 DEF Uniques
<1>11. AllLines(cd, W \cup Uniques(m))
  <2>1. W \cup Uniques(n) \subseteq W \cup Uniques(m)
    BY <1>10
  <2>. QED
    BY <1>2, <2>1, LinesAmong
<1>12. C \cap R = {} /\ C \cup R = L \cup Uniques(m)
  BY <1>9
<1> HIDE DEF R
<1>. QED
  BY <1>1, <1>2, <1>9, <1>11, <1>12 DEF Kept, L, W

(* the flush of the queue,                                                 *)
LEMMA KeptFlush ==
  ASSUME NEW d, NEW src, NEW cd, NEW q, NEW o, NEW n, Kept(d, src, cd, q, o, n)
  PROVE  Kept(d, src, cd \o q, << >>, o, n)
<1> DEFINE j == cd \o q
           among == Written(d) \cup Uniques(n)
<1>1. PICK C, Q : Once(cd, C) /\ Once(q, Q) /\ C \cap Q = {} /\ C \cup Q = Labels(src) \cup Uniques(n)
  BY DEF Kept
<1>2. /\ AllLines(cd, among) /\ AllLines(q, among)
      /\ d \in DOMAIN Dialect /\ src \in Seq(Dialect[d]) /\ Len(src) <= MaxLines[d]
      /\ o \in BOOLEAN /\ n \in Nat
  BY DEF Kept
<1>3. IsJoin(j, cd, q)
  BY DEF IsJoin
<1> HIDE DEF j, among
<1>4. Once(j, C \cup Q) /\ AllLines(j, among)
  BY <1>1, <1>2, <1>3, OnceJoined, LinesJoined DEF AllLines
<1>5. AllLines(<< >>, among)
  BY EmptyList DEF AllLines
<1>6. Once(<< >>, {})
  BY OnceEmpty
<1>7. (C \cup Q) \cap {} = {} /\ (C \cup Q) \cup {} = Labels(src) \cup Uniques(n)
  BY <1>1
<1>. QED
  BY <1>2, <1>4, <1>5, <1>6, <1>7 DEF Kept, j, among

(* The two parts of a queue.                                               *)
LEMMA Cut ==
  ASSUME NEW q, IsList(q), NEW e \in 0 .. Len(q)
  PROVE  /\ IsList(SubSeq(q, 1, e)) /\ IsList(SubSeq(q, e + 1, Len(q)))
         /\ IsJoin(q, SubSeq(q, 1, e), SubSeq(q, e + 1, Len(q)))
<1> DEFINE S == Range(q)
           a == SubSeq(q, 1, e)
           b == SubSeq(q, e + 1, Len(q))
<1>1. q \in Seq(S)
  BY DEF IsList
<1> HIDE DEF S
<1>2. Len(q) \in Nat
  BY <1>1
<1>3. a \in Seq(S) /\ b \in Seq(S) /\ Len(a) = e /\ Len(b) = Len(q) - e
  BY <1>1, <1>2
<1>4. /\ \A k \in 1 .. e : a[k] = q[k]
      /\ \A k \in 1 .. Len(q) - e : b[k] = q[e + k]
  BY <1>1, <1>2
<1> HIDE DEF a, b
<1> DEFINE j == a \o b
<1>5. /\ j \in Seq(S) /\ Len(j) = Len(q)
      /\ \A k \in 1 .. e : j[k] = a[k]
      /\ \A k \in 1 .. Len(q) - e : j[e + k] = b[k]
  BY <1>2, <1>3
<1> HIDE DEF j
<1>6. j = q
  <2>1. ASSUME NEW k \in 1 .. Len(q) PROVE j[k] = q[k]
    <3>1. CASE k \in 1 .. e
      BY <1>4, <1>5, <3>1
    <3>2. CASE k \notin 1 .. e
      <4>1. k - e \in 1 .. Len(q) - e /\ e + (k - e) = k
        BY <1>2, <3>2
      <4>. QED
        BY <1>4, <1>5, <4>1
    <3>. QED
      BY <3>1, <3>2
  <2>. QED
    BY <1>1, <1>2, <1>5, <2>1
<1>7. IsList(a) /\ IsList(b)
  BY <1>3, ListOf
<1>. QED
  BY <1>6, <1>7 DEF IsJoin, j, a, b

(* and a new line, for which the oldest ones leave the queue.              *)
LEMMA KeptQueued ==
  ASSUME NEW d, NEW src, NEW cd, NEW q, NEW o, NEW n, Kept(d, src, cd, q, o, n),
         Len(src) < MaxLines[d],
         NEW i \in Dialect[d], i.op = "label" => i.to[1] \notin Labels(src),
         NEW e \in 0 .. Len(q)
  PROVE  Kept(d, Append(src, i), cd \o SubSeq(q, 1, e),
              Append(SubSeq(q, e + 1, Len(q)), i), TRUE, n)
<1> DEFINE among == Written(d) \cup Uniques(n)
           a == SubSeq(q, 1, e)
           b == SubSeq(q, e + 1, Len(q))
           old == cd \o a
           rest == Append(b, i)
           line == <<i>>
           N == IF i.op = "label" THEN {i.to[1]} ELSE {}
           t == Append(src, i)
<1>1. /\ AllLines(cd, among) /\ AllLines(q, among)
      /\ d \in DOMAIN Dialect /\ src \in Seq(Dialect[d]) /\ Len(src) <= MaxLines[d]
      /\ o \in BOOLEAN /\ n \in Nat
  BY DEF Kept
<1>2. PICK C, Q : Once(cd, C) /\ Once(q, Q) /\ C \cap Q = {} /\ C \cup Q = Labels(src) \cup Uniques(n)
  BY DEF Kept
<1>3. IsList(q) /\ IsList(cd)
  BY <1>1 DEF AllLines
<1>4. IsList(a) /\ IsList(b) /\ IsJoin(q, a, b)
  BY <1>3, Cut
<1>5. IsJoin(old, cd, a)
  BY DEF IsJoin
<1>6. IsJoin(rest, b, line)
  <2>1. b \in Seq(Range(b) \cup {i})
    BY <1>4 DEF IsList
  <2> HIDE DEF b
  <2>. QED
    BY <2>1 DEF IsJoin
<1>7. IsList(line)
  BY Singleton
<1>8. Once(line, N)
  BY <1>1, SourceLine, Alone
<1>9. AllLines(line, among)
  <2>1. KeyholeLine(i, Written(d)) /\ Written(d) \subseteq among
    BY <1>1, SourceLine
  <2> HIDE DEF among, line
  <2>2. KeyholeLine(i, among)
    BY <2>1, LineAmong
  <2>. QED
    BY <2>2, Alone DEF line
<1>10. /\ t \in Seq(Dialect[d]) /\ Len(t) <= MaxLines[d]
  <2>1. MaxLines[d] \in Nat /\ Len(src) \in Nat
    BY <1>1, KeyholeAssumption
  <2>2. t \in Seq(Dialect[d]) /\ Len(t) = Len(src) + 1
    BY <1>1
  <2>. QED
    BY <2>1, <2>2
<1>11. Labels(t) = Labels(src) \cup N
  BY <1>1, SourceLabels
<1>12. N \cap (Labels(src) \cup Uniques(n)) = {}
  <2>1. Uniques(n) \cap Name = {}
    BY KeyholeAssumption DEF Uniques, Unique, UniqueLabels
  <2>2. N \subseteq Name /\ N \cap Labels(src) = {}
    BY <1>1, SourceLine
  <2>. QED
    BY <2>1, <2>2
<1> DEFINE A == Labels(a)
           B == Labels(b)
<1> HIDE DEF a, b, old, rest, line, N, t, among
<1>13. Once(a, A) /\ Once(b, B) /\ A \cap B = {} /\ A \cup B = Q
  BY <1>2, <1>4, OnceParts
<1>14. AllLines(a, among) /\ AllLines(b, among)
  BY <1>1, <1>4, LinesParts
<1> HIDE DEF A, B
<1>15. C \cap A = {} /\ B \cap N = {} /\ (C \cup A) \cap (B \cup N) = {}
       /\ (C \cup A) \cup (B \cup N) = Labels(t) \cup Uniques(n)
  BY <1>2, <1>11, <1>12, <1>13
<1>16. Once(old, C \cup A)
  BY <1>2, <1>3, <1>4, <1>5, <1>13, <1>15, OnceJoined
<1>17. Once(rest, B \cup N)
  BY <1>4, <1>6, <1>7, <1>8, <1>13, <1>15, OnceJoined
<1>18. AllLines(old, among)
  BY <1>1, <1>5, <1>14, LinesJoined
<1>19. AllLines(rest, among)
  BY <1>6, <1>9, <1>14, LinesJoined
<1>20. Kept(d, t, old, rest, TRUE, n)
  BY <1>1, <1>10, <1>15, <1>16, <1>17, <1>18, <1>19 DEF Kept, among
<1>. QED
  BY <1>20 DEF t, old, rest, a, b

LEMMA InitKept == Init => Kept(dialect, source, code, queue, optimising, counter)
<1> SUFFICES ASSUME Init PROVE Kept(dialect, source, code, queue, optimising, counter)
  OBVIOUS
<1>1. /\ dialect \in DOMAIN Dialect
      /\ source = << >> /\ code = << >> /\ queue = << >> /\ optimising = FALSE /\ counter = 0
  BY DEF Init
<1>2. MaxLines[dialect] \in Nat /\ source \in Seq(Dialect[dialect]) /\ Len(source) = 0
  BY <1>1, KeyholeAssumption
<1>3. AllLines(<< >>, Written(dialect) \cup Uniques(0))
  BY EmptyList DEF AllLines
<1>4. Labels(<< >>) = {} /\ Uniques(0) = {}
  BY OnceEmpty, OnceLabels, NextUnique
<1>5. Once(<< >>, {}) /\ {} \cap {} = {} /\ {} \cup {} = Labels(<< >>) \cup Uniques(0)
  BY <1>4, OnceEmpty
<1>6. Len(source) <= MaxLines[dialect]
  BY <1>2
<1>. QED
  BY <1>1, <1>2, <1>3, <1>5, <1>6 DEF Kept

Inv == Kept(dialect, source, code, queue, optimising, counter)

LEMMA NextKept == Inv /\ [Next]_vars => Inv'
<1> SUFFICES ASSUME Inv, [Next]_vars PROVE Inv'
  OBVIOUS
<1>0. Kept(dialect, source, code, queue, optimising, counter)
  BY DEF Inv
<1>1. ASSUME NEW i \in Dialect[dialect], Len(source) < MaxLines[dialect], Legal(i), QueueInstruction(i)
      PROVE  Inv'
  <2> DEFINE e == Excess
  <2>1. i.op = "label" => i.to[1] \notin Labels(source)
    BY <1>1 DEF Legal
  <2>2. dialect \in DOMAIN Dialect /\ AllLines(queue, Written(dialect) \cup Uniques(counter))
    BY <1>0 DEF Kept
  <2>3. Len(queue) \in Nat
    BY <2>2, ListFacts DEF AllLines
  <2>4. Target \in Nat \ {0}
    BY <2>2, KeyholeAssumption DEF Target
  <2>5. e \in 0 .. Len(queue)
    BY <2>3, <2>4 DEF Excess
  <2>6. /\ source' = Append(source, i) /\ code' = code \o SubSeq(queue, 1, e)
        /\ queue' = Append(SubSeq(queue, e + 1, Len(queue)), i)
        /\ optimising' = TRUE /\ dialect' = dialect /\ counter' = counter
    BY <1>1 DEF QueueInstruction
  <2> HIDE DEF e
  <2>7. Kept(dialect, Append(source, i), code \o SubSeq(queue, 1, e),
             Append(SubSeq(queue, e + 1, Len(queue)), i), TRUE, counter)
    BY <1>0, <1>1, <2>1, <2>5, KeptQueued
  <2>. QED
    BY <2>6, <2>7 DEF Inv
<1>2. ASSUME Optimise PROVE Inv'
  <2> DEFINE state == ApplyRules([queue |-> queue, counter |-> counter, changed |-> FALSE])
  <2>1. /\ queue' = state.queue /\ counter' = state.counter /\ optimising' = state.changed
        /\ dialect' = dialect /\ source' = source /\ code' = code
    BY <1>2 DEF Optimise
  <2>2. Kept(dialect, source, code, state.queue, state.changed, state.counter)
    BY <1>0, KeptOptimise
  <2> HIDE DEF state
  <2>. QED
    BY <2>1, <2>2 DEF Inv
<1>3. ASSUME FlushOpt PROVE Inv'
  <2>1. /\ code' = code \o queue /\ queue' = << >>
        /\ dialect' = dialect /\ source' = source /\ optimising' = optimising /\ counter' = counter
    BY <1>3 DEF FlushOpt
  <2>2. Kept(dialect, source, code \o queue, << >>, optimising, counter)
    BY <1>0, KeptFlush
  <2>. QED
    BY <2>1, <2>2 DEF Inv
<1>4. CASE UNCHANGED vars
  BY <1>4 DEF Inv, vars
<1>. QED
  BY <1>1, <1>2, <1>3, <1>4 DEF Next

(* The invariant holds in every state of the optimiser.                    *)
LEMMA KeptAlways == Spec => []Inv
<1>1. Init => Inv
  BY InitKept DEF Inv
<1>. QED
  BY <1>1, NextKept, PTL DEF Spec

(* What is kept of the optimised program.                                  *)
LEMMA KeptOptimised ==
  ASSUME Inv
  PROVE  /\ Once(Optimised, Labels(source) \cup Uniques(counter))
         /\ AllLines(Optimised, Written(dialect) \cup Uniques(counter))
<1>1. PICK C, Q : /\ Once(code, C) /\ Once(queue, Q)
                  /\ C \cap Q = {} /\ C \cup Q = Labels(source) \cup Uniques(counter)
  BY DEF Inv, Kept
<1>2. /\ AllLines(code, Written(dialect) \cup Uniques(counter))
      /\ AllLines(queue, Written(dialect) \cup Uniques(counter))
  BY DEF Inv, Kept
<1>3. IsJoin(Optimised, code, queue)
  BY DEF IsJoin, Optimised
<1>4. IsList(code) /\ IsList(queue)
  BY <1>2 DEF AllLines
<1>5. Once(Optimised, C \cup Q)
  BY <1>1, <1>3, <1>4, OnceJoined
<1>. QED
  BY <1>1, <1>2, <1>3, <1>5, LinesJoined

(* The state fits its variables, and no line of the optimised program has  *)
(* a name that neither the source nor the optimiser's counter made: the    *)
(* operands of every rule are bound when its output is written.            *)
THEOREM TypeCorrect == Spec => []TypeOK
<1>1. Inv => TypeOK
  <2> SUFFICES ASSUME Inv PROVE TypeOK
    OBVIOUS
  <2>1. /\ dialect \in DOMAIN Dialect
        /\ source \in Seq(Dialect[dialect]) /\ Len(source) <= MaxLines[dialect]
        /\ optimising \in BOOLEAN /\ counter \in Nat
    BY DEF Inv, Kept
  <2>2. ASSUME NEW i \in DOMAIN Optimised
        PROVE  Range(Optimised[i].to) \subseteq Written(dialect) \cup Uniques(counter)
    <3>1. KeyholeLine(Optimised[i], Written(dialect) \cup Uniques(counter))
      BY KeptOptimised DEF AllLines
    <3>2. Optimised[i].to \in Seq(Written(dialect) \cup Uniques(counter))
      BY <3>1 DEF KeyholeLine
    <3>. QED
      BY <3>2 DEF Range
  <2>3. \A i \in DOMAIN Optimised :
          Range(Optimised[i].to) \subseteq
            (UNION {Range(l.to) : l \in Dialect[dialect]}) \cup {Unique(n) : n \in 0 .. counter - 1}
    BY <2>2, Zenon DEF Written, Uniques
  <2>. QED
    BY <2>1, <2>3, Zenon DEF TypeOK
<1>. QED
  BY <1>1, KeptAlways, PTL

(* Every label of the source, and every label the optimiser has made, is   *)
(* defined by one line of the optimised program, as the comment on unique  *)
(* labels in rxas_opt.c has it.                                            *)
THEOREM LabelsDefinedOnce == Spec => []LabelsOnce
<1>1. Inv => LabelsOnce
  <2> SUFFICES ASSUME Inv PROVE LabelsOnce
    OBVIOUS
  <2>1. Once(Optimised, Labels(source) \cup Uniques(counter))
    BY KeptOptimised
  <2>2. Labels(Optimised) = Labels(source) \cup Uniques(counter)
    BY <2>1, OnceLabels
  <2>3. \A i, j \in DOMAIN Optimised :
          Optimised[i].op = "label" /\ Optimised[j] = Optimised[i] => i = j
    BY <2>1 DEF Once
  <2>. QED
    BY <2>2, <2>3 DEF LabelsOnce, Uniques
<1>. QED
  BY <1>1, KeptAlways, PTL

=============================================================================
