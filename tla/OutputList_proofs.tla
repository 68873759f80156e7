-------------------------- MODULE OutputList_proofs --------------------------
(***************************************************************************)
(* Proofs about OutputList, for any endpoints, names, parts of names,      *)
(* first files and number of outputs.                                      *)
(***************************************************************************)
EXTENDS OutputList, FiniteSetTheorems, WellFoundedInduction, TLAPS

-----------------------------------------------------------------------------
(* Building a list step by step.                                            *)

(* Induction, said of a set: one that holds 0 and the successor of each of  *)
(* its numbers holds every number.  A smallest number that is missing would *)
(* be the successor of one that is not.                                     *)
LEMMA Induct ==
  ASSUME NEW T, 0 \in T, \A n \in Nat : n \in T => n + 1 \in T
  PROVE  Nat \subseteq T
<1> DEFINE Less == {p \in Nat \X Nat : p[1] < p[2]}
<1>1. IsWellFoundedOn(Less, Nat)
  BY NatLessThanWellFounded DEF OpToRel
<1> SUFFICES ASSUME Nat \ T # {} PROVE FALSE
  OBVIOUS
<1>2. \A U : U \subseteq Nat /\ U # {} =>
               \E x \in U : \A y \in U : <<y, x>> \notin Less
  <2> HIDE DEF Less
  <2> QED
    BY <1>1, WFMin
<1>3. PICK x \in Nat \ T : \A y \in Nat \ T : <<y, x>> \notin Less
  BY <1>2
<1>4. x \in Nat /\ x # 0 /\ x - 1 \in Nat /\ x = (x - 1) + 1
  OBVIOUS
<1>5. <<x - 1, x>> \in Less
  BY <1>4
<1>6. x - 1 \in T
  BY <1>3, <1>4, <1>5
<1> QED
  BY <1>4, <1>6

(* A value that is built in N steps exists.                                 *)
Buildable(S, base, step, N) ==
  \E f \in [0 .. N -> S] :
    f[0] = base /\ \A n \in 1 .. N : f[n] = step[<<n, f[n - 1]>>]

LEMMA StepByStep ==
  ASSUME NEW S, NEW base \in S, NEW step \in [Nat \X S -> S], NEW N \in Nat
  PROVE  Buildable(S, base, step, N)
<1> DEFINE Good(f, n) == f \in [0 .. n -> S] /\ f[0] = base
                           /\ \A k \in 1 .. n : f[k] = step[<<k, f[k - 1]>>]
           T == {n \in Nat : \E f \in [0 .. n -> S] : Good(f, n)}
<1>1. 0 \in T
  <2> DEFINE f0 == [k \in 0 .. 0 |-> base]
  <2>1. f0 \in [0 .. 0 -> S] /\ Good(f0, 0)
    OBVIOUS
  <2> QED
    BY <2>1
<1>2. ASSUME NEW n \in Nat, n \in T PROVE n + 1 \in T
  <2>1. PICK f \in [0 .. n -> S] : Good(f, n)
    BY <1>2
  <2> DEFINE g == [k \in 0 .. n + 1 |->
                     IF k = n + 1 THEN step[<<n + 1, f[n]>>] ELSE f[k]]
  <2>2. f[n] \in S /\ step[<<n + 1, f[n]>>] \in S
    BY <2>1
  <2>3. g \in [0 .. n + 1 -> S]
    BY <2>1, <2>2
  <2>4. g[0] = base
    BY <2>1
  <2>5. ASSUME NEW k \in 1 .. n + 1 PROVE g[k] = step[<<k, g[k - 1]>>]
    <3>1. k \in 0 .. n + 1 /\ k - 1 \in 0 .. n + 1 /\ k - 1 # n + 1
      OBVIOUS
    <3>2. g[k] = IF k = n + 1 THEN step[<<n + 1, f[n]>>] ELSE f[k]
      BY <3>1
    <3>3. g[k - 1] = f[k - 1]
      BY <3>1
    <3>4. CASE k = n + 1
      <4>1. k - 1 = n
        BY <3>4
      <4> HIDE DEF g
      <4> QED
        BY <3>2, <3>3, <3>4, <4>1
    <3>5. CASE k # n + 1
      <4>1. k \in 1 .. n
        BY <3>5
      <4>2. f[k] = step[<<k, f[k - 1]>>]
        BY <2>1, <4>1
      <4> HIDE DEF g
      <4> QED
        BY <3>2, <3>3, <3>5, <4>2
    <3> HIDE DEF g
    <3> QED
      BY <3>4, <3>5
  <2>6. Good(g, n + 1)
    BY <2>3, <2>4, <2>5
  <2> HIDE DEF g, Good
  <2> QED
    BY <2>3, <2>6
<1>3. N \in T
  <2> HIDE DEF T
  <2> QED
    BY <1>1, <1>2, Induct
<1> QED
  BY <1>3 DEF Buildable

-----------------------------------------------------------------------------
(* What Config::fromJson keeps of a list it reads.                          *)

(* The list l was made of the first n entries of another, and what is later *)
(* in it did not seem to be the same selection as what is earlier.          *)
Drawn(l, from, n) ==
  /\ l \in Seq(Selection) /\ Len(l) <= MaxOutputs
  /\ \A i \in DOMAIN l : \E k \in 1 .. n : l[i] = from[k]
  /\ \A i, j \in DOMAIN l : i < j =>
       \E k, m \in 1 .. n : /\ k # m /\ l[i] = from[k] /\ l[j] = from[m]
                           /\ ~SameSelection(l[j], l[i])

(* Config::addOutput takes one more entry, or leaves it.                    *)
LEMMA AddedDraws ==
  ASSUME MaxOutputs \in Nat \ {0}, NEW from \in Seq(Selection), NEW n \in Nat,
         n + 1 \in DOMAIN from, NEW l, Drawn(l, from, n)
  PROVE  Drawn(Added(l, from[n + 1]), from, n + 1)
<1> DEFINE c == from[n + 1]
           r == Added(l, c)
<1>0. c \in Selection /\ l \in Seq(Selection) /\ Len(l) \in Nat
  BY DEF Drawn
<1>1. CASE r = l
  BY <1>1 DEF Drawn
<1>2. CASE r # l
  <2>1. /\ r = Append(l, c) /\ Len(l) < MaxOutputs
        /\ \A i \in DOMAIN l : ~SameSelection(c, l[i])
    BY <1>0, <1>2 DEF Added
  <2> HIDE DEF c, r
  <2>2. /\ r \in Seq(Selection) /\ Len(r) = Len(l) + 1
        /\ r[Len(l) + 1] = c /\ \A i \in 1 .. Len(l) : r[i] = l[i]
    BY <1>0, <2>1
  <2>3. Len(r) <= MaxOutputs
    BY <1>0, <2>1, <2>2
  <2>4. ASSUME NEW i \in DOMAIN r PROVE \E k \in 1 .. n + 1 : r[i] = from[k]
    <3>1. CASE i = Len(l) + 1
      BY <2>2, <3>1 DEF c
    <3>2. CASE i # Len(l) + 1
      <4>1. i \in 1 .. Len(l) /\ r[i] = l[i]
        BY <1>0, <2>2, <3>2
      <4> QED
        BY <1>0, <4>1 DEF Drawn
    <3> QED
      BY <3>1, <3>2
  <2>5. ASSUME NEW i \in DOMAIN r, NEW j \in DOMAIN r, i < j
        PROVE  \E k, m \in 1 .. n + 1 :
                 /\ k # m /\ r[i] = from[k] /\ r[j] = from[m]
                 /\ ~SameSelection(r[j], r[i])
    <3>1. i \in 1 .. Len(l) /\ r[i] = l[i] /\ i \in DOMAIN l
      BY <1>0, <2>2, <2>5
    <3>2. CASE j = Len(l) + 1
      <4>1. PICK k \in 1 .. n : l[i] = from[k]
        BY <3>1 DEF Drawn
      <4>2. k \in 1 .. n + 1 /\ n + 1 \in 1 .. n + 1 /\ k # n + 1
        OBVIOUS
      <4>3. r[j] = from[n + 1] /\ ~SameSelection(r[j], r[i])
        BY <2>1, <2>2, <3>1, <3>2 DEF c
      <4> QED
        BY <3>1, <4>1, <4>2, <4>3
    <3>3. CASE j # Len(l) + 1
      <4>1. j \in 1 .. Len(l) /\ r[j] = l[j] /\ j \in DOMAIN l
        BY <1>0, <2>2, <3>3
      <4>2. PICK k, m \in 1 .. n : /\ k # m /\ l[i] = from[k] /\ l[j] = from[m]
                                  /\ ~SameSelection(l[j], l[i])
        BY <2>5, <3>1, <4>1 DEF Drawn
      <4>3. k \in 1 .. n + 1 /\ m \in 1 .. n + 1
        OBVIOUS
      <4> QED
        BY <3>1, <4>1, <4>2, <4>3
    <3> QED
      BY <3>2, <3>3
  <2>6. Drawn(r, from, n + 1)
    BY <2>2, <2>3, <2>4, <2>5 DEF Drawn
  <2> QED
    BY <2>6 DEF r, c
<1> QED
  BY <1>1, <1>2

(* The recursive definition in FromJson has a solution, so it has the value *)
(* its equations give, and by induction each prefix of the list is drawn.   *)
LEMMA FromJsonDraws ==
  ASSUME MaxOutputs \in Nat \ {0}, NEW from \in Seq(Selection)
  PROVE  Drawn(FromJson(from), from, Len(from))
<1> DEFINE S == Seq(Selection)
           N == Len(from)
           kept == CHOOSE f : f = [n \in 0 .. N |->
                     CASE n = 0 -> <<>>
                       [] n = 1 -> <<from[1]>>
                       [] OTHER -> Added(f[n - 1], from[n])]
           step == [p \in Nat \X S |->
                     IF p[1] \notin 1 .. N THEN p[2]
                     ELSE IF p[1] = 1 THEN <<from[1]>>
                     ELSE Added(p[2], from[p[1]])]
<1>0. N \in Nat /\ \A k \in 1 .. N : from[k] \in Selection
  OBVIOUS
<1>1. step \in [Nat \X S -> S]
  <2> SUFFICES ASSUME NEW n \in Nat, NEW l \in S
               PROVE  step[<<n, l>>] \in S
    OBVIOUS
  <2>1. CASE n \in 1 .. N
    <3>1. Added(l, from[n]) \in S
      BY <1>0, <2>1 DEF Added
    <3> QED
      BY <1>0, <2>1, <3>1
  <2> QED
    BY <2>1
<1>2. PICK f \in [0 .. N -> S] :
        f[0] = <<>> /\ \A n \in 1 .. N : f[n] = step[<<n, f[n - 1]>>]
  <2>1. <<>> \in S
    OBVIOUS
  <2>2. Buildable(S, <<>>, step, N)
    <3> HIDE DEF step, S, N, kept
    <3> QED
      BY <1>0, <1>1, <2>1, StepByStep
  <2> HIDE DEF step, S, N, kept
  <2> QED
    BY <2>2 DEF Buildable
<1>3. \A n \in 1 .. N :
        f[n] = IF n = 1 THEN <<from[1]>> ELSE Added(f[n - 1], from[n])
  <2> SUFFICES ASSUME NEW n \in 1 .. N
               PROVE  f[n] = IF n = 1 THEN <<from[1]>>
                             ELSE Added(f[n - 1], from[n])
    OBVIOUS
  <2>1. f[n - 1] \in S /\ n \in Nat
    BY <1>0, <1>2
  <2>2. step[<<n, f[n - 1]>>] = IF n = 1 THEN <<from[1]>>
                                ELSE Added(f[n - 1], from[n])
    BY <2>1
  <2> HIDE DEF step
  <2> QED
    BY <1>2, <2>2
<1> HIDE DEF step
<1>4. f = [n \in 0 .. N |->
             CASE n = 0 -> <<>>
               [] n = 1 -> <<from[1]>>
               [] OTHER -> Added(f[n - 1], from[n])]
  <2> DEFINE g == [n \in 0 .. N |->
             CASE n = 0 -> <<>>
               [] n = 1 -> <<from[1]>>
               [] OTHER -> Added(f[n - 1], from[n])]
  <2>1. ASSUME NEW n \in 0 .. N PROVE f[n] = g[n]
    <3>1. CASE n = 0
      BY <1>2, <3>1
    <3>2. CASE n = 1
      BY <1>3, <3>2
    <3>3. CASE n # 0 /\ n # 1
      <4>1. n \in 1 .. N
        BY <1>0, <3>3
      <4>2. f[n] = Added(f[n - 1], from[n])
        BY <1>3, <3>3, <4>1
      <4> QED
        BY <3>3, <4>2
    <3> QED
      BY <3>1, <3>2, <3>3
  <2> HIDE DEF g
  <2>2. DOMAIN g = 0 .. N /\ g = [n \in 0 .. N |-> g[n]]
    BY DEF g
  <2>3. f = g
    BY <1>2, <2>1, <2>2
  <2> QED
    BY <2>3 DEF g
<1>5. kept = [n \in 0 .. N |->
                CASE n = 0 -> <<>>
                  [] n = 1 -> <<from[1]>>
                  [] OTHER -> Added(kept[n - 1], from[n])]
  BY <1>4
<1>6. FromJson(from) = kept[N]
  BY DEF FromJson
<1> HIDE DEF kept
<1>7. /\ kept[0] = <<>>
      /\ \A n \in 1 .. N : kept[n] = IF n = 1 THEN <<from[1]>>
                                      ELSE Added(kept[n - 1], from[n])
  <2>1. kept[0] = <<>>
    BY <1>0, <1>5
  <2>2. ASSUME NEW n \in 1 .. N
        PROVE  kept[n] = IF n = 1 THEN <<from[1]>>
                         ELSE Added(kept[n - 1], from[n])
    <3>1. n \in 0 .. N /\ n # 0
      BY <1>0
    <3> QED
      BY <1>5, <3>1
  <2> QED
    BY <2>1, <2>2
<1> DEFINE T == {n \in Nat : n <= N => Drawn(kept[n], from, n)}
<1>8. 0 \in T
  <2>1. <<>> \in Seq(Selection) /\ Len(<<>>) = 0 /\ DOMAIN <<>> = {}
    OBVIOUS
  <2>2. Drawn(<<>>, from, 0)
    BY <2>1 DEF Drawn
  <2> QED
    BY <1>7, <2>2
<1>9. ASSUME NEW n \in Nat, n \in T PROVE n + 1 \in T
  <2> SUFFICES ASSUME n + 1 <= N PROVE Drawn(kept[n + 1], from, n + 1)
    OBVIOUS
  <2>1. n + 1 \in 1 .. N /\ n + 1 \in DOMAIN from /\ (n + 1) - 1 = n
    BY <1>0
  <2>2. CASE n = 0
    <3> DEFINE l == <<from[1]>>
    <3>1. kept[n + 1] = l
      BY <1>7, <2>1, <2>2
    <3>2. l \in Seq(Selection) /\ Len(l) = 1 /\ DOMAIN l = {1} /\ l[1] = from[1]
      BY <1>0, <2>1, <2>2
    <3> HIDE DEF l
    <3>3. Drawn(l, from, 1)
      BY <3>2 DEF Drawn
    <3> QED
      BY <2>2, <3>1, <3>3
  <2>3. CASE n # 0
    <3>1. Drawn(kept[n], from, n)
      BY <1>0, <1>9
    <3>2. kept[n + 1] = Added(kept[n], from[n + 1])
      BY <1>7, <2>1, <2>3
    <3> QED
      BY <2>1, <3>1, <3>2, AddedDraws
  <2> QED
    BY <2>2, <2>3
<1>10. N \in T
  <2> HIDE DEF T
  <2> QED
    BY <1>0, <1>8, <1>9, Induct
<1> QED
  BY <1>0, <1>6, <1>10

-----------------------------------------------------------------------------
(* The inductive invariant behind IdOfOwnDevice.                            *)

(* A list of selections, each id with the name, or a part of the name, of   *)
(* its device.                                                              *)
Owned(l) == l \in Seq(Selection) /\ \A i \in DOMAIN l : OwnId(l[i])
SameNames(l, m) == Len(l) = Len(m) /\ \A i \in DOMAIN l : l[i].name = m[i].name

(* The engine's copy has as many entries and the same names, in that order, *)
(* as the list o of the window, and each stream that runs has found a       *)
(* device of its entry's name.                                              *)
Audio(how, l, found, o) ==
  /\ how \in {"off", "meters", "forwarding"}
  /\ Owned(l) /\ found \in Seq(Endpoints \cup {NoId}) /\ Len(found) = Len(l)
  /\ \A i \in DOMAIN found : found[i] # NoId => Fits(Name[found[i]], l[i].name)
  /\ IF how = "off" THEN l = <<>> ELSE SameNames(l, o)

ListInv ==
  /\ present \subseteq Endpoints /\ seen \subseteq Endpoints /\ up \in BOOLEAN
  /\ Owned(outputs) /\ Len(outputs) <= MaxOutputs /\ Owned(file)
  /\ Audio(engine, given, streams, outputs)
  /\ dialog \in 0 .. MaxOutputs + 1 /\ draft \in Selection /\ OwnId(draft)
  /\ ~up => dialog = 0

(* DeviceManager::resolve never answers with a device of another name.      *)
LEMMA ResolvedFits ==
  ASSUME NEW sel \in Selection, OwnId(sel),
         NEW active, active \subseteq Endpoints, Resolved(sel, active) # NoId
  PROVE  /\ Resolved(sel, active) \in active
         /\ Fits(Name[Resolved(sel, active)], sel.name)
<1>1. CASE sel.id \in active
  BY <1>1, OutputListAssumption DEF Resolved, OwnId
<1>2. CASE sel.id \notin active
  <2> DEFINE M == NameMatches(sel.name, active)
  <2>1. Resolved(sel, active) = CHOOSE e \in M : TRUE
    BY <1>2 DEF Resolved, MatchByName
  <2>2. Cardinality(M) = 1
    BY <1>2 DEF Resolved, MatchByName
  <2>3. M # {}
    BY <2>2, FS_EmptySet
  <2>4. \A e \in M : e \in active /\ Fits(Name[e], sel.name)
    BY DEF NameMatches, Fits
  <2> HIDE DEF M
  <2> QED
    BY <2>1, <2>3, <2>4
<1> QED
  BY <1>1, <1>2

(* The operations on a list.                                                *)
LEMMA AppendOwned ==
  ASSUME NEW l, Owned(l), NEW c \in Selection, OwnId(c)
  PROVE  Owned(Append(l, c))
<1>1. /\ Append(l, c) \in Seq(Selection) /\ Len(Append(l, c)) = Len(l) + 1
      /\ Append(l, c)[Len(l) + 1] = c /\ \A i \in 1 .. Len(l) : Append(l, c)[i] = l[i]
  BY DEF Owned
<1>2. ASSUME NEW i \in DOMAIN Append(l, c) PROVE OwnId(Append(l, c)[i])
  <2>1. CASE i = Len(l) + 1
    BY <1>1, <2>1
  <2>2. CASE i # Len(l) + 1
    <3>1. i \in 1 .. Len(l) /\ i \in DOMAIN l
      BY <1>1, <2>2 DEF Owned
    <3> QED
      BY <1>1, <3>1 DEF Owned
  <2> QED
    BY <2>1, <2>2
<1> QED
  BY <1>1, <1>2 DEF Owned

LEMMA AddedOwned ==
  ASSUME MaxOutputs \in Nat, NEW l, Owned(l), Len(l) <= MaxOutputs,
         NEW c \in Selection, OwnId(c)
  PROVE  Owned(Added(l, c)) /\ Len(Added(l, c)) <= MaxOutputs
<1>1. Owned(Append(l, c)) /\ Len(Append(l, c)) = Len(l) + 1
  BY AppendOwned DEF Owned
<1>2. Added(l, c) = l \/ (Added(l, c) = Append(l, c) /\ Len(l) < MaxOutputs)
  BY DEF Added, Owned
<1>3. Len(l) \in Nat
  BY DEF Owned
<1>4. CASE Added(l, c) = l
  BY <1>4
<1>5. CASE Added(l, c) = Append(l, c) /\ Len(l) < MaxOutputs
  BY <1>1, <1>3, <1>5
<1> QED
  BY <1>2, <1>4, <1>5

LEMMA ReplacedOwned ==
  ASSUME NEW l, Owned(l), NEW k, NEW c \in Selection, OwnId(c)
  PROVE  Owned([l EXCEPT ![k] = c]) /\ Len([l EXCEPT ![k] = c]) = Len(l)
<1> DEFINE r == [l EXCEPT ![k] = c]
<1>1. /\ r \in Seq(Selection) /\ Len(r) = Len(l) /\ l \in Seq(Selection)
      /\ \A i \in DOMAIN r : i \in DOMAIN l /\ r[i] = IF i = k THEN c ELSE l[i]
  <2>1. /\ l \in Seq(Selection) /\ Len(l) \in Nat
        /\ l \in [1 .. Len(l) -> Selection]
    BY DEF Owned
  <2>2. /\ r \in [1 .. Len(l) -> Selection]
        /\ \A i \in 1 .. Len(l) : r[i] = IF i = k THEN c ELSE l[i]
    BY <2>1
  <2> HIDE DEF r
  <2> QED
    BY <2>1, <2>2
<1> HIDE DEF r
<1>2. ASSUME NEW i \in DOMAIN r PROVE OwnId(r[i])
  BY <1>1 DEF Owned
<1>3. Owned(r)
  BY <1>1, <1>2 DEF Owned
<1> QED
  BY <1>1, <1>3 DEF r

LEMMA RemovedParts ==
  ASSUME NEW S, NEW l \in Seq(S), NEW k \in DOMAIN l
  PROVE  /\ Removed(l, k) \in Seq(S) /\ Len(Removed(l, k)) = Len(l) - 1
         /\ \A i \in DOMAIN Removed(l, k) :
              Removed(l, k)[i] = IF i < k THEN l[i] ELSE l[i + 1]
<1>1. k \in 1 .. Len(l) /\ Len(l) \in Nat
  OBVIOUS
<1>2. Removed(l, k) = SubSeq(l, 1, k - 1) \o SubSeq(l, k + 1, Len(l))
  BY DEF Removed, RemoveAt
<1> DEFINE a == SubSeq(l, 1, k - 1)
           b == SubSeq(l, k + 1, Len(l))
<1>3. a \in Seq(S) /\ Len(a) = k - 1 /\ \A i \in 1 .. k - 1 : a[i] = l[i]
  BY <1>1
<1>4. b \in Seq(S) /\ Len(b) = Len(l) - k /\ \A i \in 1 .. Len(l) - k : b[i] = l[k + i]
  BY <1>1
<1>5. Removed(l, k) = a \o b
  BY <1>2
<1> HIDE DEF a, b
<1> DEFINE r == a \o b
<1>6. r \in Seq(S) /\ Len(r) = Len(l) - 1
  BY <1>1, <1>3, <1>4
<1>7. ASSUME NEW i \in DOMAIN r PROVE r[i] = IF i < k THEN l[i] ELSE l[i + 1]
  <2>1. i \in 1 .. Len(l) - 1
    BY <1>6, <1>1
  <2>2. CASE i < k
    BY <1>1, <1>3, <1>4, <2>1, <2>2
  <2>3. CASE ~(i < k)
    <3>1. r[i] = b[i - (k - 1)] /\ i - (k - 1) \in 1 .. Len(l) - k
      BY <1>1, <1>3, <1>4, <2>1, <2>3
    <3>2. k + (i - (k - 1)) = i + 1
      BY <1>1, <2>1
    <3> QED
      BY <1>4, <2>3, <3>1, <3>2
  <2> QED
    BY <2>2, <2>3
<1> QED
  BY <1>5, <1>6, <1>7

LEMMA RemovedOwned ==
  ASSUME NEW l, Owned(l), NEW k \in DOMAIN l
  PROVE  Owned(Removed(l, k)) /\ Len(Removed(l, k)) = Len(l) - 1
<1> DEFINE r == Removed(l, k)
<1>1. /\ r \in Seq(Selection) /\ Len(r) = Len(l) - 1 /\ l \in Seq(Selection)
      /\ \A i \in DOMAIN r : r[i] = IF i < k THEN l[i] ELSE l[i + 1]
  BY RemovedParts DEF Owned
<1> HIDE DEF r
<1>2. ASSUME NEW i \in DOMAIN r PROVE OwnId(r[i])
  <2>1. i \in DOMAIN l /\ i + 1 \in DOMAIN l
    BY <1>1
  <2> QED
    BY <1>1, <2>1 DEF Owned
<1>3. Owned(r)
  BY <1>1, <1>2 DEF Owned
<1> QED
  BY <1>1, <1>3 DEF r

(* AudioEngine::updateConfigFromRuntime writes ids into the entries they    *)
(* were found for, because the two lists are in step.                       *)
LEMMA RefreshedOwned ==
  ASSUME ListInv
  PROVE  /\ Owned(Refreshed(outputs))
         /\ SameNames(Refreshed(outputs), outputs)
<1> DEFINE r == Refreshed(outputs)
<1>1. /\ outputs \in Seq(Selection) /\ Owned(outputs)
      /\ streams \in Seq(Endpoints \cup {NoId})
      /\ \A i \in DOMAIN streams :
           streams[i] # NoId => Fits(Name[streams[i]], outputs[i].name)
  <2>1. CASE engine = "off"
    <3>1. /\ streams \in Seq(Endpoints \cup {NoId}) /\ Len(streams) = Len(given)
          /\ given = <<>>
      BY <2>1 DEF ListInv, Audio
    <3>2. DOMAIN streams = {}
      BY <3>1
    <3> QED
      BY <3>1, <3>2 DEF ListInv, Owned
  <2>2. CASE engine # "off"
    BY <2>2 DEF ListInv, Audio, Owned, SameNames
  <2> QED
    BY <2>1, <2>2
<1>2. DOMAIN r = DOMAIN outputs
  BY DEF Refreshed
<1>3. ASSUME NEW i \in DOMAIN outputs
      PROVE  /\ r[i] \in Selection /\ OwnId(r[i])
             /\ r[i].name = outputs[i].name
  <2>1. outputs[i] \in Selection /\ OwnId(outputs[i])
    BY <1>1 DEF Owned
  <2>2. CASE i \in DOMAIN streams /\ streams[i] # NoId
    <3>1. r[i] = [outputs[i] EXCEPT !.id = streams[i]]
      BY <2>2 DEF Refreshed
    <3>2. streams[i] \in Endpoints /\ Fits(Name[streams[i]], outputs[i].name)
      BY <1>1, <2>2
    <3>3. r[i] \in Selection /\ r[i].name = outputs[i].name /\ r[i].id = streams[i]
      BY <2>1, <3>1, <3>2 DEF Selection
    <3> QED
      BY <3>2, <3>3 DEF OwnId
  <2>3. CASE ~(i \in DOMAIN streams /\ streams[i] # NoId)
    BY <2>1, <2>3 DEF Refreshed
  <2> QED
    BY <2>2, <2>3
<1>4. r = [i \in 1 .. Len(outputs) |-> r[i]] /\ Len(outputs) \in Nat
  BY <1>1 DEF Refreshed
<1> HIDE DEF r
<1>5. r \in Seq(Selection) /\ Len(r) = Len(outputs)
  <2>1. \A i \in 1 .. Len(outputs) : r[i] \in Selection
    BY <1>1, <1>3
  <2> QED
    BY <1>4, <2>1
<1> QED
  BY <1>2, <1>3, <1>5 DEF Owned, SameNames, r

LEMMA EmptyOwned == Owned(<<>>) /\ SameNames(<<>>, <<>>)
  BY DEF Owned, SameNames

LEMMA SameNamesItself ==
  ASSUME NEW l, Owned(l)
  PROVE  SameNames(l, l)
  BY DEF Owned, SameNames

(* Starting, stopping and restarting the engine leave it in step.           *)
LEMMA RunAudio ==
  ASSUME NEW how \in {"off", "meters", "forwarding"}, NEW l, Owned(l), NEW o,
         IF how = "off" THEN l = <<>> ELSE SameNames(l, o), Run(how, l)
  PROVE  Audio(engine', given', streams', o)
<1> DEFINE f == [i \in DOMAIN l |-> NoId]
<1>1. engine' = how /\ given' = l /\ streams' = f
  BY DEF Run, NoStreams
<1>2. l \in Seq(Selection) /\ Len(l) \in Nat /\ DOMAIN l = 1 .. Len(l)
  BY DEF Owned
<1>3. f \in [1 .. Len(l) -> {NoId}]
  BY <1>2
<1>4. f \in Seq(Endpoints \cup {NoId}) /\ Len(f) = Len(l)
  <2> HIDE DEF f
  <2> QED
    BY <1>2, <1>3
<1>5. \A i \in DOMAIN f : f[i] = NoId
  OBVIOUS
<1> HIDE DEF f
<1> QED
  BY <1>1, <1>4, <1>5 DEF Audio

LEMMA StoppedAudio ==
  ASSUME NEW o, Stopped
  PROVE  Audio(engine', given', streams', o)
<1>1. engine' = "off" /\ given' = <<>> /\ streams' = <<>>
  BY DEF Stopped
<1>2. <<>> \in Seq(Endpoints \cup {NoId}) /\ DOMAIN <<>> = {} /\ Len(<<>>) = 0
  OBVIOUS
<1> QED
  BY <1>1, <1>2, EmptyOwned DEF Audio

LEMMA RestartAudio ==
  ASSUME ListInv, NEW o, Owned(o), Restart(o)
  PROVE  Audio(engine', given', streams', o)
<1>1. CASE engine = "off"
  BY <1>1 DEF ListInv, Audio, Restart, audio
<1>2. CASE engine # "off"
  <2>1. Run(engine, o) /\ engine \in {"off", "meters", "forwarding"}
    BY <1>2 DEF Restart, ListInv, Audio
  <2> QED
    BY <1>2, <2>1, SameNamesItself, RunAudio
<1> QED
  BY <1>1, <1>2

LEMMA RenamedAudio ==
  ASSUME NEW how, NEW l, NEW found, NEW o, NEW m,
         Audio(how, l, found, o), SameNames(m, o)
  PROVE  Audio(how, l, found, m)
<1>1. CASE how = "off"
  BY <1>1 DEF Audio
<1>2. CASE how # "off"
  <2>1. SameNames(l, o) /\ l \in Seq(Selection)
    BY <1>2 DEF Audio, Owned
  <2>2. SameNames(l, m)
    BY <2>1 DEF SameNames
  <2> QED
    BY <2>2 DEF Audio
<1> QED
  BY <1>1, <1>2

(* A launch gives the ids back as they were saved.                          *)
LEMMA LoadedOwned ==
  ASSUME NEW l, Owned(l)
  PROVE  Owned(FromJson(l)) /\ Len(FromJson(l)) <= MaxOutputs
<1> DEFINE r == FromJson(l)
<1>1. /\ l \in Seq(Selection) /\ DOMAIN l = 1 .. Len(l)
      /\ \A i \in DOMAIN l : OwnId(l[i])
  BY DEF Owned
<1>2. Drawn(r, l, Len(l))
  BY <1>1, FromJsonDraws, OutputListAssumption
<1> HIDE DEF r
<1>3. ASSUME NEW i \in DOMAIN r PROVE OwnId(r[i])
  <2>1. PICK k \in 1 .. Len(l) : r[i] = l[k]
    BY <1>2 DEF Drawn
  <2> QED
    BY <1>1, <2>1
<1> QED
  BY <1>2, <1>3 DEF Drawn, Owned, r

LEMMA ListInit ==
  ASSUME Init
  PROVE  ListInv
<1>1. Owned(file)
  BY OutputListAssumption DEF Init, Owned
<1>2. Nothing \in Selection /\ OwnId(Nothing)
  BY DEF Nothing, Selection, OwnId
<1>3. Audio(engine, given, streams, outputs)
  <2>1. <<>> \in Seq(Endpoints \cup {NoId}) /\ DOMAIN <<>> = {} /\ Len(<<>>) = 0
    OBVIOUS
  <2> QED
    BY <2>1, EmptyOwned DEF Audio, Init
<1>4. /\ present \subseteq Endpoints /\ seen = {} /\ up = FALSE
      /\ outputs = <<>> /\ dialog = 0 /\ draft = Nothing
  BY DEF Init
<1>5. Len(<<>>) <= MaxOutputs /\ 0 \in 0 .. MaxOutputs + 1
  BY OutputListAssumption
<1> QED
  BY <1>1, <1>2, <1>3, <1>4, <1>5, EmptyOwned DEF ListInv

LEMMA ListStep ==
  ASSUME ListInv, [Next]_vars
  PROVE  ListInv'
<1> USE DEF vars, list, audio, picker
<1>0. /\ present \subseteq Endpoints /\ seen \subseteq Endpoints /\ up \in BOOLEAN
      /\ Owned(outputs) /\ Len(outputs) <= MaxOutputs /\ Owned(file)
      /\ Audio(engine, given, streams, outputs) /\ Owned(given)
      /\ dialog \in 0 .. MaxOutputs + 1 /\ draft \in Selection /\ OwnId(draft)
      /\ MaxOutputs \in Nat /\ MaxOutputs # 0 /\ Len(<<>>) = 0
  BY OutputListAssumption DEF ListInv, Audio
<1>a. Nothing \in Selection /\ OwnId(Nothing)
  BY DEF Nothing, Selection, OwnId
<1>b. ASSUME RefreshDevices PROVE seen' \subseteq Endpoints
  BY <1>0, <1>b DEF RefreshDevices, Listed
<1>c. /\ Owned(Refreshed(outputs)) /\ SameNames(Refreshed(outputs), outputs)
      /\ Len(Refreshed(outputs)) <= MaxOutputs
  BY <1>0, RefreshedOwned DEF SameNames
<1>1. CASE Launch
  <2>1. Owned(outputs') /\ Len(outputs') <= MaxOutputs
    BY <1>0, <1>1, LoadedOwned DEF Launch
  <2>2. Audio(engine', given', streams', outputs')
    <3>1. CASE outputs' # <<>>
      BY <1>1, <2>1, <3>1, RunAudio, SameNamesItself, EmptyOwned DEF Launch
    <3>2. CASE outputs' = <<>>
      <4>1. PICK how \in {"off", "meters"} : Run(how, <<>>)
        BY <1>1, <3>2 DEF Launch
      <4>2. how \in {"off", "meters", "forwarding"}
        OBVIOUS
      <4> QED
        BY <3>2, <4>1, <4>2, RunAudio, EmptyOwned
    <3> QED
      BY <3>1, <3>2
  <2> QED
    BY <1>0, <1>1, <1>b, <2>1, <2>2 DEF ListInv, Launch
<1>2. ASSUME Ended, UNCHANGED present, Owned(file') PROVE ListInv'
  <2>1. Stopped
    BY <1>2 DEF Ended
  <2>2. Audio(engine', given', streams', outputs')
    BY <2>1, StoppedAudio
  <2>3. /\ seen' = {} /\ up' = FALSE /\ outputs' = <<>> /\ dialog' = 0
        /\ draft' = Nothing /\ present' = present
    BY <1>2 DEF Ended
  <2>4. Len(<<>>) <= MaxOutputs /\ 0 \in 0 .. MaxOutputs + 1
    BY <1>0
  <2>5. Owned(outputs') /\ Len(outputs') <= MaxOutputs
    BY <2>3, <2>4, EmptyOwned
  <2>6. draft' \in Selection /\ OwnId(draft')
    BY <1>a, <2>3
  <2> QED
    BY <1>0, <1>2, <2>2, <2>3, <2>4, <2>5, <2>6 DEF ListInv
<1>3. CASE Exit
  BY <1>2, <1>3, <1>c DEF Exit
<1>4. CASE Kill
  BY <1>0, <1>2, <1>4 DEF Kill
<1>5. CASE Save
  <2>1. Owned(outputs') /\ Owned(file') /\ Len(outputs') <= MaxOutputs
    BY <1>0, <1>5, <1>c DEF Save
  <2>2. Audio(engine', given', streams', outputs')
    BY <1>0, <1>5, <1>c, RenamedAudio DEF Save
  <2> QED
    BY <1>0, <1>5, <2>1, <2>2 DEF ListInv, Save
<1>6. ASSUME UNCHANGED <<present, up, outputs, file, dialog, draft, seen>>,
             Audio(engine', given', streams', outputs)
      PROVE  ListInv'
  BY <1>0, <1>6 DEF ListInv
<1>7. CASE Toggle
  <2>1. CASE engine = "off" /\ Run("forwarding", outputs)
    BY <1>0, <1>6, <1>7, <2>1, RunAudio, SameNamesItself DEF Toggle
  <2>2. CASE /\ engine # "off"
             /\ \E how \in {"meters", "forwarding"} : Run(how, given)
    <3>1. SameNames(given, outputs)
      BY <1>0, <2>2 DEF Audio
    <3>2. PICK how \in {"meters", "forwarding"} : Run(how, given)
      BY <2>2
    <3>3. Audio(engine', given', streams', outputs)
      BY <1>0, <3>1, <3>2, RunAudio
    <3> QED
      BY <1>6, <1>7, <3>3 DEF Toggle
  <2>3. CASE Stopped
    BY <1>6, <1>7, <2>3, StoppedAudio DEF Toggle
  <2>4. engine \in {"off", "meters", "forwarding"}
    BY <1>0 DEF Audio
  <2> QED
    BY <1>7, <2>1, <2>2, <2>3, <2>4 DEF Toggle
<1>8. CASE Meters
  <2>1. CASE Run("meters", outputs)
    BY <1>0, <1>6, <1>8, <2>1, RunAudio, SameNamesItself DEF Meters
  <2>2. CASE Stopped
    BY <1>6, <1>8, <2>2, StoppedAudio DEF Meters
  <2> QED
    BY <1>8, <2>1, <2>2 DEF Meters
<1>9. ASSUME NEW i \in DOMAIN streams, NEW e \in Endpoints \cup {NoId},
             e # NoId => Fits(Name[e], given[i].name),
             streams' = [streams EXCEPT ![i] = e],
             UNCHANGED <<present, up, list, engine, given, picker>>
      PROVE  ListInv'
  <2>1. /\ streams \in Seq(Endpoints \cup {NoId}) /\ Len(streams) = Len(given)
        /\ \A k \in DOMAIN streams :
             streams[k] # NoId => Fits(Name[streams[k]], given[k].name)
    BY <1>0 DEF Audio
  <2>2. streams \in [1 .. Len(streams) -> Endpoints \cup {NoId}] /\ Len(streams) \in Nat
    BY <2>1
  <2>3. /\ streams' \in [1 .. Len(streams) -> Endpoints \cup {NoId}]
        /\ \A k \in 1 .. Len(streams) : streams'[k] = IF k = i THEN e ELSE streams[k]
    BY <1>9, <2>2
  <2>4. streams' \in Seq(Endpoints \cup {NoId}) /\ Len(streams') = Len(given)
    BY <2>1, <2>2, <2>3
  <2>5. \A k \in DOMAIN streams' :
          streams'[k] # NoId => Fits(Name[streams'[k]], given[k].name)
    BY <1>9, <2>1, <2>2, <2>3
  <2>6. Audio(engine', given', streams', outputs)
    BY <1>0, <1>9, <2>4, <2>5 DEF Audio
  <2> QED
    BY <1>6, <1>9, <2>6
<1>10. ASSUME NEW i \in DOMAIN streams, Open(i) PROVE ListInv'
  <2> DEFINE e == Resolved(given[i], present)
  <2>1. i \in DOMAIN given
    BY <1>0 DEF Audio, Owned
  <2>2. given[i] \in Selection /\ OwnId(given[i])
    BY <1>0, <2>1 DEF Owned
  <2>3. e # NoId /\ streams' = [streams EXCEPT ![i] = e]
    BY <1>10 DEF Open
  <2>4. e \in Endpoints /\ Fits(Name[e], given[i].name)
    BY <1>0, <2>2, <2>3, ResolvedFits
  <2>5. UNCHANGED <<present, up, list, engine, given, picker>>
    BY <1>10 DEF Open
  <2> HIDE DEF e
  <2> QED
    BY <1>9, <2>3, <2>4, <2>5
<1>11. ASSUME NEW i \in DOMAIN streams, Fail(i) PROVE ListInv'
  BY <1>9, <1>11 DEF Fail
<1>12. ASSUME NEW e \in Endpoints, Plug(e) PROVE ListInv'
  BY <1>0, <1>12 DEF ListInv, Plug
<1>13. ASSUME NEW e \in Endpoints, Unplug(e) PROVE ListInv'
  BY <1>0, <1>13 DEF ListInv, Unplug
<1>14. CASE OpenAdd
  BY <1>0, <1>14, <1>a, <1>b DEF ListInv, OpenAdd
<1>15. CASE RefreshChoices
  BY <1>0, <1>15, <1>b DEF ListInv, RefreshChoices
<1>16. ASSUME Owned(outputs'), Len(outputs') <= MaxOutputs,
              Audio(engine', given', streams', outputs'),
              RefreshDevices, Close, UNCHANGED <<present, up, file>>
       PROVE  ListInv'
  BY <1>0, <1>16, <1>a, <1>b DEF ListInv, Close
<1>17. CASE SaveDialog
  <2>1. Owned(outputs') /\ Len(outputs') <= MaxOutputs
    <3>1. CASE Adding
      BY <1>0, <1>17, <3>1, AddedOwned DEF SaveDialog
    <3>2. CASE ~Adding
      <4>1. outputs' = [outputs EXCEPT ![dialog] = draft]
        BY <1>17, <3>2 DEF SaveDialog
      <4> QED
        BY <1>0, <4>1, ReplacedOwned
    <3> QED
      BY <3>1, <3>2
  <2>2. Audio(engine', given', streams', outputs')
    BY <1>17, <2>1, RestartAudio DEF SaveDialog
  <2> QED
    BY <1>16, <1>17, <2>1, <2>2 DEF SaveDialog
<1>18. CASE RemoveDialog
  <2>1. Owned(outputs') /\ Len(outputs') <= MaxOutputs
    <3>1. /\ Owned(Removed(outputs, dialog))
          /\ Len(Removed(outputs, dialog)) = Len(outputs) - 1
      BY <1>0, <1>18, RemovedOwned DEF RemoveDialog
    <3>2. Len(outputs) \in Nat
      BY <1>0 DEF Owned
    <3> QED
      BY <1>0, <1>18, <3>1, <3>2 DEF RemoveDialog
  <2>2. Audio(engine', given', streams', outputs')
    <3>1. CASE outputs' = <<>> /\ engine # "off"
      BY <1>18, <3>1, RunAudio, EmptyOwned DEF RemoveDialog
    <3>2. CASE ~(outputs' = <<>> /\ engine # "off")
      BY <1>18, <2>1, <3>2, RestartAudio DEF RemoveDialog
    <3> QED
      BY <3>1, <3>2
  <2> QED
    BY <1>16, <1>18, <2>1, <2>2 DEF RemoveDialog
<1>19. CASE Cancel
  BY <1>0, <1>19, <1>a DEF ListInv, Cancel, Close
<1>20. ASSUME NEW i \in DOMAIN outputs, OpenConfigure(i) PROVE ListInv'
  <2>1. /\ outputs[i] \in Selection /\ OwnId(outputs[i])
        /\ i \in 0 .. MaxOutputs + 1
    BY <1>0 DEF Owned
  <2> QED
    BY <1>0, <1>20, <1>b, <2>1 DEF ListInv, OpenConfigure
<1>21. ASSUME NEW e \in seen, Pick(e) PROVE ListInv'
  <2>1. draft' = [id |-> e, name |-> Name[e]] /\ e \in Endpoints
    BY <1>0, <1>21 DEF Pick
  <2>2. draft' \in Selection /\ OwnId(draft')
    BY <2>1 DEF Selection, Names, OwnId, Fits
  <2> QED
    BY <1>0, <1>21, <2>2 DEF ListInv, Pick
<1>22. CASE UNCHANGED vars
  BY <1>6, <1>0, <1>22
<1> QED
  BY <1>1, <1>3, <1>4, <1>5, <1>7, <1>8, <1>10, <1>11, <1>12, <1>13, <1>14,
     <1>15, <1>17, <1>18, <1>19, <1>20, <1>21, <1>22 DEF Next

-----------------------------------------------------------------------------
(* The inductive invariant behind OutputsDistinct.                          *)

(* No device answers to two entries; no two devices share a name; two       *)
(* entries that a device answers to are seen to be the same selection.      *)
Pairs(l) == \A i, j \in DOMAIN l : i # j => NoDeviceFitsBoth(l[i], l[j])
Lone(S) == \A e, f \in S : Name[e] = Name[f] => e = f
Plain(l) ==
  \A i, j \in DOMAIN l :
    i # j => SameSelection(l[i], l[j]) \/ NoDeviceFitsBoth(l[i], l[j])

ApartInv ==
  /\ Lone(present) /\ Lone(seen) /\ Pairs(outputs) /\ Plain(file)
  /\ dialog # 0 /\ draft # Nothing =>
       \A i \in DOMAIN outputs \ {dialog} : NoDeviceFitsBoth(draft, outputs[i])

(* Config::fromJson drops what is the same selection, so the rest is apart. *)
LEMMA LoadedApart ==
  ASSUME NEW l, Owned(l), Plain(l)
  PROVE  Pairs(FromJson(l))
<1> DEFINE r == FromJson(l)
<1>1. l \in Seq(Selection) /\ DOMAIN l = 1 .. Len(l) /\ MaxOutputs \in Nat \ {0}
  BY OutputListAssumption DEF Owned
<1>2. Drawn(r, l, Len(l))
  BY <1>1, FromJsonDraws
<1> HIDE DEF r
<1>3. ASSUME NEW i \in DOMAIN r, NEW j \in DOMAIN r, i < j
      PROVE  NoDeviceFitsBoth(r[i], r[j]) /\ NoDeviceFitsBoth(r[j], r[i])
  <2>1. PICK k, m \in 1 .. Len(l) : /\ k # m /\ r[i] = l[k] /\ r[j] = l[m]
                                     /\ ~SameSelection(r[j], r[i])
    BY <1>2, <1>3 DEF Drawn
  <2>2. NoDeviceFitsBoth(r[j], r[i])
    BY <1>1, <2>1 DEF Plain
  <2> QED
    BY <2>2 DEF NoDeviceFitsBoth
<1>4. ASSUME NEW i \in DOMAIN r, NEW j \in DOMAIN r, i # j
      PROVE  NoDeviceFitsBoth(r[i], r[j])
  <2>1. i \in Nat /\ j \in Nat
    BY <1>2 DEF Drawn
  <2>2. i < j \/ j < i
    BY <1>4, <2>1
  <2> QED
    BY <1>3, <2>2
<1> QED
  BY <1>4 DEF Pairs, r

(* Which devices answer depends on the names alone.                         *)
LEMMA PairsRenamed ==
  ASSUME NEW l, NEW m, l \in Seq(Selection), m \in Seq(Selection),
         SameNames(m, l), Pairs(l)
  PROVE  Pairs(m)
<1>1. DOMAIN m = DOMAIN l /\ \A i \in DOMAIN m : m[i].name = l[i].name
  BY DEF SameNames
<1> QED
  BY <1>1 DEF Pairs, NoDeviceFitsBoth

(* The dialog refuses a device that answers to the name of another output:  *)
(* as no two devices share a name, that output resolves to this very one.   *)
LEMMA PickedApart ==
  ASSUME Unambiguous, seen \subseteq Endpoints, Lone(seen),
         NEW e \in seen, NEW o \in Selection, OwnId(o),
         ~Collide([id |-> e, name |-> Name[e]], o, seen)
  PROVE  NoDeviceFitsBoth([id |-> e, name |-> Name[e]], o)
<1> SUFFICES ASSUME NEW f \in Endpoints,
                    Fits(Name[f], Name[e]), Fits(Name[f], o.name)
             PROVE  FALSE
  BY DEF NoDeviceFitsBoth
<1>0. e \in Endpoints /\ e # NoId /\ Name[e] \in Names
  BY OutputListAssumption DEF Names
<1>1. \A n \in Names : \A x, y \in Endpoints :
        Fits(Name[x], n) /\ Fits(Name[y], n) => Name[x] = Name[y]
  BY DEF Unambiguous
<1>2. Name[f] = Name[e]
  <2>1. Fits(Name[e], Name[e])
    BY DEF Fits
  <2> QED
    BY <1>0, <1>1, <2>1
<1>3. Fits(Name[e], o.name)
  BY <1>2
<1>4. o.name \in Names
  BY <1>0, <1>3 DEF Fits, Names
<1>5. \A x \in seen : Fits(Name[x], o.name) => x = e
  BY <1>0, <1>1, <1>3, <1>4 DEF Lone
<1>6. Resolved(o, seen) = e
  <2>1. CASE o.id \in seen
    <3>1. Fits(Name[o.id], o.name)
      BY <2>1, OutputListAssumption DEF OwnId
    <3> QED
      BY <1>5, <2>1, <3>1 DEF Resolved
  <2>2. CASE o.id \notin seen
    <3> DEFINE M == NameMatches(o.name, seen)
    <3>1. M = {e}
      BY <1>3, <1>5 DEF NameMatches, Fits
    <3>2. Cardinality({e}) = 1
      BY FS_Singleton
    <3>3. MatchByName(o.name, seen) = CHOOSE x \in {e} : TRUE
      BY <3>1, <3>2 DEF MatchByName
    <3> QED
      BY <2>2, <3>3 DEF Resolved
  <2> QED
    BY <2>1, <2>2
<1>7. Resolved([id |-> e, name |-> Name[e]], seen) = e
  BY DEF Resolved
<1> QED
  BY <1>0, <1>6, <1>7 DEF Collide

LEMMA ApartInit ==
  ASSUME Unambiguous, Init
  PROVE  ApartInv
  BY DEF Unambiguous, Init, ApartInv, Lone, Pairs, Plain

LEMMA ApartStep ==
  ASSUME Unambiguous, ListInv, ApartInv, [Next]_vars
  PROVE  ApartInv'
<1> USE DEF vars, list, audio, picker
<1>0. /\ present \subseteq Endpoints /\ seen \subseteq Endpoints
      /\ Owned(outputs) /\ Len(outputs) <= MaxOutputs /\ Owned(file)
      /\ dialog \in 0 .. MaxOutputs + 1 /\ MaxOutputs \in Nat /\ (~up => dialog = 0)
      /\ outputs \in Seq(Selection)
  BY OutputListAssumption DEF ListInv, Owned
<1>a. /\ Lone(present) /\ Lone(seen) /\ Pairs(outputs) /\ Plain(file)
      /\ dialog # 0 /\ draft # Nothing =>
           \A i \in DOMAIN outputs \ {dialog} : NoDeviceFitsBoth(draft, outputs[i])
  BY DEF ApartInv
<1>b. ASSUME RefreshDevices PROVE Lone(seen')
  BY <1>a, <1>b DEF RefreshDevices, Listed
<1>c. /\ Pairs(Refreshed(outputs)) /\ Plain(Refreshed(outputs))
      /\ Refreshed(outputs) \in Seq(Selection)
      /\ DOMAIN Refreshed(outputs) = DOMAIN outputs
      /\ \A i \in DOMAIN outputs : Refreshed(outputs)[i].name = outputs[i].name
  <2> DEFINE r == Refreshed(outputs)
  <2>1. SameNames(r, outputs) /\ r \in Seq(Selection)
    BY RefreshedOwned DEF Owned
  <2> HIDE DEF r
  <2>2. Pairs(r)
    BY <1>0, <1>a, <2>1, PairsRenamed
  <2>3. /\ DOMAIN r = DOMAIN outputs
        /\ \A i \in DOMAIN outputs : r[i].name = outputs[i].name
    BY <1>0, <2>1 DEF SameNames
  <2> QED
    BY <2>1, <2>2, <2>3 DEF Pairs, Plain, r
<1>d. Lone({}) /\ Pairs(<<>>)
  BY DEF Lone, Pairs
<1>1. CASE Launch
  <2>1. Pairs(outputs')
    BY <1>0, <1>1, <1>a, LoadedApart DEF Launch
  <2> QED
    BY <1>0, <1>1, <1>a, <1>b, <2>1 DEF ApartInv, Launch
<1>2. ASSUME Ended, UNCHANGED present, Plain(file') PROVE ApartInv'
  BY <1>2, <1>a, <1>d DEF ApartInv, Ended
<1>3. CASE Exit
  BY <1>2, <1>3, <1>c DEF Exit
<1>4. CASE Kill
  BY <1>2, <1>4, <1>a DEF Kill
<1>5. CASE Save
  <2>1. outputs' = Refreshed(outputs) /\ file' \in {file, outputs'}
        /\ UNCHANGED <<present, dialog, draft, seen>>
    BY <1>5 DEF Save
  <2>2. Pairs(outputs') /\ Plain(file')
    BY <1>a, <1>c, <2>1
  <2>3. ASSUME dialog # 0, draft # Nothing, NEW i \in DOMAIN outputs' \ {dialog}
        PROVE  NoDeviceFitsBoth(draft, outputs'[i])
    <3>1. i \in DOMAIN outputs \ {dialog} /\ outputs'[i].name = outputs[i].name
      BY <1>c, <2>1
    <3> QED
      BY <1>a, <2>3, <3>1 DEF NoDeviceFitsBoth
  <2> QED
    BY <1>a, <2>1, <2>2, <2>3 DEF ApartInv
<1>6. ASSUME UNCHANGED <<present, outputs, file, dialog, draft, seen>> PROVE ApartInv'
  BY <1>6, <1>a DEF ApartInv
<1>7. CASE Toggle
  BY <1>6, <1>7 DEF Toggle
<1>8. CASE Meters
  BY <1>6, <1>8 DEF Meters
<1>9. ASSUME NEW i \in DOMAIN streams, Open(i) \/ Fail(i) PROVE ApartInv'
  BY <1>6, <1>9 DEF Open, Fail
<1>10. ASSUME NEW e \in Endpoints, Plug(e) PROVE ApartInv'
  <2>1. /\ present' = present \cup {e} /\ \A f \in present : Name[f] # Name[e]
        /\ UNCHANGED <<outputs, file, dialog, draft, seen>>
    BY <1>10 DEF Plug, Unambiguous
  <2>2. Lone(present')
    BY <1>a, <2>1 DEF Lone
  <2> QED
    BY <1>a, <2>1, <2>2 DEF ApartInv
<1>11. ASSUME NEW e \in Endpoints, Unplug(e) PROVE ApartInv'
  <2>1. present' \subseteq present /\ UNCHANGED <<outputs, file, dialog, draft, seen>>
    BY <1>11 DEF Unplug
  <2>2. Lone(present')
    BY <1>a, <2>1 DEF Lone
  <2> QED
    BY <1>a, <2>1, <2>2 DEF ApartInv
<1>12. CASE OpenAdd
  BY <1>12, <1>a, <1>b DEF ApartInv, OpenAdd
<1>13. CASE RefreshChoices
  BY <1>13, <1>a, <1>b DEF ApartInv, RefreshChoices
<1>14. ASSUME Pairs(outputs'), RefreshDevices, Close,
              UNCHANGED <<present, file>>
       PROVE  ApartInv'
  BY <1>14, <1>a, <1>b DEF ApartInv, Close
<1>15. CASE SaveDialog
  <2>1. \A i \in DOMAIN outputs \ {dialog} :
           /\ NoDeviceFitsBoth(draft, outputs[i])
           /\ NoDeviceFitsBoth(outputs[i], draft)
    BY <1>15, <1>a DEF SaveDialog, NoDeviceFitsBoth
  <2>2. Pairs(outputs')
    <3>1. CASE Adding /\ outputs' = Append(outputs, draft)
      <4>1. /\ DOMAIN outputs' = 1 .. Len(outputs) + 1
            /\ outputs'[Len(outputs) + 1] = draft
            /\ \A i \in 1 .. Len(outputs) : outputs'[i] = outputs[i]
            /\ Len(outputs) \in Nat /\ DOMAIN outputs = 1 .. Len(outputs)
        BY <1>0, <3>1
      <4>2. DOMAIN outputs \ {dialog} = DOMAIN outputs
        <5>1. dialog = MaxOutputs + 1
          BY <3>1 DEF Adding
        <5>2. dialog \notin DOMAIN outputs
          BY <1>0, <4>1, <5>1
        <5> QED
          BY <5>2
      <4>3. ASSUME NEW i \in DOMAIN outputs', NEW j \in DOMAIN outputs', i # j
            PROVE  NoDeviceFitsBoth(outputs'[i], outputs'[j])
        <5>1. CASE i = Len(outputs) + 1
          <6>1. j \in DOMAIN outputs
            BY <4>1, <4>3, <5>1
          <6> QED
            BY <2>1, <4>1, <4>2, <5>1, <6>1
        <5>2. CASE j = Len(outputs) + 1
          <6>1. i \in DOMAIN outputs
            BY <4>1, <4>3, <5>2
          <6> QED
            BY <2>1, <4>1, <4>2, <5>2, <6>1
        <5>3. CASE i # Len(outputs) + 1 /\ j # Len(outputs) + 1
          <6>1. i \in DOMAIN outputs /\ j \in DOMAIN outputs
            BY <4>1, <5>3
          <6> QED
            BY <1>a, <4>1, <4>3, <6>1 DEF Pairs
        <5> QED
          BY <5>1, <5>2, <5>3
      <4> QED
        BY <4>3 DEF Pairs
    <3>2. CASE Adding /\ outputs' = outputs
      BY <1>a, <3>2
    <3>3. CASE ~Adding
      <4>1. outputs' = [outputs EXCEPT ![dialog] = draft]
        BY <1>15, <3>3 DEF SaveDialog
      <4>2. /\ DOMAIN outputs' = DOMAIN outputs
            /\ \A i \in DOMAIN outputs :
                 outputs'[i] = IF i = dialog THEN draft ELSE outputs[i]
        BY <4>1
      <4>3. ASSUME NEW i \in DOMAIN outputs, NEW j \in DOMAIN outputs, i # j
            PROVE  NoDeviceFitsBoth(outputs'[i], outputs'[j])
        BY <1>a, <2>1, <4>2, <4>3 DEF Pairs
      <4> QED
        BY <4>2, <4>3 DEF Pairs
    <3> QED
      BY <1>15, <3>1, <3>2, <3>3 DEF SaveDialog, Added
  <2> QED
    BY <1>14, <1>15, <2>2 DEF SaveDialog
<1>16. CASE RemoveDialog
  <2> DEFINE r == Removed(outputs, dialog)
  <2>1. dialog \in DOMAIN outputs /\ outputs' = r
    BY <1>16 DEF RemoveDialog
  <2>2. /\ r \in Seq(Selection) /\ Len(r) = Len(outputs) - 1
        /\ \A i \in DOMAIN r : r[i] = IF i < dialog THEN outputs[i] ELSE outputs[i + 1]
    BY <1>0, <2>1, RemovedParts
  <2> HIDE DEF r
  <2>3. ASSUME NEW i \in DOMAIN r, NEW j \in DOMAIN r, i # j
        PROVE  NoDeviceFitsBoth(r[i], r[j])
    <3> DEFINE at(k) == IF k < dialog THEN k ELSE k + 1
    <3>1. /\ at(i) \in DOMAIN outputs /\ at(j) \in DOMAIN outputs /\ at(i) # at(j)
          /\ r[i] = outputs[at(i)] /\ r[j] = outputs[at(j)]
      BY <1>0, <2>1, <2>2, <2>3
    <3> HIDE DEF at
    <3> QED
      BY <1>a, <3>1 DEF Pairs
  <2>4. Pairs(outputs')
    BY <2>1, <2>3 DEF Pairs
  <2> QED
    BY <1>14, <1>16, <2>4 DEF RemoveDialog
<1>17. CASE Cancel
  BY <1>17, <1>a DEF ApartInv, Cancel, Close
<1>18. ASSUME NEW i \in DOMAIN outputs, OpenConfigure(i) PROVE ApartInv'
  <2>1. /\ dialog' = i /\ draft' = outputs[i] /\ UNCHANGED <<present, outputs, file>>
        /\ RefreshDevices
    BY <1>18 DEF OpenConfigure
  <2>2. \A j \in DOMAIN outputs' \ {dialog'} :
          NoDeviceFitsBoth(draft', outputs'[j])
    BY <1>a, <2>1 DEF Pairs
  <2> QED
    BY <1>a, <1>b, <2>1, <2>2 DEF ApartInv
<1>19. ASSUME NEW e \in seen, Pick(e) PROVE ApartInv'
  <2>1. /\ draft' = [id |-> e, name |-> Name[e]]
        /\ UNCHANGED <<present, outputs, file, dialog, seen>>
        /\ \A i \in DOMAIN outputs \ {dialog} :
             ~Collide([id |-> e, name |-> Name[e]], outputs[i], seen)
    BY <1>19 DEF Pick, Others
  <2>2. ASSUME NEW i \in DOMAIN outputs \ {dialog}
        PROVE  NoDeviceFitsBoth(draft', outputs[i])
    <3>1. outputs[i] \in Selection /\ OwnId(outputs[i])
      BY <1>0 DEF Owned
    <3> QED
      BY <1>0, <1>a, <2>1, <3>1, PickedApart
  <2> QED
    BY <1>a, <2>1, <2>2 DEF ApartInv
<1>20. CASE UNCHANGED vars
  BY <1>6, <1>20
<1> QED
  BY <1>1, <1>3, <1>4, <1>5, <1>7, <1>8, <1>9, <1>10, <1>11, <1>12, <1>13,
     <1>15, <1>16, <1>17, <1>18, <1>19, <1>20 DEF Next

-----------------------------------------------------------------------------
(* The theorems about OutputList.                                           *)

(* Whatever is dragged through the dialogs, restarted, killed and loaded,   *)
(* the id of an output is the id of a device of that output's name.         *)
THEOREM IdsStayWithTheirEntry == Spec => []IdOfOwnDevice
<1>1. ListInv => IdOfOwnDevice
  BY DEF ListInv, Owned, IdOfOwnDevice
<1> QED
  BY <1>1, ListInit, ListStep, PTL DEF Spec

(* As long as no two devices answer to one name, no sequence of dialogs on  *)
(* stale snapshots, write-backs and relaunches gives two outputs one        *)
(* endpoint; with twins the run output_list_twins shows one.                *)
THEOREM OutputsStayDistinct ==
  ASSUME Unambiguous
  PROVE  Spec => []OutputsDistinct
<1>1. ListInv /\ ApartInv => OutputsDistinct
  <2> SUFFICES ASSUME ListInv, ApartInv,
                      NEW i \in DOMAIN outputs, NEW j \in DOMAIN outputs,
                      i # j, outputs[i].id # NoId, outputs[i].id = outputs[j].id
               PROVE  FALSE
    BY DEF OutputsDistinct
  <2>1. NoDeviceFitsBoth(outputs[i], outputs[j])
    BY DEF ApartInv, Pairs
  <2>2. outputs[i].id \in Endpoints
    <3>1. outputs[i] \in Selection
      BY DEF ListInv, Owned
    <3> QED
      BY <3>1 DEF Selection
  <2>3. /\ Fits(Name[outputs[i].id], outputs[i].name)
        /\ Fits(Name[outputs[i].id], outputs[j].name)
    BY DEF ListInv, Owned, OwnId
  <2> QED
    BY <2>1, <2>2, <2>3 DEF NoDeviceFitsBoth
<1>2. Init => ListInv /\ ApartInv
  BY ListInit, ApartInit
<1>3. ListInv /\ ApartInv /\ [Next]_vars => ListInv' /\ ApartInv'
  BY ListStep, ApartStep
<1> QED
  BY <1>1, <1>2, <1>3, PTL DEF Spec
=============================================================================
