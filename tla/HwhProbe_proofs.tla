--------------------------- MODULE HwhProbe_proofs ---------------------------
(***************************************************************************)
(* The hwh tool for any design, naming file and command line.  What it     *)
(* sorts it lists in full, each element once; so what it writes of the     *)
(* muxes is of all of them.  A run that ends, or is cut short, leaves      *)
(* files that belong together.  Probing what it wrote changes nothing of   *)
(* this.                                                                   *)
(***************************************************************************)
EXTENDS HwhProbe, AximuxProbe_proofs, FunctionTheorems

(***************************************************************************)
(* Sorting.  An element's place is how many are before it: places differ,  *)
(* so all of them are taken.                                               *)
(***************************************************************************)
Ahead(S, R, e) == {d \in S : <<d, e>> \in R}
Order(S, R) ==
  /\ \A a \in S : <<a, a>> \notin R
  /\ \A a, b \in S : a # b => <<a, b>> \in R \/ <<b, a>> \in R
  /\ \A a, b, c \in S : <<a, b>> \in R /\ <<b, c>> \in R => <<a, c>> \in R

LEMMA AheadCounts ==
  ASSUME NEW S, IsFiniteSet(S), NEW R, Order(S, R), NEW e \in S
  PROVE  /\ IsFiniteSet(Ahead(S, R, e))
         /\ Cardinality(Ahead(S, R, e)) \in 0..(Cardinality(S) - 1)
<1> DEFINE A == Ahead(S, R, e)
<1>1. A \subseteq S /\ A # S
  BY DEF Ahead, Order
<1> HIDE DEF A
<1>2. IsFiniteSet(A) /\ Cardinality(A) <= Cardinality(S) /\ Cardinality(A) # Cardinality(S)
  BY <1>1, FS_Subset
<1>3. Cardinality(A) \in Nat /\ Cardinality(S) \in Nat
  BY <1>2, FS_CardinalityType
<1>4. QED
  BY <1>2, <1>3 DEF A

LEMMA AheadGrows ==
  ASSUME NEW S, IsFiniteSet(S), NEW R, Order(S, R), NEW a \in S, NEW b \in S, <<a, b>> \in R
  PROVE  Cardinality(Ahead(S, R, a)) < Cardinality(Ahead(S, R, b))
<1> DEFINE A == Ahead(S, R, a)
           B == Ahead(S, R, b)
<1>1. A \subseteq B /\ A # B
  <2>1. A \subseteq B
    BY DEF Ahead, Order
  <2>2. a \in B /\ a \notin A
    BY DEF Ahead, Order
  <2>3. QED
    BY <2>1, <2>2
<1>2. IsFiniteSet(B)
  BY AheadCounts
<1> HIDE DEF A, B
<1>3. Cardinality(A) # Cardinality(B) /\ Cardinality(A) <= Cardinality(B) /\ IsFiniteSet(A)
  BY <1>1, <1>2, FS_Subset
<1>4. Cardinality(A) \in Nat /\ Cardinality(B) \in Nat
  BY <1>2, <1>3, FS_CardinalityType
<1>5. QED
  BY <1>3, <1>4 DEF A, B

LEMMA AheadDiffers ==
  ASSUME NEW S, IsFiniteSet(S), NEW R, Order(S, R), NEW a \in S, NEW b \in S, <<a, b>> \in R
  PROVE  Cardinality(Ahead(S, R, a)) # Cardinality(Ahead(S, R, b))
<1>1. Cardinality(Ahead(S, R, a)) < Cardinality(Ahead(S, R, b))
  BY AheadGrows
<1>2. Cardinality(Ahead(S, R, a)) \in 0..(Cardinality(S) - 1) /\ Cardinality(S) \in Nat
  BY AheadCounts, FS_CardinalityType
<1>3. QED
  BY <1>1, <1>2

LEMMA ElementPlaces ==
  ASSUME NEW S, IsFiniteSet(S), NEW R, Order(S, R)
  PROVE  /\ Cardinality(S) \in Nat
         /\ \A x \in 1..Cardinality(S) : \E e \in S : Cardinality(Ahead(S, R, e)) = x - 1
         /\ \A e \in S : Cardinality(Ahead(S, R, e)) \in 0..(Cardinality(S) - 1)
         /\ \A a, b \in S : Cardinality(Ahead(S, R, a)) = Cardinality(Ahead(S, R, b)) => a = b
<1> DEFINE n == Cardinality(S)
           h == [e \in S |-> Cardinality(Ahead(S, R, e))]
           H == {h[e] : e \in S}
<1>1. n \in Nat
  BY FS_CardinalityType
<1>2. \A e \in S : h[e] \in 0..(n - 1)
  BY AheadCounts
<1>3. \A a, b \in S : h[a] = h[b] => a = b
  <2>1. \A a, b \in S : <<a, b>> \in R => h[a] # h[b]
    BY AheadDiffers
  <2>2. \A a, b \in S : a # b => <<a, b>> \in R \/ <<b, a>> \in R
    BY DEF Order
  <2>3. QED
    BY <2>1, <2>2
<1>4. DOMAIN h = S
  OBVIOUS
<1>5. \A e \in S : h[e] = Cardinality(Ahead(S, R, e))
  OBVIOUS
<1>6. h \in Bijection(S, H)
  BY <1>3 DEF Bijection, Injection, Surjection, IsInjective
<1> HIDE DEF h, n
<1>7. H = 0..(n - 1)
  <2>1. IsFiniteSet(H) /\ Cardinality(H) = n
    <3>1. ExistsBijection(S, H)
      BY <1>6 DEF ExistsBijection
    <3> HIDE DEF H
    <3>2. QED
      BY <3>1, FS_Bijection DEF n
  <2>2. H \subseteq 0..(n - 1)
    BY <1>2
  <2>3. IsFiniteSet(0..(n - 1)) /\ Cardinality(0..(n - 1)) = n
    <3>1. /\ IsFiniteSet(0..(n - 1))
          /\ Cardinality(0..(n - 1)) = IF 0 > n - 1 THEN 0 ELSE (n - 1) - 0 + 1
      BY <1>1, FS_Interval
    <3>2. QED
      BY <1>1, <3>1
  <2> DEFINE I == 0..(n - 1)
  <2> HIDE DEF H
  <2>4. H \in SUBSET I /\ IsFiniteSet(I) /\ Cardinality(H) = Cardinality(I)
    BY <2>1, <2>2, <2>3
  <2> HIDE DEF I
  <2>5. H = I
    BY <2>4, FS_Subset
  <2>6. QED
    BY <2>5 DEF I
<1>8. \A x \in 1..n : \E e \in S : h[e] = x - 1
  <2> TAKE x \in 1..n
  <2>1. x - 1 \in 0..(n - 1)
    BY <1>1
  <2>2. x - 1 \in H
    BY <1>7, <2>1
  <2>3. QED
    BY <2>2
<1>9. QED
  BY <1>1, <1>2, <1>3, <1>5, <1>8 DEF n

LEMMA PlacesTaken ==
  ASSUME NEW S, IsFiniteSet(S), NEW R, Order(S, R)
  PROVE  \A x \in 1..Cardinality(S) : \E e \in S : Cardinality(Ahead(S, R, e)) = x - 1
BY ElementPlaces

\* So a list of the elements by their places lists them all, each once.
LEMMA AllListed ==
  ASSUME NEW S, IsFiniteSet(S), NEW R, Order(S, R), NEW s,
         DOMAIN s = 1..Cardinality(S),
         \A x \in 1..Cardinality(S) :
           s[x] \in S /\ Cardinality(Ahead(S, R, s[x])) = x - 1
  PROVE  /\ \A e \in S : \E x \in DOMAIN s : s[x] = e
         /\ \A x, y \in DOMAIN s : s[x] = s[y] => x = y
<1> DEFINE n == Cardinality(S)
           h == [e \in S |-> Cardinality(Ahead(S, R, e))]
<1>1. /\ n \in Nat
      /\ \A e \in S : h[e] \in 0..(n - 1)
      /\ \A a, b \in S : h[a] = h[b] => a = b
  BY ElementPlaces
<1>2. DOMAIN s = 1..n /\ \A x \in 1..n : s[x] \in S /\ h[s[x]] = x - 1
  OBVIOUS
<1> HIDE DEF h, n
<1>3. \A e \in S : \E x \in 1..n : s[x] = e
  <2> TAKE e \in S
  <2>1. h[e] \in Int /\ h[e] + 1 \in 1..n /\ (h[e] + 1) - 1 = h[e]
    BY <1>1
  <2>2. h[s[h[e] + 1]] = h[e] /\ s[h[e] + 1] \in S
    BY <1>2, <2>1
  <2>3. s[h[e] + 1] = e
    BY <1>1, <2>2
  <2>4. QED
    BY <2>1, <2>3
<1>4. \A x, y \in 1..n : s[x] = s[y] => x = y
  <2> TAKE x, y \in 1..n
  <2> HAVE s[x] = s[y]
  <2>1. x - 1 = y - 1
    BY <1>2
  <2>2. QED
    BY <1>1, <2>1
<1>5. QED
  BY <1>2, <1>3, <1>4

\* A list that has at each place an element with so many others before it.
Lists(s, S, R) ==
  /\ DOMAIN s = 1..Cardinality(S)
  /\ \A x \in 1..Cardinality(S) :
       s[x] \in S /\ Cardinality(Ahead(S, R, s[x])) = x - 1

LEMMA ListsAll ==
  ASSUME NEW S, IsFiniteSet(S), NEW R, Order(S, R), NEW s, Lists(s, S, R)
  PROVE  /\ Cardinality(S) \in Nat
         /\ DOMAIN s = 1..Cardinality(S)
         /\ \A x \in DOMAIN s : s[x] \in S
         /\ \A e \in S : \E x \in DOMAIN s : s[x] = e
         /\ \A x, y \in DOMAIN s : s[x] = s[y] => x = y
<1>1. Cardinality(S) \in Nat
  BY FS_CardinalityType
<1>2. /\ DOMAIN s = 1..Cardinality(S)
      /\ \A x \in 1..Cardinality(S) :
           s[x] \in S /\ Cardinality(Ahead(S, R, s[x])) = x - 1
  BY DEF Lists
<1>3. /\ \A e \in S : \E x \in DOMAIN s : s[x] = e
      /\ \A x, y \in DOMAIN s : s[x] = s[y] => x = y
  BY <1>2, AllListed
<1>4. QED
  BY <1>1, <1>2, <1>3

LEMMA NumbersSorted ==
  ASSUME NEW S \in SUBSET Nat, IsFiniteSet(S)
  PROVE  LET R == {r \in S \X S : r[1] < r[2]} IN
         Order(S, R) /\ Lists(Sorted(S, InOrder), S, R)
<1> DEFINE R == {r \in S \X S : r[1] < r[2]}
           s == Sorted(S, InOrder)
           n == Cardinality(S)
<1>1. Order(S, R)
  BY DEF Order
<1>2. \A e \in S : Ahead(S, R, e) = {d \in S : d < e}
  BY DEF Ahead
<1>3. s = [x \in 1..n |-> CHOOSE e \in S : Cardinality({d \in S : d < e}) = x - 1]
  BY DEF Sorted, InOrder
<1> HIDE DEF R, s
<1> HIDE DEF n
<1>4. \A x \in 1..n : \E e \in S : Cardinality(Ahead(S, R, e)) = x - 1
  BY <1>1, PlacesTaken DEF n
<1>5. ASSUME NEW x \in 1..n
      PROVE  s[x] \in S /\ Cardinality(Ahead(S, R, s[x])) = x - 1
  <2>1. PICK e \in S : Cardinality(Ahead(S, R, e)) = x - 1
    BY <1>4
  <2>2. Cardinality({d \in S : d < e}) = x - 1
    BY <1>2, <2>1
  <2>3. s[x] \in S /\ Cardinality({d \in S : d < s[x]}) = x - 1
    BY <1>3, <2>2
  <2>4. Ahead(S, R, s[x]) = {d \in S : d < s[x]}
    BY <1>2, <2>3
  <2>5. QED
    BY <2>3, <2>4
<1>6. DOMAIN s = 1..n
  BY <1>3
<1>7. Lists(s, S, R)
  BY <1>5, <1>6 DEF Lists, n
<1>8. QED
  BY <1>1, <1>7 DEF R, s

LEMMA RanksSorted ==
  ASSUME NEW S \in SUBSET DOMAIN Rank, IsFiniteSet(S)
  PROVE  LET R == {r \in S \X S : Rank[r[1]] < Rank[r[2]]} IN
         Order(S, R) /\ Lists(Sorted(S, ByRank), S, R)
<1> DEFINE R == {r \in S \X S : Rank[r[1]] < Rank[r[2]]}
           s == Sorted(S, ByRank)
           n == Cardinality(S)
<1>1. Order(S, R)
  BY RankAssumption DEF Order
<1>2. \A e \in S : Ahead(S, R, e) = {d \in S : Rank[d] < Rank[e]}
  BY DEF Ahead
<1>3. s = [x \in 1..n |-> CHOOSE e \in S : Cardinality({d \in S : Rank[d] < Rank[e]}) = x - 1]
  BY DEF Sorted, ByRank
<1> HIDE DEF R, s, n
<1>4. \A x \in 1..n : \E e \in S : Cardinality(Ahead(S, R, e)) = x - 1
  BY <1>1, PlacesTaken DEF n
<1>5. ASSUME NEW x \in 1..n
      PROVE  s[x] \in S /\ Cardinality(Ahead(S, R, s[x])) = x - 1
  <2>1. PICK e \in S : Cardinality(Ahead(S, R, e)) = x - 1
    BY <1>4
  <2>2. Cardinality({d \in S : Rank[d] < Rank[e]}) = x - 1
    BY <1>2, <2>1
  <2>3. s[x] \in S /\ Cardinality({d \in S : Rank[d] < Rank[s[x]]}) = x - 1
    BY <1>3, <2>2
  <2>4. Ahead(S, R, s[x]) = {d \in S : Rank[d] < Rank[s[x]]}
    BY <1>2, <2>3
  <2>5. QED
    BY <2>3, <2>4
<1>6. DOMAIN s = 1..n
  BY <1>3
<1>7. Lists(s, S, R)
  BY <1>5, <1>6 DEF Lists, n
<1>8. QED
  BY <1>1, <1>7 DEF R, s

-----------------------------------------------------------------------------
(***************************************************************************)
(* Parsed muxes                                                            *)
(***************************************************************************)
LEMMA ImageFinite ==
  ASSUME NEW fl, IsFiniteSet(DOMAIN fl)
  PROVE  IsFiniteSet({fl[x] : x \in DOMAIN fl})
<1> DEFINE S == DOMAIN fl
           T == {fl[x] : x \in S}
           g == [x \in S |-> fl[x]]
<1>1. g \in Surjection(S, T)
  BY DEF Surjection
<1> HIDE DEF T, g
<1>2. IsFiniteSet(T)
  BY <1>1, FS_Surjection
<1>3. QED
  BY <1>2 DEF T

LEMMA ModulesOfDesign ==
  ASSUME NEW d \in Designs, d # None
  PROVE  /\ IsFiniteSet(MuxModules(d))
         /\ \A m \in MuxModules(d) :
              /\ \E y \in DOMAIN d : d[y] = m
              /\ m \in HwhModule /\ m.mux /\ m.inst \in DOMAIN Rank
         /\ \A m, n \in MuxModules(d) : m.inst = n.inst => m = n
<1>1. /\ d \in Seq(HwhModule)
      /\ \A x, y \in DOMAIN d :
           d[x].mux /\ d[y].mux /\ d[x].inst = d[y].inst => x = y
      /\ \A x \in DOMAIN d : d[x].mux => d[x].inst \in DOMAIN Rank
  BY DesignAssumption
<1>2. SeqOps!ToSet(d) = {d[x] : x \in DOMAIN d}
  BY DEF SeqOps!ToSet
<1>3. IsFiniteSet(MuxModules(d))
  <2>1. /\ DOMAIN d = 1..Len(d) /\ Len(d) \in Nat
    BY <1>1
  <2>2. IsFiniteSet(DOMAIN d)
    BY <2>1, FS_Interval
  <2>3. IsFiniteSet({d[x] : x \in DOMAIN d})
    BY <2>2, ImageFinite
  <2>4. QED
    BY <1>2, <2>3, FS_Subset DEF MuxModules
<1>4. \A m \in MuxModules(d) : m.mux /\ \E y \in DOMAIN d : d[y] = m
  BY <1>2 DEF MuxModules
<1>5. \A x \in DOMAIN d : d[x] \in HwhModule
  BY <1>1
<1>6. QED
  BY <1>1, <1>3, <1>4, <1>5

LEMMA InstancesDiffer ==
  ASSUME NEW d \in Designs, d # None
  PROVE  LET S == ParsedMuxes(d) IN
         /\ IsFiniteSet(S)
         /\ \A m \in S : m.instance \in DOMAIN Rank
         /\ \A m, n \in S : m.instance = n.instance => m = n
<1>1. \A m \in MuxModules(d) : ParseMux(d, m).instance = m.inst
  BY Zenon DEF ParseMux
<1>2. IsFiniteSet(ParsedMuxes(d))
  <2> DEFINE h == [m \in MuxModules(d) |-> ParseMux(d, m)]
  <2>1. IsFiniteSet(MuxModules(d))
    BY ModulesOfDesign
  <2>2. /\ DOMAIN h = MuxModules(d)
        /\ \A m \in MuxModules(d) : h[m] = ParseMux(d, m)
    OBVIOUS
  <2> HIDE DEF h
  <2>3. IsFiniteSet({h[m] : m \in DOMAIN h})
    BY <2>1, <2>2, ImageFinite
  <2>4. {h[m] : m \in DOMAIN h} = ParsedMuxes(d)
    BY <2>2 DEF ParsedMuxes
  <2>5. QED
    BY <2>3, <2>4
<1>3. \A m \in ParsedMuxes(d) : m.instance \in DOMAIN Rank
  BY <1>1, ModulesOfDesign DEF ParsedMuxes
<1>4. ASSUME NEW m \in ParsedMuxes(d), NEW n \in ParsedMuxes(d), m.instance = n.instance
      PROVE  m = n
  <2>1. PICK a \in MuxModules(d) : m = ParseMux(d, a)
    BY DEF ParsedMuxes
  <2>2. PICK b \in MuxModules(d) : n = ParseMux(d, b)
    BY DEF ParsedMuxes
  <2>3. a.inst = b.inst
    BY <1>1, <1>4, <2>1, <2>2
  <2>4. a = b
    BY <2>3, ModulesOfDesign
  <2>5. QED
    BY <2>1, <2>2, <2>4
<1>5. QED
  BY <1>2, <1>3, <1>4

LEMMA MuxesSorted ==
  ASSUME NEW d \in Designs, d # None
  PROVE  LET S == ParsedMuxes(d)
             R == {r \in S \X S : Rank[r[1].instance] < Rank[r[2].instance]} IN
         IsFiniteSet(S) /\ Order(S, R) /\ Lists(ParseMuxes(d), S, R)
<1> DEFINE S == ParsedMuxes(d)
           R == {r \in S \X S : Rank[r[1].instance] < Rank[r[2].instance]}
           s == ParseMuxes(d)
           n == Cardinality(S)
<1>2. s = [x \in 1..n |->
             CHOOSE e \in S : Cardinality({c \in S : Rank[c.instance] < Rank[e.instance]}) = x - 1]
  BY DEF ParseMuxes, Sorted, ByRank
<1>3. /\ IsFiniteSet(S)
      /\ \A m \in S : Rank[m.instance] \in Nat
      /\ \A a, b \in S : Rank[a.instance] = Rank[b.instance] => a = b
  <2>1. \A m \in S : m.instance \in DOMAIN Rank
    BY InstancesDiffer
  <2>2. \A a, b \in S : a.instance = b.instance => a = b
    BY InstancesDiffer
  <2>3. IsFiniteSet(S)
    BY InstancesDiffer
  <2> HIDE DEF S
  <2>4. QED
    BY <2>1, <2>2, <2>3, RankAssumption
<1> HIDE DEF S, s, n
<1>4. Order(S, R)
  BY <1>3 DEF Order
<1>5. \A e \in S : Ahead(S, R, e) = {c \in S : Rank[c.instance] < Rank[e.instance]}
  BY DEF Ahead
<1> HIDE DEF R
<1>6. \A x \in 1..n : \E e \in S : Cardinality(Ahead(S, R, e)) = x - 1
  BY <1>3, <1>4, PlacesTaken DEF n
<1>7. ASSUME NEW x \in 1..n
      PROVE  s[x] \in S /\ Cardinality(Ahead(S, R, s[x])) = x - 1
  <2>1. PICK e \in S : Cardinality(Ahead(S, R, e)) = x - 1
    BY <1>6
  <2>2. Cardinality({c \in S : Rank[c.instance] < Rank[e.instance]}) = x - 1
    BY <1>5, <2>1
  <2>3. s[x] \in S /\ Cardinality({c \in S : Rank[c.instance] < Rank[s[x].instance]}) = x - 1
    BY <1>2, <2>2
  <2>4. Ahead(S, R, s[x]) = {c \in S : Rank[c.instance] < Rank[s[x].instance]}
    BY <1>5, <2>3
  <2>5. QED
    BY <2>3, <2>4
<1>8. DOMAIN s = 1..n
  BY <1>2
<1>9. Lists(s, S, R)
  BY <1>7, <1>8 DEF Lists, n
<1>10. QED
  BY <1>3, <1>4, <1>9 DEF R, s, S

\* What there is to know of the parsed muxes.
LEMMA MuxesParsed ==
  ASSUME NEW d \in Designs, d # None
  PROVE  LET s == ParseMuxes(d) IN
         /\ Len(s) \in Nat /\ DOMAIN s = 1..Len(s) /\ s \in Seq(ParsedMuxes(d))
         /\ \A x \in DOMAIN s : s[x] \in ParsedMuxes(d)
         /\ \A x, y \in DOMAIN s : s[x].instance = s[y].instance => x = y
<1> DEFINE S == ParsedMuxes(d)
           R == {r \in S \X S : Rank[r[1].instance] < Rank[r[2].instance]}
           s == ParseMuxes(d)
<1>1. IsFiniteSet(S) /\ Order(S, R) /\ Lists(s, S, R)
  BY MuxesSorted
<1>2. \A m, n \in S : m.instance = n.instance => m = n
  BY InstancesDiffer
<1>3. s = [x \in 1..Cardinality(S) |-> s[x]]
  <2> DEFINE At(x) ==
        CHOOSE e \in S : Cardinality({c \in S : Rank[c.instance] < Rank[e.instance]}) = x - 1
  <2>2. s = [x \in 1..Cardinality(S) |-> At(x)]
    BY DEF ParseMuxes, Sorted, ByRank
  <2> HIDE DEF S, s, At
  <2>3. QED
    BY <2>2
<1> HIDE DEF S, R, s
<1>4. /\ Cardinality(S) \in Nat
      /\ DOMAIN s = 1..Cardinality(S)
      /\ \A x \in DOMAIN s : s[x] \in S
      /\ \A x, y \in DOMAIN s : s[x] = s[y] => x = y
  BY <1>1, ListsAll
<1>5. s \in Seq(S)
  BY <1>3, <1>4
<1>6. Len(s) \in Nat /\ DOMAIN s = 1..Len(s)
  BY <1>5
<1>7. QED
  BY <1>2, <1>4, <1>5, <1>6 DEF S, s

LEMMA SlotsParsed ==
  ASSUME NEW d \in Designs, d # None, NEW mux \in ParsedMuxes(d)
  PROVE  /\ IsFiniteSet(DOMAIN mux.slots)
         /\ DOMAIN mux.slots \subseteq Nat \X Nat
<1>1. PICK m \in MuxModules(d) : mux = ParseMux(d, m)
  BY DEF ParsedMuxes
<1>2. m \in HwhModule
  BY ModulesOfDesign
<1> DEFINE T == {<<SlotOf[p.name].pin, SlotOf[p.name].alt>> : p \in MuxPorts(m)}
<1>3. DOMAIN mux.slots = T
  BY <1>1 DEF ParseMux
<1>4. IsFiniteSet(MuxPorts(m))
  <2> DEFINE ps == m.ports
  <2>1. ps \in Seq([name : STRING, net : STRING])
    BY <1>2 DEF HwhModule
  <2> HIDE DEF ps
  <2>2. DOMAIN ps = 1..Len(ps) /\ Len(ps) \in Nat
    BY <2>1
  <2>3. IsFiniteSet(DOMAIN ps)
    BY <2>2, FS_Interval
  <2>4. IsFiniteSet(SeqOps!ToSet(ps))
    BY <2>3, ImageFinite DEF SeqOps!ToSet
  <2>5. MuxPorts(m) \subseteq SeqOps!ToSet(ps)
    BY DEF MuxPorts, ps
  <2>6. QED
    BY <2>4, <2>5, FS_Subset
<1>5. IsFiniteSet(T)
  <2> DEFINE h == [p \in MuxPorts(m) |-> <<SlotOf[p.name].pin, SlotOf[p.name].alt>>]
  <2>1. /\ DOMAIN h = MuxPorts(m)
        /\ T = {h[p] : p \in MuxPorts(m)}
    OBVIOUS
  <2> HIDE DEF h, T
  <2>2. QED
    BY <1>4, <2>1, ImageFinite
<1>6. T \subseteq Nat \X Nat
  <2>1. ASSUME NEW p \in MuxPorts(m)
        PROVE  SlotOf[p.name].pin \in Nat /\ SlotOf[p.name].alt \in Nat
    <3>1. p.name \in DOMAIN SlotOf
      BY DEF MuxPorts
    <3>2. QED
      BY <3>1, SlotAssumption
  <2>2. QED
    BY <2>1
<1>7. QED
  BY <1>3, <1>5, <1>6

LEMMA PinNumbers ==
  ASSUME NEW d \in Designs, d # None, NEW mux \in ParsedMuxes(d)
  PROVE  PinsOf(mux) \in SUBSET Nat /\ IsFiniteSet(PinsOf(mux))
<1> DEFINE D == DOMAIN mux.slots
           h == [s \in D |-> s[1]]
<1>1. IsFiniteSet(D) /\ D \subseteq Nat \X Nat
  BY SlotsParsed
<1>2. PinsOf(mux) = {s[1] : s \in D}
  BY DEF PinsOf
<1> HIDE DEF D
<1>3. DOMAIN h = D /\ PinsOf(mux) = {h[s] : s \in D}
  BY <1>2
<1> HIDE DEF h
<1>4. IsFiniteSet(PinsOf(mux))
  BY <1>1, <1>3, ImageFinite
<1>5. PinsOf(mux) \subseteq Nat
  BY <1>1, <1>2
<1>6. QED
  BY <1>4, <1>5

LEMMA PinsListed ==
  ASSUME NEW d \in Designs, d # None, NEW mux \in ParsedMuxes(d)
  PROVE  /\ Cardinality(PinsOf(mux)) \in Nat
         /\ DOMAIN PinList(mux) = 1..Cardinality(PinsOf(mux))
         /\ \A x \in DOMAIN PinList(mux) : PinList(mux)[x] \in PinsOf(mux)
<1> DEFINE S == PinsOf(mux)
           R == {r \in S \X S : r[1] < r[2]}
           s == Sorted(S, InOrder)
<1>1. S \in SUBSET Nat /\ IsFiniteSet(S)
  BY PinNumbers
<1>2. s = PinList(mux)
  BY DEF PinList
<1> HIDE DEF S
<1>3. Order(S, R) /\ Lists(s, S, R)
  BY <1>1, NumbersSorted
<1> HIDE DEF R, s
<1>4. QED
  BY <1>1, <1>2, <1>3, ListsAll DEF S

\* Without gaps, pin p is at p in the list, counted from 0.
LEMMA PinsInPlace ==
  ASSUME NEW d \in Designs, d # None, NEW mux \in ParsedMuxes(d),
         PinsOf(mux) = 0..(Cardinality(PinsOf(mux)) - 1), NEW p \in PinsOf(mux)
  PROVE  p + 1 \in DOMAIN PinList(mux) /\ PinList(mux)[p + 1] = p
<1> DEFINE S == PinsOf(mux)
           R == {r \in S \X S : r[1] < r[2]}
           s == Sorted(S, InOrder)
           n == Cardinality(S)
<1>1. S \in SUBSET Nat /\ IsFiniteSet(S) /\ n \in Nat
  BY PinNumbers, PinsListed
<1>2. s = PinList(mux)
  BY DEF PinList
<1>3. S = 0..(n - 1) /\ p \in S
  OBVIOUS
<1> HIDE DEF S
<1>4. Lists(s, S, R)
  BY <1>1, NumbersSorted
<1>5. \A e \in S : Ahead(S, R, e) = {c \in S : c < e}
  BY DEF Ahead
<1> HIDE DEF R, s
<1>6. /\ DOMAIN s = 1..n
      /\ \A x \in 1..n : s[x] \in S /\ Cardinality(Ahead(S, R, s[x])) = x - 1
  BY <1>4 DEF Lists
<1> HIDE DEF n
<1>7. p \in Nat /\ p + 1 \in 1..n /\ (p + 1) - 1 = p
  BY <1>1, <1>3
<1> DEFINE e == s[p + 1]
<1>8. e \in S /\ Cardinality(Ahead(S, R, e)) = p
  BY <1>6, <1>7
<1>9. Cardinality(Ahead(S, R, e)) = e
  <2>1. e \in Nat /\ e \in 0..(n - 1)
    BY <1>1, <1>3, <1>8
  <2> HIDE DEF e
  <2>2. {c \in S : c < e} = 0..(e - 1)
    BY <1>1, <1>3, <2>1
  <2>3. Cardinality(0..(e - 1)) = IF 0 > e - 1 THEN 0 ELSE (e - 1) - 0 + 1
    BY <2>1, FS_Interval
  <2>4. Cardinality(0..(e - 1)) = e
    BY <2>1, <2>3
  <2>5. Ahead(S, R, e) = 0..(e - 1)
    BY <1>5, <1>8, <2>2
  <2>6. QED
    BY <2>4, <2>5
<1>10. QED
  BY <1>2, <1>6, <1>7, <1>8, <1>9

-----------------------------------------------------------------------------
(***************************************************************************)
(* The files                                                               *)
(***************************************************************************)
Places == {"naming", "load", "parse", "json", "emit", "write", "consumers",
           "fragment", "done", "failed"}

\* Where main is when it is done with file f.
Passed(fl) ==
  CASE fl = "json" -> {"emit", "write", "consumers", "fragment", "done"}
    [] fl = "output" -> {"consumers", "fragment", "done"}
    [] fl = "consumers" -> {"done"}

\* A file is untouched before its place, whole after it, and in the works only
\* there, or where the run has failed.
FileInv ==
  /\ place \in Places
  /\ file \in [Files -> {"old", "part", "new"}]
  /\ \A fl \in Files :
       /\ file[fl] # "old" => fl \in option.files
       /\ place \in Passed(fl) /\ fl \in option.files => file[fl] = "new"
       /\ place \notin Passed(fl) \cup {PlaceOf(fl), "failed"} => file[fl] = "old"
       /\ file[fl] = "part" => place \in {PlaceOf(fl), "failed"}
  /\ file["consumers"] # "old" /\ "output" \in option.files => file["output"] = "new"

LEMMA FilePlaces ==
  /\ PlaceOf("json") = "json" /\ PlaceOf("output") = "write"
  /\ PlaceOf("consumers") = "fragment"
  /\ NextPlace("json") = "emit" /\ NextPlace("output") = "consumers"
  /\ NextPlace("consumers") = "done"
  /\ Passed("json") = {"emit", "write", "consumers", "fragment", "done"}
  /\ Passed("output") = {"consumers", "fragment", "done"}
  /\ Passed("consumers") = {"done"}
BY DEF PlaceOf, NextPlace, Passed

LEMMA FileInit == ToolInit => FileInv
BY FilePlaces DEF ToolInit, FileInv, Places, Files

LEMMA FileStep == FileInv /\ [ToolNext]_toolVars => FileInv'
<1> SUFFICES ASSUME FileInv, [ToolNext]_toolVars PROVE FileInv'
  OBVIOUS
<1> USE FilePlaces DEF FileInv, Places, Files
<1>1. CASE LoadNaming \/ LoadHwh \/ Interrupted
  BY <1>1 DEF LoadNaming, LoadHwh, Interrupted, inputs
<1>2. CASE Parse
  BY <1>2 DEF Parse, inputs
<1>3. CASE EmitPinctrl2 \/ EmitLegacy
  BY <1>3 DEF EmitPinctrl2, EmitLegacy, inputs
<1>4. CASE WireConsumers \/ LegacyEmitted \/ EmitConsumers
  BY <1>4 DEF WireConsumers, LegacyEmitted, EmitConsumers, inputs
<1>5. CASE NoFile
  BY <1>5 DEF NoFile, inputs
<1>6. ASSUME NEW fl \in Files, OpenFile(fl) PROVE FileInv'
  BY <1>6 DEF OpenFile, inputs
<1>7. ASSUME NEW fl \in Files, CloseFile(fl) PROVE FileInv'
  BY <1>7 DEF CloseFile, inputs
<1>8. CASE ToolFinished \/ UNCHANGED toolVars
  BY <1>8 DEF ToolFinished, toolVars
<1>9. QED
  BY <1>1, <1>2, <1>3, <1>4, <1>5, <1>6, <1>7, <1>8 DEF ToolNext

-----------------------------------------------------------------------------
(***************************************************************************)
(* The tables                                                              *)
(***************************************************************************)

\* Muxes are parsed or not yet; what is emitted is of those before turn.
ParseInv ==
  /\ place \in Places
  /\ option \in Option
  /\ design \in Designs /\ naming \in Namings
  /\ place \notin {"naming", "failed"} => naming # None
  /\ place \notin {"naming", "load", "failed"} => design # None
  /\ place \in {"naming", "load", "parse"}
       => muxes = <<>> /\ turn = 1 /\ nodes = <<>> /\ legacy = <<>>
  /\ muxes # <<>> => design # None /\ muxes = ParseMuxes(design)
  /\ place \in {"json", "emit", "write", "consumers", "fragment", "done"}
       => muxes = ParseMuxes(design)
  /\ place = "json" => turn = 1
  /\ turn \in 1..(Len(muxes) + 1)

LEMMA MuxesSequence ==
  ASSUME ParseInv
  PROVE  Len(muxes) \in Nat /\ DOMAIN muxes = 1..Len(muxes)
<1>1. CASE muxes = <<>>
  BY <1>1
<1>2. CASE muxes # <<>>
  BY <1>2, MuxesParsed DEF ParseInv
<1>3. QED
  BY <1>1, <1>2

LEMMA ParseInit == ToolInit => ParseInv
BY OptionAssumption DEF ToolInit, ParseInv, Places

LEMMA ParseStep == ParseInv /\ [ToolNext]_toolVars => ParseInv'
<1> SUFFICES ASSUME ParseInv, [ToolNext]_toolVars PROVE ParseInv'
  OBVIOUS
<1>0. Len(muxes) \in Nat
  BY MuxesSequence
<1> USE DEF ParseInv, Places
<1>1. CASE LoadNaming
  BY <1>1 DEF LoadNaming, inputs, emitted
<1>2. CASE LoadHwh
  BY <1>2 DEF LoadHwh, inputs, emitted
<1>3. CASE Parse
  <2>1. muxes' = ParseMuxes(design) /\ design \in Designs /\ design # None
    BY <1>3 DEF Parse
  <2>2. Len(muxes') \in Nat
    BY <2>1, MuxesParsed
  <2>3. QED
    BY <1>3, <2>2 DEF Parse, inputs, emitted
<1>4. CASE EmitPinctrl2 \/ EmitLegacy
  BY <1>0, <1>4 DEF EmitPinctrl2, EmitLegacy, inputs
<1>5. CASE WireConsumers \/ LegacyEmitted
  BY <1>0, <1>5 DEF WireConsumers, LegacyEmitted, inputs, emitted
<1>6. CASE EmitConsumers \/ NoFile
  BY <1>6 DEF EmitConsumers, NoFile, inputs, emitted
<1>7. ASSUME NEW fl \in Files, OpenFile(fl) PROVE ParseInv'
  BY <1>7 DEF OpenFile, inputs, emitted
<1>8. ASSUME NEW fl \in Files, CloseFile(fl) PROVE ParseInv'
  <2>1. NextPlace(fl) \in {"emit", "consumers", "done"}
    BY DEF NextPlace, Files
  <2>2. place \in {"json", "write", "fragment"}
    BY <1>8 DEF CloseFile, PlaceOf, Files
  <2>3. QED
    BY <1>8, <2>1, <2>2 DEF CloseFile, inputs, emitted
<1>9. CASE Interrupted \/ ToolFinished \/ UNCHANGED toolVars
  BY <1>9 DEF Interrupted, ToolFinished, toolVars, inputs, emitted
<1>10. QED
  BY <1>1, <1>2, <1>3, <1>4, <1>5, <1>6, <1>7, <1>8, <1>9 DEF ToolNext

-----------------------------------------------------------------------------
(***************************************************************************)
(* The legacy files                                                        *)
(***************************************************************************)
LegacyOf(mux) ==
  [ctl |-> mux.instance,
   signals |-> LET ps == PinList(mux)
               IN [x \in DOMAIN ps |-> FnFor(mux, ps[x], 0, naming)],
   alternates |-> AlternateNames(mux)]

\* The lists have the pins in order, and an alternate without a slot has the
\* name of an unconnected one.
LEMMA ListsRight ==
  ASSUME design \in Designs, design # None, NEW mux \in ParsedMuxes(design),
         PinsOf(mux) = 0..(Cardinality(PinsOf(mux)) - 1)
  PROVE  /\ Len(LegacyOf(mux).alternates) = Len(LegacyOf(mux).signals)
         /\ \A p \in PinsOf(mux) :
              /\ LegacyOf(mux).signals[p + 1] = FnFor(mux, p, 0, naming)
              /\ LegacyOf(mux).alternates[p + 1] = FnFor(mux, p, 1, naming)
<1> DEFINE ps == PinList(mux)
           signals == [x \in DOMAIN ps |-> FnFor(mux, ps[x], 0, naming)]
           alternates == [x \in DOMAIN ps |-> AlternateName(mux, ps[x])]
<1>1. LegacyOf(mux).signals = signals /\ LegacyOf(mux).alternates = alternates
  BY DEF LegacyOf, AlternateNames
<1>2. \A p \in PinsOf(mux) : p + 1 \in DOMAIN ps /\ ps[p + 1] = p
  BY PinsInPlace
<1>3. Cardinality(PinsOf(mux)) \in Nat /\ DOMAIN ps = 1..Cardinality(PinsOf(mux))
  BY PinsListed
<1>4. ASSUME NEW p \in PinsOf(mux) PROVE AlternateName(mux, p) = FnFor(mux, p, 1, naming)
  <2>1. CASE 1 \in AltsOf(mux, p)
    BY <2>1 DEF AlternateName
  <2>2. CASE 1 \notin AltsOf(mux, p)
    <3>1. <<p, 1>> \notin DOMAIN mux.slots
      BY <2>2 DEF AltsOf
    <3>2. FnFor(mux, p, 1, naming) = ApplyNaming(NoLabel, p, 1, naming, mux.instance)
      BY <3>1 DEF FnFor
    <3>3. ApplyNaming(NoLabel, p, 1, naming, mux.instance) = UnusedName(p, 1)
      BY DEF ApplyNaming
    <3>4. QED
      BY <2>2, <3>2, <3>3 DEF AlternateName
  <2>3. QED
    BY <2>1, <2>2
<1> HIDE DEF ps
<1>5. /\ DOMAIN signals = 1..Cardinality(PinsOf(mux))
      /\ DOMAIN alternates = 1..Cardinality(PinsOf(mux))
  BY <1>3
<1>6. ASSUME NEW p \in PinsOf(mux)
      PROVE  /\ signals[p + 1] = FnFor(mux, p, 0, naming)
             /\ alternates[p + 1] = FnFor(mux, p, 1, naming)
  BY <1>2, <1>4
<1> HIDE DEF signals, alternates
<1>7. Len(signals) = Cardinality(PinsOf(mux)) /\ Len(alternates) = Cardinality(PinsOf(mux))
  BY <1>3, <1>5
<1>8. QED
  BY <1>1, <1>6, <1>7

\* A device in the consumers' fragment is the one that names alternate 1.
LEMMA FragmentRight ==
  ASSUME design \in Designs, design # None, NEW mux \in ParsedMuxes(design),
         NEW dev \in DOMAIN LegacyGroups(mux, naming),
         NEW p \in LegacyGroups(mux, naming)[dev]
  PROVE  p \in PinsOf(mux) /\ FnFor(mux, p, 1, naming).dev = dev
<1> DEFINE Of(key) == {t \in LegacyGrouped(mux) : NiceName(mux, t, naming).dev = key}
<1>1. LegacyGroups(mux, naming)[dev] = {s[1] : s \in Of(dev)}
  BY DEF LegacyGroups
<1>2. PICK s \in LegacyGrouped(mux) : NiceName(mux, s, naming).dev = dev /\ s[1] = p
  BY <1>1
<1>3. s \in DOMAIN mux.slots /\ s[2] = 1 /\ Real(mux.slots[s]["incoming"])
  BY <1>2 DEF LegacyGrouped
<1>4. RawLabel(mux.slots[s]) = mux.slots[s]["incoming"]
  BY <1>3 DEF RawLabel, Real
<1>5. SlotLabel(mux.slots[s]) = mux.slots[s]["incoming"]
  BY <1>3 DEF SlotLabel
<1>6. p \in PinsOf(mux)
  BY <1>2, <1>3 DEF PinsOf
<1>7. s = <<p, 1>>
  <2>1. s \in Nat \X Nat
    BY <1>3, SlotsParsed
  <2>2. QED
    BY <1>2, <1>3, <2>1
<1>8. FnFor(mux, p, 1, naming) = NiceName(mux, s, naming)
  <2>1. FnFor(mux, p, 1, naming)
          = ApplyNaming(SlotLabel(mux.slots[s]), p, 1, naming, mux.instance)
    BY <1>3, <1>7 DEF FnFor
  <2>2. NiceName(mux, s, naming)
          = ApplyNaming(RawLabel(mux.slots[s]), p, 1, naming, mux.instance)
    BY <1>2, <1>3 DEF NiceName
  <2>3. QED
    BY <1>4, <1>5, <2>1, <2>2
<1>9. QED
  BY <1>2, <1>6, <1>8

LegacyInv ==
  /\ legacy \in Seq({LegacyOf(muxes[y]) : y \in DOMAIN muxes})
  /\ place = "fragment" =>
       \A inst \in DOMAIN by_mux : by_mux[inst] = LegacyGroups(MuxNamed(inst), naming)

LEMMA LegacyInit == ToolInit => LegacyInv
BY DEF ToolInit, LegacyInv

LEMMA LegacyStep == ParseInv /\ LegacyInv /\ [ToolNext]_toolVars => LegacyInv'
<1> SUFFICES ASSUME ParseInv, LegacyInv, [ToolNext]_toolVars PROVE LegacyInv'
  OBVIOUS
<1> DEFINE Written == {LegacyOf(muxes[y]) : y \in DOMAIN muxes}
<1>0. legacy \in Seq(Written)
  BY DEF LegacyInv
<1>1. CASE UNCHANGED <<muxes, naming, legacy, by_mux>> /\ (place' = "fragment" => place = "fragment")
  <2>1. Written' = Written
    BY <1>1 DEF LegacyOf, AlternateNames, AlternateName
  <2> HIDE DEF Written
  <2>2. legacy' \in Seq(Written')
    BY <1>0, <1>1, <2>1
  <2>3. QED
    BY <1>1, <2>2 DEF LegacyInv, MuxNamed, Written
<1>2. CASE Parse
  <2>1. legacy' = <<>> /\ place' # "fragment"
    BY <1>2 DEF Parse, emitted, ParseInv
  <2>2. legacy' \in Seq(Written')
    BY <2>1
  <2>3. QED
    BY <2>1, <2>2 DEF LegacyInv
<1>3. CASE EmitLegacy
  <2>1. /\ turn \in DOMAIN muxes
        /\ UNCHANGED <<muxes, naming>> /\ place' # "fragment"
    BY <1>3, MuxesSequence DEF EmitLegacy, inputs, ParseInv
  <2>2. legacy' = Append(legacy, LegacyOf(muxes[turn]))
    BY <1>3 DEF EmitLegacy, LegacyOf
  <2>3. Written' = Written
    BY <2>1 DEF LegacyOf, AlternateNames, AlternateName
  <2>4. LegacyOf(muxes[turn]) \in Written
    BY <2>1
  <2> HIDE DEF Written
  <2>5. legacy' \in Seq(Written')
    BY <1>0, <2>2, <2>3, <2>4
  <2>6. QED
    BY <2>1, <2>5 DEF LegacyInv, Written
<1>4. CASE EmitConsumers
  <2>1. UNCHANGED <<muxes, naming, legacy>>
    BY <1>4 DEF EmitConsumers, inputs
  <2>2. Written' = Written
    BY <2>1 DEF LegacyOf, AlternateNames, AlternateName
  <2> HIDE DEF Written
  <2>3. legacy' \in Seq(Written')
    BY <1>0, <2>1, <2>2
  <2> DEFINE D == {muxes[x].instance : x \in {y \in DOMAIN muxes : LegacyGrouped(muxes[y]) # {}}}
  <2>4. by_mux' = [inst \in D |-> LegacyGroups(MuxNamed(inst), naming)]
    BY <1>4 DEF EmitConsumers
  <2> HIDE DEF D
  <2>5. \A inst \in DOMAIN by_mux' : by_mux'[inst] = LegacyGroups(MuxNamed(inst), naming)'
    BY <2>1, <2>4 DEF MuxNamed
  <2>6. QED
    BY <2>3, <2>5 DEF LegacyInv, Written
<1>5. CASE LoadNaming \/ LoadHwh \/ EmitPinctrl2 \/ WireConsumers \/ LegacyEmitted
           \/ NoFile \/ Interrupted \/ ToolFinished \/ UNCHANGED toolVars
  <2>1. UNCHANGED <<muxes, naming, legacy, by_mux>> /\ (place' = "fragment" => place = "fragment")
    BY <1>5 DEF LoadNaming, LoadHwh, EmitPinctrl2, WireConsumers, LegacyEmitted,
       NoFile, Interrupted, ToolFinished, toolVars, inputs, emitted
  <2>2. QED
    BY <1>1, <2>1
<1>6. ASSUME NEW fl \in Files, OpenFile(fl) \/ CloseFile(fl) PROVE LegacyInv'
  <2>1. NextPlace(fl) # "fragment"
    BY DEF NextPlace, Files
  <2>2. UNCHANGED <<muxes, naming, legacy, by_mux>> /\ (place' = "fragment" => place = "fragment")
    BY <1>6, <2>1 DEF OpenFile, CloseFile, inputs, emitted
  <2>3. QED
    BY <1>1, <2>2
<1>7. QED
  BY <1>2, <1>3, <1>4, <1>5, <1>6 DEF ToolNext

LEMMA LegacyHolds == ParseInv /\ LegacyInv => LegacyFilesAgree
<1> SUFFICES ASSUME ParseInv, LegacyInv, place = "fragment", NEW x \in DOMAIN legacy,
                    LET mux == MuxNamed(legacy[x].ctl)
                    IN PinsOf(mux) = 0..(Cardinality(PinsOf(mux)) - 1)
             PROVE  LET mux == MuxNamed(legacy[x].ctl)
                        gs == IF mux.instance \in DOMAIN by_mux
                                  THEN by_mux[mux.instance] ELSE <<>> IN
                      /\ Len(legacy[x].alternates) = Len(legacy[x].signals)
                      /\ \A p \in PinsOf(mux) :
                           /\ legacy[x].signals[p + 1] = FnFor(mux, p, 0, naming)
                           /\ legacy[x].alternates[p + 1] = FnFor(mux, p, 1, naming)
                      /\ \A dev \in DOMAIN gs : \A p \in gs[dev] :
                           legacy[x].alternates[p + 1].dev = dev
  BY DEF LegacyFilesAgree
<1> DEFINE mux == MuxNamed(legacy[x].ctl)
           gs == IF mux.instance \in DOMAIN by_mux
                     THEN by_mux[mux.instance] ELSE <<>>
<1>1. design \in Designs /\ design # None /\ muxes = ParseMuxes(design)
  BY DEF ParseInv
<1>2. PICK y \in DOMAIN muxes : legacy[x] = LegacyOf(muxes[y])
  BY DEF LegacyInv
<1>3. \A z \in DOMAIN muxes : muxes[z].instance = muxes[y].instance => z = y
  BY <1>1, MuxesParsed
<1>4. legacy[x].ctl = muxes[y].instance
  BY <1>2 DEF LegacyOf
<1>5. mux = muxes[y]
  BY <1>3, <1>4 DEF MuxNamed
<1>6. mux \in ParsedMuxes(design)
  BY <1>1, <1>5, MuxesParsed
<1>7. PinsOf(mux) = 0..(Cardinality(PinsOf(mux)) - 1) /\ legacy[x] = LegacyOf(mux)
  BY <1>2, <1>5
<1>8. /\ Len(legacy[x].alternates) = Len(legacy[x].signals)
      /\ \A p \in PinsOf(mux) :
           /\ legacy[x].signals[p + 1] = FnFor(mux, p, 0, naming)
           /\ legacy[x].alternates[p + 1] = FnFor(mux, p, 1, naming)
  <2> HIDE DEF mux
  <2>1. QED
    BY <1>1, <1>6, <1>7, ListsRight
<1>9. ASSUME NEW dev \in DOMAIN gs, NEW p \in gs[dev]
      PROVE  legacy[x].alternates[p + 1].dev = dev
  <2>1. MuxNamed(mux.instance) = mux
    BY <1>4, <1>5
  <2> HIDE DEF mux
  <2>2. mux.instance \in DOMAIN by_mux
    BY <1>9
  <2>3. gs = LegacyGroups(mux, naming)
    BY <2>1, <2>2 DEF LegacyInv
  <2>4. p \in PinsOf(mux) /\ FnFor(mux, p, 1, naming).dev = dev
    BY <1>1, <1>6, <1>9, <2>3, FragmentRight
  <2>5. QED
    BY <1>8, <2>4
<1>10. QED
  BY <1>8, <1>9

-----------------------------------------------------------------------------
(***************************************************************************)
(* The tree and the wiring                                                 *)
(***************************************************************************)
GroupsKnown(gs) ==
  /\ IsFiniteSet(DOMAIN gs) /\ DOMAIN gs \subseteq DOMAIN Rank
  /\ \A g \in DOMAIN gs : Labelled(GroupLabel(g)) # {}

NodesInv ==
  /\ nodes \in Seq({nodes[x] : x \in DOMAIN nodes})
  /\ \A x \in DOMAIN nodes : \E y \in DOMAIN muxes : nodes[x].ctl = muxes[y].instance
  /\ GroupsKnown(all_groups)
  /\ \A cons \in DOMAIN wiring : Labelled(wiring[cons]) # {}

LEMMA GroupsOfMux ==
  ASSUME design \in Designs, design # None, naming \in Namings, naming # None,
         NEW mux \in ParsedMuxes(design)
  PROVE  /\ IsFiniteSet(GroupNames(mux, naming))
         /\ GroupNames(mux, naming) \subseteq DOMAIN Rank
<1>1. PICK m \in MuxModules(design) : mux = ParseMux(design, m)
  BY DEF ParsedMuxes
<1>2. PICK y \in DOMAIN design : design[y] = m /\ m.mux
  BY ModulesOfDesign
<1>3. GroupNames(mux, naming) \subseteq DOMAIN Rank
  BY <1>1, <1>2, NamingAssumption
<1> DEFINE S == Grouped(mux)
           h == [s \in S |-> GroupOf(mux, s, naming)]
<1>4. IsFiniteSet(S)
  <2>1. S \subseteq DOMAIN mux.slots
    BY DEF Grouped
  <2>2. QED
    BY <2>1, SlotsParsed, FS_Subset
<1>5. GroupNames(mux, naming) = {h[s] : s \in S} /\ DOMAIN h = S
  BY DEF GroupNames
<1> HIDE DEF S, h
<1>6. QED
  BY <1>3, <1>4, <1>5, ImageFinite

\* A function on 1..n is a sequence of its values.
LEMMA IsSequence ==
  ASSUME NEW t, NEW n \in Nat, t = [x \in 1..n |-> t[x]]
  PROVE  t \in Seq({t[x] : x \in DOMAIN t}) /\ Len(t) = n /\ DOMAIN t = 1..n
<1> DEFINE T == {t[x] : x \in DOMAIN t}
<1>1. DOMAIN t = 1..n /\ \A x \in 1..n : t[x] \in T
  OBVIOUS
<1> HIDE DEF T
<1>2. t \in Seq(T)
  BY <1>1
<1>3. QED
  BY <1>1, <1>2 DEF T

LEMMA GroupsListed ==
  ASSUME NEW S \in SUBSET DOMAIN Rank, IsFiniteSet(S)
  PROVE  /\ Cardinality(S) \in Nat
         /\ DOMAIN Sorted(S, ByRank) = 1..Cardinality(S)
         /\ \A x \in DOMAIN Sorted(S, ByRank) : Sorted(S, ByRank)[x] \in S
         /\ \A e \in S : \E x \in DOMAIN Sorted(S, ByRank) : Sorted(S, ByRank)[x] = e
<1> DEFINE R == {r \in S \X S : Rank[r[1]] < Rank[r[2]]}
           s == Sorted(S, ByRank)
<1>1. Order(S, R) /\ Lists(s, S, R)
  BY RanksSorted
<1> HIDE DEF R, s
<1>2. QED
  BY <1>1, ListsAll DEF s

LEMMA PinNodesKnown ==
  ASSUME design \in Designs, design # None, NEW mux \in ParsedMuxes(design)
  PROVE  LET t == PinNodesOf(mux) IN
         /\ t \in Seq({t[x] : x \in DOMAIN t})
         /\ \A x \in DOMAIN t : t[x].ctl = mux.instance
<1> DEFINE t == PinNodesOf(mux)
           ps == PinList(mux)
           n == Cardinality(PinsOf(mux))
<1>1. n \in Nat /\ DOMAIN ps = 1..n
  BY PinsListed
<1>2. t = [x \in DOMAIN ps |-> PinNode(mux, ps[x])]
  BY DEF PinNodesOf
<1>3. \A p : PinNode(mux, p).ctl = mux.instance
  BY DEF PinNode, TreeNode
<1> HIDE DEF t, ps, n
<1>4. t = [x \in 1..n |-> t[x]]
  BY <1>1, <1>2
<1>5. t \in Seq({t[x] : x \in DOMAIN t})
  BY <1>1, <1>4, IsSequence
<1>6. \A x \in DOMAIN t : t[x].ctl = mux.instance
  BY <1>2, <1>3
<1>7. QED
  BY <1>5, <1>6 DEF t

LEMMA GroupNodesKnown ==
  ASSUME design \in Designs, design # None, naming \in Namings, naming # None,
         NEW mux \in ParsedMuxes(design)
  PROVE  LET t == GroupNodesOf(mux) IN
         /\ t \in Seq({t[x] : x \in DOMAIN t})
         /\ \A x \in DOMAIN t : t[x].ctl = mux.instance
         /\ \A g \in GroupNames(mux, naming) : \E x \in DOMAIN t : t[x].label = GroupLabel(g)
         /\ \A x \in DOMAIN t :
              \E g \in GroupNames(mux, naming) : t[x] = GroupNode(mux, g, g)
<1> DEFINE t == GroupNodesOf(mux)
           S == GroupNames(mux, naming)
           gs == Sorted(S, ByRank)
           n == Cardinality(S)
<1>1. S \in SUBSET DOMAIN Rank /\ IsFiniteSet(S)
  BY GroupsOfMux
<1>2. t = [x \in DOMAIN gs |-> GroupNode(mux, gs[x], gs[x])]
  BY DEF GroupNodesOf
<1>3. \A g, src : GroupNode(mux, g, src).ctl = mux.instance
                  /\ GroupNode(mux, g, src).label = GroupLabel(g)
  BY DEF GroupNode, TreeNode
<1> HIDE DEF S
<1>4. /\ n \in Nat /\ DOMAIN gs = 1..n
      /\ \A e \in S : \E x \in DOMAIN gs : gs[x] = e
      /\ \A x \in DOMAIN gs : gs[x] \in S
  BY <1>1, GroupsListed
<1> HIDE DEF t, gs, n
<1>5. t = [x \in 1..n |-> t[x]]
  BY <1>2, <1>4
<1>6. t \in Seq({t[x] : x \in DOMAIN t})
  BY <1>4, <1>5, IsSequence
<1>7. \A x \in DOMAIN t : t[x].ctl = mux.instance
  BY <1>2, <1>3
<1>8. ASSUME NEW g \in S PROVE \E x \in DOMAIN t : t[x].label = GroupLabel(g)
  <2>1. PICK x \in DOMAIN gs : gs[x] = g
    BY <1>4
  <2>2. x \in DOMAIN t /\ t[x].label = GroupLabel(g)
    BY <1>2, <1>3, <2>1
  <2>3. QED
    BY <2>2
<1>9. \A x \in DOMAIN t : \E g \in S : t[x] = GroupNode(mux, g, g)
  BY <1>2, <1>4
<1>10. QED
  BY <1>6, <1>7, <1>8, <1>9 DEF t, S

LEMMA SequenceDomain ==
  ASSUME NEW T, NEW s \in Seq(T)
  PROVE  /\ DOMAIN s = 1..Len(s) /\ Len(s) \in Nat
         /\ IsFiniteSet(DOMAIN s) /\ DOMAIN s \subseteq Nat
<1>1. DOMAIN s = 1..Len(s) /\ Len(s) \in Nat
  OBVIOUS
<1>2. IsFiniteSet(1..Len(s))
  BY <1>1, FS_Interval
<1>3. QED
  BY <1>1, <1>2

LEMMA AliasNodesKnown ==
  ASSUME naming \in Namings, naming # None, NEW mux
  PROVE  LET t == AliasNodes(mux) IN
         /\ t \in Seq({t[x] : x \in DOMAIN t})
         /\ \A x \in DOMAIN t : t[x].ctl = mux.instance
         /\ \A x \in DOMAIN t :
              \E y \in DOMAIN naming.aliases :
                /\ naming.aliases[y][1] \in GroupNames(mux, naming)
                /\ t[x] = GroupNode(mux, Or(CleanName, naming.aliases[y][2]), naming.aliases[y][1])
<1> DEFINE t == AliasNodes(mux)
           as == naming.aliases
           S == {x \in DOMAIN as : as[x][1] \in GroupNames(mux, naming)}
           on == Sorted(S, InOrder)
           n == Cardinality(S)
           al == AliasesOf(mux)
<1>1. S \in SUBSET Nat /\ IsFiniteSet(S)
  <2>1. as \in Seq(STRING \X STRING)
    BY NamingAssumption
  <2>2. IsFiniteSet(DOMAIN as) /\ DOMAIN as \subseteq Nat
    BY <2>1, SequenceDomain
  <2>3. S \subseteq DOMAIN as
    OBVIOUS
  <2>4. QED
    BY <2>2, <2>3, FS_Subset
<1>2. al = [x \in DOMAIN on |-> as[on[x]]]
  BY DEF AliasesOf
<1>3. t = [x \in DOMAIN al |-> GroupNode(mux, Or(CleanName, al[x][2]), al[x][1])]
  BY DEF AliasNodes
<1>4. \A g, src : GroupNode(mux, g, src).ctl = mux.instance
  BY DEF GroupNode, TreeNode
<1> HIDE DEF S
<1>5. DOMAIN on = 1..n /\ n \in Nat /\ \A x \in DOMAIN on : on[x] \in S
  <2> DEFINE R == {r \in S \X S : r[1] < r[2]}
  <2>1. Order(S, R) /\ Lists(on, S, R)
    BY <1>1, NumbersSorted
  <2> HIDE DEF R, on
  <2>2. QED
    BY <1>1, <2>1, ListsAll
<1> HIDE DEF t, on, n, al
<1>6. t = [x \in 1..n |-> t[x]]
  BY <1>2, <1>3, <1>5
<1>7. t \in Seq({t[x] : x \in DOMAIN t})
  BY <1>5, <1>6, IsSequence
<1>8. \A x \in DOMAIN t : t[x].ctl = mux.instance
  BY <1>3, <1>4
<1>9. ASSUME NEW x \in DOMAIN t
      PROVE  \E y \in DOMAIN as :
               /\ as[y][1] \in GroupNames(mux, naming)
               /\ t[x] = GroupNode(mux, Or(CleanName, as[y][2]), as[y][1])
  <2>1. on[x] \in S /\ al[x] = as[on[x]]
    BY <1>2, <1>3, <1>5
  <2>2. t[x] = GroupNode(mux, Or(CleanName, al[x][2]), al[x][1])
    BY <1>3
  <2>3. on[x] \in DOMAIN as /\ as[on[x]][1] \in GroupNames(mux, naming)
    BY <2>1 DEF S
  <2>4. QED
    BY <2>1, <2>2, <2>3
<1>10. QED
  BY <1>7, <1>8, <1>9 DEF t

LEMMA Joined ==
  ASSUME NEW S, NEW T, NEW s \in Seq(S), NEW t \in Seq(T)
  PROVE  /\ s \o t \in Seq(S \cup T)
         /\ DOMAIN (s \o t) = 1..(Len(s) + Len(t))
         /\ \A x \in DOMAIN s : x \in DOMAIN (s \o t) /\ (s \o t)[x] = s[x]
         /\ \A x \in DOMAIN t : Len(s) + x \in DOMAIN (s \o t) /\ (s \o t)[Len(s) + x] = t[x]
         /\ \A x \in DOMAIN (s \o t) :
              \/ x \in DOMAIN s /\ (s \o t)[x] = s[x]
              \/ x - Len(s) \in DOMAIN t /\ (s \o t)[x] = t[x - Len(s)]
OBVIOUS

\* What one mux adds to the tree: nodes of its own, with a label for each of
\* its groups.
LEMMA MuxNodesKnown ==
  ASSUME design \in Designs, design # None, naming \in Namings, naming # None,
         NEW mux \in ParsedMuxes(design)
  PROVE  LET t == MuxNodes(mux) IN
         /\ \E T : t \in Seq(T)
         /\ \A x \in DOMAIN t : t[x].ctl = mux.instance
         /\ \A g \in GroupNames(mux, naming) : \E x \in DOMAIN t : t[x].label = GroupLabel(g)
<1> DEFINE a == PinNodesOf(mux)
           b == GroupNodesOf(mux)
           c == AliasNodes(mux)
           A == {a[x] : x \in DOMAIN a}
           B == {b[x] : x \in DOMAIN b}
           C == {c[x] : x \in DOMAIN c}
<1>1. a \in Seq(A) /\ \A x \in DOMAIN a : a[x].ctl = mux.instance
  BY PinNodesKnown
<1>2. /\ b \in Seq(B)
      /\ \A x \in DOMAIN b : b[x].ctl = mux.instance
      /\ \A g \in GroupNames(mux, naming) : \E x \in DOMAIN b : b[x].label = GroupLabel(g)
  BY GroupNodesKnown
<1>3. c \in Seq(C) /\ \A x \in DOMAIN c : c[x].ctl = mux.instance
  BY AliasNodesKnown
<1>4. MuxNodes(mux) = (a \o b) \o c
  BY DEF MuxNodes
<1> HIDE DEF a, b, c, A, B, C
<1> DEFINE ab == a \o b
<1>5. /\ ab \in Seq(A \cup B)
      /\ \A x \in DOMAIN b : Len(a) + x \in DOMAIN ab /\ ab[Len(a) + x] = b[x]
      /\ \A x \in DOMAIN ab :
           \/ x \in DOMAIN a /\ ab[x] = a[x]
           \/ x - Len(a) \in DOMAIN b /\ ab[x] = b[x - Len(a)]
  BY <1>1, <1>2, Joined
<1>6. \A x \in DOMAIN ab : ab[x].ctl = mux.instance
  BY <1>1, <1>2, <1>5
<1> HIDE DEF ab
<1> DEFINE t == ab \o c
<1>7. /\ t \in Seq((A \cup B) \cup C)
      /\ \A x \in DOMAIN ab : x \in DOMAIN t /\ t[x] = ab[x]
      /\ \A x \in DOMAIN t :
           \/ x \in DOMAIN ab /\ t[x] = ab[x]
           \/ x - Len(ab) \in DOMAIN c /\ t[x] = c[x - Len(ab)]
  BY <1>3, <1>5, Joined
<1>8. \A x \in DOMAIN t : t[x].ctl = mux.instance
  BY <1>3, <1>6, <1>7
<1>9. ASSUME NEW g \in GroupNames(mux, naming)
      PROVE  \E x \in DOMAIN t : t[x].label = GroupLabel(g)
  <2>1. PICK x \in DOMAIN b : b[x].label = GroupLabel(g)
    BY <1>2
  <2>2. Len(a) + x \in DOMAIN ab /\ ab[Len(a) + x] = b[x]
    BY <1>5
  <2>3. Len(a) + x \in DOMAIN t /\ t[Len(a) + x] = b[x]
    BY <1>7, <2>2
  <2>4. QED
    BY <2>1, <2>3
<1>10. MuxNodes(mux) = t
  BY <1>4 DEF ab
<1> HIDE DEF t
<1>11. QED
  BY <1>7, <1>8, <1>9, <1>10

LEMMA NodesInit == ToolInit => NodesInv
<1> SUFFICES ASSUME ToolInit PROVE NodesInv
  OBVIOUS
<1>1. nodes = <<>> /\ all_groups = <<>> /\ wiring = <<>>
  BY DEF ToolInit
<1>2. DOMAIN nodes = {} /\ DOMAIN all_groups = {} /\ DOMAIN wiring = {}
  BY <1>1
<1>3. nodes \in Seq({nodes[x] : x \in DOMAIN nodes})
  BY <1>1
<1>4. QED
  BY <1>2, <1>3, FS_EmptySet DEF NodesInv, GroupsKnown

\* Another mux adds its groups, and their labels with them.
LEMMA EmitPinctrl2Nodes ==
  ParseInv /\ NodesInv /\ EmitPinctrl2 => NodesInv'
<1> SUFFICES ASSUME ParseInv, NodesInv, EmitPinctrl2 PROVE NodesInv'
  OBVIOUS
<1> DEFINE m == muxes[turn]
           t == MuxNodes(m)
           N == {nodes[x] : x \in DOMAIN nodes}
<1>1. /\ nodes' = nodes \o t /\ all_groups' = Merged(all_groups, m)
      /\ UNCHANGED <<muxes, naming, wiring>> /\ turn \in DOMAIN muxes
  BY MuxesSequence DEF EmitPinctrl2, ParseInv, inputs
<1>2. /\ design \in Designs /\ design # None
      /\ naming \in Namings /\ naming # None
      /\ m \in ParsedMuxes(design)
  <2>1. place = "emit"
    BY DEF EmitPinctrl2
  <2>2. /\ design \in Designs /\ design # None
        /\ naming \in Namings /\ naming # None /\ muxes = ParseMuxes(design)
    BY <2>1 DEF ParseInv
  <2>3. QED
    BY <1>1, <2>2, MuxesParsed
<1>3. PICK T : t \in Seq(T)
  BY <1>2, MuxNodesKnown
<1>4. /\ \A x \in DOMAIN t : t[x].ctl = m.instance
      /\ \A g \in GroupNames(m, naming) : \E x \in DOMAIN t : t[x].label = GroupLabel(g)
  BY <1>2, MuxNodesKnown
<1>5. nodes \in Seq(N)
  BY DEF NodesInv
<1> HIDE DEF t, N
<1>6. /\ DOMAIN nodes' = 1..(Len(nodes) + Len(t))
      /\ Len(nodes) + Len(t) \in Nat
      /\ \A x \in DOMAIN nodes : x \in DOMAIN nodes' /\ nodes'[x] = nodes[x]
      /\ \A x \in DOMAIN t :
           Len(nodes) + x \in DOMAIN nodes' /\ nodes'[Len(nodes) + x] = t[x]
      /\ \A x \in DOMAIN nodes' :
           \/ x \in DOMAIN nodes /\ nodes'[x] = nodes[x]
           \/ x - Len(nodes) \in DOMAIN t /\ nodes'[x] = t[x - Len(nodes)]
  <2>1. Len(nodes) \in Nat /\ Len(t) \in Nat
    BY <1>3, <1>5, SequenceDomain
  <2>2. QED
    BY <1>1, <1>3, <1>5, <2>1, Joined
<1>7. nodes' \in Seq({nodes'[x] : x \in DOMAIN nodes'})
  <2>1. nodes' \in Seq(N \cup T)
    BY <1>1, <1>3, <1>5, Joined
  <2>2. nodes' = [x \in 1..(Len(nodes) + Len(t)) |-> nodes'[x]]
    BY <1>6, <2>1
  <2>3. QED
    BY <1>6, <2>2, IsSequence
<1>8. \A x \in DOMAIN nodes' : \E y \in DOMAIN muxes : nodes'[x].ctl = muxes[y].instance
  BY <1>1, <1>4, <1>6 DEF NodesInv
<1>9. \A l : Labelled(l) # {} => Labelled(l)' # {}
  BY <1>6 DEF Labelled
<1>10. \A g \in GroupNames(m, naming) : Labelled(GroupLabel(g))' # {}
  BY <1>4, <1>6 DEF Labelled, GroupLabel
<1>11. DOMAIN all_groups' = DOMAIN all_groups \cup GroupNames(m, naming)
  BY <1>1 DEF Merged
<1>12. /\ IsFiniteSet(GroupNames(m, naming))
       /\ GroupNames(m, naming) \subseteq DOMAIN Rank
  BY <1>2, GroupsOfMux
<1>13. GroupsKnown(all_groups)'
  <2>1. GroupsKnown(all_groups)
    BY DEF NodesInv
  <2>2. IsFiniteSet(DOMAIN all_groups')
    BY <1>11, <1>12, <2>1, FS_Union DEF GroupsKnown
  <2>3. DOMAIN all_groups' \subseteq DOMAIN Rank
    BY <1>11, <1>12, <2>1 DEF GroupsKnown
  <2>4. \A g \in DOMAIN all_groups' : Labelled(GroupLabel(g))' # {}
    BY <1>9, <1>10, <1>11, <2>1 DEF GroupsKnown
  <2>5. QED
    BY <2>2, <2>3, <2>4 DEF GroupsKnown, GroupLabel
<1>14. \A cons \in DOMAIN wiring' : Labelled(wiring[cons])' # {}
  BY <1>1, <1>9 DEF NodesInv
<1>15. QED
  BY <1>1, <1>7, <1>8, <1>13, <1>14 DEF NodesInv

\* A consumer is wired to the first of its groups, and it has one.
\* A consumer of some group is wired to the first one of its groups.
LEMMA FirstGroup ==
  ASSUME GroupsKnown(all_groups), NEW cons \in WiredConsumers
  PROVE  Head(Sorted(GroupsOfConsumer(cons), ByRank)) \in GroupsOfConsumer(cons)
<1> DEFINE S == GroupsOfConsumer(cons)
           s == Sorted(S, ByRank)
<1>1. S \subseteq DOMAIN all_groups
  BY DEF GroupsOfConsumer
<1>2. \E g \in DOMAIN all_groups : g \in S
  BY DEF WiredConsumers, GroupsOfConsumer
<1>3. S \in SUBSET DOMAIN Rank /\ IsFiniteSet(S)
  BY <1>1, FS_Subset DEF GroupsKnown
<1> HIDE DEF S
<1>4. /\ Cardinality(S) \in Nat /\ DOMAIN s = 1..Cardinality(S)
      /\ \A x \in DOMAIN s : s[x] \in S
      /\ \A e \in S : \E x \in DOMAIN s : s[x] = e
  BY <1>3, GroupsListed
<1>5. Head(s) = s[1]
  BY DEF Sorted
<1> HIDE DEF s
<1>6. 1 \in DOMAIN s
  BY <1>2, <1>4
<1>7. QED
  BY <1>4, <1>5, <1>6 DEF s, S

LEMMA WireConsumersNodes == NodesInv /\ WireConsumers => NodesInv'
<1> SUFFICES ASSUME NodesInv, WireConsumers PROVE NodesInv'
  OBVIOUS
<1>1. /\ UNCHANGED <<muxes, nodes, all_groups>>
      /\ wiring' = [cons \in WiredConsumers |->
                      GroupLabel(Head(Sorted(GroupsOfConsumer(cons), ByRank)))]
  BY DEF WireConsumers
<1>2. GroupsKnown(all_groups)
  BY DEF NodesInv
<1>3. ASSUME NEW cons \in WiredConsumers
      PROVE  Labelled(GroupLabel(Head(Sorted(GroupsOfConsumer(cons), ByRank)))) # {}
  <2> DEFINE g == Head(Sorted(GroupsOfConsumer(cons), ByRank))
  <2>1. g \in DOMAIN all_groups
    BY <1>2, FirstGroup DEF GroupsOfConsumer
  <2>2. QED
    BY <1>2, <2>1 DEF GroupsKnown
<1>4. \A cons \in DOMAIN wiring' : Labelled(wiring'[cons]) # {}
  BY <1>1, <1>3
<1>5. GroupsKnown(all_groups)'
  BY <1>1, <1>2 DEF GroupsKnown, Labelled, GroupLabel
<1>6. QED
  BY <1>1, <1>4, <1>5 DEF NodesInv, Labelled

LEMMA NodesStep == ParseInv /\ NodesInv /\ [ToolNext]_toolVars => NodesInv'
<1> SUFFICES ASSUME ParseInv, NodesInv, [ToolNext]_toolVars PROVE NodesInv'
  OBVIOUS
<1>1. CASE EmitPinctrl2
  BY <1>1, EmitPinctrl2Nodes
<1>2. CASE WireConsumers
  BY <1>2, WireConsumersNodes
<1>3. CASE UNCHANGED <<muxes, nodes, all_groups, wiring>>
  BY <1>3 DEF NodesInv, GroupsKnown, Labelled, GroupLabel
<1>4. CASE Parse
  <2>1. nodes = <<>> /\ UNCHANGED <<nodes, all_groups, wiring>>
    BY <1>4 DEF Parse, ParseInv, emitted
  <2>2. \A x \in DOMAIN nodes' : \E y \in DOMAIN muxes' : nodes'[x].ctl = muxes'[y].instance
    BY <2>1
  <2>3. QED
    BY <2>1, <2>2 DEF NodesInv, GroupsKnown, Labelled, GroupLabel
<1>5. CASE \/ LoadNaming \/ LoadHwh \/ EmitLegacy \/ LegacyEmitted \/ EmitConsumers
           \/ NoFile \/ Interrupted \/ ToolFinished \/ UNCHANGED toolVars
           \/ \E fl \in Files : OpenFile(fl) \/ CloseFile(fl)
  <2>1. UNCHANGED <<muxes, nodes, all_groups, wiring>>
    BY <1>5 DEF LoadNaming, LoadHwh, EmitLegacy, LegacyEmitted, EmitConsumers,
       NoFile, Interrupted, ToolFinished, OpenFile, CloseFile, toolVars, emitted
  <2>2. QED
    BY <1>3, <2>1
<1>6. QED
  BY <1>1, <1>2, <1>4, <1>5 DEF ToolNext

-----------------------------------------------------------------------------
(***************************************************************************)
(* The nodes under each controller                                         *)
(***************************************************************************)

\* The entries of a group are slots of the mux.
LEMMA SlotsSorted ==
  ASSUME NEW S \in SUBSET (Nat \X Nat), IsFiniteSet(S)
  PROVE  /\ Cardinality(S) \in Nat
         /\ DOMAIN Sorted(S, BySlot) = 1..Cardinality(S)
         /\ \A x \in DOMAIN Sorted(S, BySlot) : Sorted(S, BySlot)[x] \in S
         /\ \A e \in S : \E x \in DOMAIN Sorted(S, BySlot) : Sorted(S, BySlot)[x] = e
         /\ \A x, y \in DOMAIN Sorted(S, BySlot) :
              x < y /\ Sorted(S, BySlot)[x][1] = Sorted(S, BySlot)[y][1]
                => Sorted(S, BySlot)[x][2] < Sorted(S, BySlot)[y][2]
<1> DEFINE Before(d, e) == d[1] < e[1] \/ (d[1] = e[1] /\ d[2] < e[2])
           R == {r \in S \X S : Before(r[1], r[2])}
           s == Sorted(S, BySlot)
           n == Cardinality(S)
<1>1. Order(S, R)
  <2>1. \A a, b \in S : <<a, b>> \in R <=> Before(a, b)
    OBVIOUS
  <2>2. \A a \in S : a[1] \in Nat /\ a[2] \in Nat /\ a = <<a[1], a[2]>>
    OBVIOUS
  <2> HIDE DEF R
  <2>3. \A a, b \in S : a # b => Before(a, b) \/ Before(b, a)
    BY <2>2
  <2>4. \A a \in S : ~Before(a, a)
    BY <2>2
  <2>5. \A a, b, c \in S : Before(a, b) /\ Before(b, c) => Before(a, c)
    BY <2>2
  <2> HIDE DEF Before
  <2>6. QED
    BY <2>1, <2>3, <2>4, <2>5 DEF Order
<1>10. /\ \A a, b \in S : a # b => <<a, b>> \in R \/ <<b, a>> \in R
       /\ \A a, b \in S : <<a, b>> \in R /\ a[1] = b[1] => a[2] < b[2]
  <2>1. \A a \in S : a[1] \in Nat
    OBVIOUS
  <2>2. \A a, b \in S : <<a, b>> \in R <=> Before(a, b)
    OBVIOUS
  <2> HIDE DEF R
  <2>3. QED
    BY <1>1, <2>1, <2>2 DEF Order
<1>2. \A e \in S : Ahead(S, R, e) = {d \in S : Before(d, e)}
  BY DEF Ahead
<1>3. s = [x \in 1..n |-> CHOOSE e \in S : Cardinality({d \in S : Before(d, e)}) = x - 1]
  BY DEF Sorted, BySlot
<1> HIDE DEF Before, R, s
<1> HIDE DEF n
<1>4. \A x \in 1..n : \E e \in S : Cardinality(Ahead(S, R, e)) = x - 1
  BY <1>1, PlacesTaken DEF n
<1>5. ASSUME NEW x \in 1..n
      PROVE  s[x] \in S /\ Cardinality(Ahead(S, R, s[x])) = x - 1
  <2>1. PICK e \in S : Cardinality(Ahead(S, R, e)) = x - 1
    BY <1>4
  <2>2. Cardinality({d \in S : Before(d, e)}) = x - 1
    BY <1>2, <2>1
  <2>3. s[x] \in S /\ Cardinality({d \in S : Before(d, s[x])}) = x - 1
    BY <1>3, <2>2
  <2>4. Ahead(S, R, s[x]) = {d \in S : Before(d, s[x])}
    BY <1>2, <2>3
  <2>5. QED
    BY <2>3, <2>4
<1>6. DOMAIN s = 1..n
  BY <1>3
<1>7. Lists(s, S, R)
  BY <1>5, <1>6 DEF Lists, n
<1>8. ASSUME NEW x \in DOMAIN s, NEW y \in DOMAIN s, x < y, s[x][1] = s[y][1]
      PROVE  s[x][2] < s[y][2]
  <2>1. /\ s[x] \in S /\ Cardinality(Ahead(S, R, s[x])) = x - 1
        /\ s[y] \in S /\ Cardinality(Ahead(S, R, s[y])) = y - 1
        /\ x \in Int /\ y \in Int
    BY <1>5, <1>6
  <2>2. s[x] # s[y]
    BY <1>8, <2>1
  <2>3. <<s[y], s[x]>> \notin R
    <3>1. SUFFICES ASSUME <<s[y], s[x]>> \in R PROVE FALSE
      OBVIOUS
    <3>2. y - 1 < x - 1
      BY <1>1, <2>1, <3>1, AheadGrows
    <3>3. QED
      BY <1>8, <2>1, <3>2
  <2>4. QED
    BY <1>8, <1>10, <2>1, <2>2, <2>3
<1>9. QED
  BY <1>1, <1>7, <1>8, ListsAll DEF s

\* A finite set of numbers has a greatest.
LEMMA Greatest ==
  ASSUME NEW S \in SUBSET Nat, IsFiniteSet(S), S # {}
  PROVE  \E a \in S : \A b \in S : b <= a
<1> DEFINE R == {r \in S \X S : r[1] < r[2]}
           n == Cardinality(S)
<1>1. Order(S, R)
  BY DEF Order
<1>2. \A e \in S : Ahead(S, R, e) = {d \in S : d < e}
  BY DEF Ahead
<1> HIDE DEF R
<1>3. n \in Nat /\ n # 0
  BY FS_CardinalityType, FS_EmptySet
<1>4. PICK a \in S : Cardinality(Ahead(S, R, a)) = n - 1
  <2>1. \A x \in 1..n : \E e \in S : Cardinality(Ahead(S, R, e)) = x - 1
    BY <1>1, PlacesTaken
  <2> HIDE DEF n
  <2>2. QED
    BY <1>3, <2>1
<1>5. IsFiniteSet(S \ {a}) /\ Cardinality(S \ {a}) = n - 1
  BY FS_RemoveElement
<1>6. Ahead(S, R, a) \in SUBSET (S \ {a})
  BY <1>2
<1>7. Ahead(S, R, a) = S \ {a}
  BY <1>4, <1>5, <1>6, FS_Subset
<1>8. QED
  BY <1>2, <1>7

LEMMA LastAlternate ==
  ASSUME NEW d \in Designs, d # None, NEW mux \in ParsedMuxes(d), NEW p \in PinsOf(mux)
  PROVE  MaxAlt(mux, p) \in Nat /\ \E s \in DOMAIN mux.slots : s[2] = MaxAlt(mux, p)
<1> DEFINE D == DOMAIN mux.slots
           A == {s[2] : s \in {t \in D : t[1] = p}}
           Of == {t \in D : t[1] = p}
           h == [s \in Of |-> s[2]]
<1>1. IsFiniteSet(D) /\ D \subseteq Nat \X Nat
  BY SlotsParsed
<1>2. AltsOf(mux, p) = A
  BY DEF AltsOf
<1>3. \E s \in D : s[1] = p
  BY DEF PinsOf
<1> HIDE DEF D
<1>4. IsFiniteSet(Of)
  BY <1>1, FS_Subset
<1>5. A \in SUBSET Nat /\ A # {} /\ \A a \in A : \E s \in D : s[2] = a
  BY <1>1, <1>3
<1>6. A = {h[s] : s \in Of} /\ DOMAIN h = Of
  OBVIOUS
<1> HIDE DEF A, Of, h
<1>7. IsFiniteSet(A)
  BY <1>4, <1>6, ImageFinite
<1>8. \E a \in A : \A b \in A : b <= a
  BY <1>5, <1>7, Greatest
<1>9. MaxAlt(mux, p) = CHOOSE a \in A : \A b \in A : b <= a
  BY <1>2 DEF MaxAlt
<1>10. MaxAlt(mux, p) \in A
  BY <1>8, <1>9
<1>11. QED
  BY <1>5, <1>10 DEF D

IsPinNodeOf(n, mux) == \E p \in PinsOf(mux) : n = PinNode(mux, p)
\* A group node is called after the group that it has, or after an alias of it.
Titled(mux, g, src) ==
  /\ src \in GroupNames(mux, naming)
  /\ \/ g = src
     \/ \E y \in DOMAIN naming.aliases :
          naming.aliases[y][1] = src /\ g = Or(CleanName, naming.aliases[y][2])
IsGroupNodeOf(n, mux) == \E g, src : Titled(mux, g, src) /\ n = GroupNode(mux, g, src)
IsNodeOf(n, mux) == IsPinNodeOf(n, mux) \/ IsGroupNodeOf(n, mux)
PinsIn(t, mux) == \A p \in PinsOf(mux) : \E x \in DOMAIN t : t[x] = PinNode(mux, p)
OnePinEach(t) ==
  \A x, y \in DOMAIN t :
    t[x].ctl = t[y].ctl /\ t[x].child.reg # Absent /\ t[x].child.reg = t[y].child.reg
      => x = y

LEMMA PinNodeFields ==
  ASSUME NEW mux, NEW p
  PROVE  /\ PinNode(mux, p).ctl = mux.instance
         /\ PinNode(mux, p).child.reg = p
         /\ PinNode(mux, p).child.funcs = FunctionNames(mux, p)
         /\ PinNode(mux, p).child.pins = Absent
         /\ PinNode(mux, p).label = PinLabel(mux, p)
         /\ PinNode(mux, p).child.name = PinNodeName(p)
         /\ PinNode(mux, p).child.mux = Absent
         /\ PinNode(mux, p).child.fn = Absent
BY HwhProbeAssumption DEF PinNode, TreeNode

LEMMA GroupNodeFields ==
  ASSUME NEW mux, NEW g, NEW src
  PROVE  /\ GroupNode(mux, g, src).ctl = mux.instance
         /\ GroupNode(mux, g, src).child.reg = Absent
         /\ GroupNode(mux, g, src).label = GroupLabel(g)
         /\ GroupNode(mux, g, src).child.name = GroupNodeName(g)
         /\ GroupNode(mux, g, src).child.funcs = Absent
         /\ GroupNode(mux, g, src).child.fn = Plain(g)
BY HwhProbeAssumption DEF GroupNode, TreeNode

LEMMA GroupNodePins ==
  ASSUME NEW mux, NEW g, NEW src
  PROVE  GroupNode(mux, g, src).child.pins =
           [x \in DOMAIN Entries(mux, src, naming) |->
              PinRef(Entries(mux, src, naming)[x][1])]
BY DEF GroupNode, TreeNode

LEMMA GroupNodeVals ==
  ASSUME NEW mux, NEW g, NEW src
  PROVE  GroupNode(mux, g, src).child.mux =
           [x \in DOMAIN Entries(mux, src, naming) |-> Entries(mux, src, naming)[x][2]]
BY DEF GroupNode, TreeNode

\* The tree of one mux: a node for each pin, then groups.
LEMMA MuxTree ==
  ASSUME design \in Designs, design # None, naming \in Namings, naming # None,
         NEW mux \in ParsedMuxes(design)
  PROVE  LET t == MuxNodes(mux) IN
         /\ \A x \in DOMAIN t : IsNodeOf(t[x], mux)
         /\ PinsIn(t, mux) /\ OnePinEach(t)
<1> DEFINE a == PinNodesOf(mux)
           b == GroupNodesOf(mux)
           c == AliasNodes(mux)
           A == {a[x] : x \in DOMAIN a}
           B == {b[x] : x \in DOMAIN b}
           C == {c[x] : x \in DOMAIN c}
           ps == PinList(mux)
           ab == a \o b
           t == ab \o c
<1>1. a \in Seq(A) /\ b \in Seq(B) /\ c \in Seq(C)
  BY PinNodesKnown, GroupNodesKnown, AliasNodesKnown
<1>2. /\ DOMAIN a = DOMAIN ps
      /\ \A x \in DOMAIN a : a[x] = PinNode(mux, ps[x])
  BY DEF PinNodesOf
<1>3. /\ \A x \in DOMAIN b : IsGroupNodeOf(b[x], mux)
      /\ \A x \in DOMAIN c : IsGroupNodeOf(c[x], mux)
  <2>1. ASSUME NEW x \in DOMAIN b PROVE IsGroupNodeOf(b[x], mux)
    <3>1. PICK g \in GroupNames(mux, naming) : b[x] = GroupNode(mux, g, g)
      BY GroupNodesKnown
    <3>2. QED
      BY <3>1 DEF IsGroupNodeOf, Titled
  <2>2. ASSUME NEW x \in DOMAIN c PROVE IsGroupNodeOf(c[x], mux)
    <3>1. PICK y \in DOMAIN naming.aliases :
                 /\ naming.aliases[y][1] \in GroupNames(mux, naming)
                 /\ c[x] = GroupNode(mux, Or(CleanName, naming.aliases[y][2]), naming.aliases[y][1])
      BY AliasNodesKnown
    <3>2. Titled(mux, Or(CleanName, naming.aliases[y][2]), naming.aliases[y][1])
      BY <3>1 DEF Titled
    <3>3. QED
      BY <3>1, <3>2 DEF IsGroupNodeOf
  <2>3. QED
    BY <2>1, <2>2
<1>4. /\ \A x \in DOMAIN ps : ps[x] \in PinsOf(mux)
      /\ \A p \in PinsOf(mux) : \E x \in DOMAIN ps : ps[x] = p
      /\ \A x, y \in DOMAIN ps : ps[x] = ps[y] => x = y
  <2> DEFINE S == PinsOf(mux)
             R == {r \in S \X S : r[1] < r[2]}
             s == Sorted(S, InOrder)
  <2>1. S \in SUBSET Nat /\ IsFiniteSet(S) /\ s = ps
    BY PinNumbers DEF PinList
  <2> HIDE DEF S
  <2>2. Order(S, R) /\ Lists(s, S, R)
    BY <2>1, NumbersSorted
  <2> HIDE DEF R, s
  <2>3. /\ \A x \in DOMAIN s : s[x] \in S
        /\ \A e \in S : \E x \in DOMAIN s : s[x] = e
        /\ \A x, y \in DOMAIN s : s[x] = s[y] => x = y
    BY <2>1, <2>2, ListsAll
  <2>4. QED
    BY <2>1, <2>3 DEF S
<1>5. MuxNodes(mux) = t
  BY DEF MuxNodes
<1> HIDE DEF a, b, c, A, B, C, ps
<1>6. /\ ab \in Seq(A \cup B)
      /\ \A x \in DOMAIN a : x \in DOMAIN ab /\ ab[x] = a[x]
      /\ \A x \in DOMAIN ab :
           \/ x \in DOMAIN a /\ ab[x] = a[x]
           \/ x - Len(a) \in DOMAIN b /\ ab[x] = b[x - Len(a)]
  BY <1>1, Joined
<1>7. \A x \in DOMAIN ab : (x \in DOMAIN a /\ ab[x] = a[x]) \/ IsGroupNodeOf(ab[x], mux)
  BY <1>3, <1>6
<1> HIDE DEF ab
<1>8. /\ \A x \in DOMAIN ab : x \in DOMAIN t /\ t[x] = ab[x]
      /\ \A x \in DOMAIN t :
           \/ x \in DOMAIN ab /\ t[x] = ab[x]
           \/ x - Len(ab) \in DOMAIN c /\ t[x] = c[x - Len(ab)]
  BY <1>1, <1>6, Joined
<1> HIDE DEF t
<1>9. \A x \in DOMAIN t :
        \/ x \in DOMAIN a /\ t[x] = PinNode(mux, ps[x])
        \/ IsGroupNodeOf(t[x], mux)
  BY <1>2, <1>3, <1>7, <1>8
<1>10. \A x \in DOMAIN t : IsNodeOf(t[x], mux)
  BY <1>2, <1>4, <1>9 DEF IsNodeOf, IsPinNodeOf
<1>11. PinsIn(t, mux)
  BY <1>2, <1>4, <1>6, <1>8 DEF PinsIn
<1>12. OnePinEach(t)
  <2>1. ASSUME NEW x \in DOMAIN t, IsGroupNodeOf(t[x], mux)
        PROVE  t[x].child.reg = Absent
    <3>1. PICK g, src : t[x] = GroupNode(mux, g, src)
      BY <2>1 DEF IsGroupNodeOf
    <3>2. GroupNode(mux, g, src).child.reg = Absent
      BY GroupNodeFields
    <3>3. QED
      BY <3>1, <3>2
  <2>2. \A x \in DOMAIN t : t[x].child.reg # Absent
                             => x \in DOMAIN ps /\ t[x].child.reg = ps[x]
    BY <1>2, <1>9, <2>1, PinNodeFields
  <2>3. QED
    BY <1>4, <2>2 DEF OnePinEach
<1>13. QED
  BY <1>5, <1>10, <1>11, <1>12

\* Every node is a pin or a group of some mux all of whose pins have a node,
\* each one.  While muxes are emitted the nodes are of those before turn.
TreesInv ==
  /\ place \in {"naming", "load", "parse", "json", "emit"} =>
       \A x \in DOMAIN nodes :
         \E y \in DOMAIN muxes : y < turn /\ nodes[x].ctl = muxes[y].instance
  /\ \A x \in DOMAIN nodes :
       \E y \in DOMAIN muxes : IsNodeOf(nodes[x], muxes[y]) /\ PinsIn(nodes, muxes[y])
  /\ OnePinEach(nodes)

LEMMA TreesInit == ToolInit => TreesInv
<1> SUFFICES ASSUME ToolInit PROVE TreesInv
  OBVIOUS
<1>1. DOMAIN nodes = {}
  BY DEF ToolInit
<1>2. QED
  BY <1>1 DEF TreesInv, OnePinEach

LEMMA NodeForms ==
  ASSUME UNCHANGED naming
  PROVE  /\ \A n, mux : IsNodeOf(n, mux)' <=> IsNodeOf(n, mux)
         /\ \A t, mux : PinsIn(t, mux)' <=> PinsIn(t, mux)
         /\ \A t : OnePinEach(t)' <=> OnePinEach(t)
<1>1. /\ \A mux, p : PinNode(mux, p)' = PinNode(mux, p)
      /\ \A mux, g, src : GroupNode(mux, g, src)' = GroupNode(mux, g, src)
  BY DEF PinNode, GroupNode, TreeNode, FunctionNames, Entries
<1>2. \A n, mux : IsNodeOf(n, mux)' <=> IsNodeOf(n, mux)
  BY <1>1 DEF IsNodeOf, IsPinNodeOf, IsGroupNodeOf, Titled
<1>3. \A t, mux : PinsIn(t, mux)' <=> PinsIn(t, mux)
  BY <1>1 DEF PinsIn
<1>4. QED
  BY <1>2, <1>3

LEMMA EmitPinctrl2Trees ==
  ParseInv /\ NodesInv /\ TreesInv /\ EmitPinctrl2 => TreesInv'
<1> SUFFICES ASSUME ParseInv, NodesInv, TreesInv, EmitPinctrl2 PROVE TreesInv'
  OBVIOUS
<1> DEFINE m == muxes[turn]
           t == MuxNodes(m)
           N == {nodes[x] : x \in DOMAIN nodes}
<1>1. /\ nodes' = nodes \o t /\ turn' = turn + 1 /\ turn \in DOMAIN muxes
      /\ UNCHANGED <<muxes, naming>> /\ place = "emit"
  BY MuxesSequence DEF EmitPinctrl2, ParseInv, inputs
<1>2. /\ design \in Designs /\ design # None
      /\ naming \in Namings /\ naming # None /\ muxes = ParseMuxes(design)
  BY <1>1 DEF ParseInv
<1>3. m \in ParsedMuxes(design) /\ DOMAIN muxes \subseteq Nat
  BY <1>1, <1>2, MuxesParsed, MuxesSequence
<1>4. PICK T : t \in Seq(T)
  BY <1>2, <1>3, MuxNodesKnown
<1>5. \A x \in DOMAIN t : t[x].ctl = m.instance
  BY <1>2, <1>3, MuxNodesKnown
<1>6. /\ \A x \in DOMAIN t : IsNodeOf(t[x], m)
      /\ PinsIn(t, m) /\ OnePinEach(t)
  BY <1>2, <1>3, MuxTree
<1>7. nodes \in Seq(N)
  BY DEF NodesInv
<1>8. m.instance = muxes[turn].instance
  OBVIOUS
<1> HIDE DEF t, N
<1>9. Len(nodes) \in Nat /\ DOMAIN t \subseteq Nat
  BY <1>4, <1>7, SequenceDomain
<1>10. /\ \A x \in DOMAIN nodes : x \in DOMAIN nodes' /\ nodes'[x] = nodes[x]
       /\ \A x \in DOMAIN t :
            Len(nodes) + x \in DOMAIN nodes' /\ nodes'[Len(nodes) + x] = t[x]
       /\ \A x \in DOMAIN nodes' :
            \/ x \in DOMAIN nodes /\ nodes'[x] = nodes[x]
            \/ x - Len(nodes) \in DOMAIN t /\ nodes'[x] = t[x - Len(nodes)]
  BY <1>1, <1>4, <1>7, Joined
<1>11. DOMAIN nodes' \subseteq Nat
  <2>1. nodes' \in Seq(N \cup T)
    BY <1>1, <1>4, <1>7, Joined
  <2>2. QED
    BY <2>1, SequenceDomain
<1> HIDE DEF m
<1>12. \A x \in DOMAIN nodes' :
         \E y \in DOMAIN muxes : y < turn + 1 /\ nodes'[x].ctl = muxes[y].instance
  <2> SUFFICES ASSUME NEW x \in DOMAIN nodes'
               PROVE  \E y \in DOMAIN muxes :
                        y < turn + 1 /\ nodes'[x].ctl = muxes[y].instance
    OBVIOUS
  <2>1. CASE x \in DOMAIN nodes /\ nodes'[x] = nodes[x]
    <3>1. PICK y \in DOMAIN muxes : y < turn /\ nodes[x].ctl = muxes[y].instance
      BY <1>1, <2>1 DEF TreesInv
    <3>2. y < turn + 1
      BY <1>1, <1>3, <3>1
    <3>3. QED
      BY <2>1, <3>1, <3>2
  <2>2. CASE x - Len(nodes) \in DOMAIN t /\ nodes'[x] = t[x - Len(nodes)]
    <3>1. nodes'[x].ctl = muxes[turn].instance
      BY <1>5, <1>8, <2>2
    <3>2. turn < turn + 1
      BY <1>1, <1>3
    <3>3. QED
      BY <1>1, <3>1, <3>2
  <2>3. QED
    BY <1>10, <2>1, <2>2
<1>13. \A mux : PinsIn(nodes, mux) => PinsIn(nodes', mux)
  BY <1>10 DEF PinsIn
<1>14. PinsIn(nodes', m)
  BY <1>6, <1>10 DEF PinsIn
<1>15. \A x \in DOMAIN nodes' :
         \E y \in DOMAIN muxes : IsNodeOf(nodes'[x], muxes[y]) /\ PinsIn(nodes', muxes[y])
  <2> SUFFICES ASSUME NEW x \in DOMAIN nodes'
               PROVE  \E y \in DOMAIN muxes :
                        IsNodeOf(nodes'[x], muxes[y]) /\ PinsIn(nodes', muxes[y])
    OBVIOUS
  <2>1. CASE x \in DOMAIN nodes /\ nodes'[x] = nodes[x]
    BY <1>13, <2>1 DEF TreesInv
  <2>2. CASE x - Len(nodes) \in DOMAIN t /\ nodes'[x] = t[x - Len(nodes)]
    <3>1. IsNodeOf(nodes'[x], m)
      BY <1>6, <2>2
    <3>2. QED
      BY <1>1, <1>14, <3>1 DEF m
  <2>3. QED
    BY <1>10, <2>1, <2>2
<1>16. OnePinEach(nodes')
  <2>1. \A x \in DOMAIN nodes : nodes[x].ctl # m.instance
    <3> SUFFICES ASSUME NEW x \in DOMAIN nodes, nodes[x].ctl = m.instance PROVE FALSE
      OBVIOUS
    <3>1. PICK y \in DOMAIN muxes : y < turn /\ nodes[x].ctl = muxes[y].instance
      BY <1>1 DEF TreesInv
    <3>2. y = turn
      BY <1>1, <1>2, <1>8, <3>1, MuxesParsed
    <3>3. QED
      BY <1>3, <3>1, <3>2
  <2> SUFFICES ASSUME NEW x \in DOMAIN nodes', NEW z \in DOMAIN nodes',
                      nodes'[x].ctl = nodes'[z].ctl, nodes'[x].child.reg # Absent,
                      nodes'[x].child.reg = nodes'[z].child.reg
               PROVE  x = z
    BY DEF OnePinEach
  <2>2. CASE nodes'[x].ctl = m.instance
    <3>1. /\ x - Len(nodes) \in DOMAIN t /\ nodes'[x] = t[x - Len(nodes)]
          /\ z - Len(nodes) \in DOMAIN t /\ nodes'[z] = t[z - Len(nodes)]
      BY <1>10, <2>1, <2>2
    <3>2. x - Len(nodes) = z - Len(nodes)
      BY <1>6, <3>1 DEF OnePinEach
    <3>3. QED
      BY <1>9, <1>11, <3>2
  <2>3. CASE nodes'[x].ctl # m.instance
    <3>1. /\ x \in DOMAIN nodes /\ nodes'[x] = nodes[x]
          /\ z \in DOMAIN nodes /\ nodes'[z] = nodes[z]
      BY <1>5, <1>10, <2>3
    <3>2. QED
      BY <3>1 DEF TreesInv, OnePinEach
  <2>4. QED
    BY <2>2, <2>3
<1>17. QED
  BY <1>1, <1>12, <1>15, <1>16, NodeForms DEF TreesInv

Early == {"naming", "load", "parse", "json", "emit"}

LEMMA TreesStep == ParseInv /\ NodesInv /\ TreesInv /\ [ToolNext]_toolVars => TreesInv'
<1> SUFFICES ASSUME ParseInv, NodesInv, TreesInv, [ToolNext]_toolVars PROVE TreesInv'
  OBVIOUS
<1>0. Len(muxes) \in Nat /\ DOMAIN muxes \subseteq Nat /\ turn \in Nat
  BY MuxesSequence DEF ParseInv
<1>1. CASE EmitPinctrl2
  BY <1>1, EmitPinctrl2Trees
<1>2. CASE /\ UNCHANGED <<muxes, nodes, naming>>
           /\ place' \in Early => place \in Early /\ turn' \in Nat /\ turn <= turn'
  <2>1. place' \in Early =>
          \A x \in DOMAIN nodes' :
            \E y \in DOMAIN muxes' : y < turn' /\ nodes'[x].ctl = muxes'[y].instance
    <3> SUFFICES ASSUME place' \in Early, NEW x \in DOMAIN nodes
                 PROVE  \E y \in DOMAIN muxes : y < turn' /\ nodes[x].ctl = muxes[y].instance
      BY <1>2
    <3>1. PICK y \in DOMAIN muxes : y < turn /\ nodes[x].ctl = muxes[y].instance
      BY <1>2 DEF TreesInv, Early
    <3>2. y < turn'
      BY <1>0, <1>2, <3>1
    <3>3. QED
      BY <3>1, <3>2
  <2>2. QED
    BY <1>2, <2>1, NodeForms DEF TreesInv, Early
<1>3. CASE Parse
  <2>1. nodes' = <<>>
    BY <1>3 DEF Parse, ParseInv, emitted
  <2>2. DOMAIN nodes' = {}
    BY <2>1
  <2>3. QED
    BY <2>2 DEF TreesInv, OnePinEach
<1>4. CASE LoadNaming \/ LoadHwh \/ EmitLegacy \/ WireConsumers \/ LegacyEmitted
           \/ EmitConsumers \/ NoFile \/ Interrupted \/ ToolFinished \/ UNCHANGED toolVars
  <2>1. UNCHANGED <<muxes, nodes, naming>>
    BY <1>4 DEF LoadNaming, LoadHwh, EmitLegacy, WireConsumers, LegacyEmitted,
       EmitConsumers, NoFile, Interrupted, ToolFinished, toolVars, inputs, emitted
  <2>2. place' \in Early => place \in Early /\ turn' \in Nat /\ turn <= turn'
    BY <1>0, <1>4 DEF LoadNaming, LoadHwh, EmitLegacy, WireConsumers, LegacyEmitted,
       EmitConsumers, NoFile, Interrupted, ToolFinished, toolVars, Early
  <2>3. QED
    BY <1>2, <2>1, <2>2
<1>5. ASSUME NEW fl \in Files, OpenFile(fl) \/ CloseFile(fl) PROVE TreesInv'
  <2>1. UNCHANGED <<muxes, nodes, naming, turn>>
    BY <1>5 DEF OpenFile, CloseFile, inputs, emitted
  <2>2. place' \in Early => place \in Early
    BY <1>5, FilePlaces DEF OpenFile, CloseFile, Early, Files
  <2>3. QED
    BY <1>0, <1>2, <2>1, <2>2
<1>6. QED
  BY <1>1, <1>3, <1>4, <1>5 DEF ToolNext

-----------------------------------------------------------------------------
(***************************************************************************)
(* What is written is of all muxes, and what is wired is of what is        *)
(* written                                                                 *)
(***************************************************************************)
Late == {"write", "consumers", "fragment", "done"}

\* Mux y was emitted.
Written(y) ==
  /\ option.style = "pinctrl2"
  /\ \/ place = "emit" /\ y < turn
     \/ place \in Late

GroupsIn(gs, mux) ==
  \A g \in GroupNames(mux, naming) :
    g \in DOMAIN gs /\ ConsumersOf(mux, g, naming) \subseteq gs[g]

CoverInv ==
  /\ \A y \in DOMAIN muxes :
       Written(y) => PinsIn(nodes, muxes[y]) /\ GroupsIn(all_groups, muxes[y])
  /\ \A g \in DOMAIN all_groups : \A cons \in all_groups[g] :
       \E y \in DOMAIN muxes :
         g \in GroupNames(muxes[y], naming) /\ cons \in ConsumersOf(muxes[y], g, naming)
  /\ place \in Late /\ option.style = "pinctrl2" =>
       wiring = [cons \in WiredConsumers |->
                   GroupLabel(Head(Sorted(GroupsOfConsumer(cons), ByRank)))]

LEMMA CoverInit == ToolInit => CoverInv
<1> SUFFICES ASSUME ToolInit PROVE CoverInv
  OBVIOUS
<1>1. DOMAIN muxes = {} /\ DOMAIN all_groups = {} /\ place \notin Late
  BY DEF ToolInit, Late
<1>2. QED
  BY <1>1 DEF CoverInv

LEMMA EmitPinctrl2Covers ==
  ASSUME ParseInv, NodesInv, CoverInv, EmitPinctrl2
  PROVE  CoverInv'
<1> DEFINE m == muxes[turn]
           t == MuxNodes(m)
           N == {nodes[x] : x \in DOMAIN nodes}
<1>1. /\ nodes' = nodes \o t /\ turn' = turn + 1 /\ turn \in DOMAIN muxes
      /\ all_groups' = Merged(all_groups, m)
      /\ UNCHANGED <<muxes, naming, option, place>> /\ place = "emit"
  BY MuxesSequence DEF EmitPinctrl2, ParseInv, inputs
<1>2. /\ design \in Designs /\ design # None
      /\ naming \in Namings /\ naming # None /\ muxes = ParseMuxes(design)
  BY <1>1 DEF ParseInv
<1>3. m \in ParsedMuxes(design) /\ DOMAIN muxes \subseteq Nat
  BY <1>1, <1>2, MuxesParsed, MuxesSequence
<1>4. PICK T : t \in Seq(T)
  BY <1>2, <1>3, MuxNodesKnown
<1>5. PinsIn(t, m)
  BY <1>2, <1>3, MuxTree
<1>6. nodes \in Seq(N)
  BY DEF NodesInv
<1> HIDE DEF t, N
<1>7. /\ \A x \in DOMAIN nodes : x \in DOMAIN nodes' /\ nodes'[x] = nodes[x]
      /\ \A x \in DOMAIN t :
           Len(nodes) + x \in DOMAIN nodes' /\ nodes'[Len(nodes) + x] = t[x]
  BY <1>1, <1>4, <1>6, Joined
<1>8. /\ \A mux : PinsIn(nodes, mux) => PinsIn(nodes', mux)
      /\ PinsIn(nodes', m)
  BY <1>5, <1>7 DEF PinsIn
<1>9. /\ DOMAIN all_groups' = DOMAIN all_groups \cup GroupNames(m, naming)
      /\ \A g \in DOMAIN all_groups' :
           all_groups'[g] = (IF g \in DOMAIN all_groups THEN all_groups[g] ELSE {})
             \cup (IF g \in GroupNames(m, naming) THEN ConsumersOf(m, g, naming) ELSE {})
  BY <1>1 DEF Merged
<1>10. /\ \A mux : GroupsIn(all_groups, mux) => GroupsIn(all_groups', mux)
       /\ GroupsIn(all_groups', m)
  BY <1>9 DEF GroupsIn
<1>11. ASSUME NEW y \in DOMAIN muxes, Written(y)'
       PROVE  PinsIn(nodes', muxes[y]) /\ GroupsIn(all_groups', muxes[y])
  <2>1. y < turn \/ y = turn
    BY <1>1, <1>3, <1>11 DEF Written, Late
  <2>2. CASE y = turn
    BY <1>8, <1>10, <2>2
  <2>3. CASE y < turn
    BY <1>1, <1>8, <1>10, <2>3 DEF CoverInv, Written, EmitPinctrl2
  <2>4. QED
    BY <2>1, <2>2, <2>3
<1>12. ASSUME NEW g \in DOMAIN all_groups', NEW cons \in all_groups'[g]
       PROVE  \E y \in DOMAIN muxes :
                g \in GroupNames(muxes[y], naming) /\ cons \in ConsumersOf(muxes[y], g, naming)
  <2>1. CASE g \in DOMAIN all_groups /\ cons \in all_groups[g]
    BY <2>1 DEF CoverInv
  <2>2. CASE g \in GroupNames(m, naming) /\ cons \in ConsumersOf(m, g, naming)
    BY <1>1, <2>2
  <2>3. QED
    BY <1>9, <1>12, <2>1, <2>2
<1> HIDE DEF m
<1>13. QED
  BY <1>1, <1>11, <1>12, NodeForms DEF CoverInv, GroupsIn, Late

LEMMA CoverStep ==
  ASSUME ParseInv, NodesInv, CoverInv, [ToolNext]_toolVars
  PROVE  CoverInv'
<1>0. Len(muxes) \in Nat /\ DOMAIN muxes = 1..Len(muxes) /\ turn \in Nat
  BY MuxesSequence DEF ParseInv
<1>1. CASE EmitPinctrl2
  BY <1>1, EmitPinctrl2Covers
<1>2. CASE /\ UNCHANGED <<muxes, naming, option, nodes, all_groups, wiring>>
           /\ \A y \in DOMAIN muxes : Written(y)' => Written(y)
           /\ place' \in Late => place \in Late \/ option.style # "pinctrl2"
  <2>1. \A gs, mux : GroupsIn(gs, mux)' <=> GroupsIn(gs, mux)
    BY <1>2 DEF GroupsIn
  <2>2. (\A y \in DOMAIN muxes :
           Written(y) => PinsIn(nodes, muxes[y]) /\ GroupsIn(all_groups, muxes[y]))'
    BY <1>2, <2>1, NodeForms DEF CoverInv
  <2>3. (\A g \in DOMAIN all_groups : \A cons \in all_groups[g] :
           \E y \in DOMAIN muxes :
             g \in GroupNames(muxes[y], naming) /\ cons \in ConsumersOf(muxes[y], g, naming))'
    BY <1>2 DEF CoverInv
  <2>4. WiredConsumers' = WiredConsumers /\ \A c : GroupsOfConsumer(c)' = GroupsOfConsumer(c)
    BY <1>2 DEF WiredConsumers, GroupsOfConsumer
  <2>5. (place \in Late /\ option.style = "pinctrl2" =>
           wiring = [cons \in WiredConsumers |->
                       GroupLabel(Head(Sorted(GroupsOfConsumer(cons), ByRank)))])'
    BY <1>2, <2>4 DEF CoverInv, GroupLabel
  <2>6. QED
    BY <2>2, <2>3, <2>5 DEF CoverInv
<1>3. CASE Parse
  <2>1. /\ place' \in {"json", "emit"} /\ turn' = 1 /\ muxes = <<>>
        /\ UNCHANGED <<all_groups, naming>>
    BY <1>3 DEF Parse, ParseInv, inputs, emitted
  <2>2. \A y \in DOMAIN muxes' : ~Written(y)'
    <3>1. \A y \in DOMAIN muxes' : y \in Nat \ {0}
      <4>1. muxes' = ParseMuxes(design) /\ design \in Designs /\ design # None
        BY <1>3 DEF Parse, ParseInv
      <4>2. QED
        BY <4>1, MuxesParsed
    <3>2. \A y \in DOMAIN muxes' : ~(y < 1)
      BY <3>1
    <3>3. QED
      BY <2>1, <3>2 DEF Written, Late
  <2>3. \A g \in DOMAIN all_groups : all_groups[g] = {}
    BY <2>1 DEF CoverInv
  <2>4. place' \notin Late
    BY <2>1 DEF Late
  <2>5. QED
    BY <2>1, <2>2, <2>3, <2>4 DEF CoverInv
<1>4. CASE WireConsumers
  <2>1. /\ UNCHANGED <<muxes, naming, option, nodes, all_groups>>
        /\ \A y \in DOMAIN muxes : Written(y)
        /\ wiring' = [cons \in WiredConsumers |->
                        GroupLabel(Head(Sorted(GroupsOfConsumer(cons), ByRank)))]
    <3>1. \A y \in DOMAIN muxes : y < turn
      BY <1>0, <1>4 DEF WireConsumers
    <3>2. QED
      BY <1>4, <3>1 DEF WireConsumers, inputs, Written
  <2>2. \A gs, mux : GroupsIn(gs, mux)' <=> GroupsIn(gs, mux)
    BY <2>1 DEF GroupsIn
  <2>3. WiredConsumers' = WiredConsumers /\ \A c : GroupsOfConsumer(c)' = GroupsOfConsumer(c)
    BY <2>1 DEF WiredConsumers, GroupsOfConsumer
  <2>4. (\A y \in DOMAIN muxes :
           Written(y) => PinsIn(nodes, muxes[y]) /\ GroupsIn(all_groups, muxes[y]))'
    BY <2>1, <2>2, NodeForms DEF CoverInv
  <2>5. (\A g \in DOMAIN all_groups : \A cons \in all_groups[g] :
           \E y \in DOMAIN muxes :
             g \in GroupNames(muxes[y], naming) /\ cons \in ConsumersOf(muxes[y], g, naming))'
    BY <2>1 DEF CoverInv
  <2>6. (place \in Late /\ option.style = "pinctrl2" =>
           wiring = [cons \in WiredConsumers |->
                       GroupLabel(Head(Sorted(GroupsOfConsumer(cons), ByRank)))])'
    BY <2>1, <2>3 DEF GroupLabel
  <2>7. QED
    BY <2>4, <2>5, <2>6 DEF CoverInv
<1>5. CASE LoadNaming \/ LoadHwh \/ Interrupted
  <2>1. UNCHANGED <<muxes, naming, option, nodes, all_groups, wiring>>
        /\ place' \in {"load", "parse", "failed"}
    BY <1>5 DEF LoadNaming, LoadHwh, Interrupted, inputs, emitted
  <2>2. QED
    BY <1>2, <2>1 DEF Written, Late
<1>6. CASE EmitLegacy \/ LegacyEmitted
  <2>1. UNCHANGED <<muxes, naming, option, nodes, all_groups, wiring>>
        /\ option.style # "pinctrl2"
    BY <1>6 DEF EmitLegacy, LegacyEmitted, inputs, emitted
  <2>2. QED
    BY <1>2, <2>1 DEF Written, Late
<1>7. CASE EmitConsumers \/ NoFile
  <2>1. UNCHANGED <<muxes, naming, option, nodes, all_groups, wiring, turn>>
        /\ place \in Late
    BY <1>7 DEF EmitConsumers, NoFile, inputs, emitted, Late
  <2>2. QED
    BY <1>2, <2>1 DEF Written, Late
<1>8. ASSUME NEW fl \in Files, OpenFile(fl) \/ CloseFile(fl) PROVE CoverInv'
  <2>1. UNCHANGED <<muxes, naming, option, nodes, all_groups, wiring, turn>>
        /\ (place' \in Late => place \in Late)
        /\ (place' = "emit" => place = "emit" \/ place = "json")
    BY <1>8, FilePlaces DEF OpenFile, CloseFile, Late, Files, inputs, emitted
  <2>2. \A y \in DOMAIN muxes : Written(y)' => Written(y)
    <3>1. place = "json" => \A y \in DOMAIN muxes : ~(y < turn)
      BY <1>0 DEF ParseInv
    <3>2. QED
      BY <2>1, <3>1 DEF Written, Late
  <2>3. QED
    BY <1>2, <2>1, <2>2
<1>9. CASE ToolFinished \/ UNCHANGED toolVars
  BY <1>2, <1>9 DEF ToolFinished, toolVars, Written
<1>10. QED
  BY <1>1, <1>3, <1>4, <1>5, <1>6, <1>7, <1>8, <1>9 DEF ToolNext

-----------------------------------------------------------------------------
(***************************************************************************)
(* The tree is one that the probe takes                                    *)
(***************************************************************************)

\* What is written for the names of a mux are names of the device tree.
LEMMA NamesOfMux ==
  ASSUME design \in Designs, design # None, naming \in Namings, naming # None,
         NEW mux \in ParsedMuxes(design)
  PROVE  /\ \A p \in PinsOf(mux) :
              /\ PinRef(p) \in Names /\ PinNodeName(p) \in Names
              /\ \A a \in 0..MaxAlt(mux, p) : FnFor(mux, p, a, naming) \in Names
         /\ \A g \in GroupTitles(mux, naming) : GroupNodeName(g) \in Names /\ Plain(g) \in Names
<1>1. PICK m \in MuxModules(design) : mux = ParseMux(design, m)
  BY DEF ParsedMuxes
<1>2. PICK y \in DOMAIN design : design[y] = m /\ m.mux
  BY ModulesOfDesign
<1>3. mux = ParseMux(design, design[y]) /\ design[y].mux
  BY <1>1, <1>2
<1>4. QED
  BY <1>3, NamesAssumption

LEMMA TitleKnown ==
  ASSUME NEW mux, NEW g, NEW src, Titled(mux, g, src)
  PROVE  g \in GroupTitles(mux, naming)
<1>1. CASE g = src
  BY <1>1 DEF Titled, GroupTitles
<1>2. CASE g # src
  <2>1. PICK y \in DOMAIN naming.aliases :
               naming.aliases[y][1] = src /\ g = Or(CleanName, naming.aliases[y][2])
    BY <1>2 DEF Titled
  <2>2. y \in {z \in DOMAIN naming.aliases : naming.aliases[z][1] \in GroupNames(mux, naming)}
    BY <2>1 DEF Titled
  <2>3. g \in {Or(CleanName, naming.aliases[x][2]) :
                 x \in {z \in DOMAIN naming.aliases : naming.aliases[z][1] \in GroupNames(mux, naming)}}
    BY <2>1, <2>2
  <2>4. QED
    BY <2>3 DEF GroupTitles
<1>3. QED
  BY <1>1, <1>2

\* The entries of a group are its slots, each of them, and those of a pin in
\* the order of the alternates.
LEMMA EntriesAll ==
  ASSUME design \in Designs, design # None, NEW mux \in ParsedMuxes(design), NEW src
  PROVE  LET e == Entries(mux, src, naming)
         IN /\ Cardinality(InGroup(mux, src, naming)) \in Nat
            /\ DOMAIN e = 1..Cardinality(InGroup(mux, src, naming))
            /\ \A x \in DOMAIN e :
                 /\ e[x] \in InGroup(mux, src, naming) /\ e[x] = <<e[x][1], e[x][2]>>
                 /\ e[x][1] \in PinsOf(mux) /\ e[x][2] \in Nat
            /\ \A s \in InGroup(mux, src, naming) : \E x \in DOMAIN e : e[x] = s
            /\ \A x, y \in DOMAIN e : x < y /\ e[x][1] = e[y][1] => e[x][2] < e[y][2]
<1> DEFINE S == InGroup(mux, src, naming)
           e == Sorted(S, BySlot)
<1>1. S \subseteq DOMAIN mux.slots
  BY DEF InGroup, Grouped
<1>2. IsFiniteSet(DOMAIN mux.slots) /\ DOMAIN mux.slots \subseteq Nat \X Nat
  BY SlotsParsed
<1>3. e = Entries(mux, src, naming)
  BY DEF Entries
<1> HIDE DEF S
<1>4. IsFiniteSet(S) /\ S \in SUBSET (Nat \X Nat)
  BY <1>1, <1>2, FS_Subset
<1>5. /\ Cardinality(S) \in Nat /\ DOMAIN e = 1..Cardinality(S)
      /\ \A x \in DOMAIN e : e[x] \in S
      /\ \A s \in S : \E x \in DOMAIN e : e[x] = s
      /\ \A x, y \in DOMAIN e : x < y /\ e[x][1] = e[y][1] => e[x][2] < e[y][2]
  BY <1>4, SlotsSorted
<1> HIDE DEF e
<1>6. ASSUME NEW s \in S PROVE s = <<s[1], s[2]>> /\ s[1] \in PinsOf(mux) /\ s[2] \in Nat
  <2>1. s \in Nat \X Nat /\ s \in DOMAIN mux.slots
    BY <1>1, <1>4
  <2>2. QED
    BY <2>1 DEF PinsOf
<1>7. \A x \in DOMAIN e : e[x] \in S /\ e[x] = <<e[x][1], e[x][2]>>
                          /\ e[x][1] \in PinsOf(mux) /\ e[x][2] \in Nat
  BY <1>5, <1>6
<1>8. QED
  BY <1>3, <1>5, <1>7 DEF S

LEMMA ChildOfTree ==
  ASSUME design \in Designs, design # None, naming \in Namings, naming # None,
         NEW mux \in ParsedMuxes(design), NEW nd, IsNodeOf(nd, mux)
  PROVE  nd.child \in Child
<1>1. CASE IsPinNodeOf(nd, mux)
  <2>1. PICK p \in PinsOf(mux) : nd = PinNode(mux, p)
    BY <1>1 DEF IsPinNodeOf
  <2> DEFINE fs == FunctionNames(mux, p)
             m == MaxAlt(mux, p)
  <2>2. p \in Nat /\ m \in Nat
    BY PinNumbers, LastAlternate
  <2>3. fs = [x \in 1..(m + 1) |-> FnFor(mux, p, x - 1, naming)]
    BY DEF FunctionNames
  <2> HIDE DEF m
  <2>4. \A x \in 1..(m + 1) : x - 1 \in 0..m
    BY <2>2
  <2>5. fs \in Seq(Names)
    <3>1. \A a \in 0..m : FnFor(mux, p, a, naming) \in Names
      BY NamesOfMux DEF m
    <3> HIDE DEF fs
    <3>2. fs \in [1..(m + 1) -> Names]
      BY <2>3, <2>4, <3>1
    <3>3. m + 1 \in Nat
      BY <2>2
    <3>4. QED
      BY <3>2, <3>3
  <2>6. PinNodeName(p) \in Names
    BY NamesOfMux
  <2>7. PinNode(mux, p).child =
          [name |-> PinNodeName(p), reg |-> p, funcs |-> fs, pins |-> Absent,
           mux |-> Absent, fn |-> Absent]
    BY HwhProbeAssumption DEF PinNode, TreeNode
  <2> HIDE DEF fs
  <2>8. QED
    BY <2>1, <2>2, <2>5, <2>6, <2>7 DEF Child, Opt
<1>2. CASE IsGroupNodeOf(nd, mux)
  <2>1. PICK g, src : Titled(mux, g, src) /\ nd = GroupNode(mux, g, src)
    BY <1>2 DEF IsGroupNodeOf
  <2> DEFINE e == Entries(mux, src, naming)
             n == Cardinality(InGroup(mux, src, naming))
             ps == [x \in DOMAIN e |-> PinRef(e[x][1])]
             vs == [x \in DOMAIN e |-> e[x][2]]
  <2>2. /\ n \in Nat /\ DOMAIN e = 1..n
        /\ \A x \in DOMAIN e : e[x][1] \in PinsOf(mux) /\ e[x][2] \in Nat
    BY EntriesAll
  <2>3. GroupNodeName(g) \in Names /\ Plain(g) \in Names
    BY <2>1, TitleKnown, NamesOfMux
  <2>4. \A p \in PinsOf(mux) : PinRef(p) \in Names
    BY NamesOfMux
  <2> HIDE DEF e, n
  <2>5. ps \in [1..n -> Names] /\ vs \in [1..n -> Nat]
    BY <2>2, <2>4
  <2>6. GroupNode(mux, g, src).child =
          [name |-> GroupNodeName(g), reg |-> Absent, funcs |-> Absent, pins |-> ps,
           mux |-> vs, fn |-> Plain(g)]
    BY HwhProbeAssumption DEF GroupNode, TreeNode, e
  <2> HIDE DEF ps, vs
  <2>7. ps \in Seq(Names) /\ vs \in Seq(Nat)
    BY <2>2, <2>5
  <2>8. QED
    BY <2>1, <2>3, <2>6, <2>7 DEF Child, Opt
<1>3. QED
  BY <1>1, <1>2 DEF IsNodeOf

\* The nodes of an instance are nodes of its mux.
LEMMA NodeOwner ==
  ASSUME ParseInv, TreesInv, design # None, muxes = ParseMuxes(design),
         NEW i \in DOMAIN muxes, NEW z \in DOMAIN nodes, nodes[z].ctl = muxes[i].instance
  PROVE  IsNodeOf(nodes[z], muxes[i])
<1>1. PICK y \in DOMAIN muxes : IsNodeOf(nodes[z], muxes[y])
  BY DEF TreesInv
<1> DEFINE b == muxes[y]
<1>2. IsNodeOf(nodes[z], b)
  BY <1>1
<1> HIDE DEF b
<1>3. nodes[z].ctl = b.instance
  BY <1>2, PinNodeFields, GroupNodeFields DEF IsNodeOf, IsPinNodeOf, IsGroupNodeOf
<1>4. y = i
  BY <1>3, MuxesParsed DEF ParseInv, b
<1>5. QED
  BY <1>1, <1>4

\* A controller's children are the nodes of its instance, each of them once.
NodePlaces(mux) == Sorted({x \in DOMAIN nodes : nodes[x].ctl = mux.instance}, InOrder)

LEMMA ControllerNodes ==
  ASSUME NodesInv, NEW mux, NEW n
  PROVE  LET c == ControllerOf(mux, n)
             mine == NodePlaces(mux)
         IN /\ c.hwPins = n /\ c.hwAlts = 15
            /\ Len(c.children) \in Nat /\ DOMAIN c.children = 1..Len(c.children)
            /\ DOMAIN mine = DOMAIN c.children
            /\ c = [hwPins |-> n, hwAlts |-> 15, children |-> c.children]
            /\ \A x \in DOMAIN mine :
                 /\ mine[x] \in DOMAIN nodes /\ nodes[mine[x]].ctl = mux.instance
                 /\ c.children[x] = nodes[mine[x]].child
            /\ \A x, y \in DOMAIN mine : mine[x] = mine[y] => x = y
            /\ \A z \in DOMAIN nodes :
                 nodes[z].ctl = mux.instance => \E x \in DOMAIN mine : mine[x] = z
<1> DEFINE c == ControllerOf(mux, n)
           S == {x \in DOMAIN nodes : nodes[x].ctl = mux.instance}
           mine == NodePlaces(mux)
           ch == c.children
           m == Cardinality(S)
<1>1. /\ c = [hwPins |-> n, hwAlts |-> 15, children |-> ch]
      /\ c.hwPins = n /\ c.hwAlts = 15
      /\ ch = [x \in DOMAIN mine |-> nodes[mine[x]].child]
  BY Limits DEF ControllerOf, NodePlaces
<1>2. /\ m \in Nat /\ DOMAIN mine = 1..m
      /\ \A x \in DOMAIN mine : mine[x] \in S
      /\ \A e \in S : \E x \in DOMAIN mine : mine[x] = e
      /\ \A x, y \in DOMAIN mine : mine[x] = mine[y] => x = y
  <2> DEFINE R == {r \in S \X S : r[1] < r[2]}
  <2>1. IsFiniteSet(DOMAIN nodes) /\ DOMAIN nodes \subseteq Nat
    BY SequenceDomain DEF NodesInv
  <2>2. S \in SUBSET Nat /\ IsFiniteSet(S) /\ mine = Sorted(S, InOrder)
    BY <2>1, FS_Subset DEF NodePlaces
  <2> HIDE DEF S, mine
  <2>3. Order(S, R) /\ Lists(mine, S, R)
    BY <2>2, NumbersSorted
  <2> HIDE DEF R
  <2>4. QED
    BY <2>2, <2>3, ListsAll
<1> HIDE DEF mine, ch, m
<1>3. Len(ch) = m /\ DOMAIN ch = 1..m
  <2>1. ch = [x \in 1..m |-> ch[x]]
    BY <1>1, <1>2
  <2>2. QED
    BY <1>2, <2>1, IsSequence
<1>4. /\ \A x \in DOMAIN mine :
           /\ mine[x] \in DOMAIN nodes /\ nodes[mine[x]].ctl = mux.instance
           /\ ch[x] = nodes[mine[x]].child
      /\ \A z \in DOMAIN nodes :
           nodes[z].ctl = mux.instance => \E x \in DOMAIN mine : mine[x] = z
  BY <1>1, <1>2
<1> HIDE DEF S, c
<1>5. QED
  BY <1>1, <1>2, <1>3, <1>4 DEF ch, c, mine

LEMMA EmittedController ==
  ASSUME ParseInv, NodesInv, TreesInv, place = "done", NEW i \in DOMAIN muxes, NEW n \in HwPins
  PROVE  ControllerOf(muxes[i], n) \in Controller
<1> DEFINE mux == muxes[i]
           c == ControllerOf(mux, n)
           ch == c.children
           mine == NodePlaces(mux)
<1>1. /\ design \in Designs /\ design # None /\ naming \in Namings /\ naming # None
      /\ muxes = ParseMuxes(design) /\ mux \in ParsedMuxes(design)
  <2>1. /\ design \in Designs /\ design # None /\ naming \in Namings /\ naming # None
        /\ muxes = ParseMuxes(design)
    BY DEF ParseInv
  <2>2. QED
    BY <2>1, MuxesParsed
<1>2. n \in 0..255
  BY HwhProbeAssumption, Limits
<1>3. /\ Len(ch) \in Nat /\ DOMAIN ch = 1..Len(ch) /\ DOMAIN mine = DOMAIN ch
      /\ c = [hwPins |-> n, hwAlts |-> 15, children |-> ch]
      /\ \A x \in DOMAIN mine :
           /\ mine[x] \in DOMAIN nodes /\ nodes[mine[x]].ctl = mux.instance
           /\ ch[x] = nodes[mine[x]].child
      /\ ch = [x \in DOMAIN ch |-> ch[x]]
  <2>1. ch = [x \in DOMAIN ch |-> nodes[mine[x]].child]
    BY DEF ControllerOf, NodePlaces
  <2>2. ch = [x \in DOMAIN ch |-> ch[x]]
    BY <2>1
  <2>3. QED
    BY <2>2, ControllerNodes
<1>4. ASSUME NEW x \in DOMAIN ch PROVE ch[x] \in Child
  <2>1. /\ mine[x] \in DOMAIN nodes /\ nodes[mine[x]].ctl = muxes[i].instance
        /\ ch[x] = nodes[mine[x]].child
    BY <1>3
  <2>2. IsNodeOf(nodes[mine[x]], mux)
    BY <1>1, <2>1, NodeOwner
  <2>3. QED
    BY <1>1, <2>1, <2>2, ChildOfTree
<1> HIDE DEF ch, c
<1>5. ch \in [1..Len(ch) -> Child]
  BY <1>3, <1>4
<1>6. ch \in Seq(Child)
  BY <1>3, <1>5
<1>7. QED
  BY <1>2, <1>3, <1>6 DEF Controller, c

LEMMA PinsOfController ==
  ASSUME NodesInv, NEW mux, NEW n, PinsOf(mux) \subseteq Nat, PinsIn(nodes, mux),
         NEW p \in PinsOf(mux)
  PROVE  \E x \in PinChildren(ControllerOf(mux, n)) :
           /\ ControllerOf(mux, n).children[x].reg = p
           /\ ControllerOf(mux, n).children[x].funcs = FunctionNames(mux, p)
<1> DEFINE c == ControllerOf(mux, n)
           mine == NodePlaces(mux)
<1>1. PICK z \in DOMAIN nodes : nodes[z] = PinNode(mux, p)
  BY DEF PinsIn
<1>2. PICK x \in DOMAIN mine : mine[x] = z
  <2>1. nodes[z].ctl = mux.instance
    BY <1>1, PinNodeFields
  <2>2. QED
    BY <2>1, ControllerNodes
<1>3. x \in DOMAIN c.children /\ c.children[x] = PinNode(mux, p).child
  BY <1>1, <1>2, ControllerNodes
<1> HIDE DEF c
<1>4. /\ c.children[x].reg = p /\ c.children[x].pins = Absent
      /\ c.children[x].funcs = FunctionNames(mux, p)
  BY <1>3, PinNodeFields
<1>5. p # Absent
  BY ProbeAssumption
<1>6. x \in PinChildren(c)
  BY <1>3, <1>4, <1>5 DEF PinChildren, IsPinNode, IsGroupNode
<1>7. QED
  BY <1>4, <1>6 DEF c

LEMMA EmittedWellFormed ==
  ASSUME ParseInv, NodesInv, TreesInv, place = "done", NEW i \in DOMAIN muxes,
         NEW n \in HwPins, PinsOf(muxes[i]) \subseteq 0..(n - 1)
  PROVE  LET c == ControllerOf(muxes[i], n) IN
         /\ WellFormed(c)
         /\ Len(c.children) \in Nat /\ DOMAIN c.children = 1..Len(c.children)
         /\ c.hwPins \in Nat
         /\ \A x \in PinChildren(c) : c.children[x].reg \in Nat
<1> DEFINE mux == muxes[i]
           c == ControllerOf(mux, n)
           mine == NodePlaces(mux)
           ch == c.children
           N(x) == nodes[mine[x]]
<1>1. /\ design \in Designs /\ design # None /\ muxes = ParseMuxes(design)
      /\ mux \in ParsedMuxes(design)
  <2>1. design \in Designs /\ design # None /\ muxes = ParseMuxes(design)
    BY DEF ParseInv
  <2>2. QED
    BY <2>1, MuxesParsed
<1>2. n \in 1..32 /\ AXIMUX_MAX_PINS = 32
  BY HwhProbeAssumption, Limits
<1>3. PinsOf(mux) \subseteq Nat /\ PinsOf(mux) \subseteq 0..(n - 1)
  BY <1>1, PinNumbers
<1>4. /\ c.hwPins = n
      /\ Len(ch) \in Nat /\ DOMAIN ch = 1..Len(ch)
      /\ DOMAIN ch = DOMAIN mine
      /\ \A x \in DOMAIN mine :
           /\ mine[x] \in DOMAIN nodes /\ N(x).ctl = mux.instance
           /\ ch[x] = N(x).child
      /\ \A x, y \in DOMAIN mine : mine[x] = mine[y] => x = y
      /\ \A z \in DOMAIN nodes :
           nodes[z].ctl = mux.instance => \E x \in DOMAIN mine : mine[x] = z
  <2> HIDE DEF mux
  <2>1. c.hwPins = n /\ Len(ch) \in Nat /\ DOMAIN ch = 1..Len(ch) /\ DOMAIN ch = DOMAIN mine
    BY ControllerNodes
  <2>2. \A x \in DOMAIN mine :
          /\ mine[x] \in DOMAIN nodes /\ N(x).ctl = mux.instance
          /\ ch[x] = N(x).child
    BY ControllerNodes
  <2>3. /\ \A x, y \in DOMAIN mine : mine[x] = mine[y] => x = y
        /\ \A z \in DOMAIN nodes :
             nodes[z].ctl = mux.instance => \E x \in DOMAIN mine : mine[x] = z
    BY ControllerNodes
  <2>4. QED
    BY <2>1, <2>2, <2>3
<1>5. /\ \A x, y \in DOMAIN mine : mine[x] = mine[y] => x = y
      /\ DOMAIN ch = DOMAIN mine
  BY <1>4
<1>6. \A x \in DOMAIN mine : N(x).ctl = mux.instance /\ mine[x] \in DOMAIN nodes
  BY <1>4
<1>7. \A p : PinNode(mux, p) \in {nodes[x] : x \in DOMAIN nodes}
               => \E x \in DOMAIN mine : N(x) = PinNode(mux, p)
  BY <1>4, PinNodeFields
<1> HIDE DEF mine, c
<1>8. ASSUME NEW x \in DOMAIN mine PROVE IsNodeOf(N(x), mux) /\ PinsIn(nodes, mux)
  <2>1. PICK y \in DOMAIN muxes : IsNodeOf(N(x), muxes[y]) /\ PinsIn(nodes, muxes[y])
    BY <1>6 DEF TreesInv
  <2>2. N(x).ctl = muxes[y].instance
    <3> DEFINE b == muxes[y]
    <3>1. IsNodeOf(N(x), b)
      BY <2>1
    <3> HIDE DEF b
    <3>2. N(x).ctl = b.instance
      BY <3>1, PinNodeFields, GroupNodeFields DEF IsNodeOf, IsPinNodeOf, IsGroupNodeOf
    <3>3. QED
      BY <3>2 DEF b
  <2>3. y = i
    BY <1>1, <1>6, <2>2, MuxesParsed
  <2>4. QED
    BY <2>1, <2>3
<1>9. DOMAIN ch = DOMAIN mine /\ \A x \in DOMAIN mine : ch[x] = N(x).child
  BY <1>4
<1> HIDE DEF mux, ch, N
<1>10. Absent \notin Nat
  BY ProbeAssumption
<1>11. ASSUME NEW x \in DOMAIN mine, NEW p \in PinsOf(mux), N(x) = PinNode(mux, p)
       PROVE  /\ x \in PinChildren(c) /\ ch[x].reg = p
              /\ ch[x].funcs = FunctionNames(mux, p)
  <2>1. ch[x].pins = Absent /\ ch[x].reg = p /\ ch[x].funcs = FunctionNames(mux, p)
    BY <1>9, <1>11, PinNodeFields
  <2>2. p # Absent
    BY <1>3, <1>10
  <2>3. QED
    BY <1>9, <2>1, <2>2 DEF PinChildren, IsPinNode, IsGroupNode, ch
<1>12. ASSUME NEW x \in PinChildren(c)
       PROVE  x \in DOMAIN mine /\ \E p \in PinsOf(mux) : N(x) = PinNode(mux, p)
  <2>1. x \in DOMAIN mine /\ ch[x].reg # Absent
    BY <1>9 DEF PinChildren, IsPinNode, ch
  <2>2. ASSUME NEW g, NEW src, N(x) = GroupNode(mux, g, src) PROVE FALSE
    <3>1. ch[x].reg = Absent
      BY <1>9, <2>1, <2>2, GroupNodeFields
    <3>2. QED
      BY <2>1, <3>1
  <2>3. QED
    BY <1>8, <2>1, <2>2 DEF IsNodeOf, IsPinNodeOf, IsGroupNodeOf
<1>13. ASSUME NEW x \in PinChildren(c) PROVE PinFits(c, x) /\ ch[x].reg \in Nat
  <2>1. x \in DOMAIN mine
    BY <1>12
  <2>2. PICK p \in PinsOf(mux) : N(x) = PinNode(mux, p)
    BY <1>12
  <2>3. ch[x].reg = p /\ ch[x].funcs = FunctionNames(mux, p)
    BY <1>11, <2>1, <2>2
  <2>4. p \in Nat /\ p < n
    BY <1>2, <1>3
  <2>5. FunctionNames(mux, p) # <<>>
    <3>1. MaxAlt(mux, p) \in Nat
      BY <1>1, LastAlternate
    <3>2. 1 \in DOMAIN FunctionNames(mux, p)
      BY <3>1 DEF FunctionNames
    <3>3. QED
      BY <3>2
  <2>6. QED
    BY <1>4, <2>3, <2>4, <2>5 DEF PinFits, ch
<1>14. ASSUME NEW x \in PinChildren(c), NEW y \in PinChildren(c), ch[x].reg = ch[y].reg
       PROVE  x = y
  <2>1. x \in DOMAIN mine /\ y \in DOMAIN mine
    BY <1>12
  <2>2. /\ nodes[mine[x]].ctl = nodes[mine[y]].ctl
        /\ nodes[mine[x]].child.reg = nodes[mine[y]].child.reg
    BY <1>6, <1>9, <1>14, <2>1 DEF N
  <2>3. nodes[mine[x]].child.reg # Absent
    BY <1>9, <1>10, <1>13, <2>1 DEF N
  <2>4. mine[x] = mine[y]
    BY <1>6, <2>1, <2>2, <2>3 DEF TreesInv, OnePinEach
  <2>5. QED
    BY <1>5, <2>1, <2>4
<1>15. ASSUME NEW x \in DOMAIN ch PROVE GroupFits(c, x)
  <2> SUFFICES ASSUME IsGroupNode(ch[x]), NEW j \in DOMAIN ch[x].pins
               PROVE  \E m \in Registered(c) : PinName[m] = ch[x].pins[j]
    BY DEF GroupFits, ch
  <2>1. ~IsPinNodeOf(N(x), mux)
    BY <1>9, PinNodeFields DEF IsPinNodeOf, IsGroupNode
  <2>2. PICK g, src : N(x) = GroupNode(mux, g, src)
    BY <1>8, <1>9, <2>1 DEF IsNodeOf, IsGroupNodeOf
  <2> DEFINE e == Entries(mux, src, naming)
  <2>3. ch[x].pins = [y \in DOMAIN e |-> PinRef(e[y][1])]
    BY <1>9, <2>2, GroupNodePins
  <2>4. j \in DOMAIN e /\ ch[x].pins[j] = PinRef(e[j][1])
    BY <2>3
  <2>5. e[j][1] \in PinsOf(mux)
    BY <1>1, <2>4, EntriesAll
  <2> DEFINE p == e[j][1]
  <2> HIDE DEF e
  <2>6. p \in PinsOf(mux) /\ ch[x].pins[j] = PinRef(p)
    BY <2>4, <2>5
  <2> HIDE DEF p
  <2>7. PinName[p] = ch[x].pins[j]
    <3>1. p \in 0..31
      BY <1>2, <1>3, <2>6
    <3>2. DOMAIN PinName = 0..31
      BY <1>2, ProbeAssumption
    <3>3. QED
      BY <2>6, <3>1, <3>2, HwhProbeAssumption
  <2>8. p \in Registered(c)
    <3>1. CASE PinChildren(c) = {}
      BY <1>3, <1>4, <2>6, <3>1 DEF Registered
    <3>2. CASE PinChildren(c) # {}
      <4>1. \E z \in DOMAIN nodes : nodes[z] = PinNode(mux, p)
        BY <1>8, <1>9, <2>6 DEF PinsIn
      <4>2. PICK y \in DOMAIN mine : N(y) = PinNode(mux, p)
        BY <1>7, <4>1 DEF N, mux
      <4>3. y \in PinChildren(c) /\ ch[y].reg = p
        BY <1>11, <2>6, <4>2
      <4>4. QED
        BY <3>2, <4>3 DEF Registered, ch
    <3>3. QED
      BY <3>1, <3>2
  <2>9. QED
    BY <2>7, <2>8
<1>16. c.hwPins \in 1..AXIMUX_MAX_PINS
  BY <1>2, <1>4
<1>17. WellFormed(c)
  BY <1>13, <1>14, <1>15, <1>16 DEF WellFormed, ch
<1>18. Len(ch) \in Nat /\ DOMAIN ch = 1..Len(ch)
  BY <1>4
<1>19. c.hwPins \in Nat
  BY <1>2, <1>4
<1>20. \A x \in PinChildren(c) : c.children[x].reg \in Nat
  BY <1>13 DEF ch
<1>21. Len(c.children) \in Nat /\ DOMAIN c.children = 1..Len(c.children)
  BY <1>18 DEF ch
<1>22. QED
  BY <1>17, <1>19, <1>20, <1>21, Zenon DEF c, mux

-----------------------------------------------------------------------------
(***************************************************************************)
(* What a name selects                                                     *)
(***************************************************************************)
LEMMA FirstIs ==
  ASSUME NEW S \in SUBSET Nat, NEW m \in S, \A y \in S : m <= y
  PROVE  FirstOf(S) = m
<1>1. \A x \in S : (\A y \in S : x <= y) => x = m
  OBVIOUS
<1>2. QED
  BY <1>1 DEF FirstOf

\* Of two declarations for one function the sooner has the lower place.
LEMMA SoonerIsBefore ==
  ASSUME NEW c, NEW D, IsFiniteSet(D),
         \A e \in D : e[1] \in Nat /\ e[2] \in Nat /\ e[3] \in Nat,
         NEW d \in D, NEW e \in D, DeclaredFn(c, d) = DeclaredFn(c, e), Sooner(d, e)
  PROVE  EntryPlace(c, D, d) \in Nat /\ EntryPlace(c, D, e) \in Nat
         /\ EntryPlace(c, D, d) < EntryPlace(c, D, e)
<1> DEFINE S == DeclaredFor(c, D, DeclaredFn(c, d))
           A == {g \in S : Sooner(g, d)}
           B == {g \in S : Sooner(g, e)}
<1>1. S \in SUBSET D /\ d \in S
  BY DEF DeclaredFor
<1>2. ~Sooner(d, d) /\ \A g \in D : Sooner(g, d) => Sooner(g, e)
  BY DEF Sooner
<1>3. EntryPlace(c, D, d) = Cardinality(A) + 1 /\ EntryPlace(c, D, e) = Cardinality(B) + 1
  BY DEF EntryPlace
<1> HIDE DEF S
<1>4. A \in SUBSET B /\ A # B /\ B \in SUBSET D
  BY <1>1, <1>2
<1> HIDE DEF A, B
<1>5. IsFiniteSet(B) /\ IsFiniteSet(A)
  BY <1>4, FS_Subset
<1>6. Cardinality(A) <= Cardinality(B) /\ Cardinality(A) # Cardinality(B)
  BY <1>4, <1>5, FS_Subset
<1>7. Cardinality(A) \in Nat /\ Cardinality(B) \in Nat
  BY <1>5, FS_CardinalityType
<1>8. QED
  BY <1>3, <1>6, <1>7

\* The tables of a probe that is ready, as far as names need them: a node's
\* pin and its group, whose name no group before it has, and for a function's
\* name one function with the declarations in order.
LEMMA PinGroupFirst ==
  ASSUME ProbeInv, AcceptInv, Match, pc = "ready", NEW x \in PinChildren(ctl)
  PROVE  LET group == PinName[ctl.children[x].reg]
         IN /\ GroupsNamed(group) # {}
            /\ groups[FirstOf(GroupsNamed(group))].pins = <<ctl.children[x].reg>>
            /\ \A z \in PinChildren(ctl) :
                 PinName[ctl.children[z].reg] = group => z = x
<1> DEFINE P == PinChildren(ctl)
           n == Len(ctl.children)
           reg == ctl.children[x].reg
           y == PlaceIn(P, x)
<1>1. /\ Tables /\ PinsAll(pins, ctl) /\ GroupsFollow(groups, pins, ctl, n + 1)
      /\ P \in SUBSET (1..n) /\ n \in Nat
      /\ WellFormed(ctl) /\ Shape
  BY NodesOfTree DEF ProbeInv, Match, AcceptInv, Accepted
<1>2. \A z \in P : ctl.children[z].reg \in 0..31 /\ ctl.children[z].reg \in DOMAIN PinName
  <2>1. DOMAIN PinName = 0..31
    BY ProbeAssumption DEF AXIMUX_MAX_PINS
  <2>2. \A z \in P : ctl.children[z].reg \in Nat /\ ctl.children[z].reg < ctl.hwPins
    BY <1>1 DEF Shape, WellFormed, PinFits
  <2>3. ctl.hwPins \in 1..32
    BY <1>1 DEF WellFormed, AXIMUX_MAX_PINS
  <2>4. QED
    BY <2>1, <2>2, <2>3
<1>3. \A z \in P : PinName[ctl.children[z].reg] = PinName[reg] => z = x
  BY <1>1, <1>2, ProbeAssumption DEF WellFormed
<1>4. /\ \A z \in P : PlaceIn(P, z) \in DOMAIN pins /\ pins[PlaceIn(P, z)] = PinOf(ctl, z)
      /\ \A w \in DOMAIN pins : \E z \in P : PlaceIn(P, z) = w
  <2>1. \A z \in P : PlaceIn(P, z) \in DOMAIN pins /\ pins[PlaceIn(P, z)] = PinOf(ctl, z)
    BY <1>1, PlacesOfPins
  <2>2. PinsFollow(pins, ctl, n + 1)
    BY <1>1 DEF PinsAll, PinsOfHardware
  <2>3. Visited(P, n + 1) = P
    <3>1. n + 1 \in Nat /\ n + 1 > n
      BY <1>1
    <3> HIDE DEF P
    <3>2. QED
      BY <1>1, <3>1, VisitedFirst
  <2>4. QED
    BY <2>1, <2>2, <2>3 DEF PinsFollow
<1>5. /\ \A z \in P : PinOf(ctl, z).name = PinName[ctl.children[z].reg]
      /\ \A z \in P : PinOf(ctl, z).number = ctl.children[z].reg
  BY DEF PinOf
<1>6. \A w \in DOMAIN pins : w \in DOMAIN groups /\ groups[w].name = pins[w].name
                             /\ groups[w].pins = <<pins[w].number>>
  <2>1. \A w \in DOMAIN pins : w \in DOMAIN groups /\ groups[w] = DefaultGroup(pins[w])
    BY <1>1 DEF GroupsFollow
  <2>2. \A p : DefaultGroup(p).name = p.name /\ DefaultGroup(p).pins = <<p.number>>
    BY DEF DefaultGroup
  <2>3. QED
    BY <2>1, <2>2
<1>7. /\ DOMAIN pins = 1..Len(pins) /\ Len(pins) \in Nat
      /\ DOMAIN groups = 1..Len(groups) /\ Len(groups) \in Nat
  BY <1>1 DEF Tables
<1> DEFINE S == GroupsNamed(PinName[reg])
<1>8. y \in DOMAIN pins /\ pins[y] = PinOf(ctl, x)
  BY <1>4
<1>9. y \in S /\ S \in SUBSET Nat
  BY <1>5, <1>6, <1>7, <1>8 DEF GroupsNamed
<1>10. ASSUME NEW w \in S PROVE y <= w
  <2>1. CASE w \in DOMAIN pins
    <3>1. PICK z \in P : PlaceIn(P, z) = w
      BY <1>4, <2>1
    <3>2. groups[w].name = PinName[reg] /\ groups[w].name = PinName[ctl.children[z].reg]
      BY <1>4, <1>5, <1>6, <2>1, <3>1 DEF GroupsNamed
    <3>3. z = x
      BY <1>3, <3>2
    <3>4. QED
      BY <1>7, <1>8, <3>1, <3>3
  <2>2. CASE w \notin DOMAIN pins
    <3>1. w \in 1..Len(groups)
      BY <1>7 DEF GroupsNamed
    <3> HIDE DEF y
    <3>2. QED
      BY <1>7, <1>8, <2>2, <3>1
  <2>3. QED
    BY <2>1, <2>2
<1> HIDE DEF S, y
<1>11. FirstOf(S) = y
  BY <1>9, <1>10, FirstIs
<1>12. groups[y].pins = <<reg>>
  BY <1>5, <1>6, <1>8
<1>13. QED
  BY <1>3, <1>9, <1>11, <1>12 DEF S

LEMMA OneFunction ==
  ASSUME ProbeInv, Match, pc = "ready", NEW d \in Declarations(ctl)
  PROVE  LET D == Declarations(ctl)
             name == DeclaredFn(ctl, d)
             entries == funcs[FirstOf(FunctionsNamed(name))].entries
         IN /\ FunctionsNamed(name) # {}
            /\ IsFiniteSet(D)
            /\ \A e \in D : e[1] \in Nat /\ e[2] \in Nat /\ e[3] \in Nat
            /\ \A e \in DeclaredFor(ctl, D, name) :
                 /\ EntryPlace(ctl, D, e) \in DOMAIN entries
                 /\ entries[EntryPlace(ctl, D, e)] = DeclaredEntry(ctl, e)
            /\ \A y \in DOMAIN entries :
                 y \in Nat /\ \E e \in DeclaredFor(ctl, D, name) : EntryPlace(ctl, D, e) = y
<1> DEFINE D == Declarations(ctl)
           name == DeclaredFn(ctl, d)
           S == FunctionsNamed(name)
<1>1. Tables /\ FunctionsFor(funcs, ctl, D)
  BY DEF ProbeInv, Match
<1>2. \A e \in D : e[1] \in Nat /\ e[2] \in Nat /\ e[3] \in Nat
  <2> SUFFICES ASSUME NEW e \in D PROVE e[1] \in Nat /\ e[2] \in Nat /\ e[3] \in Nat
    OBVIOUS
  <2>1. QED
    BY <1>1, DeclarationForm
<1> HIDE DEF D
<1>3. PICK u \in DOMAIN funcs : funcs[u].name = name
  BY <1>1 DEF FunctionsFor, D
<1>4. u \in S /\ \A w \in S : w = u
  BY <1>1, <1>3 DEF FunctionsNamed, FunctionsFor
<1>5. DOMAIN funcs \in SUBSET Nat
  BY <1>1 DEF Tables
<1>6. S \in SUBSET Nat /\ u \in Nat
  BY <1>3, <1>5 DEF FunctionsNamed
<1>7. FirstOf(S) = u
  <2> HIDE DEF S
  <2>1. \A w \in S : u <= w
    BY <1>4, <1>6
  <2>2. QED
    BY <1>4, <1>6, <2>1, FirstIs
<1>8. \A y \in DOMAIN funcs[u].entries : y \in Nat
  <2>1. funcs[u] \in Function
    BY <1>1, <1>3 DEF Tables
  <2>2. funcs[u].entries \in Seq(GroupEntry)
    BY <2>1 DEF Function
  <2>3. QED
    BY <2>2
<1>9. /\ \A e \in DeclaredFor(ctl, D, name) :
           /\ EntryPlace(ctl, D, e) \in DOMAIN funcs[u].entries
           /\ funcs[u].entries[EntryPlace(ctl, D, e)] = DeclaredEntry(ctl, e)
      /\ \A y \in DOMAIN funcs[u].entries :
           \E e \in DeclaredFor(ctl, D, name) : EntryPlace(ctl, D, e) = y
      /\ IsFiniteSet(D)
  BY <1>1, <1>3 DEF FunctionsFor
<1>10. QED
  BY <1>2, <1>4, <1>7, <1>8, <1>9 DEF D

\* A function name of a pin node selects, for the pin's group, the first of
\* the pin's alternates that have this name.
LEMMA NameSelects ==
  ASSUME ProbeInv, AcceptInv, Match, pc = "ready", NEW x \in PinChildren(ctl),
         ctl.children[x].funcs # Absent, NEW a \in DOMAIN ctl.children[x].funcs,
         nalts \in Nat, a - 1 <= nalts
  PROVE  \E b \in 1..a :
           /\ ctl.children[x].funcs[b] = ctl.children[x].funcs[a]
           /\ Programs(ctl.children[x].funcs[a], PinName[ctl.children[x].reg])
                = {<<ctl.children[x].reg, b - 1>>}
<1> DEFINE D == Declarations(ctl)
           fs == ctl.children[x].funcs
           reg == ctl.children[x].reg
           name == fs[a]
           Same == {b \in DOMAIN fs : fs[b] = name}
<1>1. /\ x \in DOMAIN ctl.children /\ fs \in Seq(Names) /\ DOMAIN fs = 1..Len(fs) /\ Len(fs) \in Nat
      /\ Tables /\ Shape
  <2>1. Tables /\ Shape
    BY DEF ProbeInv, AcceptInv
  <2>2. x \in DOMAIN ctl.children
    BY DEF PinChildren
  <2>3. fs \in Seq(Names)
    BY <2>1, <2>2, NodesOfTree
  <2>4. QED
    BY <2>1, <2>2, <2>3
<1> HIDE DEF fs
<1>2. PICK b \in Same : \A c \in Same : b <= c
  <2>1. Same \in SUBSET (1..Len(fs)) /\ Same # {}
    BY <1>1 DEF fs
  <2> HIDE DEF Same
  <2>2. QED
    BY <1>1, <2>1, FirstExists
<1>3. b \in 1..a /\ fs[b] = name /\ b \in DOMAIN fs
  <2>1. a \in Same
    BY DEF fs
  <2>2. QED
    BY <1>1, <1>2, <2>1
<1> DEFINE d == <<1, x, b>>
<1>4. d \in D /\ DeclaredFn(ctl, d) = name
      /\ DeclaredEntry(ctl, d) = Entry(PinName[reg], <<b - 1>>)
  <2>1. b \in Alternates(ctl.children[x])
    BY <1>3 DEF Alternates, fs
  <2>2. d \in D
    BY <2>1 DEF Declarations
  <2>3. QED
    BY <1>3, <2>2 DEF DeclaredFn, DeclaredEntry, fs
<1> DEFINE entries == funcs[FirstOf(FunctionsNamed(name))].entries
           q == EntryPlace(ctl, D, d)
<1> HIDE DEF D, name, d
<1>5. /\ FunctionsNamed(name) # {} /\ IsFiniteSet(D)
      /\ \A e \in D : e[1] \in Nat /\ e[2] \in Nat /\ e[3] \in Nat
      /\ \A e \in DeclaredFor(ctl, D, name) :
           /\ EntryPlace(ctl, D, e) \in DOMAIN entries
           /\ entries[EntryPlace(ctl, D, e)] = DeclaredEntry(ctl, e)
      /\ \A y \in DOMAIN entries :
           y \in Nat /\ \E e \in DeclaredFor(ctl, D, name) : EntryPlace(ctl, D, e) = y
  BY <1>4, OneFunction DEF D
<1>6. d \in DeclaredFor(ctl, D, name)
  BY <1>4 DEF DeclaredFor
<1> HIDE DEF entries
<1>7. q \in DOMAIN entries /\ entries[q] = Entry(PinName[reg], <<b - 1>>)
  BY <1>4, <1>5, <1>6
<1> DEFINE S == EntriesOf(name, PinName[reg])
<1>8. q \in S /\ S \in SUBSET Nat
  BY <1>5, <1>7 DEF EntriesOf, Entry, entries
<1>9. ASSUME NEW y \in S PROVE q <= y
  <2>1. y \in DOMAIN entries /\ entries[y].group = PinName[reg]
    BY DEF EntriesOf, entries
  <2>2. PICK e \in DeclaredFor(ctl, D, name) : EntryPlace(ctl, D, e) = y
    BY <1>5, <2>1
  <2>3. e \in D /\ DeclaredFn(ctl, e) = name /\ DeclaredEntry(ctl, e).group = PinName[reg]
    BY <1>5, <2>1, <2>2 DEF DeclaredFor
  <2>4. e = d \/ Sooner(d, e)
    <3>1. CASE \E z \in PinChildren(ctl) : \E c \in Alternates(ctl.children[z]) :
                 e = <<1, z, c>> /\ e[1] = 1 /\ e[2] = z /\ e[3] = c /\ c \in Nat \ {0}
      <4>1. PICK z \in PinChildren(ctl) : \E c \in Alternates(ctl.children[z]) :
                 e = <<1, z, c>> /\ e[1] = 1 /\ e[2] = z /\ e[3] = c /\ c \in Nat \ {0}
        BY <3>1
      <4>2. PICK c \in Alternates(ctl.children[z]) :
                 e = <<1, z, c>> /\ e[1] = 1 /\ e[2] = z /\ e[3] = c /\ c \in Nat \ {0}
        BY <4>1
      <4>3. DeclaredEntry(ctl, e).group = PinName[ctl.children[z].reg]
            /\ DeclaredFn(ctl, e) = ctl.children[z].funcs[c]
        BY <4>2 DEF DeclaredEntry, DeclaredFn, Entry
      <4>4. z = x
        BY <2>3, <4>3, PinGroupFirst
      <4>5. c \in Same
        BY <2>3, <4>2, <4>3, <4>4 DEF Alternates, fs
      <4>6. b <= c /\ b \in Nat
        BY <1>1, <1>2, <1>3, <4>5
      <4>7. b = c \/ b < c
        BY <4>2, <4>6
      <4>8. d[1] = 1 /\ d[2] = x /\ d[3] = b
        BY DEF d
      <4>9. QED
        BY <4>2, <4>4, <4>7, <4>8 DEF Sooner, d
    <3>2. CASE e[1] = 2
      BY <3>2 DEF Sooner, d
    <3>3. QED
      BY <1>1, <2>3, <3>1, <3>2, DeclarationForm DEF D
  <2>5. CASE e = d
    BY <1>8, <2>2, <2>5
  <2>6. CASE Sooner(d, e)
    <3>1. DeclaredFn(ctl, d) = DeclaredFn(ctl, e) /\ d \in D
      BY <1>4, <2>3
    <3>2. q < EntryPlace(ctl, D, e) /\ q \in Nat /\ EntryPlace(ctl, D, e) \in Nat
      BY <1>5, <2>3, <2>6, <3>1, SoonerIsBefore
    <3>3. QED
      BY <2>2, <3>2
  <2>7. QED
    BY <2>4, <2>5, <2>6
<1> HIDE DEF S, q
<1>10. FirstOf(S) = q
  BY <1>8, <1>9, FirstIs
<1>11. /\ GroupsNamed(PinName[reg]) # {}
       /\ groups[FirstOf(GroupsNamed(PinName[reg]))].pins = <<reg>>
  BY PinGroupFirst
<1>12. entries[q].vals = <<b - 1>>
  BY <1>7 DEF Entry
<1>15. reg \in Nat /\ reg < AXIMUX_MAX_PINS /\ b - 1 <= nalts /\ b \in Nat /\ nalts \in Nat
  <2>1. reg \in Nat /\ reg < ctl.hwPins /\ ctl.hwPins \in 1..32
    BY <1>1, Limits DEF AcceptInv, Accepted, Shape, WellFormed, PinFits
  <2>2. b - 1 <= nalts /\ b \in Nat
    <3>1. a \in Nat
      BY <1>1 DEF fs
    <3>2. QED
      BY <1>3, <3>1
  <2> HIDE DEF reg
  <2>3. QED
    BY <2>1, <2>2, Limits
<1>13. Programs(name, PinName[reg]) = {<<reg, b - 1>>}
  <2> DEFINE on == groups[FirstOf(GroupsNamed(PinName[reg]))].pins
             vals == funcs[FirstOf(FunctionsNamed(name))].entries[FirstOf(EntriesOf(name, PinName[reg]))].vals
  <2>1. on = <<reg>> /\ vals = <<b - 1>>
    BY <1>10, <1>11, <1>12 DEF S, entries
  <2>2. Programs(name, PinName[reg]) =
          IF Refused(on, vals) THEN {} ELSE {<<on[i], vals[i]>> : i \in LastWrites(on)}
    <3>1. EntriesOf(name, PinName[reg]) # {}
      BY <1>8 DEF S
    <3>2. QED
      BY <1>5, <1>11, <3>1 DEF Programs
  <2> HIDE DEF on, vals, reg
  <2>3. DOMAIN on = {1} /\ on[1] = reg /\ vals[1] = b - 1 /\ Len(on) = Len(vals)
    BY <2>1
  <2>4. LastWrites(on) = {1}
    BY <2>3 DEF LastWrites
  <2>5. ~Refused(on, vals)
    BY <1>15, <2>3, Limits DEF Refused
  <2>6. QED
    BY <2>2, <2>3, <2>4, <2>5
<1>14. QED
  BY <1>3, <1>13 DEF name, fs

\* Every place in a table is that of a node.
LEMMA PlacesFilled ==
  ASSUME NEW n \in Nat, NEW S \in SUBSET (1..n)
  PROVE  \A y \in 1..Cardinality(S) : \E x \in S : PlaceIn(S, x) = y
<1> DEFINE R == {r \in S \X S : r[1] < r[2]}
<1>1. IsFiniteSet(S)
  BY PlacesGrow
<1>2. \A x \in S : x \in Nat
  OBVIOUS
<1>3. \A x \in S : PlaceIn(S, x) = Cardinality(Ahead(S, R, x)) + 1
  <2> SUFFICES ASSUME NEW x \in S PROVE PlaceIn(S, x) = Cardinality(Ahead(S, R, x)) + 1
    OBVIOUS
  <2> DEFINE A == Ahead(S, R, x)
  <2>1. A = {d \in S : d < x}
    BY DEF Ahead
  <2>2. A \in SUBSET S /\ x \notin A /\ {y \in S : y <= x} = A \cup {x}
    <3>1. \A y \in S : y <= x <=> y < x \/ y = x
      BY <1>2
    <3>2. ~(x < x)
      BY <1>2
    <3> HIDE DEF A
    <3>3. QED
      BY <2>1, <3>1, <3>2
  <2> HIDE DEF A
  <2>3. IsFiniteSet(A)
    BY <1>1, <2>2, FS_Subset
  <2>4. Cardinality(A \cup {x}) = Cardinality(A) + 1
    BY <2>2, <2>3, FS_AddElement
  <2>5. QED
    BY <2>2, <2>4 DEF PlaceIn, A
<1>4. Order(S, R)
  BY <1>2 DEF Order
<1> HIDE DEF R
<1>5. /\ Cardinality(S) \in Nat
      /\ \A y \in 1..Cardinality(S) : \E x \in S : Cardinality(Ahead(S, R, x)) = y - 1
      /\ \A x \in S : Cardinality(Ahead(S, R, x)) \in 0..(Cardinality(S) - 1)
  BY <1>1, <1>4, FS_CardinalityType, PlacesTaken, AheadCounts
<1> SUFFICES ASSUME NEW y \in 1..Cardinality(S) PROVE \E x \in S : PlaceIn(S, x) = y
  OBVIOUS
<1>6. PICK x \in S : Cardinality(Ahead(S, R, x)) = y - 1
  BY <1>5
<1>7. PlaceIn(S, x) = y
  BY <1>3, <1>5, <1>6
<1>8. QED
  BY <1>7

\* The group of a node whose name no other node and no pin has.
LEMMA GroupFound ==
  ASSUME ProbeInv, AcceptInv, Match, pc = "ready", NEW x \in GroupChildren(ctl),
         \A z \in GroupChildren(ctl) : ctl.children[z].name = ctl.children[x].name => z = x,
         \A m \in DOMAIN PinName : PinName[m] # ctl.children[x].name
  PROVE  LET S == GroupsNamed(ctl.children[x].name)
         IN /\ S # {} /\ GroupIs(groups[FirstOf(S)], ctl.children[x])
            /\ FirstOf(S) \in DOMAIN groups
<1> DEFINE G == GroupChildren(ctl)
           n == Len(ctl.children)
           name == ctl.children[x].name
           S == GroupsNamed(name)
           y == Len(pins) + PlaceIn(G, x)
<1>1. Tables /\ GroupsFollow(groups, pins, ctl, n + 1) /\ G \in SUBSET (1..n) /\ n \in Nat
  BY NodesOfTree DEF ProbeInv, Match
<1>2. Visited(G, n + 1) = G
  <2>1. n + 1 \in Nat /\ n + 1 > n
    BY <1>1
  <2> HIDE DEF G
  <2>2. QED
    BY <1>1, <2>1, VisitedFirst
<1>3. /\ Len(groups) = Len(pins) + Cardinality(G)
      /\ \A z \in G : /\ Len(pins) + PlaceIn(G, z) \in DOMAIN groups
                      /\ GroupIs(groups[Len(pins) + PlaceIn(G, z)], ctl.children[z])
      /\ \A w \in DOMAIN pins : w \in DOMAIN groups /\ groups[w] = DefaultGroup(pins[w])
  BY <1>1, <1>2 DEF GroupsFollow
<1>4. /\ DOMAIN pins = 1..Len(pins) /\ Len(pins) \in Nat
      /\ DOMAIN groups = 1..Len(groups) /\ Len(groups) \in Nat
  BY <1>1 DEF Tables
<1>5. \A w \in DOMAIN pins : groups[w].name # name
  <2> SUFFICES ASSUME NEW w \in DOMAIN pins PROVE groups[w].name # name
    OBVIOUS
  <2>1. \A p : DefaultGroup(p).name = p.name
    BY DEF DefaultGroup
  <2>2. groups[w].name = PinName[pins[w].number]
    BY <1>3, <2>1 DEF AcceptInv, Accepted
  <2>3. pins[w] \in Pin
    BY <1>1 DEF Tables
  <2>4. pins[w].number \in DOMAIN PinName
    BY <2>3, ProbeAssumption DEF Pin
  <2>5. QED
    BY <2>2, <2>4
<1>6. y \in S
  BY <1>3 DEF GroupsNamed, GroupIs
<1>7. ASSUME NEW w \in S PROVE w = y
  <2>1. w \in DOMAIN groups /\ groups[w].name = name
    BY DEF GroupsNamed
  <2>2. w \in Nat /\ w > Len(pins)
    BY <1>4, <1>5, <2>1
  <2>3. w - Len(pins) \in 1..Cardinality(G)
    <3>1. Cardinality(G) \in Nat
      BY <1>1, PlacesGrow
    <3> HIDE DEF G
    <3>2. QED
      BY <1>3, <1>4, <2>1, <2>2, <3>1
  <2>4. PICK z \in G : PlaceIn(G, z) = w - Len(pins)
    <3> HIDE DEF G
    <3>1. QED
      BY <1>1, <2>3, PlacesFilled
  <2>5. Len(pins) + PlaceIn(G, z) = w
    BY <1>4, <2>2, <2>4
  <2>6. ctl.children[z].name = name
    BY <1>3, <2>1, <2>5 DEF GroupIs
  <2>7. z = x
    BY <2>6
  <2>8. QED
    BY <2>5, <2>7
<1>8. y \in Nat
  BY <1>3, <1>4
<1> HIDE DEF S, y
<1>9. FirstOf(S) = y
  <2>1. S \in SUBSET Nat /\ \A w \in S : y <= w
    BY <1>7, <1>8
  <2>2. QED
    BY <1>6, <2>1, FirstIs
<1>10. QED
  BY <1>3, <1>6, <1>9 DEF S, y

\* The function of such a node selects, for its group, what the node says last
\* of each pin.
LEMMA GroupSelects ==
  ASSUME ProbeInv, AcceptInv, Match, pc = "ready", NEW x \in GroupChildren(ctl),
         \A z \in GroupChildren(ctl) : ctl.children[z].name = ctl.children[x].name => z = x,
         \A m \in DOMAIN PinName : PinName[m] # ctl.children[x].name,
         \A z \in PinChildren(ctl) : ctl.children[z].reg \in DOMAIN PinName,
         NEW ns, DOMAIN ns = DOMAIN ctl.children[x].pins,
         \A i \in DOMAIN ctl.children[x].pins :
                   ns[i] \in DOMAIN PinName /\ PinName[ns[i]] = ctl.children[x].pins[i],
         nalts \in Nat,
         \A i \in DOMAIN ctl.children[x].pins : MuxOf(ctl.children[x])[i] <= nalts
  PROVE  Programs(FunctionOf(ctl.children[x]), ctl.children[x].name)
           = {<<ns[i], MuxOf(ctl.children[x])[i]>> : i \in LastWrites(ns)}
<1> DEFINE D == Declarations(ctl)
           child == ctl.children[x]
           fn == FunctionOf(child)
           name == child.name
           d == <<2, x, 1>>
<1>1. d \in D /\ DeclaredFn(ctl, d) = fn /\ DeclaredEntry(ctl, d) = Entry(name, MuxOf(child))
  BY DEF Declarations, DeclaredFn, DeclaredEntry
<1> DEFINE entries == funcs[FirstOf(FunctionsNamed(fn))].entries
           q == EntryPlace(ctl, D, d)
<1> HIDE DEF D, fn, d
<1>2. /\ FunctionsNamed(fn) # {}
      /\ \A e \in DeclaredFor(ctl, D, fn) :
           /\ EntryPlace(ctl, D, e) \in DOMAIN entries
           /\ entries[EntryPlace(ctl, D, e)] = DeclaredEntry(ctl, e)
      /\ \A y \in DOMAIN entries :
           y \in Nat /\ \E e \in DeclaredFor(ctl, D, fn) : EntryPlace(ctl, D, e) = y
  BY <1>1, OneFunction DEF D
<1>3. d \in DeclaredFor(ctl, D, fn)
  BY <1>1 DEF DeclaredFor
<1> HIDE DEF entries
<1>4. q \in DOMAIN entries /\ entries[q] = Entry(name, MuxOf(child))
  BY <1>1, <1>2, <1>3
<1> DEFINE S == EntriesOf(fn, name)
<1>5. q \in S /\ S \in SUBSET Nat
  BY <1>2, <1>4 DEF EntriesOf, Entry, entries
<1>6. ASSUME NEW y \in S PROVE y = q
  <2>1. y \in DOMAIN entries /\ entries[y].group = name
    BY DEF EntriesOf, entries
  <2>2. PICK e \in DeclaredFor(ctl, D, fn) : EntryPlace(ctl, D, e) = y
    BY <1>2, <2>1
  <2>3. e \in D /\ DeclaredEntry(ctl, e).group = name
    BY <1>2, <2>1, <2>2 DEF DeclaredFor
  <2>4. CASE \E z \in PinChildren(ctl) : e[1] = 1 /\ e[2] = z
    <3>1. PICK z \in PinChildren(ctl) : e[1] = 1 /\ e[2] = z
      BY <2>4
    <3>2. DeclaredEntry(ctl, e).group = PinName[ctl.children[z].reg]
      BY <3>1 DEF DeclaredEntry, Entry
    <3>3. QED
      BY <2>3, <3>2
  <2>5. CASE \E z \in GroupChildren(ctl) : e = <<2, z, 1>> /\ e[1] = 2 /\ e[2] = z
    <3>1. PICK z \in GroupChildren(ctl) : e = <<2, z, 1>> /\ e[1] = 2 /\ e[2] = z
      BY <2>5
    <3>2. DeclaredEntry(ctl, e).group = ctl.children[z].name
      BY <3>1 DEF DeclaredEntry, Entry
    <3>3. z = x
      BY <2>3, <3>2
    <3>4. QED
      BY <2>2, <3>1, <3>3 DEF d
  <2>6. Tables
    BY DEF ProbeInv
  <2>7. QED
    BY <2>3, <2>4, <2>5, <2>6, DeclarationForm DEF D
<1> HIDE DEF S, q
<1>7. FirstOf(S) = q
  <2>1. \A w \in S : q <= w
    BY <1>5, <1>6
  <2>2. QED
    BY <1>5, <2>1, FirstIs
<1> DEFINE T == GroupsNamed(name)
           on == groups[FirstOf(T)].pins
           vals == funcs[FirstOf(FunctionsNamed(fn))].entries[FirstOf(EntriesOf(fn, name))].vals
<1>8. T # {} /\ GroupIs(groups[FirstOf(T)], child) /\ FirstOf(T) \in DOMAIN groups
  BY GroupFound
<1>9. vals = MuxOf(child)
  BY <1>4, <1>7 DEF S, entries, Entry
<1>10. Programs(fn, name) =
         IF Refused(on, vals) THEN {} ELSE {<<on[i], vals[i]>> : i \in LastWrites(on)}
  <2>1. EntriesOf(fn, name) # {}
    BY <1>5 DEF S
  <2>2. QED
    BY <1>2, <1>8, <2>1 DEF Programs
<1>11. /\ DOMAIN on = DOMAIN child.pins /\ \A i \in DOMAIN on : on[i] = ns[i]
       /\ Len(on) = Len(MuxOf(child)) /\ on \in Seq(Nat) /\ MuxOf(child) \in Seq(Nat)
  <2>1. Tables /\ ProbeAssumption
    BY ProbeAssumption DEF ProbeInv
  <2>2. groups[FirstOf(T)] \in Group /\ GroupUsable(groups[FirstOf(T)])
    BY <1>8, <2>1 DEF Tables
  <2>3. on \in Seq(Nat) /\ \A i \in DOMAIN on : on[i] \in Numbers
    BY <2>2 DEF Group, GroupUsable
  <2>4. child.pins \in Seq(Names)
    <3>1. x \in DOMAIN ctl.children /\ child.pins # Absent
      BY DEF GroupChildren, NonEmptyGroup, IsGroupNode
    <3>2. QED
      BY <2>1, <3>1, NodesOfTree
  <2>11. Len(MuxOf(child)) = Len(child.pins) /\ MuxOf(child) \in Seq(Nat)
    <3>1. x \in DOMAIN ctl.children
      BY DEF GroupChildren
    <3>2. child \in Child /\ Absent \notin Seq(Nat)
      BY <2>1, <3>1 DEF Tables, Controller
    <3>3. child.mux # Absent => child.mux \in Seq(Nat)
      BY <3>2 DEF Child, Opt
    <3> HIDE DEF child
    <3>4. QED
      BY <2>4, <3>3, MuxForEachPin
  <2>5. Len(on) = Len(child.pins) /\ \A i \in DOMAIN child.pins : PinName[on[i]] = child.pins[i]
    BY <1>8 DEF GroupIs
  <2>6. \A m \in Numbers : m \in DOMAIN PinName
    <3>1. \A w \in DOMAIN pins : pins[w] \in Pin
      BY <2>1 DEF Tables
    <3>2. DOMAIN PinName = 0..(AXIMUX_MAX_PINS - 1)
      BY <2>1
    <3>3. QED
      BY <3>1, <3>2 DEF Numbers, Pin
  <2> HIDE DEF on, child
  <2>7. DOMAIN on = 1..Len(on) /\ DOMAIN child.pins = 1..Len(child.pins)
    BY <2>3, <2>4
  <2>8. DOMAIN on = DOMAIN child.pins
    BY <2>5, <2>7
  <2>9. ASSUME NEW i \in DOMAIN on PROVE on[i] = ns[i]
    <3>1. on[i] \in DOMAIN PinName /\ PinName[on[i]] = child.pins[i]
      BY <2>3, <2>5, <2>6, <2>8
    <3>2. ns[i] \in DOMAIN PinName /\ PinName[ns[i]] = child.pins[i]
      BY <2>8 DEF child
    <3>3. QED
      BY <2>1, <3>1, <3>2
  <2>10. QED
    BY <2>3, <2>5, <2>8, <2>9, <2>11
<1>14. ProbeAssumption
  BY ProbeAssumption
<1> HIDE DEF on, vals, child
<1>12. ~Refused(on, vals)
  <2>1. DOMAIN PinName = 0..31
    BY <1>14, Limits
  <2>2. \A i \in DOMAIN on : on[i] \in 0..31 /\ vals[i] <= nalts
    BY <1>9, <1>11, <2>1 DEF child
  <2>3. \A i \in DOMAIN on : vals[i] \in Nat
    <3>1. DOMAIN on = 1..Len(on) /\ DOMAIN vals = 1..Len(vals) /\ Len(on) = Len(vals)
      BY <1>9, <1>11
    <3>2. \A i \in DOMAIN vals : vals[i] \in Nat
      BY <1>9, <1>11
    <3>3. QED
      BY <3>1, <3>2
  <2>4. Len(on) = Len(vals)
    BY <1>9, <1>11
  <2>5. ASSUME NEW i \in DOMAIN on PROVE ~(on[i] >= AXIMUX_MAX_PINS) /\ ~(vals[i] > nalts)
    <3>1. on[i] \in 0..31 /\ vals[i] <= nalts /\ vals[i] \in Nat
      BY <2>2, <2>3
    <3>2. QED
      BY <3>1, Limits
  <2>6. QED
    BY <2>4, <2>5 DEF Refused
<1>13. LastWrites(on) = LastWrites(ns) /\ LastWrites(ns) \subseteq DOMAIN on
  <2>1. DOMAIN on = DOMAIN ns /\ \A i \in DOMAIN on : on[i] = ns[i]
    BY <1>11 DEF child
  <2>2. QED
    BY <2>1 DEF LastWrites
<1>16. {<<on[i], vals[i]>> : i \in LastWrites(on)} = {<<ns[i], MuxOf(child)[i]>> : i \in LastWrites(ns)}
  BY <1>9, <1>11, <1>13
<1>17. QED
  BY <1>10, <1>12, <1>16 DEF fn, child

-----------------------------------------------------------------------------
(***************************************************************************)
(* Who is behind an alternate                                              *)
(***************************************************************************)

\* Of places in a document one is the first.
LEMMA FirstOfPlaces ==
  ASSUME NEW n \in Nat, NEW len, \A x \in 1..n : len[x] \in Nat,
         NEW S, S # {},
         \A q \in S : q[1] \in 1..n /\ q[2] \in 1..len[q[1]] /\ q = <<q[1], q[2]>>
  PROVE  FirstPlace(S) \in S
<1> DEFINE X == {q[1] : q \in S}
<1>1. X \in SUBSET (1..n) /\ X # {}
  OBVIOUS
<1> HIDE DEF X
<1>2. PICK x \in X : \A y \in X : x <= y
  BY <1>1, FirstExists
<1> DEFINE Y == {q[2] : q \in {r \in S : r[1] = x}}
<1>3. Y \in SUBSET (1..len[x]) /\ Y # {} /\ len[x] \in Nat
  BY <1>1 DEF X
<1> HIDE DEF Y
<1>4. PICK y \in Y : \A z \in Y : y <= z
  BY <1>3, FirstExists
<1>5. PICK q \in S : q[1] = x /\ q[2] = y
  BY DEF Y
<1>6. ASSUME NEW r \in S PROVE r = q \/ BySlot(q, r)
  <2>1. r[1] \in X /\ q[1] <= r[1] /\ r[1] \in Nat /\ q[1] \in Nat
    BY <1>1, <1>2, <1>5 DEF X
  <2>2. CASE r[1] = q[1]
    <3>1. r[2] \in Y /\ r[2] \in Nat /\ q[2] \in Nat /\ q[2] <= r[2]
      BY <1>3, <1>4, <1>5, <2>2 DEF Y
    <3>2. CASE r[2] = q[2]
      BY <2>2, <3>2
    <3>3. CASE r[2] # q[2]
      BY <2>1, <2>2, <3>1, <3>3 DEF BySlot
    <3>4. QED
      BY <3>2, <3>3
  <2>3. CASE r[1] # q[1]
    BY <2>1, <2>3 DEF BySlot
  <2>4. QED
    BY <2>2, <2>3
<1>7. QED
  BY <1>6 DEF FirstPlace

\* The peer that is taken is a device on the net, where there is one, and is
\* glue otherwise.
LEMMA PeerTaken ==
  ASSUME NEW d \in Designs, d # None, NEW net, NEW inst
  PROVE  LET label == PeerInfo(d, net, inst) IN
         /\ OnNet(d, net, inst) # {} => label # NoLabel /\ label.dev \in OnNet(d, net, inst)
         /\ label # NoLabel => label.dev \in OnNet(d, net, inst) \cup Noise
<1> DEFINE label == PeerInfo(d, net, inst)
           O == OnNet(d, net, inst)
           others == {q \in Peers(d, net) : d[q[1]].inst # inst}
           real == {q \in others : d[q[1]].inst \notin Noise}
           chosen == IF real # {} THEN real ELSE others
           at == FirstPlace(chosen)
           len == [x \in DOMAIN d |-> Len(d[x].ports)]
<1>1. /\ d \in Seq(HwhModule) /\ DOMAIN d = 1..Len(d) /\ Len(d) \in Nat
      /\ \A x \in DOMAIN d : d[x].inst # ""
      /\ \A x \in DOMAIN d : d[x] \in HwhModule
  <2>1. d \in Seq(HwhModule)
    BY DesignAssumption
  <2>2. \A x \in DOMAIN d : d[x].inst # ""
    BY DesignAssumption
  <2>3. DOMAIN d = 1..Len(d) /\ Len(d) \in Nat
    BY <2>1
  <2>4. \A x \in DOMAIN d : d[x] \in HwhModule
    BY <2>1
  <2>5. QED
    BY <2>1, <2>2, <2>3, <2>4
<1>2. ASSUME NEW x \in DOMAIN d
      PROVE  DOMAIN d[x].ports = 1..Len(d[x].ports) /\ Len(d[x].ports) \in Nat
  <2>1. d[x] \in HwhModule
    BY <1>1
  <2>2. d[x].ports \in Seq([name : STRING, net : STRING])
    BY <2>1 DEF HwhModule
  <2>3. QED
    BY <2>2
<1>3. /\ \A q \in Peers(d, net) :
           /\ q[1] \in DOMAIN d /\ q[2] \in DOMAIN d[q[1]].ports /\ q = <<q[1], q[2]>>
           /\ d[q[1]].ports[q[2]].net = net
      /\ \A x \in DOMAIN d : \A y \in DOMAIN d[x].ports :
           d[x].ports[y].net = net => <<x, y>> \in Peers(d, net)
  BY DEF Peers
<1>4. O = IF net = "" THEN {} ELSE {d[q[1]].inst : q \in real}
  <2>1. \A s : SeqOps!ToSet(s) = {s[x] : x \in DOMAIN s}
    BY DEF SeqOps!ToSet
  <2>2. O = {m.inst : m \in {n \in {d[x] : x \in DOMAIN d} :
                               \E y \in DOMAIN n.ports : n.ports[y].net = net /\ net # ""}}
              \ (Noise \cup {inst})
    BY <2>1 DEF OnNet
  <2> HIDE DEF O
  <2>3. ASSUME NEW i \in O PROVE net # "" /\ \E q \in real : d[q[1]].inst = i
    <3>1. PICK x \in DOMAIN d : /\ d[x].inst = i /\ i \notin Noise /\ i # inst
                                /\ \E y \in DOMAIN d[x].ports : d[x].ports[y].net = net /\ net # ""
      BY <2>2
    <3>2. PICK y \in DOMAIN d[x].ports : d[x].ports[y].net = net /\ net # ""
      BY <3>1
    <3>3. <<x, y>> \in Peers(d, net)
      BY <1>3, <3>2
    <3> DEFINE q == <<x, y>>
    <3>4. q \in Peers(d, net) /\ q[1] = x
      BY <3>3
    <3> HIDE DEF q
    <3>5. q \in real
      BY <3>1, <3>4
    <3>6. QED
      BY <3>1, <3>2, <3>4, <3>5
  <2>4. ASSUME NEW q \in real, net # "" PROVE d[q[1]].inst \in O
    BY <1>3, <2>2, <2>4
  <2> HIDE DEF real
  <2>5. QED
    BY <2>3, <2>4
<1>5. label = IF net = "" \/ others = {} THEN NoLabel
              ELSE [dev |-> d[at[1]].inst, sig |-> Or(BaseName, d[at[1]].ports[at[2]].name)]
  BY DEF PeerInfo
<1>6. chosen # {} => at \in chosen
  <2>1. \A q \in chosen : q[1] \in 1..Len(d) /\ q[2] \in 1..len[q[1]] /\ q = <<q[1], q[2]>>
    BY <1>1, <1>2, <1>3
  <2>2. \A x \in 1..Len(d) : len[x] \in Nat
    BY <1>1, <1>2
  <2> HIDE DEF chosen, len
  <2>3. QED
    BY <1>1, <2>1, <2>2, FirstOfPlaces
<1> HIDE DEF label, O, at
<1>7. label # NoLabel =>
        net # "" /\ others # {} /\ at \in chosen /\ label.dev = d[at[1]].inst
  BY <1>5, <1>6
<1>8. others # {} /\ net # "" => label # NoLabel
  <2> SUFFICES ASSUME others # {}, net # "" PROVE label # NoLabel
    OBVIOUS
  <2>1. at \in others
    BY <1>6
  <2>2. label.dev # "" /\ NoLabel.dev = ""
    BY <1>1, <1>3, <1>5, <2>1 DEF NoLabel
  <2>3. QED
    BY <2>2
<1>9. O # {} => net # "" /\ real # {} /\ others # {}
  BY <1>4
<1>10. label # NoLabel /\ real # {} => label.dev \in O
  BY <1>4, <1>7
<1>11. label # NoLabel /\ real = {} => label.dev \in Noise
  BY <1>7
<1> HIDE DEF real, others, chosen
<1>12. QED
  BY <1>8, <1>9, <1>10, <1>11 DEF label, O

LEMMA LabelOfSlot ==
  ASSUME NEW d \in Designs, d # None, NEW mux \in ParsedMuxes(d),
         NEW s \in DOMAIN mux.slots, NEW kind \in Kinds
  PROVE  LET label == mux.slots[s][kind]
             K == DevicesAt(d, mux, s, {kind}) IN
         /\ K # {} => label # NoLabel /\ label.dev \in K
         /\ label # NoLabel => label.dev \in K \cup Noise
<1>1. PICK m \in MuxModules(d) : mux = ParseMux(d, m)
  BY DEF ParsedMuxes
<1> DEFINE label == mux.slots[s][kind]
           K == DevicesAt(d, mux, s, {kind})
           P == PortsAt(m, s, kind)
           Nets == NetsOf(d, mux, s, {kind})
<1>2. /\ mux.instance = m.inst
      /\ label = IF P = {} THEN NoLabel ELSE PeerInfo(d, (CHOOSE p \in P : TRUE).net, m.inst)
  <2>1. mux.instance = m.inst
    BY <1>1, Zenon DEF ParseMux
  <2>2. mux.slots = [t \in DOMAIN mux.slots |->
          [kd \in Kinds |->
             LET at == PortsAt(m, t, kd)
             IN IF at = {} THEN NoLabel
                ELSE PeerInfo(d, (CHOOSE p \in at : TRUE).net, m.inst)]]
    BY <1>1 DEF ParseMux
  <2>3. QED
    BY <2>1, <2>2
<1>3. Nets = {p.net : p \in P}
  <2>1. {n \in MuxModules(d) : n.inst = mux.instance} = {m}
    BY <1>2, ModulesOfDesign
  <2> HIDE DEF P
  <2>2. QED
    BY <2>1 DEF NetsOf, P
<1>4. K = UNION {OnNet(d, net, m.inst) : net \in Nets}
  BY <1>2 DEF DevicesAt
<1>5. \A p, q \in P : p = q
  <2>1. PICK y \in DOMAIN d : d[y] = m /\ m.mux
    BY ModulesOfDesign
  <2>2. \A p, q \in MuxPorts(m) : SlotOf[p.name] = SlotOf[q.name] => p = q
    BY <2>1, DesignAssumption
  <2>3. QED
    BY <2>2 DEF PortsAt
<1> HIDE DEF label, K, P, Nets
<1>6. CASE P = {}
  BY <1>2, <1>3, <1>4, <1>6 DEF label, K
<1>7. CASE P # {}
  <2>1. PICK p \in P : P = {p}
    BY <1>5, <1>7
  <2>2. (CHOOSE q \in P : TRUE) = p
    BY <2>1
  <2>3. label = PeerInfo(d, p.net, m.inst)
    BY <1>2, <1>7, <2>2
  <2>4. K = OnNet(d, p.net, m.inst)
    BY <1>3, <1>4, <2>1
  <2>5. QED
    BY <2>3, <2>4, PeerTaken DEF label, K
<1>8. QED
  BY <1>6, <1>7

\* The device of a grouped alternate is one on its nets; and where a hand-off
\* is direct, each alternate with a device is grouped under this device.
LEMMA RawOfSlot ==
  ASSUME NEW d \in Designs, d # None, NEW mux \in ParsedMuxes(d),
         NEW s \in DOMAIN mux.slots
  PROVE  LET D == DevicesAt(d, mux, s, {"incoming", "outgoing"})
             raw == RawLabel(mux.slots[s]) IN
         /\ s \in Grouped(mux) => raw.dev \in D
         /\ \A x \in D :
              Direct(d) /\ s[2] # 0 => s \in Grouped(mux) /\ raw.dev = x
<1> DEFINE D == DevicesAt(d, mux, s, {"incoming", "outgoing"})
           In == DevicesAt(d, mux, s, {"incoming"})
           Out == DevicesAt(d, mux, s, {"outgoing"})
           in == mux.slots[s]["incoming"]
           out == mux.slots[s]["outgoing"]
           raw == RawLabel(mux.slots[s])
<1>1. D = In \cup Out /\ D \cap Noise = {}
  <2> DEFINE M == {n \in MuxModules(d) : n.inst = mux.instance}
             N(kinds) == NetsOf(d, mux, s, kinds)
             On(net) == OnNet(d, net, mux.instance)
  <2>1. \A kinds : N(kinds) = UNION {UNION {{p.net : p \in PortsAt(m, s, kind)} : kind \in kinds} : m \in M}
    BY DEF NetsOf
  <2>2. N({"incoming", "outgoing"}) = N({"incoming"}) \cup N({"outgoing"})
    <3> HIDE DEF M, N
    <3>1. QED
      BY <2>1
  <2>3. \A net : On(net) \cap Noise = {}
    BY DEF OnNet
  <2>4. \A kinds : DevicesAt(d, mux, s, kinds) = UNION {On(net) : net \in N(kinds)}
    BY DEF DevicesAt
  <2> HIDE DEF M, N, On
  <2>5. QED
    BY <2>2, <2>3, <2>4
<1>2. /\ In # {} => in # NoLabel /\ in.dev \in In
      /\ in # NoLabel => in.dev \in In \cup Noise
      /\ Out # {} => out # NoLabel /\ out.dev \in Out
      /\ out # NoLabel => out.dev \in Out \cup Noise
  <2> HIDE DEF In, Out, in, out
  <2>1. "incoming" \in Kinds /\ "outgoing" \in Kinds
    BY DEF Kinds
  <2>2. /\ In # {} => in # NoLabel /\ in.dev \in In
        /\ in # NoLabel => in.dev \in In \cup Noise
    BY <2>1, LabelOfSlot DEF In, in
  <2>3. /\ Out # {} => out # NoLabel /\ out.dev \in Out
        /\ out # NoLabel => out.dev \in Out \cup Noise
    BY <2>1, LabelOfSlot DEF Out, out
  <2>4. QED
    BY <2>2, <2>3
<1>3. raw = IF in # NoLabel THEN in ELSE out
  BY DEF RawLabel
<1>4. s \in Grouped(mux) <=> s[2] # 0 /\ raw # NoLabel /\ raw.dev \notin Noise
  BY DEF Grouped, Real
<1>5. Direct(d) /\ s[2] # 0 =>
        /\ \A x, y \in D : x = y
        /\ Out # {} => In # {} \/ in = NoLabel
  BY DEF Direct
<1> HIDE DEF D, In, Out, in, out, raw
<1>6. s \in Grouped(mux) => raw.dev \in D
  BY <1>1, <1>2, <1>3, <1>4
<1>7. ASSUME NEW x \in D, Direct(d), s[2] # 0 PROVE s \in Grouped(mux) /\ raw.dev = x
  <2>1. CASE In # {}
    <3>1. raw = in /\ raw # NoLabel /\ raw.dev \in D
      BY <1>1, <1>2, <1>3, <2>1
    <3>2. raw.dev = x /\ raw.dev \notin Noise
      BY <1>1, <1>5, <1>7, <3>1
    <3>3. QED
      BY <1>4, <1>7, <3>1, <3>2
  <2>2. CASE In = {}
    <3>1. Out # {}
      BY <1>1, <2>2
    <3>2. in = NoLabel
      BY <1>5, <1>7, <2>2, <3>1
    <3>3. raw = out /\ raw # NoLabel /\ raw.dev \in D
      BY <1>1, <1>2, <1>3, <3>1, <3>2
    <3>4. raw.dev = x /\ raw.dev \notin Noise
      BY <1>1, <1>5, <1>7, <3>3
    <3>5. QED
      BY <1>4, <1>7, <3>3, <3>4
  <2>3. QED
    BY <2>1, <2>2
<1>8. QED
  BY <1>6, <1>7 DEF D, raw

\* The states that the tool gives are those of the nets: the alternates of the
\* group that a consumer is wired to, where the naming file does not part or
\* join what the hand-off has.
LEMMA GroupIsNets ==
  ASSUME design \in Designs, design # None, NEW mux \in ParsedMuxes(design),
         Direct(design), Coherent(design, naming),
         NEW g, NEW cons \in ConsumersOf(mux, g, naming)
  PROVE  /\ InGroup(mux, g, naming) = AlternatesFor(mux, cons)
         /\ \A m \in ParsedMuxes(design) :
              AlternatesFor(m, cons) # {} => g \in GroupNames(m, naming)
<1> DEFINE Of(m, s) == DtLabel(RawLabel(m.slots[s]).dev, naming)
           D(m, s) == DevicesAt(design, m, s, {"incoming", "outgoing"})
<1>1. PICK t \in InGroup(mux, g, naming) : Of(mux, t) = cons
  BY DEF ConsumersOf
<1>2. \A m \in ParsedMuxes(design) :
        \A s \in Grouped(m) : GroupOf(m, s, naming) = g <=> Of(m, s) = cons
  BY <1>1 DEF Coherent, InGroup
<1>3. ASSUME NEW m \in ParsedMuxes(design) PROVE InGroup(m, g, naming) = AlternatesFor(m, cons)
  <2>1. \A s \in DOMAIN m.slots :
          /\ s \in Grouped(m) => RawLabel(m.slots[s]).dev \in D(m, s)
          /\ \A x \in D(m, s) : s[2] # 0 => s \in Grouped(m) /\ RawLabel(m.slots[s]).dev = x
    BY RawOfSlot
  <2>2. \A s \in Grouped(m) : s \in DOMAIN m.slots /\ s[2] # 0
    BY DEF Grouped
  <2>3. ASSUME NEW s \in InGroup(m, g, naming)
        PROVE  s \in DOMAIN m.slots /\ s[2] # 0 /\ \E x \in D(m, s) : DtLabel(x, naming) = cons
    BY <1>2, <2>1, <2>2 DEF InGroup
  <2>4. ASSUME NEW s \in DOMAIN m.slots, s[2] # 0,
               NEW x \in D(m, s), DtLabel(x, naming) = cons
        PROVE  s \in InGroup(m, g, naming)
    <3>1. s \in Grouped(m) /\ Of(m, s) = cons
      BY <2>1, <2>4
    <3>2. QED
      BY <1>2, <3>1 DEF InGroup
  <2> HIDE DEF D
  <2>5. InGroup(m, g, naming) =
          {s \in DOMAIN m.slots : s[2] # 0 /\ \E x \in D(m, s) : DtLabel(x, naming) = cons}
    BY <2>3, <2>4
  <2>6. QED
    BY <2>5 DEF D, AlternatesFor
<1>4. QED
  BY <1>3 DEF InGroup, GroupNames

-----------------------------------------------------------------------------
(***************************************************************************)
(* Labels                                                                  *)
(***************************************************************************)
LabelsApart(t) == \A x, y \in DOMAIN t : t[x].label = t[y].label => x = y

\* Node n is labelled like a pin of a mux, or like a title of a group of it.
PinLabelled(n, mux) == \E p \in PinsOf(mux) : n.label = PinLabel(mux, p)
TitleLabelled(n, mux) == \E g \in GroupTitles(mux, naming) : n.label = GroupLabel(g)

LEMMA LabelsOfForms ==
  ASSUME NEW n, NEW mux
  PROVE  /\ IsPinNodeOf(n, mux) => PinLabelled(n, mux)
         /\ IsGroupNodeOf(n, mux) => TitleLabelled(n, mux)
<1>1. ASSUME IsPinNodeOf(n, mux) PROVE PinLabelled(n, mux)
  BY <1>1, PinNodeFields DEF IsPinNodeOf, PinLabelled
<1>2. ASSUME IsGroupNodeOf(n, mux) PROVE TitleLabelled(n, mux)
  <2>1. PICK g, src : Titled(mux, g, src) /\ n = GroupNode(mux, g, src)
    BY <1>2 DEF IsGroupNodeOf
  <2>2. n.label = GroupLabel(g)
    BY <2>1, GroupNodeFields
  <2>3. QED
    BY <2>1, <2>2, TitleKnown DEF TitleLabelled
<1>3. QED
  BY <1>1, <1>2

LEMMA PinsLabelled ==
  ASSUME design \in Designs, design # None, naming \in Namings, naming # None,
         NEW mux \in ParsedMuxes(design)
  PROVE  LabelsApart(PinNodesOf(mux))
<1> DEFINE S == PinsOf(mux)
           R == {r \in S \X S : r[1] < r[2]}
           ps == Sorted(S, InOrder)
           t == PinNodesOf(mux)
<1>1. S \in SUBSET Nat /\ IsFiniteSet(S) /\ ps = PinList(mux)
  BY PinNumbers DEF PinList
<1>2. t = [x \in DOMAIN ps |-> PinNode(mux, ps[x])]
  BY <1>1 DEF PinNodesOf
<1>3. \A p, q \in S : PinLabel(mux, p) = PinLabel(mux, q) => p = q
  BY LabelAssumption
<1>4. \A p : PinNode(mux, p).label = PinLabel(mux, p)
  BY PinNodeFields
<1> HIDE DEF S
<1>5. Order(S, R) /\ Lists(ps, S, R)
  BY <1>1, NumbersSorted
<1> HIDE DEF R, ps, t
<1>6. /\ \A x \in DOMAIN ps : ps[x] \in S
      /\ \A x, y \in DOMAIN ps : ps[x] = ps[y] => x = y
  BY <1>1, <1>5, ListsAll
<1>7. \A x \in DOMAIN t : x \in DOMAIN ps /\ t[x].label = PinLabel(mux, ps[x])
  BY <1>2, <1>4
<1>8. LabelsApart(t)
  BY <1>3, <1>6, <1>7 DEF LabelsApart
<1>9. QED
  BY <1>8 DEF t

LEMMA GroupsLabelled ==
  ASSUME design \in Designs, design # None, naming \in Namings, naming # None,
         NEW mux \in ParsedMuxes(design)
  PROVE  LabelsApart(GroupNodesOf(mux))
<1> DEFINE S == GroupNames(mux, naming)
           R == {r \in S \X S : Rank[r[1]] < Rank[r[2]]}
           gs == Sorted(S, ByRank)
           t == GroupNodesOf(mux)
<1>1. S \in SUBSET DOMAIN Rank /\ IsFiniteSet(S)
  BY GroupsOfMux
<1>2. t = [x \in DOMAIN gs |-> GroupNode(mux, gs[x], gs[x])]
  BY DEF GroupNodesOf
<1>3. \A g, h \in S : GroupLabel(g) = GroupLabel(h) => g = h
  <2>1. \A g, h \in GroupTitles(mux, naming) : GroupLabel(g) = GroupLabel(h) => g = h
    BY LabelAssumption
  <2>2. S \subseteq GroupTitles(mux, naming)
    BY DEF GroupTitles
  <2>3. QED
    BY <2>1, <2>2
<1>4. \A g, src : GroupNode(mux, g, src).label = GroupLabel(g)
  BY GroupNodeFields
<1> HIDE DEF S
<1>5. Order(S, R) /\ Lists(gs, S, R)
  BY <1>1, RanksSorted
<1> HIDE DEF R, gs, t
<1>6. /\ \A x \in DOMAIN gs : gs[x] \in S
      /\ \A x, y \in DOMAIN gs : gs[x] = gs[y] => x = y
  BY <1>1, <1>5, ListsAll
<1>7. \A x \in DOMAIN t : x \in DOMAIN gs /\ t[x].label = GroupLabel(gs[x])
  BY <1>2, <1>4
<1>8. LabelsApart(t)
  BY <1>3, <1>6, <1>7 DEF LabelsApart
<1>9. QED
  BY <1>8 DEF t

LEMMA AliasesLabelled ==
  ASSUME design \in Designs, design # None, naming \in Namings, naming # None,
         Apart(design, naming), NEW mux \in ParsedMuxes(design)
  PROVE  /\ LabelsApart(AliasNodes(mux))
         /\ \A x \in DOMAIN AliasNodes(mux) : \E y \in DOMAIN naming.aliases :
              /\ AliasTitle(naming, y) \in GroupTitles(mux, naming)
              /\ AliasNodes(mux)[x].label = GroupLabel(AliasTitle(naming, y))
<1> DEFINE as == naming.aliases
           S == {x \in DOMAIN as : as[x][1] \in GroupNames(mux, naming)}
           R == {r \in S \X S : r[1] < r[2]}
           on == Sorted(S, InOrder)
           al == AliasesOf(mux)
           t == AliasNodes(mux)
<1>1. S \in SUBSET Nat /\ IsFiniteSet(S)
  <2>1. as \in Seq(STRING \X STRING)
    BY NamingAssumption
  <2>2. IsFiniteSet(DOMAIN as) /\ DOMAIN as \subseteq Nat
    BY <2>1, SequenceDomain
  <2>3. S \subseteq DOMAIN as
    OBVIOUS
  <2>4. QED
    BY <2>2, <2>3, FS_Subset
<1>2. al = [x \in DOMAIN on |-> as[on[x]]]
  BY DEF AliasesOf
<1>3. t = [x \in DOMAIN al |-> GroupNode(mux, Or(CleanName, al[x][2]), al[x][1])]
  BY DEF AliasNodes
<1>4. \A g, src : GroupNode(mux, g, src).label = GroupLabel(g)
  BY GroupNodeFields
<1>5. \A y \in S : /\ y \in DOMAIN as
                   /\ AliasTitle(naming, y) = Or(CleanName, as[y][2])
                   /\ AliasTitle(naming, y) \in GroupTitles(mux, naming)
  BY DEF AliasTitle, GroupTitles
<1>6. \A y, z \in S : GroupLabel(AliasTitle(naming, y)) = GroupLabel(AliasTitle(naming, z))
                       => y = z
  <2>1. \A g, h \in GroupTitles(mux, naming) : GroupLabel(g) = GroupLabel(h) => g = h
    BY LabelAssumption
  <2>2. \A y, z \in DOMAIN as : AliasTitle(naming, y) = AliasTitle(naming, z) => y = z
    BY DEF Apart
  <2> HIDE DEF S
  <2>3. QED
    BY <1>5, <2>1, <2>2
<1> HIDE DEF S
<1>7. Order(S, R) /\ Lists(on, S, R)
  BY <1>1, NumbersSorted
<1> HIDE DEF R, on, al, t, as
<1>8. /\ \A x \in DOMAIN on : on[x] \in S
      /\ \A x, y \in DOMAIN on : on[x] = on[y] => x = y
  BY <1>1, <1>7, ListsAll
<1>9. \A x \in DOMAIN t : /\ x \in DOMAIN on
                          /\ t[x].label = GroupLabel(AliasTitle(naming, on[x]))
  <2> SUFFICES ASSUME NEW x \in DOMAIN t
               PROVE  x \in DOMAIN on /\ t[x].label = GroupLabel(AliasTitle(naming, on[x]))
    OBVIOUS
  <2>1. x \in DOMAIN on /\ al[x] = as[on[x]] /\ x \in DOMAIN al
    BY <1>2, <1>3
  <2>2. t[x] = GroupNode(mux, Or(CleanName, al[x][2]), al[x][1])
    BY <1>3
  <2>3. Or(CleanName, al[x][2]) = AliasTitle(naming, on[x])
    BY <1>5, <1>8, <2>1
  <2>4. QED
    BY <1>4, <2>1, <2>2, <2>3
<1>10. LabelsApart(t)
  BY <1>6, <1>8, <1>9 DEF LabelsApart
<1>11. ASSUME NEW x \in DOMAIN t
       PROVE  \E y \in DOMAIN naming.aliases :
                /\ AliasTitle(naming, y) \in GroupTitles(mux, naming)
                /\ t[x].label = GroupLabel(AliasTitle(naming, y))
  BY <1>5, <1>8, <1>9 DEF as
<1>12. QED
  BY <1>10, <1>11 DEF t

\* Two lists without a label in common.
LEMMA JoinedApart ==
  ASSUME NEW S, NEW T, NEW s \in Seq(S), NEW t \in Seq(T),
         LabelsApart(s), LabelsApart(t),
         \A x \in DOMAIN s : \A y \in DOMAIN t : s[x].label # t[y].label
  PROVE  LabelsApart(s \o t)
<1> DEFINE u == s \o t
<1>1. \A x \in DOMAIN u :
        \/ x \in DOMAIN s /\ u[x] = s[x]
        \/ x - Len(s) \in DOMAIN t /\ u[x] = t[x - Len(s)]
  BY Joined
<1>2. DOMAIN u \subseteq Nat /\ Len(s) \in Nat
  <2>1. u \in Seq(S \cup T)
    BY Joined
  <2>2. QED
    BY <2>1, SequenceDomain
<1> HIDE DEF u
<1>3. ASSUME NEW x \in DOMAIN u, NEW y \in DOMAIN u, u[x].label = u[y].label
      PROVE  x = y
  <2>1. CASE x \in DOMAIN s /\ u[x] = s[x] /\ y \in DOMAIN s /\ u[y] = s[y]
    BY <1>3, <2>1 DEF LabelsApart
  <2>2. CASE /\ x - Len(s) \in DOMAIN t /\ u[x] = t[x - Len(s)]
             /\ y - Len(s) \in DOMAIN t /\ u[y] = t[y - Len(s)]
    <3>1. x - Len(s) = y - Len(s)
      BY <1>3, <2>2 DEF LabelsApart
    <3>2. QED
      BY <1>2, <3>1
  <2>3. QED
    BY <1>1, <1>3, <2>1, <2>2
<1>4. QED
  BY <1>3 DEF LabelsApart, u

\* No pin of a mux is labelled like a group of any, and of two muxes no node.
LEMMA LabelsDiffer ==
  ASSUME design \in Designs, design # None, naming \in Namings, naming # None,
         Apart(design, naming),
         NEW m1 \in ParsedMuxes(design), NEW m2 \in ParsedMuxes(design), NEW n1, NEW n2
  PROVE  /\ PinLabelled(n1, m1) /\ TitleLabelled(n2, m2) => n1.label # n2.label
         /\ m1 # m2 /\ PinLabelled(n1, m1) /\ PinLabelled(n2, m2) => n1.label # n2.label
         /\ m1 # m2 /\ TitleLabelled(n1, m1) /\ TitleLabelled(n2, m2) => n1.label # n2.label
<1>1. \A p \in PinsOf(m1) : PinLabel(m1, p) \notin {GroupLabel(g) : g \in GroupTitles(m2, naming)}
  BY DEF Apart
<1>2. /\ \A p \in PinsOf(m1), q \in PinsOf(m2) :
           PinLabel(m1, p) = PinLabel(m2, q) => m1.instance = m2.instance
      /\ \A g \in GroupTitles(m1, naming), h \in GroupTitles(m2, naming) :
           GroupLabel(g) = GroupLabel(h) => g = h
  BY LabelAssumption
<1>3. m1.instance = m2.instance => m1 = m2
  BY InstancesDiffer
<1>4. ASSUME m1 # m2, NEW g \in GroupTitles(m1, naming), g \in GroupTitles(m2, naming)
      PROVE  FALSE
  <2> DEFINE as == naming.aliases
             On(m) == {y \in DOMAIN as : as[y][1] \in GroupNames(m, naming)}
  <2>1. /\ \A m \in {m1, m2} :
             g \in GroupNames(m, naming) \/ \E x \in On(m) : g = AliasTitle(naming, x)
    BY <1>4 DEF GroupTitles, AliasTitle
  <2>2. /\ GroupNames(m1, naming) \cap GroupNames(m2, naming) = {}
        /\ \A x, y \in DOMAIN as : AliasTitle(naming, x) = AliasTitle(naming, y) => x = y
        /\ \A m \in {m1, m2} : \A x \in DOMAIN as : AliasTitle(naming, x) \notin GroupNames(m, naming)
    BY <1>4 DEF Apart
  <2>3. CASE g \in GroupNames(m1, naming) \/ g \in GroupNames(m2, naming)
    BY <2>1, <2>2, <2>3
  <2>4. CASE g \notin GroupNames(m1, naming) /\ g \notin GroupNames(m2, naming)
    <3>1. PICK x \in On(m1) : g = AliasTitle(naming, x)
      BY <2>1, <2>4
    <3>2. PICK y \in On(m2) : g = AliasTitle(naming, y)
      BY <2>1, <2>4
    <3>3. x = y
      BY <2>2, <3>1, <3>2
    <3>4. QED
      BY <2>2, <3>3
  <2>5. QED
    BY <2>3, <2>4
<1>5. QED
  BY <1>1, <1>2, <1>3, <1>4 DEF PinLabelled, TitleLabelled

LEMMA MuxLabels ==
  ASSUME design \in Designs, design # None, naming \in Namings, naming # None,
         Apart(design, naming), NEW mux \in ParsedMuxes(design)
  PROVE  LabelsApart(MuxNodes(mux))
<1> DEFINE a == PinNodesOf(mux)
           b == GroupNodesOf(mux)
           c == AliasNodes(mux)
           A == {a[x] : x \in DOMAIN a}
           B == {b[x] : x \in DOMAIN b}
           C == {c[x] : x \in DOMAIN c}
           ab == a \o b
<1>1. /\ a \in Seq(A) /\ b \in Seq(B) /\ c \in Seq(C)
      /\ LabelsApart(a) /\ LabelsApart(b) /\ LabelsApart(c)
  <2>1. a \in Seq(A) /\ b \in Seq(B) /\ c \in Seq(C)
    BY PinNodesKnown, GroupNodesKnown, AliasNodesKnown
  <2>2. LabelsApart(a) /\ LabelsApart(b) /\ LabelsApart(c)
    BY PinsLabelled, GroupsLabelled, AliasesLabelled
  <2>3. QED
    BY <2>1, <2>2
<1>2. /\ \A x \in DOMAIN a : PinLabelled(a[x], mux)
      /\ \A x \in DOMAIN b : \E g \in GroupNames(mux, naming) : b[x].label = GroupLabel(g)
      /\ \A x \in DOMAIN c : \E y \in DOMAIN naming.aliases :
           /\ AliasTitle(naming, y) \in GroupTitles(mux, naming)
           /\ c[x].label = GroupLabel(AliasTitle(naming, y))
  <2>1. ASSUME NEW x \in DOMAIN a PROVE PinLabelled(a[x], mux)
    <3> DEFINE ps == PinList(mux)
    <3>1. x \in DOMAIN ps /\ a[x] = PinNode(mux, ps[x])
      BY DEF PinNodesOf
    <3>2. ps[x] \in PinsOf(mux)
      BY <3>1, PinsListed
    <3>3. QED
      BY <3>1, <3>2, PinNodeFields DEF PinLabelled
  <2>2. ASSUME NEW x \in DOMAIN b
        PROVE  \E g \in GroupNames(mux, naming) : b[x].label = GroupLabel(g)
    <3>1. PICK g \in GroupNames(mux, naming) : b[x] = GroupNode(mux, g, g)
      BY GroupNodesKnown
    <3>2. QED
      BY <3>1, GroupNodeFields
  <2>3. QED
    BY <2>1, <2>2, AliasesLabelled
<1>3. /\ \A x \in DOMAIN b : TitleLabelled(b[x], mux)
      /\ \A x \in DOMAIN c : TitleLabelled(c[x], mux)
  <2>1. GroupNames(mux, naming) \subseteq GroupTitles(mux, naming)
    BY DEF GroupTitles
  <2> HIDE DEF b, c
  <2>2. QED
    BY <1>2, <2>1 DEF TitleLabelled
<1>4. MuxNodes(mux) = ab \o c
  BY DEF MuxNodes
<1> HIDE DEF a, b, c, A, B, C
<1>5. \A x \in DOMAIN b : \A y \in DOMAIN c : b[x].label # c[y].label
  <2> SUFFICES ASSUME NEW x \in DOMAIN b, NEW y \in DOMAIN c PROVE b[x].label # c[y].label
    OBVIOUS
  <2>1. PICK g \in GroupNames(mux, naming) : b[x].label = GroupLabel(g)
    BY <1>2
  <2>2. PICK z \in DOMAIN naming.aliases :
          /\ AliasTitle(naming, z) \in GroupTitles(mux, naming)
          /\ c[y].label = GroupLabel(AliasTitle(naming, z))
    BY <1>2
  <2>3. g \in GroupTitles(mux, naming) /\ g # AliasTitle(naming, z)
    BY <2>1 DEF Apart, GroupTitles
  <2>4. QED
    BY <2>1, <2>2, <2>3, LabelAssumption
<1>6. LabelsApart(ab) /\ ab \in Seq(A \cup B)
  <2>1. \A x \in DOMAIN a : \A y \in DOMAIN b : a[x].label # b[y].label
    BY <1>2, <1>3, LabelsDiffer
  <2>2. QED
    BY <1>1, <2>1, Joined, JoinedApart
<1>7. \A x \in DOMAIN ab : \A y \in DOMAIN c : ab[x].label # c[y].label
  <2>1. \A x \in DOMAIN ab :
          \/ x \in DOMAIN a /\ ab[x] = a[x]
          \/ x - Len(a) \in DOMAIN b /\ ab[x] = b[x - Len(a)]
    BY <1>1, Joined
  <2>2. \A x \in DOMAIN a : \A y \in DOMAIN c : a[x].label # c[y].label
    BY <1>2, <1>3, LabelsDiffer
  <2> HIDE DEF ab
  <2>3. QED
    BY <1>5, <2>1, <2>2
<1> HIDE DEF ab
<1>8. LabelsApart(ab \o c)
  BY <1>1, <1>6, <1>7, JoinedApart
<1>9. QED
  BY <1>4, <1>8

\* No label is on two nodes, whichever muxes they are of.
LabelsInv == Apart(design, naming) => LabelsApart(nodes)

LEMMA LabelsInit == ToolInit => LabelsInv
<1> SUFFICES ASSUME ToolInit PROVE LabelsInv
  OBVIOUS
<1>1. DOMAIN nodes = {}
  BY DEF ToolInit
<1>2. QED
  BY <1>1 DEF LabelsInv, LabelsApart

LEMMA EmitPinctrl2Labels ==
  ASSUME ParseInv, NodesInv, TreesInv, LabelsInv, EmitPinctrl2
  PROVE  LabelsInv'
<1> DEFINE m == muxes[turn]
           t == MuxNodes(m)
           N == {nodes[x] : x \in DOMAIN nodes}
<1>1. /\ nodes' = nodes \o t /\ turn \in DOMAIN muxes
      /\ UNCHANGED <<design, naming>> /\ place = "emit"
  BY MuxesSequence DEF EmitPinctrl2, ParseInv, inputs
<1>2. /\ design \in Designs /\ design # None
      /\ naming \in Namings /\ naming # None /\ muxes = ParseMuxes(design)
  BY <1>1 DEF ParseInv
<1>3. /\ m \in ParsedMuxes(design) /\ DOMAIN muxes \subseteq Nat
      /\ \A y \in DOMAIN muxes : muxes[y] \in ParsedMuxes(design)
      /\ \A x, y \in DOMAIN muxes : muxes[x].instance = muxes[y].instance => x = y
  BY <1>1, <1>2, MuxesParsed, MuxesSequence
<1> SUFFICES ASSUME Apart(design, naming) PROVE LabelsApart(nodes \o t)
  BY <1>1 DEF LabelsInv, LabelsApart
<1>4. PICK T : t \in Seq(T)
  BY <1>2, <1>3, MuxNodesKnown
<1>5. nodes \in Seq(N)
  BY DEF NodesInv
<1>6. LabelsApart(nodes) /\ LabelsApart(t)
  BY <1>2, <1>3, MuxLabels DEF LabelsInv
<1>7. \A x \in DOMAIN t : IsNodeOf(t[x], m)
  BY <1>2, <1>3, MuxTree
<1> HIDE DEF t, N
<1>8. ASSUME NEW x \in DOMAIN nodes, NEW z \in DOMAIN t PROVE nodes[x].label # t[z].label
  <2>1. PICK i \in DOMAIN muxes : i < turn /\ nodes[x].ctl = muxes[i].instance
    BY <1>1 DEF TreesInv
  <2> DEFINE b == muxes[i]
  <2>2. b # m /\ b \in ParsedMuxes(design)
    <3>1. i # turn
      BY <1>1, <1>3, <2>1
    <3>2. QED
      BY <1>1, <1>3, <3>1
  <2>3. IsNodeOf(nodes[x], b)
    BY <1>2, <2>1, NodeOwner
  <2> HIDE DEF b, m
  <2>4. /\ PinLabelled(nodes[x], b) \/ TitleLabelled(nodes[x], b)
        /\ PinLabelled(t[z], m) \/ TitleLabelled(t[z], m)
    BY <1>7, <2>3, LabelsOfForms DEF IsNodeOf
  <2>5. CASE PinLabelled(nodes[x], b) /\ TitleLabelled(t[z], m)
    BY <1>2, <1>3, <2>2, <2>5, LabelsDiffer
  <2>6. CASE TitleLabelled(nodes[x], b) /\ PinLabelled(t[z], m)
    BY <1>2, <1>3, <2>2, <2>6, LabelsDiffer
  <2>7. CASE PinLabelled(nodes[x], b) /\ PinLabelled(t[z], m)
    BY <1>2, <1>3, <2>2, <2>7, LabelsDiffer
  <2>8. CASE TitleLabelled(nodes[x], b) /\ TitleLabelled(t[z], m)
    BY <1>2, <1>3, <2>2, <2>8, LabelsDiffer
  <2>9. QED
    BY <2>4, <2>5, <2>6, <2>7, <2>8
<1>9. QED
  BY <1>4, <1>5, <1>6, <1>8, JoinedApart

LEMMA LabelsStep ==
  ASSUME ParseInv, NodesInv, TreesInv, LabelsInv, [ToolNext]_toolVars
  PROVE  LabelsInv'
<1>1. CASE EmitPinctrl2
  BY <1>1, EmitPinctrl2Labels
<1>2. CASE UNCHANGED <<design, naming, nodes>>
  BY <1>2 DEF LabelsInv, LabelsApart
<1>3. CASE LoadNaming \/ LoadHwh \/ Parse \/ EmitLegacy \/ WireConsumers \/ LegacyEmitted
           \/ EmitConsumers \/ NoFile \/ Interrupted \/ ToolFinished \/ UNCHANGED toolVars
  BY <1>2, <1>3 DEF LoadNaming, LoadHwh, Parse, EmitLegacy, WireConsumers, LegacyEmitted,
     EmitConsumers, NoFile, Interrupted, ToolFinished, toolVars, inputs, emitted
<1>4. ASSUME NEW fl \in Files, OpenFile(fl) \/ CloseFile(fl) PROVE LabelsInv'
  BY <1>2, <1>4 DEF OpenFile, CloseFile, inputs, emitted
<1>5. QED
  BY <1>1, <1>3, <1>4 DEF ToolNext

-----------------------------------------------------------------------------
(***************************************************************************)
(* The probe of what was written                                           *)
(***************************************************************************)

\* There is nothing before the controller is loaded; then it is a well-formed
\* one, of the tree that the tool is done with, and stays it.
NotLoaded ==
  /\ k = 1 /\ f = 1 /\ nalts = 0
  /\ pins = <<>> /\ groups = <<>> /\ funcs = <<>>
  /\ node = FALSE /\ heap = [pins |-> {}, mux |-> {}] /\ ret = "none"
OfTree ==
  /\ place = "done" /\ option.style = "pinctrl2"
  /\ \A s \in DOMAIN probed.slots : s[2] <= AXIMUX_MAX_ALTS
  /\ \E i \in DOMAIN muxes : \E n \in HwPins :
       probed = muxes[i] /\ ctl = ControllerOf(probed, n)
AltsRead == pc \notin {"none", "info", "failed"} => nalts = AXIMUX_MAX_ALTS
LoadedInv ==
  /\ pc = "none" => NotLoaded
  /\ pc # "none" => ProbeInv /\ AcceptInv /\ Match /\ WellFormed(ctl) /\ OfTree
  /\ AltsRead
  /\ ret = "ENOMEM" => AllocMayFail

LEMMA LoadStep ==
  ASSUME ParseInv, NodesInv, TreesInv, LoadedInv, NEW i \in DOMAIN muxes, Load(muxes[i])
  PROVE  LoadedInv'
<1>1. /\ place = "done" /\ option.style = "pinctrl2" /\ pc = "none" /\ pc' = "info"
      /\ probed' = muxes[i]
      /\ UNCHANGED <<k, f, nalts, pins, groups, funcs, node, heap, ret>>
      /\ UNCHANGED <<place, option, muxes, nodes>>
  BY DEF Load, tables, toolVars
<1>2. PICK n \in HwPins : /\ PinsOf(muxes[i]) \subseteq 0..(n - 1)
                         /\ ctl' = ControllerOf(muxes[i], n)
  BY DEF Load
<1> DEFINE c == ControllerOf(muxes[i], n)
<1>3. /\ WellFormed(c)
      /\ Len(c.children) \in Nat /\ DOMAIN c.children = 1..Len(c.children)
      /\ c.hwPins \in Nat
      /\ \A x \in PinChildren(c) : c.children[x].reg \in Nat
  BY <1>1, <1>2, EmittedWellFormed
<1>4. ctl' = c /\ c \in Controller
  BY <1>1, <1>2, EmittedController
<1>5. OfTree'
  <2>1. ctl' = ControllerOf(probed, n)'
    BY <1>1, <1>2 DEF ControllerOf
  <2>2. \A s \in DOMAIN probed'.slots : s[2] <= AXIMUX_MAX_ALTS
    BY <1>1 DEF Load
  <2>3. QED
    BY <1>1, <2>1, <2>2 DEF OfTree
<1> HIDE DEF c
<1>6. /\ k' = 1 /\ f' = 1 /\ nalts' = 0
      /\ pins' = <<>> /\ groups' = <<>> /\ funcs' = <<>>
      /\ node' = FALSE /\ heap' = [pins |-> {}, mux |-> {}] /\ ret' = "none"
  BY <1>1 DEF LoadedInv, NotLoaded
<1>7. WellFormed(ctl)'
  BY <1>3, <1>4
<1>8. Shape'
  <2>1. pins' \in Seq({})
    BY <1>6
  <2>2. \A x \in PinChildren(ctl)' : ctl'.children[x].reg \in Nat
    BY <1>3, <1>4 DEF PinChildren
  <2>3. QED
    BY <1>3, <1>4, <1>6, <2>1, <2>2 DEF Shape
<1>9. Accepted'
  BY <1>1, <1>6 DEF Accepted
<1>10. Tables'
  <2>1. pins' \in Seq(Pin) /\ groups' \in Seq(Group) /\ funcs' \in Seq(Function)
    BY <1>6, EmptySeq
  <2>2. QED
    BY <1>4, <1>6, <2>1 DEF Tables, EntriesFit
<1>11. Progress'
  <2>1. Sound(<<>>)
    BY DEF Sound
  <2>2. QED
    BY <1>1, <1>6, <2>1 DEF Progress, AXIMUX_MAX_ALTS
<1>12. Holds'
  <2>1. node' \in BOOLEAN /\ ~node'
    BY <1>6, Zenon
  <2>2. QED
    BY <1>1, <1>6, <2>1 DEF Holds
<1>13. Match'
  BY <1>1, <1>6 DEF Match
<1>14. AltsRead'
  BY <1>1 DEF AltsRead
<1>15. QED
  BY <1>1, <1>5, <1>6, <1>7, <1>8, <1>9, <1>10, <1>11, <1>12, <1>13, <1>14
     DEF LoadedInv, AcceptInv, ProbeInv

\* The tree that the tool is done with does not change.
LEMMA DoneStays ==
  ASSUME place = "done", [ToolNext]_toolVars
  PROVE  UNCHANGED toolVars
<1>1. ~(\E fl \in Files : OpenFile(fl) \/ CloseFile(fl))
  BY FilePlaces DEF OpenFile, CloseFile, Files
<1>2. QED
  BY <1>1 DEF ToolNext, LoadNaming, LoadHwh, Parse, EmitPinctrl2, WireConsumers, EmitLegacy,
     LegacyEmitted, EmitConsumers, NoFile, Interrupted, ToolFinished

LEMMA ProbeStepLoaded ==
  ASSUME LoadedInv, pc # "none", [ProbeNext]_probeVars, UNCHANGED <<toolVars, probed>>
  PROVE  LoadedInv'
<1>1. ProbeInv /\ AcceptInv /\ Match /\ WellFormed(ctl) /\ OfTree
  BY DEF LoadedInv
<1>2. ProbeInv' /\ AcceptInv' /\ Match'
  BY <1>1, ProbeNextInv, AcceptNext, MatchNext
<1>3. UNCHANGED ctl
  BY CtlStays
<1>4. pc' # "none" /\ (ret' = "ENOMEM" => ret = "ENOMEM" \/ AllocMayFail)
  <2>1. CASE ProbeNext
    BY <2>1 DEF ProbeNext, ProbeStep, NoDevice, BadInfo, GoodInfo, BadPinNode, ParsePin,
     PinsParsed, AllocGroups, NewGroup, AddPinFunction, PinDone, DefaultsDone,
     NoGroupBuffers, AllocGroupBuffers, GroupRejected, AddGroup, SkipChild, ExtraDone,
     Register, Finished, probeVars, OutOfMemory, AddFunctionFails, Fail
  <2>2. CASE UNCHANGED probeVars
    BY <2>2 DEF probeVars
  <2>3. QED
    BY <2>1, <2>2
<1>5. WellFormed(ctl)'
  BY <1>1, <1>3
<1>6. OfTree'
  <2>1. UNCHANGED <<place, option, muxes, nodes, probed>>
    BY DEF toolVars
  <2>2. \A n : ControllerOf(probed, n)' = ControllerOf(probed, n)
    BY <2>1 DEF ControllerOf
  <2>3. QED
    BY <1>1, <1>3, <2>1, <2>2 DEF OfTree
<1>7. ctl.hwAlts = AXIMUX_MAX_ALTS
  <2>1. PICK i \in DOMAIN muxes, n \in HwPins : ctl = ControllerOf(probed, n)
    BY <1>1 DEF OfTree
  <2>2. QED
    BY <2>1 DEF ControllerOf
<1>8. AltsRead'
  <2>1. EffectiveAlts(ctl.hwAlts) = AXIMUX_MAX_ALTS
    BY <1>7, Limits DEF EffectiveAlts
  <2>2. CASE GoodInfo
    BY <2>1, <2>2 DEF GoodInfo, AltsRead
  <2>3. CASE BadInfo \/ NoDevice
    BY <2>3 DEF BadInfo, NoDevice, Fail, OutOfMemory, AltsRead
  <2>4. CASE \/ BadPinNode \/ ParsePin \/ PinsParsed
             \/ AllocGroups \/ NewGroup \/ AddPinFunction \/ PinDone \/ DefaultsDone
             \/ NoGroupBuffers \/ AllocGroupBuffers \/ GroupRejected \/ AddGroup
             \/ SkipChild \/ ExtraDone \/ Register
    <3>1. nalts' = nalts /\ pc \notin {"none", "info", "failed"}
      BY <2>4 DEF BadPinNode, ParsePin, PinsParsed, AllocGroups, NewGroup, AddPinFunction,
         PinDone, DefaultsDone, NoGroupBuffers, AllocGroupBuffers, GroupRejected, AddGroup,
         SkipChild, ExtraDone, Register, AtChild, AtPin, AtGroupNode
    <3>2. QED
      BY <3>1 DEF LoadedInv, AltsRead
  <2>5. CASE Finished \/ UNCHANGED probeVars
    BY <2>5 DEF Finished, probeVars, LoadedInv, AltsRead
  <2>6. QED
    BY <2>2, <2>3, <2>4, <2>5 DEF ProbeNext, ProbeStep
<1>9. QED
  BY <1>2, <1>4, <1>5, <1>6, <1>8 DEF LoadedInv

\* The tool's steps come before.
LEMMA ToolStepLoaded ==
  ASSUME LoadedInv, [ToolNext]_toolVars, UNCHANGED <<probeVars, probed>>
  PROVE  LoadedInv'
<1>1. CASE pc = "none"
  BY <1>1 DEF LoadedInv, NotLoaded, AltsRead, probeVars
<1>2. CASE pc # "none"
  <2>1. place = "done"
    BY <1>2 DEF LoadedInv, OfTree
  <2>2. UNCHANGED toolVars
    BY <2>1, DoneStays
  <2>3. QED
    BY <1>2, <2>2, ProbeStepLoaded
<1>3. QED
  BY <1>1, <1>2

ToolInv ==
  FileInv /\ ParseInv /\ LegacyInv /\ NodesInv /\ TreesInv /\ CoverInv /\ LabelsInv

LEMMA ToolStart == ToolInit => ToolInv
BY FileInit, ParseInit, LegacyInit, NodesInit, TreesInit, CoverInit, LabelsInit
   DEF ToolInv

LEMMA ToolStep == ToolInv /\ [ToolNext]_toolVars => ToolInv'
BY FileStep, ParseStep, LegacyStep, NodesStep, TreesStep, CoverStep, LabelsStep
   DEF ToolInv

LEMMA ToolInvariant == ToolSpec => []ToolInv
BY ToolStart, ToolStep, PTL DEF ToolSpec

ProbedInv == ToolInv /\ LoadedInv

LEMMA ProbedInvariant == HwhProbeSpec => []ProbedInv
<1>1. HwhProbeInit => ProbedInv
  <2> SUFFICES ASSUME HwhProbeInit PROVE ProbedInv
    OBVIOUS
  <2>1. ToolInit
    BY DEF HwhProbeInit
  <2>2. LoadedInv
    BY DEF HwhProbeInit, LoadedInv, NotLoaded, AltsRead
  <2>3. QED
    BY <2>1, <2>2, ToolStart DEF ProbedInv
<1>2. ProbedInv /\ [HwhProbeNext]_<<probeVars, toolVars, probed>> => ProbedInv'
  <2> SUFFICES ASSUME ProbedInv, [HwhProbeNext]_<<probeVars, toolVars, probed>>
               PROVE  ProbedInv'
    OBVIOUS
  <2>1. ToolInv /\ LoadedInv /\ ParseInv /\ NodesInv /\ TreesInv
    BY DEF ProbedInv, ToolInv
  <2>2. [ToolNext]_toolVars
    <3>1. CASE RunTool
      BY <3>1 DEF RunTool
    <3>2. ASSUME NEW x \in DOMAIN muxes, Load(muxes[x]) PROVE UNCHANGED toolVars
      BY <3>2 DEF Load, toolVars
    <3>3. CASE Probe
      BY <3>3 DEF Probe
    <3>4. CASE UNCHANGED <<probeVars, toolVars, probed>>
      BY <3>4
    <3>5. QED
      BY <3>1, <3>2, <3>3, <3>4 DEF HwhProbeNext
  <2>3. ToolInv'
    BY <2>1, <2>2, ToolStep
  <2>4. LoadedInv'
    <3>1. CASE RunTool \/ UNCHANGED <<probeVars, toolVars, probed>>
      BY <2>1, <2>2, <3>1, ToolStepLoaded DEF RunTool
    <3>2. ASSUME NEW x \in DOMAIN muxes, Load(muxes[x]) PROVE LoadedInv'
      BY <2>1, <3>2, LoadStep
    <3>3. CASE Probe
      BY <2>1, <3>3, ProbeStepLoaded DEF Probe
    <3>4. QED
      BY <3>1, <3>2, <3>3 DEF HwhProbeNext
  <2>5. QED
    BY <2>3, <2>4 DEF ProbedInv
<1>3. QED
  BY <1>1, <1>2, PTL DEF HwhProbeSpec

-----------------------------------------------------------------------------
(***************************************************************************)
(* What a group node selects                                               *)
(***************************************************************************)

\* A group node lists the entries of its group, one at least.
LEMMA GroupNodeLists ==
  ASSUME design \in Designs, design # None, naming \in Namings, naming # None,
         NEW mux \in ParsedMuxes(design), NEW g, NEW src, Titled(mux, g, src)
  PROVE  LET child == GroupNode(mux, g, src).child
             e == Entries(mux, src, naming) IN
         /\ NonEmptyGroup(child) /\ FunctionOf(child) = child.fn
         /\ DOMAIN child.pins = DOMAIN e
         /\ \A i \in DOMAIN e : /\ child.pins[i] = PinRef(e[i][1])
                                /\ MuxOf(child)[i] = e[i][2]
<1> DEFINE child == GroupNode(mux, g, src).child
           e == Entries(mux, src, naming)
           n == Cardinality(InGroup(mux, src, naming))
<1>1. /\ n \in Nat /\ DOMAIN e = 1..n
      /\ \A x \in DOMAIN e : e[x][1] \in PinsOf(mux) /\ e[x][2] \in Nat
      /\ \A s \in InGroup(mux, src, naming) : \E x \in DOMAIN e : e[x] = s
  BY EntriesAll
<1>2. /\ child.pins = [x \in DOMAIN e |-> PinRef(e[x][1])]
      /\ child.mux = [x \in DOMAIN e |-> e[x][2]]
      /\ child.fn = Plain(g)
  BY GroupNodeFields, GroupNodePins, GroupNodeVals
<1>3. Plain(g) \in Names /\ \A p \in PinsOf(mux) : PinRef(p) \in Names
  BY TitleKnown, NamesOfMux
<1>4. PICK s : s \in InGroup(mux, src, naming)
  BY DEF Titled, GroupNames, InGroup
<1> HIDE DEF child, e, n
<1>5. n > 0
  BY <1>1, <1>4
<1>6. /\ child.pins \in [1..n -> Names] /\ child.mux \in [1..n -> Nat]
      /\ child.pins \in Seq(Names) /\ child.mux \in Seq(Nat)
  <2>1. child.pins \in [1..n -> Names] /\ child.mux \in [1..n -> Nat]
    BY <1>1, <1>2, <1>3
  <2>2. QED
    BY <1>1, <2>1
<1>7. child.pins # Absent /\ child.mux # Absent /\ child.fn # Absent
  <2>1. Absent \notin Names /\ Absent \notin Seq(Names) /\ Absent \notin Seq(Nat)
    BY ProbeAssumption
  <2>2. child.fn \in Names
    BY <1>2, <1>3
  <2>3. QED
    BY <1>6, <2>1, <2>2
<1>8. Len(child.pins) = n /\ Len(child.mux) = n /\ child.pins # <<>>
  BY <1>1, <1>5, <1>6
<1>9. NonEmptyGroup(child) /\ FunctionOf(child) = child.fn
  BY <1>7, <1>8 DEF NonEmptyGroup, IsGroupNode, FunctionOf
<1>10. MuxOf(child) = SubSeq(child.mux, 1, n)
  BY <1>1, <1>7, <1>8 DEF MuxOf
<1>11. ASSUME NEW i \in DOMAIN e
       PROVE  child.pins[i] = PinRef(e[i][1]) /\ MuxOf(child)[i] = e[i][2]
  <2>1. i \in 1..n
    BY <1>1
  <2>2. SubSeq(child.mux, 1, n)[i] = child.mux[i]
    BY <1>1, <1>6, <1>8, <2>1
  <2>3. QED
    BY <1>2, <1>10, <2>2
<1>12. QED
  BY <1>1, <1>2, <1>9, <1>11 DEF child, e

\* In the driver that took the tree, the name of a node's function selects for
\* the node's group the slots of the group, the highest of each pin, where
\* labels are apart.
LEMMA GroupNodeSelects ==
  ASSUME ParseInv, NodesInv, TreesInv, CoverInv, LabelsInv,
         ProbeInv, AcceptInv, Match, WellFormed(ctl), OfTree, pc = "ready",
         Apart(design, naming), NEW z \in DOMAIN nodes, NEW g, NEW src,
         AltsRead, Titled(probed, g, src), nodes[z] = GroupNode(probed, g, src)
  PROVE  Programs(nodes[z].child.fn, nodes[z].child.name) = Highest(InGroup(probed, src, naming))
<1> DEFINE child == nodes[z].child
           mine == NodePlaces(probed)
           e == Entries(probed, src, naming)
<1>1. PICK i \in DOMAIN muxes : \E n \in HwPins :
             probed = muxes[i] /\ ctl = ControllerOf(probed, n)
  BY DEF OfTree
<1>2. PICK n \in HwPins : probed = muxes[i] /\ ctl = ControllerOf(probed, n)
  BY <1>1
<1>3. /\ design \in Designs /\ design # None /\ muxes = ParseMuxes(design)
      /\ naming \in Namings /\ naming # None
  BY DEF ParseInv, OfTree
<1>4. probed \in ParsedMuxes(design)
  BY <1>2, <1>3, MuxesParsed
<1>5. /\ NonEmptyGroup(child) /\ FunctionOf(child) = child.fn
      /\ DOMAIN child.pins = DOMAIN e
      /\ \A j \in DOMAIN e : /\ child.pins[j] = PinRef(e[j][1])
                             /\ MuxOf(child)[j] = e[j][2]
  BY <1>3, <1>4, GroupNodeLists
<1>6. nodes[z].ctl = probed.instance /\ nodes[z].label = GroupLabel(g)
      /\ child.name = GroupNodeName(g)
  BY GroupNodeFields
<1>7. /\ DOMAIN ctl.children = DOMAIN mine
      /\ \A x \in DOMAIN mine :
           /\ mine[x] \in DOMAIN nodes /\ nodes[mine[x]].ctl = probed.instance
           /\ ctl.children[x] = nodes[mine[x]].child
      /\ \A x, y \in DOMAIN mine : mine[x] = mine[y] => x = y
      /\ \E x \in DOMAIN mine : mine[x] = z
  BY <1>2, <1>6, ControllerNodes
<1> HIDE DEF mine
<1>8. PICK x \in DOMAIN mine : mine[x] = z
  BY <1>7
<1>9. ctl.children[x] = child /\ x \in GroupChildren(ctl)
  BY <1>5, <1>7, <1>8 DEF GroupChildren
<1>10. ASSUME NEW w \in GroupChildren(ctl), ctl.children[w].name = ctl.children[x].name
       PROVE  w = x
  <2> DEFINE nd == nodes[mine[w]]
  <2>1. w \in DOMAIN mine /\ NonEmptyGroup(nd.child) /\ nd.child = ctl.children[w]
    BY <1>7 DEF GroupChildren
  <2>2. mine[w] \in DOMAIN nodes /\ IsNodeOf(nd, probed)
    BY <1>2, <1>3, <1>7, <2>1, NodeOwner
  <2> HIDE DEF nd
  <2>3. ~IsPinNodeOf(nd, probed)
    BY <2>1, PinNodeFields DEF IsPinNodeOf, NonEmptyGroup, IsGroupNode
  <2>4. PICK h, sh : Titled(probed, h, sh) /\ nd = GroupNode(probed, h, sh)
    BY <2>2, <2>3 DEF IsNodeOf, IsGroupNodeOf
  <2>5. nd.child.name = GroupNodeName(h) /\ nd.label = GroupLabel(h)
    BY <2>4, GroupNodeFields
  <2>6. GroupNodeName(h) = GroupNodeName(g)
    BY <1>6, <1>9, <1>10, <2>1, <2>5
  <2>7. h = g
    BY <1>3, <1>4, <2>4, <2>6, TitleKnown, LabelAssumption
  <2>8. mine[w] = z
    BY <1>6, <2>2, <2>5, <2>7 DEF LabelsInv, LabelsApart, nd
  <2>9. QED
    BY <1>7, <1>8, <2>1, <2>8
<1>11. \A p \in DOMAIN PinName : PinName[p] # child.name
  <2>1. PICK m \in MuxModules(design) : probed = ParseMux(design, m)
    BY <1>4 DEF ParsedMuxes
  <2>2. PICK y \in DOMAIN design : design[y] = m /\ m.mux
    BY <1>3, ModulesOfDesign
  <2>3. probed = ParseMux(design, design[y]) /\ design[y].mux
    BY <2>1, <2>2
  <2>4. g \in GroupTitles(probed, naming)
    BY TitleKnown
  <2>5. QED
    BY <1>3, <1>6, <2>3, <2>4, NamesAssumption
<1>12. \A y \in PinChildren(ctl) : ctl.children[y].reg \in DOMAIN PinName
  <2>1. DOMAIN PinName = 0..31 /\ ctl.hwPins \in 1..32
    BY ProbeAssumption, Limits DEF WellFormed
  <2>2. \A y \in PinChildren(ctl) : ctl.children[y].reg \in Nat
    BY DEF AcceptInv, Shape
  <2>3. \A y \in PinChildren(ctl) : ctl.children[y].reg < ctl.hwPins
    BY DEF WellFormed, PinFits
  <2>4. QED
    BY <2>1, <2>2, <2>3
<1>13. \A p \in PinsOf(probed) : p \in DOMAIN PinName /\ PinName[p] = PinRef(p)
  <2> SUFFICES ASSUME NEW p \in PinsOf(probed)
               PROVE  p \in DOMAIN PinName /\ PinName[p] = PinRef(p)
    OBVIOUS
  <2>1. PinsIn(nodes, probed) /\ PinsOf(probed) \subseteq Nat
    BY <1>2, <1>3, <1>4, PinNumbers DEF CoverInv, Written, Late, OfTree
  <2>2. PICK y \in PinChildren(ctl) : ctl.children[y].reg = p
    BY <1>2, <2>1, PinsOfController
  <2>3. QED
    BY <1>12, <2>2, HwhProbeAssumption
<1>14. /\ \A j \in DOMAIN e :
            /\ e[j] \in InGroup(probed, src, naming) /\ e[j] = <<e[j][1], e[j][2]>>
            /\ e[j][1] \in PinsOf(probed) /\ e[j][2] \in Nat
       /\ \A s \in InGroup(probed, src, naming) : \E j \in DOMAIN e : e[j] = s
       /\ \A i1, j \in DOMAIN e : i1 < j /\ e[i1][1] = e[j][1] => e[i1][2] < e[j][2]
       /\ DOMAIN e \subseteq Nat
  BY <1>3, <1>4, EntriesAll
<1> DEFINE ns == [j \in DOMAIN e |-> e[j][1]]
<1> HIDE DEF child, e
<1>15. /\ DOMAIN ns = DOMAIN child.pins
       /\ \A j \in DOMAIN child.pins :
            ns[j] \in DOMAIN PinName /\ PinName[ns[j]] = child.pins[j]
  BY <1>5, <1>13, <1>14
<1>16. nalts \in Nat /\ \A j \in DOMAIN child.pins : MuxOf(child)[j] <= nalts
  <2>1. nalts = AXIMUX_MAX_ALTS
    BY DEF AltsRead
  <2>2. \A s \in InGroup(probed, src, naming) : s[2] <= AXIMUX_MAX_ALTS
    BY DEF InGroup, Grouped, OfTree
  <2>3. QED
    BY <1>5, <1>14, <2>1, <2>2, Limits
<1>20. \A j \in DOMAIN e : ns[j] = e[j][1]
  OBVIOUS
<1> HIDE DEF ns
<1>17. Programs(child.fn, child.name) = {<<ns[j], MuxOf(child)[j]>> : j \in LastWrites(ns)}
  BY <1>5, <1>9, <1>10, <1>11, <1>12, <1>15, <1>16, GroupSelects
<1> DEFINE L == LastWrites(ns)
<1>18. L = {j \in DOMAIN e : \A y \in DOMAIN e : y > j => e[y][1] # e[j][1]}
  BY <1>5, <1>15, <1>20 DEF LastWrites
<1> HIDE DEF L
<1>19. {<<ns[j], MuxOf(child)[j]>> : j \in L} = {e[j] : j \in L}
  <2>1. \A j \in L : <<ns[j], MuxOf(child)[j]>> = e[j]
    BY <1>5, <1>14, <1>18, <1>20
  <2>2. QED
    BY <2>1
<1> DEFINE G == InGroup(probed, src, naming)
<1> HIDE DEF G
<1>21. ASSUME NEW j \in L PROVE e[j] \in Highest(G)
  <2>1. j \in DOMAIN e /\ e[j] \in G
    BY <1>14, <1>18 DEF G
  <2>2. ASSUME NEW t \in G, t[1] = e[j][1] PROVE t[2] <= e[j][2]
    <3>1. PICK y \in DOMAIN e : e[y] = t
      BY <1>14 DEF G
    <3>2. ~(y > j) /\ y \in Nat /\ j \in Nat /\ e[y][2] \in Nat /\ e[j][2] \in Nat
      BY <1>14, <1>18, <2>1, <2>2, <3>1
    <3>3. CASE y = j
      BY <3>1, <3>2, <3>3
    <3>4. CASE y < j
      BY <1>14, <2>1, <2>2, <3>1, <3>2, <3>4
    <3>5. QED
      BY <3>2, <3>3, <3>4
  <2>3. QED
    BY <2>1, <2>2 DEF Highest
<1>22. ASSUME NEW s \in Highest(G) PROVE \E j \in L : e[j] = s
  <2>1. s \in G /\ \A t \in G : t[1] = s[1] => t[2] <= s[2]
    BY DEF Highest
  <2>2. PICK j \in DOMAIN e : e[j] = s
    BY <1>14, <2>1 DEF G
  <2>3. ASSUME NEW y \in DOMAIN e, y > j PROVE e[y][1] # e[j][1]
    <3>1. SUFFICES ASSUME e[y][1] = e[j][1] PROVE FALSE
      OBVIOUS
    <3>2. e[j][2] < e[y][2]
      BY <1>14, <2>3, <3>1
    <3>3. e[y][2] <= e[j][2]
      BY <1>14, <2>1, <2>2, <3>1 DEF G
    <3>4. QED
      BY <1>14, <3>2, <3>3
  <2>4. QED
    BY <1>18, <2>2, <2>3
<1>23. {e[j] : j \in L} = Highest(G)
  <2>1. Highest(G) \subseteq {e[j] : j \in L}
    BY <1>22
  <2>2. QED
    BY <1>21, <2>1
<1>24. QED
  BY <1>17, <1>19, <1>23 DEF child, L, G

\* Where labels are apart, the label of a consumer is on the node of a group
\* that is the consumer's, in the mux that the node is under.
LEMMA WiredNode ==
  ASSUME ParseInv, NodesInv, TreesInv, CoverInv, place = "done", option.style = "pinctrl2",
         design \in Designs, design # None, naming \in Namings, naming # None,
         muxes = ParseMuxes(design), Apart(design, naming),
         NEW cons \in DOMAIN wiring, NEW z \in Labelled(wiring[cons])
  PROVE  \E m \in ParsedMuxes(design) : \E g :
           /\ Titled(m, g, g) /\ nodes[z] = GroupNode(m, g, g)
           /\ cons \in ConsumersOf(m, g, naming)
<1>1. \A y \in DOMAIN muxes : muxes[y] \in ParsedMuxes(design)
  BY MuxesParsed
<1> DEFINE g == Head(Sorted(GroupsOfConsumer(cons), ByRank))
<1>2. cons \in WiredConsumers /\ wiring[cons] = GroupLabel(g)
  BY DEF CoverInv, Late
<1>3. g \in GroupsOfConsumer(cons)
  BY <1>2, FirstGroup DEF NodesInv
<1> HIDE DEF g
<1>4. PICK y \in DOMAIN muxes :
        g \in GroupNames(muxes[y], naming) /\ cons \in ConsumersOf(muxes[y], g, naming)
  BY <1>3 DEF CoverInv, GroupsOfConsumer
<1>5. z \in DOMAIN nodes /\ nodes[z].label = GroupLabel(g)
  BY <1>2 DEF Labelled
<1>6. PICK w \in DOMAIN muxes : IsNodeOf(nodes[z], muxes[w])
  BY <1>5 DEF TreesInv
<1> DEFINE other == muxes[y]
           m == muxes[w]
<1>7. m \in ParsedMuxes(design) /\ other \in ParsedMuxes(design)
  BY <1>1
<1>8. g \in GroupTitles(other, naming)
  BY <1>4 DEF GroupTitles
<1>9. IsNodeOf(nodes[z], m)
  BY <1>6
<1>10. g \in GroupNames(other, naming) /\ cons \in ConsumersOf(other, g, naming)
  BY <1>4
<1> HIDE DEF other, m
<1>11. ~IsPinNodeOf(nodes[z], m)
  <2>1. TitleLabelled(nodes[z], other)
    BY <1>5, <1>8 DEF TitleLabelled
  <2>2. ~PinLabelled(nodes[z], m)
    BY <1>7, <2>1, LabelsDiffer
  <2>3. QED
    BY <2>2, LabelsOfForms
<1>12. PICK h, src : Titled(m, h, src) /\ nodes[z] = GroupNode(m, h, src)
  BY <1>9, <1>11 DEF IsNodeOf, IsGroupNodeOf
<1>13. h = g
  <2>1. GroupLabel(h) = GroupLabel(g) /\ h \in GroupTitles(m, naming)
    BY <1>5, <1>12, GroupNodeFields, TitleKnown
  <2>2. QED
    BY <1>7, <1>8, <2>1, LabelAssumption
<1>14. src = g
  <2>1. ASSUME NEW x \in DOMAIN naming.aliases, g = AliasTitle(naming, x) PROVE FALSE
    BY <1>7, <1>10, <2>1 DEF Apart
  <2>2. QED
    BY <1>12, <1>13, <2>1 DEF Titled, AliasTitle
<1>15. other = m
  <2>1. g \in GroupNames(m, naming)
    BY <1>12, <1>14 DEF Titled
  <2>2. QED
    BY <1>7, <1>10, <2>1 DEF Apart
<1>16. QED
  BY <1>7, <1>10, <1>12, <1>13, <1>14, <1>15

-----------------------------------------------------------------------------
(***************************************************************************)
(* The theorems                                                            *)
(***************************************************************************)

\* The files of a run are replaced in order: where the consumers' fragment is
\* not the old one, the tree that it refers to is new.
THEOREM FilesInOrder == ToolSpec => []OutputsInOrder
<1>1. ToolInv => OutputsInOrder
  <2> SUFFICES ASSUME ToolInv PROVE OutputsInOrder
    OBVIOUS
  <2>1. FileInv /\ option.files \subseteq Files
    BY DEF ToolInv, ParseInv, Option
  <2>2. place = "done" => \A fl \in Files : place \in Passed(fl)
    BY FilePlaces DEF Files
  <2>3. QED
    BY <2>1, <2>2 DEF FileInv, OutputsInOrder, Files
<1>2. QED
  BY <1>1, ToolInvariant, PTL

\* The tables of a run are of the design's muxes, whatever the design, the
\* naming file and the command line.
THEOREM ToolTypeCorrect == ToolSpec => []ToolTypeOK
<1>1. ToolInv => ToolTypeOK
  <2> SUFFICES ASSUME ToolInv PROVE ToolTypeOK
    OBVIOUS
  <2>1. ASSUME NEW x \in DOMAIN muxes
        PROVE  \E y \in DOMAIN design : design[y].mux /\ design[y].inst = muxes[x].instance
    <3>1. design \in Designs /\ design # None /\ muxes = ParseMuxes(design)
      BY <2>1 DEF ToolInv, ParseInv
    <3>2. muxes[x] \in ParsedMuxes(design)
      BY <2>1, <3>1, MuxesParsed
    <3>3. PICK m \in MuxModules(design) : muxes[x] = ParseMux(design, m)
      BY <3>2 DEF ParsedMuxes
    <3>4. muxes[x].instance = m.inst
      BY <3>3 DEF ParseMux
    <3>5. QED
      BY <3>1, <3>4, ModulesOfDesign
  <2>2. QED
    BY <2>1 DEF ToolInv, FileInv, ParseInv, NodesInv, ToolTypeOK, Places
<1>2. QED
  BY <1>1, ToolInvariant, PTL

\* The two legacy files are right about the pins: the lists of a mux whose pins
\* have no gaps give pin n its names at index n, and the fragment gives a
\* device the pins whose alternate 1 it is.
THEOREM LegacyAgrees == ToolSpec => []LegacyFilesAgree
<1>1. ToolInv => LegacyFilesAgree
  BY LegacyHolds DEF ToolInv
<1>2. QED
  BY <1>1, ToolInvariant, PTL

\* Every reference that a consumer is given resolves in the tree of the same
\* run (the half of WiringResolves that does not need devices to keep to one
\* mux).
THEOREM ReferencesResolve ==
  ToolSpec => [](\A cons \in DOMAIN wiring : Labelled(wiring[cons]) # {})
<1>1. ToolInv => \A cons \in DOMAIN wiring : Labelled(wiring[cons]) # {}
  BY DEF ToolInv, NodesInv
<1>2. QED
  BY <1>1, ToolInvariant, PTL

\* Where no group, alias or label is of two muxes, every label of a tree is on
\* one node, and every reference of a consumer to a label resolves in the tree
\* of the same run, at every step of it (emit_pinctrl2, which checks neither).
THEOREM WiringFound == ToolSpec => [](Apart(design, naming) => WiringResolves)
<1>1. ToolInv => (Apart(design, naming) => WiringResolves)
  BY DEF ToolInv, LabelsInv, LabelsApart, NodesInv, WiringResolves
<1>2. QED
  BY <1>1, ToolInvariant, PTL

\* Where each alternate is of one device and no glue hides it, every device
\* that an alternate reaches is given a state, unless it has no label or the
\* naming file says to leave it out (collect_pinctrl2_groups and by_consumer
\* of emit_pinctrl2).
THEOREM NobodyForgotten == ToolSpec => [](Direct(design) => ConsumersWired)
<1>1. ToolInv => (Direct(design) => ConsumersWired)
  <2> SUFFICES ASSUME ToolInv, Direct(design), place = "write", option.style = "pinctrl2",
                      NEW i \in DOMAIN muxes, NEW s \in DOMAIN muxes[i].slots,
                      NEW d \in DevicesAt(design, muxes[i], s, {"incoming", "outgoing"}),
                      s[2] # 0
               PROVE  DtLabel(d, naming) \in DOMAIN wiring \cup naming.skip \cup {""}
    BY DEF ConsumersWired, Emitted
  <2> DEFINE mux == muxes[i]
             g == GroupOf(mux, s, naming)
             cons == DtLabel(d, naming)
  <2>1. ParseInv /\ CoverInv /\ design \in Designs /\ design # None
    BY DEF ToolInv, ParseInv
  <2>2. mux \in ParsedMuxes(design)
    <3>1. muxes = ParseMuxes(design)
      BY <2>1 DEF ParseInv
    <3>2. QED
      BY <2>1, <3>1, MuxesParsed
  <2>3. s \in Grouped(mux) /\ RawLabel(mux.slots[s]).dev = d
    BY <2>1, <2>2, RawOfSlot
  <2>4. g \in GroupNames(mux, naming) /\ s \in InGroup(mux, g, naming)
    BY <2>3 DEF GroupNames, InGroup
  <2>5. cons # "" => cons \in ConsumersOf(mux, g, naming)
    BY <2>3, <2>4 DEF ConsumersOf
  <2>6. GroupsIn(all_groups, mux) /\ DOMAIN wiring = WiredConsumers
    BY <2>1 DEF CoverInv, Written, Late
  <2> HIDE DEF mux, g, cons
  <2>7. cons # "" => g \in DOMAIN all_groups /\ cons \in all_groups[g]
    BY <2>4, <2>5, <2>6 DEF GroupsIn
  <2>8. cons # "" => cons \in WiredConsumers \cup naming.skip
    BY <2>7 DEF WiredConsumers
  <2>9. cons \in DOMAIN wiring \cup naming.skip \cup {""}
    BY <2>6, <2>8
  <2>10. QED
    BY <2>9 DEF cons
<1>2. QED
  BY <1>1, ToolInvariant, PTL

\* Probing the driver with the tool's output leaves the tool's run as it is:
\* all of the above holds of the two together.
THEOREM ProbedRunIsRun == HwhProbeSpec => ToolSpec
<1>1. HwhProbeInit => ToolInit
  BY DEF HwhProbeInit
<1>2. [HwhProbeNext]_<<probeVars, toolVars, probed>> => [ToolNext]_toolVars
  <2> SUFFICES ASSUME [HwhProbeNext]_<<probeVars, toolVars, probed>>
               PROVE  [ToolNext]_toolVars
    OBVIOUS
  <2>1. CASE RunTool
    BY <2>1 DEF RunTool
  <2>2. ASSUME NEW x \in DOMAIN muxes, Load(muxes[x]) PROVE UNCHANGED toolVars
    BY <2>2 DEF Load, toolVars
  <2>3. CASE Probe
    BY <2>3 DEF Probe
  <2>4. CASE UNCHANGED <<probeVars, toolVars, probed>>
    BY <2>4
  <2>5. QED
    BY <2>1, <2>2, <2>3, <2>4 DEF HwhProbeNext
<1>3. QED
  BY <1>1, <1>2, PTL DEF HwhProbeSpec, ToolSpec

\* The driver takes every tree that the tool writes, for any design, naming
\* file and number of pins that the hand-off's fit in: a probe of one fails
\* for want of memory or not at all.
THEOREM EmittedTaken == HwhProbeSpec => [](pc = "failed" => ret = "ENOMEM")
<1>1. ProbedInv => (pc = "failed" => ret = "ENOMEM")
  BY DEF ProbedInv, LoadedInv, AcceptInv, Accepted
<1>2. QED
  BY <1>1, ProbedInvariant, PTL

\* Where no allocation fails, no probe of the tool's output does.
THEOREM EmittedAccepted ==
  ASSUME ~AllocMayFail
  PROVE  HwhProbeSpec => []EmittedProbes
<1>1. ProbedInv => EmittedProbes
  BY DEF ProbedInv, LoadedInv, AcceptInv, Accepted, EmittedProbes
<1>2. QED
  BY <1>1, ProbedInvariant, PTL

\* Each name that the tool gives to an alternate of a pin selects in the driver
\* the first alternate of this pin with the name, and nothing else, whatever
\* the gaps between the alternates that are connected (FunctionNames, and
\* aximux_build_default_groups).
THEOREM NamesSelect == HwhProbeSpec => []NamesSelectAlternates
<1>1. ProbedInv => NamesSelectAlternates
  <2> SUFFICES ASSUME ProbedInv, pc = "ready",
                      NEW p \in PinsOf(probed), NEW a \in 0..MaxAlt(probed, p)
               PROVE  \E b \in 0..a :
                        /\ FnFor(probed, p, b, naming) = FnFor(probed, p, a, naming)
                        /\ Programs(FnFor(probed, p, a, naming), PinName[p]) = {<<p, b>>}
    BY DEF NamesSelectAlternates
  <2>1. /\ ParseInv /\ NodesInv /\ CoverInv
        /\ ProbeInv /\ AcceptInv /\ Match /\ OfTree /\ AltsRead
    BY DEF ProbedInv, ToolInv, LoadedInv
  <2>2. PICK i \in DOMAIN muxes : \E n \in HwPins :
               probed = muxes[i] /\ ctl = ControllerOf(probed, n)
    BY <2>1 DEF OfTree
  <2>3. PICK n \in HwPins : probed = muxes[i] /\ ctl = ControllerOf(probed, n)
    BY <2>2
  <2>4. design \in Designs /\ design # None /\ probed \in ParsedMuxes(design)
    <3>1. design \in Designs /\ design # None /\ muxes = ParseMuxes(design)
      BY <2>1 DEF ParseInv
    <3>2. QED
      BY <2>3, <3>1, MuxesParsed
  <2>5. PinsOf(probed) \subseteq Nat /\ MaxAlt(probed, p) \in Nat
    BY <2>4, PinNumbers, LastAlternate
  <2>6. PinsIn(nodes, probed)
    BY <2>1, <2>3 DEF CoverInv, Written, Late, OfTree
  <2>7. PICK x \in PinChildren(ctl) : /\ ctl.children[x].reg = p
                                     /\ ctl.children[x].funcs = FunctionNames(probed, p)
    BY <2>1, <2>3, <2>5, <2>6, PinsOfController
  <2> DEFINE fs == FunctionNames(probed, p)
  <2>8. /\ DOMAIN fs = 1..(MaxAlt(probed, p) + 1)
        /\ \A y \in DOMAIN fs : fs[y] = FnFor(probed, p, y - 1, naming)
    BY DEF FunctionNames
  <2>9. fs # Absent
    <3>1. \A q \in 0..MaxAlt(probed, p) : FnFor(probed, p, q, naming) \in Names
      <4>1. naming \in Namings /\ naming # None
        BY <2>1 DEF ParseInv, OfTree
      <4>2. QED
        BY <2>4, <4>1, NamesOfMux
    <3> HIDE DEF fs
    <3>2. \A y \in DOMAIN fs : fs[y] \in Names
      BY <2>5, <2>8, <3>1
    <3>3. fs = [y \in DOMAIN fs |-> fs[y]]
      BY DEF fs, FunctionNames
    <3>4. fs \in [1..(MaxAlt(probed, p) + 1) -> Names]
      BY <2>8, <3>2, <3>3
    <3>5. fs \in Seq(Names)
      BY <2>5, <3>4
    <3>6. QED
      BY <3>5, ProbeAssumption
  <2> HIDE DEF fs
  <2>10. a + 1 \in DOMAIN fs /\ fs[a + 1] = FnFor(probed, p, a, naming)
    BY <2>5, <2>8
  <2>15. nalts \in Nat /\ (a + 1) - 1 <= nalts
    <3>1. nalts = AXIMUX_MAX_ALTS
      BY <2>1 DEF AltsRead
    <3>2. PICK s \in DOMAIN probed.slots : s[2] = MaxAlt(probed, p)
      BY <2>4, LastAlternate
    <3>3. MaxAlt(probed, p) <= AXIMUX_MAX_ALTS
      BY <2>1, <3>2 DEF OfTree
    <3>4. QED
      BY <2>5, <3>1, <3>3, Limits
  <2>11. PICK b \in 1..(a + 1) :
           /\ fs[b] = fs[a + 1] /\ Programs(fs[a + 1], PinName[p]) = {<<p, b - 1>>}
    <3>1. a + 1 \in DOMAIN ctl.children[x].funcs /\ ctl.children[x].funcs # Absent
      BY <2>7, <2>9, <2>10 DEF fs
    <3>2. \E b \in 1..(a + 1) :
            /\ ctl.children[x].funcs[b] = ctl.children[x].funcs[a + 1]
            /\ Programs(ctl.children[x].funcs[a + 1], PinName[ctl.children[x].reg])
                 = {<<ctl.children[x].reg, b - 1>>}
      BY <2>1, <2>15, <3>1, NameSelects
    <3>3. QED
      BY <2>7, <3>2 DEF fs
  <2>12. b - 1 \in 0..a /\ b \in DOMAIN fs
    BY <2>5, <2>8
  <2>13. FnFor(probed, p, b - 1, naming) = FnFor(probed, p, a, naming)
    BY <2>8, <2>10, <2>11, <2>12
  <2>14. QED
    BY <2>10, <2>11, <2>12, <2>13
<1>2. QED
  BY <1>1, ProbedInvariant, PTL

\* The state of a consumer, in the tables of the probed driver, is that of the
\* nets: where labels are apart and a group is of one consumer, it leaves every
\* pin with alternates on nets of the consumer on the highest of them, and
\* writes no other pin; a mux that the state is not for has no alternate of the
\* consumer (from the hand-off over the files of hwh_aximux_dt.py to
\* aximux_probe's tables and the writes of aximux_set_mux).
THEOREM NetsReachRegisters ==
  HwhProbeSpec =>
    [](Apart(design, naming) /\ Direct(design) /\ Coherent(design, naming)
         => ConsumerGetsItsNets)
<1>1. ProbedInv => (Apart(design, naming) /\ Direct(design) /\ Coherent(design, naming)
                      => ConsumerGetsItsNets)
  <2> SUFFICES ASSUME ProbedInv, Apart(design, naming), Direct(design),
                      Coherent(design, naming), pc = "ready",
                      NEW cons \in DOMAIN wiring
               PROVE  LET mine == AlternatesFor(probed, cons)
                          here == {n \in Labelled(wiring[cons]) : nodes[n].ctl = probed.instance}
                      IN /\ \A n \in here :
                              Programs(nodes[n].child.fn, nodes[n].child.name) = Highest(mine)
                         /\ here = {} => mine = {}
    BY DEF ConsumerGetsItsNets
  <2>1. /\ ParseInv /\ NodesInv /\ TreesInv /\ CoverInv /\ LabelsInv
        /\ ProbeInv /\ AcceptInv /\ Match /\ WellFormed(ctl) /\ OfTree /\ AltsRead
    BY DEF ProbedInv, ToolInv, LoadedInv
  <2>2. PICK i \in DOMAIN muxes : probed = muxes[i]
    BY <2>1 DEF OfTree
  <2>3. /\ design \in Designs /\ design # None /\ muxes = ParseMuxes(design)
        /\ naming \in Namings /\ naming # None
        /\ place = "done" /\ option.style = "pinctrl2"
    BY <2>1 DEF ParseInv, OfTree
  <2>4. probed \in ParsedMuxes(design)
    BY <2>2, <2>3, MuxesParsed
  <2>5. ASSUME NEW z \in Labelled(wiring[cons]), nodes[z].ctl = probed.instance
        PROVE  Programs(nodes[z].child.fn, nodes[z].child.name)
                 = Highest(AlternatesFor(probed, cons))
    <3>0. PICK m \in ParsedMuxes(design) : \E h :
            /\ Titled(m, h, h) /\ nodes[z] = GroupNode(m, h, h)
            /\ cons \in ConsumersOf(m, h, naming)
      BY <2>1, <2>3, WiredNode
    <3>1. PICK g : /\ Titled(m, g, g) /\ nodes[z] = GroupNode(m, g, g)
                   /\ cons \in ConsumersOf(m, g, naming)
      BY <3>0
    <3>2. m = probed
      BY <2>3, <2>4, <2>5, <3>1, GroupNodeFields, InstancesDiffer
    <3>3. Programs(nodes[z].child.fn, nodes[z].child.name) = Highest(InGroup(probed, g, naming))
      BY <2>1, <3>1, <3>2, GroupNodeSelects DEF Labelled
    <3>4. QED
      BY <2>3, <2>4, <3>1, <3>2, <3>3, GroupIsNets
  <2>6. ASSUME AlternatesFor(probed, cons) # {}
        PROVE  \E z \in Labelled(wiring[cons]) : nodes[z].ctl = probed.instance
    <3>1. PICK z : z \in Labelled(wiring[cons])
      BY <2>1 DEF NodesInv
    <3>0. PICK m \in ParsedMuxes(design) : \E h :
            /\ Titled(m, h, h) /\ nodes[z] = GroupNode(m, h, h)
            /\ cons \in ConsumersOf(m, h, naming)
      BY <2>1, <2>3, <3>1, WiredNode
    <3>2. PICK g : /\ Titled(m, g, g) /\ nodes[z] = GroupNode(m, g, g)
                   /\ cons \in ConsumersOf(m, g, naming)
      BY <3>0
    <3>3. g \in GroupNames(probed, naming) /\ g \in GroupNames(m, naming)
      BY <2>3, <2>4, <2>6, <3>2, GroupIsNets DEF Titled
    <3>4. m = probed
      BY <2>4, <3>3 DEF Apart
    <3>5. QED
      BY <3>1, <3>2, <3>4, GroupNodeFields
  <2>7. QED
    BY <2>5, <2>6
<1>2. QED
  BY <1>1, ProbedInvariant, PTL
=============================================================================
