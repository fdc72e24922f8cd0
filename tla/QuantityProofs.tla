--------------------------- MODULE QuantityProofs ---------------------------
(***************************************************************************)
(* Proofs about quantities that have to add up.  The first part proves     *)
(* what the sum of a function over a finite set is, and what the rows of a *)
(* file that are new are; the second is about Receiving for any lines,     *)
(* order forms, files and requests; the third about the buffers of a       *)
(* Calculation for any items, settings, book and orders.                   *)
(***************************************************************************)
EXTENDS Receiving, Calculation, FiniteSetTheorems, TLAPS

Pick(s) == CHOOSE x \in s : TRUE
Sums(f, T, g) == g = [s \in T |-> IF s = {} THEN 0 ELSE f[Pick(s)] + g[s \ {Pick(s)}]]

Table(f, T, g) == Sums(f, SUBSET T, g)
IntsOn(f, T) == \A x \in T : f[x] \in Int

LEMMA PickIn == ASSUME NEW s, s # {} PROVE Pick(s) \in s
BY DEF Pick

LEMMA SmallestSet ==
  ASSUME NEW D, IsFiniteSet(D), NEW B \in SUBSET (SUBSET D), B # {}
  PROVE  \E T \in B : \A U \in B : U \subseteq T => U = T
<1>1. B \subseteq FiniteSubsetsOf(D)
  BY FS_FiniteSubsetsOfFinite
<1>2. PICK T \in B : \A U \in B : ~(<<U, T>> \in StrictSubsetOrdering(D))
  BY <1>1, FS_StrictSubsetOrderingWellFounded, WFMin
<1>3. ASSUME NEW U \in B, U \subseteq T, U # T PROVE FALSE
  <2>1. <<U, T>> \in (SUBSET D) \X (SUBSET D)
    OBVIOUS
  <2>2. <<U, T>> \in StrictSubsetOrdering(D)
    BY <2>1, <1>3 DEF StrictSubsetOrdering
  <2> QED
    BY <1>2, <2>2
<1> QED
  BY <1>3

LEMMA SumsExist ==
  ASSUME NEW D, IsFiniteSet(D), NEW f
  PROVE  \E g : Sums(f, SUBSET D, g)
<1> DEFINE Closed(F) == \A s \in F : s # {} => s \ {Pick(s)} \in F
           A == {F \in SUBSET (SUBSET D) : Closed(F) /\ \E g : Sums(f, F, g)}
           B == {(SUBSET D) \ F : F \in A}
<1>1. IsFiniteSet(SUBSET D)
  BY FS_SUBSET
<1>2. {} \in A
  <2>1. Sums(f, {}, [s \in {} |-> 0])
    BY DEF Sums
  <2> QED
    BY <2>1
<1>3. B \in SUBSET (SUBSET (SUBSET D)) /\ B # {}
  <2>1. (SUBSET D) \ {} \in B
    BY <1>2
  <2>2. \A U \in B : U \in SUBSET (SUBSET D)
    OBVIOUS
  <2> HIDE DEF B
  <2> QED
    BY <2>1, <2>2
<1>4. PICK R \in B : \A U \in B : U \subseteq R => U = R
  <2> HIDE DEF B
  <2> QED
    BY <1>1, <1>3, SmallestSet
<1>5. PICK F \in A : R = (SUBSET D) \ F
  OBVIOUS
<1>6. PICK g : Sums(f, F, g)
  BY <1>5
<1>7. F \subseteq SUBSET D /\ Closed(F)
  BY <1>5
<1>8. SUFFICES ASSUME F # SUBSET D PROVE FALSE
  BY <1>6
<1>9. R \in SUBSET (SUBSET D) /\ R # {}
  BY <1>5, <1>7, <1>8
<1>10. PICK t \in R : \A U \in R : U \subseteq t => U = t
  BY <1>9, SmallestSet
<1>11. t \in SUBSET D /\ t \notin F
  BY <1>9, <1>10, <1>5
<1>12. t # {} => t \ {Pick(t)} \in F
  <2> SUFFICES ASSUME t # {}, t \ {Pick(t)} \notin F PROVE FALSE
    OBVIOUS
  <2>1. Pick(t) \in t
    BY PickIn
  <2>2. t \ {Pick(t)} \in R
    BY <1>5, <1>11
  <2> QED
    BY <2>1, <2>2, <1>10
<1> DEFINE h == [s \in F \cup {t} |->
                   IF s = t THEN IF t = {} THEN 0 ELSE f[Pick(t)] + g[t \ {Pick(t)}] ELSE g[s]]
<1>13. ASSUME NEW s \in F PROVE /\ h[s] = g[s]
                               /\ g[s] = IF s = {} THEN 0 ELSE f[Pick(s)] + g[s \ {Pick(s)}]
  BY <1>6, <1>11, <1>13 DEF Sums
<1>14. \A s \in F \cup {t} : h[s] = IF s = {} THEN 0 ELSE f[Pick(s)] + h[s \ {Pick(s)}]
  <2> TAKE s \in F \cup {t}
  <2>1. CASE s \in F
    BY <2>1, <1>13, <1>7
  <2>2. CASE s = t
    <3>1. h[t] = IF t = {} THEN 0 ELSE f[Pick(t)] + g[t \ {Pick(t)}]
      OBVIOUS
    <3> QED
      BY <2>2, <3>1, <1>12, <1>13
  <2> QED
    BY <2>1, <2>2
<1>15. Sums(f, F \cup {t}, h)
  <2>1. h = [s \in F \cup {t} |-> h[s]]
    OBVIOUS
  <2> HIDE DEF h
  <2> QED
    BY <2>1, <1>14 DEF Sums
<1>16. F \cup {t} \in A
  <2>1. Closed(F \cup {t})
    BY <1>7, <1>12
  <2>2. F \cup {t} \in SUBSET (SUBSET D)
    BY <1>7, <1>11
  <2> HIDE DEF h, Closed
  <2> QED
    BY <2>1, <2>2, <1>15
<1>17. (SUBSET D) \ (F \cup {t}) \in B
  BY <1>16
<1>18. (SUBSET D) \ (F \cup {t}) \subseteq R /\ t \in R /\ t \notin (SUBSET D) \ (F \cup {t})
  BY <1>5, <1>10
<1> QED
  BY <1>4, <1>17, <1>18

LEMMA SumIsTable ==
  ASSUME NEW f, NEW T, IsFiniteSet(T)
  PROVE  \E g : Table(f, T, g) /\ SumFunctionOnSet(f, T) = g[T]
<1> DEFINE iter[s \in SUBSET T] == IF s = {} THEN 0 ELSE f[Pick(s)] + iter[s \ {Pick(s)}]
<1>1. SumFunctionOnSet(f, T) = iter[T]
  BY DEF SumFunctionOnSet, FoldFunctionOnSet, MapThenFoldSet, Pick
<1>2. Table(f, T, iter)
  <2>1. \E g : Sums(f, SUBSET T, g)
    BY SumsExist
  <2> QED
    BY <2>1 DEF Sums, Table, iter
<1> QED
  BY <1>1, <1>2

LEMMA TablesAgree ==
  ASSUME NEW D, IsFiniteSet(D), NEW E, E \subseteq D, NEW f, NEW g, NEW h, NEW k,
         Table(f, D, g), Table(h, E, k), \A x \in E : f[x] = h[x]
  PROVE  g[E] = k[E]
<1> DEFINE B == {s \in SUBSET E : g[s] # k[s]}
<1> SUFFICES ASSUME B # {} PROVE FALSE
  BY E \in SUBSET E
<1>1. PICK s \in B : \A u \in B : u \subseteq s => u = s
  <2>1. IsFiniteSet(E)
    BY FS_Subset
  <2>2. B \in SUBSET (SUBSET E)
    OBVIOUS
  <2> HIDE DEF B
  <2> QED
    BY <2>1, <2>2, SmallestSet
<1>2. s \in SUBSET E /\ s \in SUBSET D /\ g[s] # k[s]
  OBVIOUS
<1>3. g[s] = IF s = {} THEN 0 ELSE f[Pick(s)] + g[s \ {Pick(s)}]
  BY <1>2 DEF Sums, Table
<1>4. k[s] = IF s = {} THEN 0 ELSE h[Pick(s)] + k[s \ {Pick(s)}]
  BY <1>2 DEF Sums, Table
<1>5. s # {} /\ Pick(s) \in s
  BY <1>2, <1>3, <1>4, PickIn
<1>6. s \ {Pick(s)} \notin B
  BY <1>1, <1>5
<1>7. g[s \ {Pick(s)}] = k[s \ {Pick(s)}]
  BY <1>2, <1>6
<1> QED
  BY <1>2, <1>3, <1>4, <1>5, <1>7

LEMMA TableAdds ==
  ASSUME NEW D, IsFiniteSet(D), NEW f, NEW g, Table(f, D, g), IntsOn(f, D)
  PROVE  g[D] \in Int /\ \A x \in D : g[D] = f[x] + g[D \ {x}]
<1> DEFINE Good(s) == g[s] \in Int /\ \A x \in s : g[s] = f[x] + g[s \ {x}]
           B == {s \in SUBSET D : ~Good(s)}
<1> SUFFICES ASSUME B # {} PROVE FALSE
  BY D \in SUBSET D
<1>1. PICK s \in B : \A u \in B : u \subseteq s => u = s
  <2>2. B \in SUBSET (SUBSET D)
    OBVIOUS
  <2> HIDE DEF B
  <2> QED
    BY <2>2, SmallestSet
<1>2. s \in SUBSET D /\ ~Good(s)
  OBVIOUS
<1>3. ASSUME NEW u \in SUBSET s, u # s PROVE Good(u)
  BY <1>1, <1>2, <1>3
<1>4. g[s] = IF s = {} THEN 0 ELSE f[Pick(s)] + g[s \ {Pick(s)}]
  BY <1>2 DEF Sums, Table
<1>5. s # {}
  BY <1>2, <1>4
<1>6. PICK p \in s : p = Pick(s)
  BY <1>5, PickIn
<1>7. Good(s \ {p}) /\ f[p] \in Int /\ g[s] = f[p] + g[s \ {p}]
  BY <1>2, <1>3, <1>4, <1>5, <1>6 DEF IntsOn
<1>8. ASSUME NEW x \in s PROVE g[s] = f[x] + g[s \ {x}]
  <2>1. CASE x = p
    BY <2>1, <1>7
  <2>2. CASE x # p
    <3>1. Good(s \ {x}) /\ Good((s \ {p}) \ {x})
      BY <1>3
    <3>2. x \in s \ {p} /\ p \in s \ {x} /\ (s \ {p}) \ {x} = (s \ {x}) \ {p}
      BY <2>2
    <3>3. g[s \ {p}] = f[x] + g[(s \ {p}) \ {x}] /\ g[s \ {x}] = f[p] + g[(s \ {p}) \ {x}]
      BY <3>1, <3>2, <1>7
    <3>4. f[x] \in Int /\ g[(s \ {p}) \ {x}] \in Int
      BY <3>1, <1>2 DEF IntsOn
    <3> QED
      BY <1>7, <3>3, <3>4
  <2> QED
    BY <2>1, <2>2
<1>9. g[s] \in Int
  BY <1>7
<1> QED
  BY <1>2, <1>8, <1>9

LEMMA SumAgrees ==
  ASSUME NEW f, NEW h, NEW T, IsFiniteSet(T), \A x \in T : f[x] = h[x]
  PROVE  SumFunctionOnSet(f, T) = SumFunctionOnSet(h, T)
<1>1. PICK g : Table(f, T, g) /\ SumFunctionOnSet(f, T) = g[T]
  BY SumIsTable
<1>2. PICK k : Table(h, T, k) /\ SumFunctionOnSet(h, T) = k[T]
  BY SumIsTable
<1>3. g[T] = k[T]
  BY <1>1, <1>2, TablesAgree
<1> QED
  BY <1>1, <1>2, <1>3

LEMMA SumOfNone == ASSUME NEW f PROVE SumFunctionOnSet(f, {}) = 0
<1>1. PICK g : Table(f, {}, g) /\ SumFunctionOnSet(f, {}) = g[{}]
  BY SumIsTable, FS_EmptySet
<1> QED
  BY <1>1 DEF Sums, Table

LEMMA SumAdds ==
  ASSUME NEW f, NEW T, IsFiniteSet(T), IntsOn(f, T)
  PROVE  /\ SumFunctionOnSet(f, T) \in Int
         /\ \A x \in T : SumFunctionOnSet(f, T) = f[x] + SumFunctionOnSet(f, T \ {x})
<1>1. PICK g : Table(f, T, g) /\ SumFunctionOnSet(f, T) = g[T]
  BY SumIsTable
<1>2. g[T] \in Int /\ \A x \in T : g[T] = f[x] + g[T \ {x}]
  BY <1>1, TableAdds
<1>3. ASSUME NEW x \in T PROVE SumFunctionOnSet(f, T \ {x}) = g[T \ {x}]
  <2>1. PICK E : E \subseteq T /\ E = T \ {x}
    OBVIOUS
  <2>4. IsFiniteSet(E)
    BY <2>1, FS_Subset
  <2>2. PICK k : Table(f, E, k) /\ SumFunctionOnSet(f, E) = k[E]
    BY <2>4, SumIsTable
  <2>3. g[E] = k[E]
    BY <1>1, <2>1, <2>2, TablesAgree
  <2> QED
    BY <2>1, <2>2, <2>3
<1> QED
  BY <1>1, <1>2, <1>3

Image(e, E) == {e[k] : k \in E}

\* Outside D, f is g with its arguments renamed by e.
Continues(f, g, D, E, e) ==
  /\ \A k \in E : e[k] \notin D /\ f[e[k]] = g[k]
  /\ \A j, k \in E : e[j] = e[k] => j = k

LEMMA SumExtends ==
  ASSUME NEW f, NEW g, NEW D, IsFiniteSet(D), NEW E, IsFiniteSet(E), NEW e,
         IntsOn(f, D), IntsOn(g, E), Continues(f, g, D, E, e)
  PROVE  SumFunctionOnSet(f, D \cup Image(e, E)) = SumFunctionOnSet(f, D) + SumFunctionOnSet(g, E)
<1> DEFINE Both(U) == D \cup Image(e, U)
           B == {U \in SUBSET E : SumFunctionOnSet(f, Both(U))
                                     # SumFunctionOnSet(f, D) + SumFunctionOnSet(g, U)}
<1> SUFFICES ASSUME B # {} PROVE FALSE
  BY E \in SUBSET E
<1>1. PICK U \in B : \A V \in B : V \subseteq U => V = U
  <2>1. B \in SUBSET (SUBSET E)
    OBVIOUS
  <2> HIDE DEF B
  <2> QED
    BY <2>1, SmallestSet
<1>2. U \in SUBSET E /\ IsFiniteSet(U)
  BY FS_Subset
<1>3. SumFunctionOnSet(f, Both(U)) # SumFunctionOnSet(f, D) + SumFunctionOnSet(g, U)
  OBVIOUS
<1>4. U # {}
  <2> SUFFICES ASSUME U = {} PROVE FALSE
    OBVIOUS
  <2>1. Both(U) = D
    BY DEF Image
  <2>2. SumFunctionOnSet(g, U) = 0 /\ SumFunctionOnSet(f, D) \in Int
    BY SumOfNone, SumAdds
  <2> HIDE DEF Both
  <2> QED
    BY <1>3, <2>1, <2>2
<1>5. PICK k \in U : TRUE
  BY <1>4
<1>6. PICK V : V = U \ {k} /\ V \in SUBSET E /\ V \notin B
  <2>1. U \ {k} # U /\ U \ {k} \subseteq U /\ U \ {k} \in SUBSET E
    BY <1>2, <1>5
  <2> HIDE DEF B
  <2> QED
    BY <1>1, <2>1
<1>7. SumFunctionOnSet(f, Both(V)) = SumFunctionOnSet(f, D) + SumFunctionOnSet(g, V)
  BY <1>6
<1>8. IsFiniteSet(Both(U)) /\ IntsOn(f, Both(U)) /\ e[k] \in Both(U) /\ Both(U) \ {e[k]} = Both(V)
  <2>1. IsFiniteSet(Image(e, U))
    <3> DEFINE h == [j \in U |-> e[j]]
    <3>1. h \in Surjection(U, Image(e, U))
      BY DEF Surjection, Image
    <3> HIDE DEF h
    <3> QED
      BY <1>2, <3>1, FS_Surjection
  <2>2. IsFiniteSet(Both(U))
    BY <2>1, FS_Union
  <2>3. IntsOn(f, Both(U))
    BY <1>2 DEF IntsOn, Continues, Image
  <2>4. e[k] \in Both(U)
    BY <1>5 DEF Image
  <2>5. Both(U) \ {e[k]} = Both(V)
    BY <1>2, <1>5, <1>6 DEF Continues, Image
  <2> QED
    BY <2>2, <2>3, <2>4, <2>5
<1>9. SumFunctionOnSet(f, Both(U)) = f[e[k]] + SumFunctionOnSet(f, Both(V))
  <2> HIDE DEF Both
  <2> QED
    BY <1>8, SumAdds
<1>10. SumFunctionOnSet(g, U) = g[k] + SumFunctionOnSet(g, V)
  <2>1. IntsOn(g, U)
    BY <1>2 DEF IntsOn
  <2> QED
    BY <1>2, <1>5, <1>6, <2>1, SumAdds
<1>11. /\ SumFunctionOnSet(f, D) \in Int /\ SumFunctionOnSet(g, V) \in Int
       /\ f[e[k]] = g[k] /\ g[k] \in Int
  <2>1. IntsOn(g, V) /\ IsFiniteSet(V)
    BY <1>6, FS_Subset DEF IntsOn
  <2>2. g[k] \in Int /\ f[e[k]] = g[k]
    BY <1>2, <1>5 DEF IntsOn, Continues
  <2> QED
    BY <2>1, <2>2, SumAdds
<1> HIDE DEF Both, B
<1> QED
  BY <1>3, <1>7, <1>9, <1>10, <1>11

LEMMA SumNotNegative ==
  ASSUME NEW f, NEW T, IsFiniteSet(T), \A x \in T : f[x] \in Nat
  PROVE  SumFunctionOnSet(f, T) \in Nat
<1> DEFINE B == {U \in SUBSET T : SumFunctionOnSet(f, U) \notin Nat}
<1> SUFFICES ASSUME B # {} PROVE FALSE
  BY T \in SUBSET T
<1>1. PICK U \in B : \A V \in B : V \subseteq U => V = U
  <2>1. B \in SUBSET (SUBSET T)
    OBVIOUS
  <2> HIDE DEF B
  <2> QED
    BY <2>1, SmallestSet
<1>2. U \in SUBSET T /\ IsFiniteSet(U) /\ SumFunctionOnSet(f, U) \notin Nat
  BY FS_Subset
<1>3. PICK x \in U : TRUE
  BY <1>2, SumOfNone
<1>4. PICK V : V = U \ {x} /\ V \in SUBSET T /\ V \notin B
  <2>1. U \ {x} # U /\ U \ {x} \subseteq U /\ U \ {x} \in SUBSET T
    BY <1>2, <1>3
  <2> HIDE DEF B
  <2> QED
    BY <1>1, <2>1
<1>5. SumFunctionOnSet(f, V) \in Nat
  BY <1>4
<1>6. SumFunctionOnSet(f, U) = f[x] + SumFunctionOnSet(f, V)
  <2>1. IntsOn(f, U)
    BY <1>2 DEF IntsOn
  <2> QED
    BY <1>2, <1>3, <1>4, <2>1, SumAdds
<1>7. f[x] \in Nat
  BY <1>2, <1>3
<1> HIDE DEF B
<1> QED
  BY <1>2, <1>5, <1>6, <1>7

\* Two functions that differ in one place.
LEMMA SumChange ==
  ASSUME NEW f, NEW g, NEW D, IsFiniteSet(D), IntsOn(f, D), IntsOn(g, D), NEW x \in D,
         \A y \in D \ {x} : f[y] = g[y]
  PROVE  SumFunctionOnSet(g, D) = SumFunctionOnSet(f, D) - f[x] + g[x]
<1>1. SumFunctionOnSet(f, D) = f[x] + SumFunctionOnSet(f, D \ {x})
  BY SumAdds
<1>2. SumFunctionOnSet(g, D) = g[x] + SumFunctionOnSet(g, D \ {x})
  BY SumAdds
<1>3. PICK E : E = D \ {x} /\ IsFiniteSet(E)
  BY FS_Subset
<1>4. SumFunctionOnSet(f, E) = SumFunctionOnSet(g, E)
  BY <1>3, SumAgrees
<1>5. f[x] \in Int /\ g[x] \in Int
  BY DEF IntsOn
<1>6. SumFunctionOnSet(f, E) \in Int
  <2>1. IntsOn(f, E)
    BY <1>3 DEF IntsOn
  <2> QED
    BY <1>3, <2>1, SumAdds
<1> QED
  BY <1>1, <1>2, <1>3, <1>4, <1>5, <1>6

LEMMA SumOfZeros ==
  ASSUME NEW f, NEW T, IsFiniteSet(T), f = [x \in T |-> 0]
  PROVE  SumFunctionOnSet(f, T) = 0
<1> DEFINE B == {U \in SUBSET T : SumFunctionOnSet(f, U) # 0}
<1> SUFFICES ASSUME B # {} PROVE FALSE
  BY T \in SUBSET T
<1>1. PICK U \in B : \A V \in B : V \subseteq U => V = U
  <2>1. B \in SUBSET (SUBSET T)
    OBVIOUS
  <2> HIDE DEF B
  <2> QED
    BY <2>1, SmallestSet
<1>2. U \in SUBSET T /\ IsFiniteSet(U) /\ SumFunctionOnSet(f, U) # 0
  BY FS_Subset
<1>3. PICK x \in U : TRUE
  BY <1>2, SumOfNone
<1>4. PICK V : V = U \ {x} /\ V \in SUBSET T /\ V \notin B
  <2>1. U \ {x} # U /\ U \ {x} \subseteq U /\ U \ {x} \in SUBSET T
    BY <1>2, <1>3
  <2> HIDE DEF B
  <2> QED
    BY <1>1, <2>1
<1>5. SumFunctionOnSet(f, V) = 0
  BY <1>4
<1>6. SumFunctionOnSet(f, U) = f[x] + SumFunctionOnSet(f, V)
  <2>1. IntsOn(f, U)
    BY <1>2 DEF IntsOn
  <2> QED
    BY <1>2, <1>3, <1>4, <2>1, SumAdds
<1>7. f[x] = 0
  BY <1>2, <1>3
<1> HIDE DEF B
<1> QED
  BY <1>2, <1>5, <1>6, <1>7

Quantified(rows) == \A k \in DOMAIN rows : rows[k].quantity \in Int

LEMMA TotalIsSum ==
  ASSUME NEW R, NEW rows \in Seq(R)
  PROVE  \E f : /\ Total(rows) = SumFunctionOnSet(f, 1 .. Len(rows))
                /\ f = [k \in 1 .. Len(rows) |-> rows[k].quantity]
<1> DEFINE f == [k \in 1 .. Len(rows) |-> rows[k].quantity]
<1>1. DOMAIN rows = 1 .. Len(rows)
  OBVIOUS
<1>2. Total(rows) = SumFunction(f)
  BY <1>1 DEF Total
<1>3. SumFunction(f) = SumFunctionOnSet(f, 1 .. Len(rows))
  BY DEF SumFunction
<1> QED
  BY <1>2, <1>3

LEMMA TotalConcat ==
  ASSUME NEW R, NEW s \in Seq(R), NEW t \in Seq(R), Quantified(s), Quantified(t)
  PROVE  /\ Total(s) \in Int /\ Total(t) \in Int
         /\ Total(s \o t) = Total(s) + Total(t)
<1>1. PICK f : /\ Total(s) = SumFunctionOnSet(f, 1 .. Len(s))
               /\ f = [k \in 1 .. Len(s) |-> s[k].quantity]
  BY TotalIsSum
<1>2. PICK g : /\ Total(t) = SumFunctionOnSet(g, 1 .. Len(t))
               /\ g = [k \in 1 .. Len(t) |-> t[k].quantity]
  BY TotalIsSum
<1>3. s \o t \in Seq(R) /\ Len(s \o t) = Len(s) + Len(t) /\ Len(s) \in Nat /\ Len(t) \in Nat
  OBVIOUS
<1>4. PICK h : /\ Total(s \o t) = SumFunctionOnSet(h, 1 .. Len(s \o t))
               /\ h = [k \in 1 .. Len(s \o t) |-> (s \o t)[k].quantity]
  BY <1>3, TotalIsSum
<1>5. \A k \in 1 .. Len(s) : h[k] = f[k] /\ f[k] \in Int
  BY <1>1, <1>3, <1>4 DEF Quantified
<1>6. \A k \in 1 .. Len(t) : h[Len(s) + k] = g[k] /\ g[k] \in Int
  BY <1>2, <1>3, <1>4 DEF Quantified
<1>7. PICK D, E, e : D = 1 .. Len(s) /\ E = 1 .. Len(t) /\ e = [k \in E |-> Len(s) + k]
  OBVIOUS
<1>8. IsFiniteSet(D) /\ IsFiniteSet(E) /\ 1 .. Len(s \o t) = D \cup Image(e, E)
  <2>1. IsFiniteSet(D) /\ IsFiniteSet(E)
    BY <1>3, <1>7, FS_Interval
  <2>2. ASSUME NEW n \in 1 .. Len(s \o t), n \notin D PROVE n \in Image(e, E)
    <3>1. n - Len(s) \in E /\ n = e[n - Len(s)]
      BY <1>3, <1>7, <2>2
    <3> QED
      BY <3>1 DEF Image
  <2>3. D \cup Image(e, E) \subseteq 1 .. Len(s \o t)
    BY <1>3, <1>7 DEF Image
  <2> QED
    BY <2>1, <2>2, <2>3
<1>9. IntsOn(h, D) /\ IntsOn(g, E)
  BY <1>5, <1>6, <1>7 DEF IntsOn
<1>10. Continues(h, g, D, E, e)
  BY <1>3, <1>6, <1>7 DEF Continues
<1>11. SumFunctionOnSet(h, D \cup Image(e, E)) = SumFunctionOnSet(h, D) + SumFunctionOnSet(g, E)
  BY <1>8, <1>9, <1>10, SumExtends
<1>12. SumFunctionOnSet(h, D) = SumFunctionOnSet(f, D)
  <2>1. \A k \in D : h[k] = f[k]
    BY <1>5, <1>7
  <2> QED
    BY <1>8, <2>1, SumAgrees
<1>13. SumFunctionOnSet(h, D) \in Int /\ SumFunctionOnSet(g, E) \in Int
  BY <1>8, <1>9, SumAdds
<1> QED
  BY <1>1, <1>2, <1>4, <1>7, <1>8, <1>11, <1>12, <1>13

LEMMA TotalNotNegative ==
  ASSUME NEW R, NEW rows \in Seq(R), \A k \in DOMAIN rows : rows[k].quantity \in Nat
  PROVE  Total(rows) \in Nat
<1>1. PICK f : /\ Total(rows) = SumFunctionOnSet(f, 1 .. Len(rows))
               /\ f = [k \in 1 .. Len(rows) |-> rows[k].quantity]
  BY TotalIsSum
<1>2. \A k \in 1 .. Len(rows) : f[k] \in Nat
  BY <1>1
<1>3. IsFiniteSet(1 .. Len(rows))
  <2>1. 1 \in Int /\ Len(rows) \in Int
    OBVIOUS
  <2> QED
    BY <2>1, FS_Interval
<1> QED
  BY <1>1, <1>2, <1>3, SumNotNegative

LEMMA TotalOfNone == Total(<< >>) = 0
<1>1. PICK f : Total(<< >>) = SumFunctionOnSet(f, 1 .. Len(<< >>))
  <2>1. << >> \in Seq(Nat)
    OBVIOUS
  <2> QED
    BY <2>1, TotalIsSum
<1>2. 1 .. Len(<< >>) = {}
  OBVIOUS
<1> QED
  BY <1>1, <1>2, SumOfNone

LEMMA TotalOfOne ==
  ASSUME NEW entry, entry.quantity \in Int
  PROVE  Total(<<entry>>) = entry.quantity
<1>1. PICK f : /\ Total(<<entry>>) = SumFunctionOnSet(f, 1 .. Len(<<entry>>))
               /\ f = [k \in 1 .. Len(<<entry>>) |-> <<entry>>[k].quantity]
  <2>1. <<entry>> \in Seq({entry})
    OBVIOUS
  <2> QED
    BY <2>1, TotalIsSum
<1>2. 1 .. Len(<<entry>>) = {1} /\ f[1] = entry.quantity
  BY <1>1
<1>3. IsFiniteSet({1}) /\ IntsOn(f, {1}) /\ {1} \ {1} = {}
  BY <1>2, FS_Singleton DEF IntsOn
<1>4. SumFunctionOnSet(f, {1}) = f[1] + SumFunctionOnSet(f, {1} \ {1})
  BY <1>3, SumAdds
<1> QED
  BY <1>1, <1>2, <1>3, <1>4, SumOfNone

LEMMA RefsConcat ==
  ASSUME NEW R, NEW s \in Seq(R), NEW t \in Seq(R)
  PROVE  RefsOf(s \o t) = RefsOf(s) \cup RefsOf(t)
<1>1. /\ s \o t \in Seq(R) /\ DOMAIN (s \o t) = 1 .. Len(s) + Len(t)
      /\ DOMAIN s = 1 .. Len(s) /\ DOMAIN t = 1 .. Len(t) /\ Len(s) \in Nat /\ Len(t) \in Nat
  OBVIOUS
<1>2. \A n \in 1 .. Len(s) : (s \o t)[n] = s[n]
  BY <1>1
<1>3. \A n \in 1 .. Len(t) : (s \o t)[Len(s) + n] = t[n]
  BY <1>1
<1>4. \A n \in 1 .. Len(s) + Len(t) : n \in 1 .. Len(s) \/ n - Len(s) \in 1 .. Len(t)
  BY <1>1
<1>5. \A n \in 1 .. Len(s) + Len(t) : (s \o t)[n].ref \in RefsOf(s) \cup RefsOf(t)
  <2> TAKE n \in 1 .. Len(s) + Len(t)
  <2>1. CASE n \in 1 .. Len(s)
    BY <2>1, <1>1, <1>2 DEF RefsOf
  <2>2. CASE n - Len(s) \in 1 .. Len(t)
    <3>1. (s \o t)[n] = t[n - Len(s)]
      BY <2>2, <1>1, <1>3
    <3> QED
      BY <2>2, <3>1, <1>1 DEF RefsOf
  <2> QED
    BY <2>1, <2>2, <1>4
<1>6. \A n \in 1 .. Len(s) : s[n].ref \in RefsOf(s \o t)
  <2> TAKE n \in 1 .. Len(s)
  <2>1. n \in DOMAIN (s \o t) /\ (s \o t)[n] = s[n]
    BY <1>1, <1>2
  <2> QED
    BY <2>1 DEF RefsOf
<1>7. \A n \in 1 .. Len(t) : t[n].ref \in RefsOf(s \o t)
  <2> TAKE n \in 1 .. Len(t)
  <2>1. Len(s) + n \in DOMAIN (s \o t) /\ (s \o t)[Len(s) + n] = t[n]
    BY <1>1, <1>3
  <2> QED
    BY <2>1 DEF RefsOf
<1> QED
  BY <1>1, <1>5, <1>6, <1>7 DEF RefsOf

-----------------------------------------------------------------------------
(* The rows of a file that are not posted yet.                             *)

\* What holds for 0 and goes on from each number below n holds up to n.
LEMMA UpTo ==
  ASSUME NEW n \in Nat, NEW S, 0 \in S, \A k \in 1 .. n : k - 1 \in S => k \in S
  PROVE  \A k \in 0 .. n : k \in S
<1> DEFINE B == {0 .. m : m \in (0 .. n) \ S}
<1> SUFFICES ASSUME NEW k \in 0 .. n, k \notin S PROVE FALSE
  OBVIOUS
<1>1. PICK D : B \in SUBSET (SUBSET D) /\ B # {} /\ IsFiniteSet(D)
  <2>1. 0 .. k \in B
    OBVIOUS
  <2>2. IsFiniteSet(0 .. n)
    BY FS_Interval
  <2> QED
    BY <2>1, <2>2
<1>2. PICK T \in B : \A U \in B : U \subseteq T => U = T
  <2> HIDE DEF B
  <2> QED
    BY <1>1, SmallestSet
<1>3. PICK m \in (0 .. n) \ S : T = 0 .. m
  OBVIOUS
<1>4. m # 0 /\ m - 1 \in 0 .. n
  BY <1>3
<1>5. m - 1 \notin S
  BY <1>3, <1>4
<1>6. 0 .. m - 1 \in B /\ 0 .. m - 1 \subseteq 0 .. m /\ m \notin 0 .. m - 1 /\ m \in 0 .. m
  BY <1>4, <1>5
<1> HIDE DEF B
<1> QED
  BY <1>2, <1>3, <1>6

Scan(g, rows, n) ==
  g = [k \in 0 .. n |-> IF k = 0 THEN << >>
                        ELSE IF Posted(rows[k]) THEN g[k - 1] ELSE Append(g[k - 1], rows[k])]

LEMMA ScanExists ==
  ASSUME NEW rows, NEW n \in Nat
  PROVE  \E g : Scan(g, rows, n)
<1> DEFINE S == {m \in Nat : \E g : Scan(g, rows, m)}
<1>1. 0 \in S
  <2>1. Scan([k \in 0 .. 0 |-> << >>], rows, 0)
    BY DEF Scan
  <2> QED
    BY <2>1
<1>2. ASSUME NEW m \in 1 .. n, m - 1 \in S PROVE m \in S
  <2>1. PICK g : Scan(g, rows, m - 1)
    BY <1>2
  <2> DEFINE h == [k \in 0 .. m |->
                     IF k = m THEN IF Posted(rows[m]) THEN g[m - 1] ELSE Append(g[m - 1], rows[m])
                     ELSE g[k]]
  <2>2. ASSUME NEW k \in 0 .. m
        PROVE  h[k] = IF k = 0 THEN << >>
                      ELSE IF Posted(rows[k]) THEN h[k - 1] ELSE Append(h[k - 1], rows[k])
    <3>1. CASE k = m
      <4>1. h[k] = IF Posted(rows[m]) THEN g[m - 1] ELSE Append(g[m - 1], rows[m])
        BY <3>1
      <4>2. h[m - 1] = g[m - 1] /\ k # 0
        BY <3>1
      <4> QED
        BY <3>1, <4>1, <4>2
    <3>2. CASE k # m
      <4>1. k \in 0 .. m - 1 /\ h[k] = g[k] /\ (k # 0 => h[k - 1] = g[k - 1])
        BY <3>2
      <4>2. g[k] = IF k = 0 THEN << >>
                   ELSE IF Posted(rows[k]) THEN g[k - 1] ELSE Append(g[k - 1], rows[k])
        BY <2>1, <4>1 DEF Scan
      <4> QED
        BY <4>1, <4>2
    <3> QED
      BY <3>1, <3>2
  <2>3. h = [k \in 0 .. m |-> h[k]]
    OBVIOUS
  <2> HIDE DEF h
  <2>4. Scan(h, rows, m)
    BY <2>2, <2>3 DEF Scan
  <2> QED
    BY <2>4
<1> HIDE DEF S
<1>3. n \in S
  BY <1>1, <1>2, UpTo
<1> QED
  BY <1>3 DEF S

\* The new rows of a file are rows of it, and what it has besides is posted.
LEMMA FreshRows ==
  ASSUME NEW R, NEW rows \in Seq(R)
  PROVE  /\ Fresh(rows) \in Seq(R)
         /\ RefsOf(Fresh(rows)) \subseteq RefsOf(rows)
         /\ \A k \in DOMAIN rows : Posted(rows[k]) \/ rows[k].ref \in RefsOf(Fresh(rows))
<1> DEFINE new[k \in 0 .. Len(rows)] ==
             IF k = 0 THEN << >>
             ELSE IF Posted(rows[k]) THEN new[k - 1] ELSE Append(new[k - 1], rows[k])
<1>1. Fresh(rows) = new[Len(rows)]
  BY DEF Fresh
<1>2. Scan(new, rows, Len(rows))
  <2>1. \E g : Scan(g, rows, Len(rows))
    <3>1. Len(rows) \in Nat
      OBVIOUS
    <3> QED
      BY <3>1, ScanExists
  <2> QED
    BY <2>1 DEF Scan, new
<1>3. PICK g : g = new /\ Scan(g, rows, Len(rows))
  BY <1>2
<1> HIDE DEF new
<1> DEFINE Good(k) == /\ g[k] \in Seq(R) /\ RefsOf(g[k]) \subseteq RefsOf(rows)
                      /\ \A j \in 1 .. k : Posted(rows[j]) \/ rows[j].ref \in RefsOf(g[k])
           S == {k \in 0 .. Len(rows) : Good(k)}
<1>4. 0 \in S
  BY <1>3 DEF Scan, RefsOf
<1>5. ASSUME NEW k \in 1 .. Len(rows), k - 1 \in S PROVE k \in S
  <2>1. Good(k - 1) /\ rows[k] \in R /\ k \in 0 .. Len(rows) /\ k \in DOMAIN rows
    BY <1>5
  <2>2. g[k] = IF Posted(rows[k]) THEN g[k - 1] ELSE Append(g[k - 1], rows[k])
    BY <1>3, <2>1, k # 0 DEF Scan
  <2>3. CASE Posted(rows[k])
    BY <2>1, <2>2, <2>3
  <2>4. CASE ~Posted(rows[k])
    <3>1. g[k] = Append(g[k - 1], rows[k])
      BY <2>2, <2>4
    <3>2. RefsOf(g[k]) = RefsOf(g[k - 1]) \cup {rows[k].ref}
      <4>1. DOMAIN g[k] = DOMAIN g[k - 1] \cup {Len(g[k - 1]) + 1}
        BY <2>1, <3>1
      <4>2. g[k][Len(g[k - 1]) + 1] = rows[k] /\ \A j \in DOMAIN g[k - 1] : g[k][j] = g[k - 1][j]
        BY <2>1, <3>1
      <4> QED
        BY <4>1, <4>2 DEF RefsOf
    <3>3. g[k] \in Seq(R)
      BY <2>1, <3>1
    <3>4. rows[k].ref \in RefsOf(rows)
      BY <2>1 DEF RefsOf
    <3>5. \A j \in 1 .. k : j = k \/ j \in 1 .. k - 1
      OBVIOUS
    <3> QED
      BY <2>1, <3>2, <3>3, <3>4, <3>5
  <2> QED
    BY <2>3, <2>4
<1>6. Len(rows) \in S
  <2>1. Len(rows) \in Nat /\ Len(rows) \in 0 .. Len(rows)
    OBVIOUS
  <2> HIDE DEF S
  <2> QED
    BY <1>4, <1>5, <2>1, UpTo
<1> QED
  BY <1>1, <1>3, <1>6

-----------------------------------------------------------------------------
(* The inductive invariant.                                                *)

Entries == [type: Types \cup {"REVERSAL"}, quantity: Int, ref: Refs \cup {NoRef}, reverses: Nat]
LineRecords == [status: {"none", "OPEN", "CANCELLED"}, quantity: Nat, received: Nat,
                factor: Nat \ {0}]

TypeOK ==
  /\ ledger \in Seq(Entries) /\ balance \in Int
  /\ order \in {"none", "OPEN", "CANCELLED"}
  /\ line \in [Lines -> LineRecords] /\ foreign \subseteq Lines
  /\ receipts \in [Requests -> Receipts \cup {Nothing}]
  /\ files \in [Files -> {"committing", "committed", "failed"}]
  /\ work = [w \in Slots |-> work[w]]

\* What the handler that holds the lock of the company has checked. The form
\* keeps what each line has received, unless an import changed it since.
Form(v, got) ==
  /\ v \in Forms
  /\ \A l \in DOMAIN v : /\ got[l] \in Nat /\ got[l] <= v[l].quantity
                         /\ l \notin foreign => got[l] = line[l].received

ApiInv ==
  /\ api # Nothing /\ api.op = "post" => api.row \in Posts
  /\ api # Nothing /\ api.op = "form" => Form(api.form, api.got)

InJob(w, job) == work[w] # Nothing /\ work[w].job = job
PostedRefs == RefsOf(ledger)

\* A file is imported by one slot at a time; what that one has not yet to post
\* of it, somebody has posted.
FileWork(f, rows) ==
  /\ f \in Files /\ rows \in Seq(Rows) /\ files[f] = "committing"
  /\ RefsOf(rows) \subseteq RefsOf(f)
  /\ RefsOf(f) \subseteq RefsOf(rows) \cup PostedRefs

WorkInv ==
  /\ \A w \in Slots : InJob(w, "file") => FileWork(work[w].file, work[w].rows)
  /\ \A w \in Slots : InJob(w, "order") => work[w].doc \in Docs
  /\ \A v, w \in Slots : InJob(v, "file") /\ InJob(w, "file") /\ work[v].file = work[w].file
                           => v = w

\* The stock is the sum of its movements, and never negative, although
\* handlers and imports check it before they lock it.
StockIsLedger == balance = Total(ledger) /\ balance >= 0

IInv == /\ TypeOK /\ ApiInv /\ WorkInv /\ StockIsLedger
        /\ AllOrNothing /\ WithinOrdered /\ ReceivedFromReceipts

LEMMA InitInv == Init => IInv
<1> SUFFICES ASSUME Init PROVE IInv
  OBVIOUS
<1> USE DEF Init
<1>1. TypeOK
  <2>1. \A l \in Lines : line[l] \in LineRecords
    BY DEF NoLine, LineRecords
  <2> QED
    BY <2>1 DEF TypeOK
<1>2. ApiInv /\ WorkInv
  BY DEF ApiInv, WorkInv, InJob
<1>3. StockIsLedger
  BY TotalOfNone DEF StockIsLedger
<1>4. AllOrNothing
  BY DEF AllOrNothing
<1>5. WithinOrdered
  BY DEF WithinOrdered, NoLine
<1>6. ReceivedFromReceipts
  <2> SUFFICES ASSUME NEW l \in Lines
               PROVE  line[l].received * line[l].factor = SumFunction([q \in Requests |-> Brought(q, l)])
    BY DEF ReceivedFromReceipts
  <2>1. line[l].received * line[l].factor = 0
    BY DEF NoLine
  <2>2. PICK f : f = [q \in Requests |-> 0] /\ f = [q \in Requests |-> Brought(q, l)]
    BY DEF Brought
  <2>3. SumFunction(f) = 0
    <3>1. SumFunction(f) = SumFunctionOnSet(f, Requests)
      BY <2>2 DEF SumFunction
    <3> QED
      BY <2>2, <3>1, SumOfZeros, ReceivingAssumption
  <2> QED
    BY <2>1, <2>2, <2>3
<1> QED
  BY <1>1, <1>2, <1>3, <1>4, <1>5, <1>6 DEF IInv

-----------------------------------------------------------------------------
(* The stock and the files.                                                *)

\* What the check of a balance says of all rows together.
LEMMA CoveredTotal ==
  ASSUME TypeOK, StockIsLedger, NEW rows \in Seq(Rows), Covered(rows)
  PROVE  balance + Total(rows) >= 0
<1>1. CASE rows = << >>
  BY <1>1, TotalOfNone DEF TypeOK, StockIsLedger
<1>2. CASE rows # << >>
  <2>1. Len(rows) \in 1 .. Len(rows) /\ SubSeq(rows, 1, Len(rows)) = rows
    BY <1>2
  <2> QED
    BY <2>1 DEF Covered
<1> QED
  BY <1>1, <1>2

LEMMA EntryType == ASSUME NEW entry \in Rows PROVE Entry(entry) \in Entries
<1>1. entry.type \in Types \cup {"REVERSAL"} /\ entry.quantity \in Int /\ entry.ref \in Refs \cup {NoRef}
  BY DEF Rows
<1>2. 0 \in Nat
  OBVIOUS
<1> QED
  BY <1>1, <1>2 DEF Entry, Entries

LEMMA PostStock ==
  ASSUME TypeOK, StockIsLedger, NEW rows \in Seq(Rows), Post(rows), balance + Total(rows) >= 0
  PROVE  /\ ledger' \in Seq(Entries) /\ balance' \in Int /\ StockIsLedger'
         /\ PostedRefs' = PostedRefs \cup RefsOf(rows)
<1>1. PICK es : es = [k \in DOMAIN rows |-> Entry(rows[k])] /\ ledger' = ledger \o es
  BY DEF Post
<1>2. es \in Seq(Entries) /\ DOMAIN es = DOMAIN rows
  <2>1. \A k \in DOMAIN rows : Entry(rows[k]) \in Entries
    BY EntryType
  <2> QED
    BY <1>1, <2>1
<1>3. Quantified(ledger) /\ Quantified(es) /\ ledger \in Seq(Entries)
  <2>1. \A x \in Entries : x.quantity \in Int
    BY DEF Entries
  <2>2. ledger \in Seq(Entries)
    BY DEF TypeOK
  <2> QED
    BY <1>2, <2>1, <2>2 DEF Quantified
<1>4. Total(es) = Total(rows)
  <2>1. \A k \in DOMAIN rows : es[k].quantity = rows[k].quantity
    BY <1>1 DEF Entry
  <2>2. [k \in DOMAIN es |-> es[k].quantity] = [k \in DOMAIN rows |-> rows[k].quantity]
    BY <1>2, <2>1
  <2> QED
    BY <2>2 DEF Total
<1>5. Total(ledger') = Total(ledger) + Total(es) /\ Total(es) \in Int
  BY <1>1, <1>2, <1>3, TotalConcat
<1>6. ledger' \in Seq(Entries) /\ balance' = balance + Total(rows) /\ balance' \in Int
  BY <1>1, <1>2, <1>3, <1>4, <1>5 DEF Post, TypeOK
<1>7. StockIsLedger'
  BY <1>4, <1>5, <1>6 DEF StockIsLedger, TypeOK
<1>8. PostedRefs' = PostedRefs \cup RefsOf(rows)
  <2>1. \A k \in DOMAIN rows : es[k].ref = rows[k].ref
    BY <1>1 DEF Entry
  <2>2. RefsOf(es) = RefsOf(rows)
    BY <1>2, <2>1 DEF RefsOf
  <2>3. PostedRefs' = PostedRefs \cup RefsOf(es)
    BY <1>1, <1>2, <1>3, RefsConcat DEF PostedRefs
  <2> QED
    BY <2>2, <2>3
<1> QED
  BY <1>6, <1>7, <1>8

\* AllOrNothing, in the terms of the other invariants.
CommittedRefs == UNION {RefsOf(f) : f \in {g \in Files : files[g] = "committed"}}

LEMMA WholeFiles == AllOrNothing <=> PostedRefs \ {NoRef} = CommittedRefs
BY DEF AllOrNothing, PostedRefs, RefsOf, CommittedRefs

\* Movements without a reference change nothing for the files.
LEMMA FilesFrame ==
  ASSUME WorkInv, AllOrNothing, UNCHANGED <<files, work>>,
         PostedRefs \subseteq PostedRefs', PostedRefs' \subseteq PostedRefs \cup {NoRef}
  PROVE  WorkInv' /\ AllOrNothing'
<1>1. AllOrNothing'
  <2>1. CommittedRefs' = CommittedRefs
    BY DEF CommittedRefs
  <2>2. PostedRefs' \ {NoRef} = PostedRefs \ {NoRef}
    OBVIOUS
  <2>3. AllOrNothing' <=> PostedRefs' \ {NoRef} = CommittedRefs'
    BY DEF AllOrNothing, PostedRefs, RefsOf, CommittedRefs
  <2> QED
    BY <2>1, <2>2, <2>3, WholeFiles
<1>2. WorkInv'
  <2>1. \A f, rows : FileWork(f, rows) => FileWork(f, rows)'
    BY DEF FileWork
  <2> QED
    BY <2>1 DEF WorkInv, InJob
<1> QED
  BY <1>1, <1>2

-----------------------------------------------------------------------------
(* The order, and what its lines have received.                            *)

AllBrought(l) == SumFunction([q \in Requests |-> Brought(q, l)])

LEMMA AllBroughtSame ==
  ASSUME receipts' = receipts, NEW l
  PROVE  AllBrought(l)' = AllBrought(l)
<1>1. \A q \in Requests : Brought(q, l)' = Brought(q, l)
  BY DEF Brought
<1>2. [q \in Requests |-> Brought(q, l)'] = [q \in Requests |-> Brought(q, l)]
  BY <1>1
<1> QED
  BY <1>2 DEF AllBrought

LEMMA LineType ==
  ASSUME TypeOK, NEW l \in Lines
  PROVE  /\ line[l] \in LineRecords /\ line[l].quantity \in Nat /\ line[l].received \in Nat
         /\ line[l].factor \in Nat \ {0}
<1>1. line[l] \in LineRecords
  BY DEF TypeOK
<1> QED
  BY <1>1 DEF LineRecords

LEMMA CancelledLine ==
  ASSUME NEW r \in LineRecords, NEW c, c = [r EXCEPT !.status = IF @ = "OPEN" THEN "CANCELLED" ELSE @]
  PROVE  c \in LineRecords /\ c.quantity = r.quantity /\ c.received = r.received /\ c.factor = r.factor
<1>1. PICK s \in {"none", "OPEN", "CANCELLED"} : s = IF r.status = "OPEN" THEN "CANCELLED" ELSE r.status
  BY DEF LineRecords
<1>2. c = [r EXCEPT !.status = s]
  BY <1>1
<1> QED
  BY <1>2 DEF LineRecords

\* The two properties of a line.
LineOK(l) ==
  /\ line[l].received <= line[l].quantity
  /\ l \notin foreign => line[l].received * line[l].factor = AllBrought(l)

LEMMA LinesOK == WithinOrdered /\ ReceivedFromReceipts <=> \A l \in Lines : LineOK(l)
BY DEF WithinOrdered, ReceivedFromReceipts, LineOK, AllBrought

LEMMA LinesOKNext == WithinOrdered' /\ ReceivedFromReceipts' <=> \A l \in Lines : LineOK(l)'
BY DEF WithinOrdered, ReceivedFromReceipts, LineOK, AllBrought

\* What writeOrder leaves, whoever calls it with what the lines have received.
LEMMA WrittenOrder ==
  ASSUME TypeOK, WithinOrdered, ReceivedFromReceipts,
         NEW v \in Forms \cup Docs, NEW got, NEW changed \in SUBSET Lines,
         \A l \in DOMAIN v : /\ got[l] \in Nat /\ got[l] <= v[l].quantity
                             /\ l \notin foreign \cup changed => got[l] = line[l].received,
         WriteOrder(v, got, changed), receipts' = receipts
  PROVE  /\ line' \in [Lines -> LineRecords] /\ order' \in {"none", "OPEN", "CANCELLED"}
         /\ foreign' \subseteq Lines /\ foreign \subseteq foreign'
         /\ \A l \in Lines \ foreign' : line'[l].received = line[l].received
         /\ WithinOrdered' /\ ReceivedFromReceipts'
<1>1. DOMAIN v \subseteq Lines /\ \A l \in DOMAIN v : v[l].quantity \in Nat \ {0} /\ v[l].factor \in Nat \ {0}
  BY ReceivingAssumption
<1>2. /\ foreign' = foreign \cup changed \cup {l \in DOMAIN v : got[l] > 0 /\ v[l].factor # line[l].factor}
      /\ order' = IF order = "none" THEN "OPEN" ELSE order
      /\ line' = [l \in Lines |->
           IF l \in DOMAIN v
             THEN [status |-> "OPEN", quantity |-> v[l].quantity, received |-> got[l],
                   factor |-> v[l].factor]
             ELSE [line[l] EXCEPT !.status = IF @ = "OPEN" THEN "CANCELLED" ELSE @]]
  BY DEF WriteOrder
<1>3. foreign' \subseteq Lines /\ foreign \subseteq foreign' /\ order' \in {"none", "OPEN", "CANCELLED"}
  BY <1>1, <1>2 DEF TypeOK
<1>4. ASSUME NEW l \in Lines, l \in DOMAIN v
      PROVE  /\ line'[l] \in LineRecords /\ LineOK(l)'
             /\ l \notin foreign' => line'[l].received = line[l].received
  <2>1. PICK a \in Nat \ {0}, b \in Nat, c \in Nat \ {0} :
          a = v[l].quantity /\ b = got[l] /\ c = v[l].factor
    BY <1>1, <1>4
  <2>2. line'[l] = [status |-> "OPEN", quantity |-> a, received |-> b, factor |-> c]
    BY <1>2, <1>4, <2>1
  <2>3. line'[l] \in LineRecords /\ line'[l].received = b /\ line'[l].quantity = a /\ line'[l].factor = c
    BY <2>2 DEF LineRecords
  <2>4. b <= a
    BY <1>4, <2>1
  <2>5. ASSUME l \notin foreign'
        PROVE  b = line[l].received /\ b * c = AllBrought(l)'
    <3>1. l \notin foreign /\ b = line[l].received /\ (b > 0 => c = line[l].factor)
      BY <1>2, <1>4, <2>1, <2>5
    <3>2. b * line[l].factor = AllBrought(l)
      BY <3>1, LinesOK DEF LineOK
    <3>3. b * c = b * line[l].factor
      <4>1. CASE b = 0
        BY <4>1, LineType
      <4>2. CASE b # 0
        BY <4>2, <3>1
      <4> QED
        BY <4>1, <4>2
    <3> QED
      BY <3>1, <3>2, <3>3, AllBroughtSame
  <2> QED
    BY <2>3, <2>4, <2>5 DEF LineOK
<1>5. ASSUME NEW l \in Lines, l \notin DOMAIN v
      PROVE  /\ line'[l] \in LineRecords /\ LineOK(l)' /\ line'[l].received = line[l].received
  <2>1. line'[l] = [line[l] EXCEPT !.status = IF @ = "OPEN" THEN "CANCELLED" ELSE @]
    BY <1>2, <1>5
  <2>2. /\ line'[l] \in LineRecords /\ line'[l].received = line[l].received
        /\ line'[l].quantity = line[l].quantity /\ line'[l].factor = line[l].factor
    BY <2>1, LineType, CancelledLine
  <2>3. LineOK(l)
    BY LinesOK
  <2> QED
    BY <1>3, <2>2, <2>3, AllBroughtSame DEF LineOK
<1>6. line' \in [Lines -> LineRecords]
  <2>1. \A l \in Lines : line'[l] \in LineRecords
    BY <1>4, <1>5
  <2>2. line' = [l \in Lines |-> line'[l]]
    BY <1>2
  <2> QED
    BY <2>1, <2>2
<1>7. WithinOrdered' /\ ReceivedFromReceipts'
  BY <1>4, <1>5, LinesOKNext
<1> QED
  BY <1>3, <1>4, <1>5, <1>6, <1>7

\* Nothing about the lines changes.
LEMMA LinesFrame ==
  ASSUME WithinOrdered, ReceivedFromReceipts, UNCHANGED <<line, foreign, receipts>>
  PROVE  WithinOrdered' /\ ReceivedFromReceipts'
<1>1. ASSUME NEW l \in Lines PROVE LineOK(l)'
  <2>1. LineOK(l) /\ AllBrought(l)' = AllBrought(l)
    BY LinesOK, AllBroughtSame
  <2> QED
    BY <2>1 DEF LineOK
<1> QED
  BY <1>1, LinesOKNext

LEMMA FormFrame ==
  ASSUME ApiInv, api' = api, foreign \subseteq foreign',
         \A l \in Lines \ foreign' : line'[l].received = line[l].received
  PROVE  ApiInv'
<1>1. ASSUME NEW v, NEW got, Form(v, got) PROVE Form(v, got)'
  <2>1. DOMAIN v \subseteq Lines
    BY <1>1, ReceivingAssumption DEF Form
  <2> QED
    BY <1>1, <2>1 DEF Form
<1> QED
  BY <1>1 DEF ApiInv

-----------------------------------------------------------------------------
(* The handlers of people.                                                 *)

\* Only the ledger moves, by movements without a reference.
LEMMA StockOnly ==
  ASSUME IInv, UNCHANGED <<orderVars, receipts, files, work>>, ApiInv',
         ledger' \in Seq(Entries), balance' \in Int, StockIsLedger',
         PostedRefs \subseteq PostedRefs', PostedRefs' \subseteq PostedRefs \cup {NoRef}
  PROVE  IInv'
<1> USE DEF IInv, orderVars
<1>1. TypeOK'
  BY DEF TypeOK
<1>2. WorkInv' /\ AllOrNothing'
  BY FilesFrame
<1>3. WithinOrdered' /\ ReceivedFromReceipts'
  BY LinesFrame
<1> QED
  BY <1>1, <1>2, <1>3

LEMMA SameStock ==
  ASSUME IInv, UNCHANGED stockVars
  PROVE  /\ ledger' \in Seq(Entries) /\ balance' \in Int /\ StockIsLedger' /\ PostedRefs' = PostedRefs
<1>1. ledger' = ledger /\ balance' = balance /\ TypeOK /\ StockIsLedger
  BY DEF stockVars, IInv
<1>2. Total(ledger)' = Total(ledger)
  BY <1>1 DEF Total
<1> QED
  BY <1>1, <1>2 DEF TypeOK, StockIsLedger, PostedRefs, RefsOf

LEMMA RefsOfOne == ASSUME NEW x PROVE RefsOf(<<x>>) = {x.ref}
<1>1. DOMAIN <<x>> = {1} /\ <<x>>[1] = x
  OBVIOUS
<1> QED
  BY <1>1 DEF RefsOf

LEMMA CheckPostStep ==
  ASSUME IInv, NEW entry \in Posts, CheckPost(entry)
  PROVE  IInv'
<1>1. ApiInv'
  BY DEF CheckPost, ApiInv
<1> QED
  BY <1>1, SameStock, StockOnly DEF CheckPost

LEMMA CheckFormStep ==
  ASSUME IInv, NEW v \in Forms, CheckForm(v)
  PROVE  IInv'
<1>1. ApiInv'
  <2>1. \A l \in DOMAIN v : KeptReceived(v)[l] = line[l].received /\ l \in Lines /\ l \in DOMAIN KeptReceived(v)
    BY ReceivingAssumption DEF KeptReceived
  <2>2. Form(v, KeptReceived(v))
    BY <2>1, LineType DEF CheckForm, Form, IInv
  <2>3. Form(v, KeptReceived(v))'
    BY <2>2 DEF CheckForm, Form, orderVars, KeptReceived
  <2>4. api' = [op |-> "form", form |-> v, got |-> KeptReceived(v), new |-> order = "none"]
    BY DEF CheckForm
  <2>5. KeptReceived(v)' = KeptReceived(v)
    BY DEF CheckForm, orderVars, KeptReceived
  <2> QED
    BY <2>3, <2>4, <2>5 DEF ApiInv
<1> QED
  BY <1>1, SameStock, StockOnly DEF CheckForm

LEMMA WritePostStep ==
  ASSUME IInv, WritePost
  PROVE  IInv'
<1>1. ApiInv'
  BY DEF WritePost, ApiInv
<1>2. CASE UNCHANGED stockVars
  BY <1>1, <1>2, SameStock, StockOnly DEF WritePost
<1>3. CASE Covered(<<api.row>>) /\ Post(<<api.row>>)
  <2>1. api.row \in Rows /\ api.row.ref = NoRef
    BY ReceivingAssumption DEF WritePost, IInv, ApiInv
  <2>2. PICK rows \in Seq(Rows) : rows = <<api.row>> /\ RefsOf(rows) = {NoRef}
    <3>1. \A r \in Rows : <<r>> \in Seq(Rows)
      OBVIOUS
    <3>2. RefsOf(<<api.row>>) = {NoRef}
      BY <2>1, RefsOfOne
    <3> QED
      BY <2>1, <3>1, <3>2
  <2>3. balance + Total(rows) >= 0
    BY <1>3, <2>2, CoveredTotal DEF IInv
  <2>4. /\ ledger' \in Seq(Entries) /\ balance' \in Int /\ StockIsLedger'
        /\ PostedRefs' = PostedRefs \cup RefsOf(rows)
    BY <1>3, <2>2, <2>3, PostStock DEF IInv
  <2> QED
    BY <1>1, <2>2, <2>4, StockOnly DEF WritePost
<1> QED
  BY <1>2, <1>3 DEF WritePost

LEMMA ReverseStep ==
  ASSUME IInv, NEW n \in DOMAIN ledger, ReverseMovement(n)
  PROVE  IInv'
<1>1. ledger[n] \in Entries /\ ledger \in Seq(Entries) /\ n \in Nat /\ balance \in Int
  BY DEF IInv, TypeOK
<1>2. PICK b \in Int : b = TakesBack(n)
  BY <1>1 DEF TakesBack, Entries
<1>3. PICK e : e = [type |-> "REVERSAL", quantity |-> b, ref |-> NoRef, reverses |-> n]
  OBVIOUS
<1>4. e \in Entries /\ e.quantity = b /\ e.ref = NoRef
  BY <1>1, <1>3 DEF Entries
<1>5. ledger' = Append(ledger, e) /\ balance' = balance + b /\ balance + b >= 0
  BY <1>2, <1>3 DEF ReverseMovement
<1>6. PICK es \in Seq(Entries) : es = <<e>> /\ ledger' = ledger \o es
  <2>1. \A x \in Entries : <<x>> \in Seq(Entries)
    OBVIOUS
  <2>2. \A s \in Seq(Entries), x \in Entries : Append(s, x) = s \o <<x>>
    OBVIOUS
  <2> QED
    BY <1>1, <1>4, <1>5, <2>1, <2>2
<1>7. Quantified(ledger) /\ Quantified(es) /\ RefsOf(es) = {NoRef}
  <2>1. \A x \in Entries : x.quantity \in Int
    BY DEF Entries
  <2> QED
    BY <1>1, <1>4, <1>6, <2>1, RefsOfOne DEF Quantified
<1>8. Total(ledger') = Total(ledger) + b
  BY <1>1, <1>4, <1>6, <1>7, TotalConcat, TotalOfOne
<1>9. PostedRefs' = PostedRefs \cup {NoRef}
  <2>1. RefsOf(ledger \o es) = RefsOf(ledger) \cup RefsOf(es)
    <3>1. \A s, t \in Seq(Entries) : RefsOf(s \o t) = RefsOf(s) \cup RefsOf(t)
      BY RefsConcat
    <3> QED
      BY <1>1, <1>6, <3>1
  <2>2. PostedRefs' = RefsOf(ledger')
    BY DEF PostedRefs, RefsOf
  <2> QED
    BY <1>6, <1>7, <2>1, <2>2 DEF PostedRefs
<1>10. StockIsLedger'
  BY <1>5, <1>8 DEF IInv, StockIsLedger
<1>11. ApiInv'
  <2>1. api' = api /\ UNCHANGED <<line, foreign>>
    BY DEF ReverseMovement, orderVars
  <2> QED
    BY <2>1, FormFrame DEF IInv
<1>12. ledger' \in Seq(Entries) /\ balance' \in Int
  BY <1>1, <1>4, <1>5
<1> QED
  BY <1>9, <1>10, <1>11, <1>12, StockOnly DEF ReverseMovement

\* Only the order changes.
LEMMA OrderOnly ==
  ASSUME IInv, UNCHANGED <<stockVars, files>>, WorkInv', ApiInv', work' = [w \in Slots |-> work'[w]],
         line' \in [Lines -> LineRecords], order' \in {"none", "OPEN", "CANCELLED"},
         foreign' \subseteq Lines, receipts' = receipts, WithinOrdered', ReceivedFromReceipts'
  PROVE  IInv'
<1>1. StockIsLedger' /\ PostedRefs' = PostedRefs /\ ledger' \in Seq(Entries) /\ balance' \in Int
  BY SameStock
<1>2. TypeOK'
  BY <1>1 DEF IInv, TypeOK
<1>3. AllOrNothing'
  BY DEF IInv, AllOrNothing, stockVars
<1> QED
  BY <1>1, <1>2, <1>3 DEF IInv

LEMMA SameWork ==
  ASSUME IInv, UNCHANGED <<stockVars, files, work>>
  PROVE  WorkInv' /\ work' = [w \in Slots |-> work'[w]]
<1>1. WorkInv' /\ AllOrNothing'
  BY FilesFrame, SameStock DEF IInv
<1> QED
  BY <1>1 DEF IInv, TypeOK

LEMMA WriteFormStep ==
  ASSUME IInv, WriteForm
  PROVE  IInv'
<1>1. ApiInv' /\ WorkInv' /\ work' = [w \in Slots |-> work'[w]]
  BY SameWork DEF WriteForm, ApiInv
<1>2. CASE UNCHANGED orderVars
  BY <1>1, <1>2, SameStock, StockOnly DEF WriteForm
<1>3. CASE WriteOrder(api.form, api.got, {})
  <2>1. PICK v, got : v = api.form /\ got = api.got /\ v \in Forms /\ Form(v, got)
    BY DEF WriteForm, IInv, ApiInv, Form
  <2>2. \A l \in DOMAIN v : /\ got[l] \in Nat /\ got[l] <= v[l].quantity
                            /\ l \notin foreign \cup {} => got[l] = line[l].received
    BY <2>1 DEF Form
  <2>3. /\ line' \in [Lines -> LineRecords] /\ order' \in {"none", "OPEN", "CANCELLED"}
        /\ foreign' \subseteq Lines /\ WithinOrdered' /\ ReceivedFromReceipts'
    <3>1. receipts' = receipts /\ WriteOrder(v, got, {}) /\ {} \in SUBSET Lines /\ v \in Forms \cup Docs
      BY <1>3, <2>1 DEF WriteForm
    <3> QED
      BY <2>2, <3>1, WrittenOrder DEF IInv
  <2> QED
    BY <1>1, <2>3, OrderOnly DEF WriteForm
<1> QED
  BY <1>2, <1>3 DEF WriteForm

LEMMA CancelOrderStep ==
  ASSUME IInv, CancelOrder
  PROVE  IInv'
<1>1. ASSUME NEW l \in Lines
      PROVE  /\ line'[l] \in LineRecords /\ line'[l].received = line[l].received
             /\ line'[l].quantity = line[l].quantity /\ line'[l].factor = line[l].factor
  <2>1. line'[l] = [line[l] EXCEPT !.status = IF @ = "OPEN" THEN "CANCELLED" ELSE @]
    BY DEF CancelOrder
  <2> QED
    BY <2>1, LineType, CancelledLine DEF IInv
<1>2. line' \in [Lines -> LineRecords]
  <2>1. line' = [l \in Lines |-> line'[l]]
    BY DEF CancelOrder
  <2> QED
    BY <1>1, <2>1
<1>3. WithinOrdered' /\ ReceivedFromReceipts'
  <2>1. ASSUME NEW l \in Lines PROVE LineOK(l)'
    <3>1. LineOK(l) /\ AllBrought(l)' = AllBrought(l)
      BY LinesOK, AllBroughtSame DEF IInv, CancelOrder
    <3> QED
      BY <1>1, <3>1 DEF LineOK, CancelOrder
  <2> QED
    BY <2>1, LinesOKNext
<1>4. ApiInv'
  BY <1>1, FormFrame DEF IInv, CancelOrder
<1> QED
  BY <1>2, <1>3, <1>4, SameWork, OrderOnly DEF CancelOrder, IInv, TypeOK

-----------------------------------------------------------------------------
(* The imports.                                                            *)

\* The order, the receipts and the handler of the API stay.
LEMMA FilesOnly ==
  ASSUME IInv, UNCHANGED <<orderVars, receipts, api>>,
         ledger' \in Seq(Entries), balance' \in Int, StockIsLedger',
         files' \in [Files -> {"committing", "committed", "failed"}],
         work' = [w \in Slots |-> work'[w]], WorkInv', AllOrNothing'
  PROVE  IInv'
<1> USE DEF IInv, orderVars
<1>1. TypeOK'
  BY DEF TypeOK
<1>2. WithinOrdered' /\ ReceivedFromReceipts'
  BY LinesFrame
<1>3. ApiInv'
  BY FormFrame
<1> QED
  BY <1>1, <1>2, <1>3

LEMMA SlotTaken ==
  ASSUME TypeOK, WorkInv, NEW w \in Slots, NEW x, UNCHANGED <<ledger, files>>,
         work' = [work EXCEPT ![w] = x],
         x.job = "file" => /\ FileWork(x.file, x.rows)
                           /\ \A v \in Slots : InJob(v, "file") => work[v].file # x.file,
         x.job = "order" => x.doc \in Docs
  PROVE  WorkInv' /\ work' = [v \in Slots |-> work'[v]]
<1>1. /\ work' = [v \in Slots |-> work'[v]] /\ work'[w] = x
      /\ \A v \in Slots \ {w} : work'[v] = work[v]
  BY DEF TypeOK
<1>2. \A f, rows : FileWork(f, rows) => FileWork(f, rows)'
  BY DEF FileWork, PostedRefs, RefsOf
<1> QED
  BY <1>1, <1>2 DEF WorkInv, InJob

LEMMA SlotDone ==
  ASSUME TypeOK, WorkInv, NEW w \in Slots, work' = [work EXCEPT ![w] = Nothing],
         PostedRefs \subseteq PostedRefs',
         \A v \in Slots \ {w} : InJob(v, "file") => files'[work[v].file] = files[work[v].file]
  PROVE  WorkInv' /\ work' = [v \in Slots |-> work'[v]]
<1>1. /\ work' = [v \in Slots |-> work'[v]] /\ work'[w] = Nothing
      /\ \A v \in Slots \ {w} : work'[v] = work[v]
  BY DEF TypeOK
<1>2. ASSUME NEW v \in Slots, InJob(v, "file")'
      PROVE  v # w /\ InJob(v, "file") /\ files'[work[v].file] = files[work[v].file]
  BY <1>1, <1>2 DEF InJob
<1>3. \A f, rows : FileWork(f, rows) /\ files'[f] = files[f] => FileWork(f, rows)'
  BY DEF FileWork, RefsOf
<1>4. ASSUME NEW v \in Slots, InJob(v, "order")' PROVE work'[v].doc \in Docs
  BY <1>1, <1>4 DEF WorkInv, InJob
<1> QED
  BY <1>1, <1>2, <1>3, <1>4 DEF WorkInv, InJob

LEMMA CommittedSame ==
  ASSUME TypeOK, AllOrNothing, NEW f \in Files, files[f] # "committed", NEW s, s # "committed",
         files' = [files EXCEPT ![f] = s], PostedRefs' = PostedRefs
  PROVE  AllOrNothing'
<1>1. {g \in Files : files'[g] = "committed"} = {g \in Files : files[g] = "committed"}
  BY DEF TypeOK
<1>2. CommittedRefs' = CommittedRefs
  BY <1>1 DEF CommittedRefs, RefsOf
<1>3. AllOrNothing' <=> PostedRefs' \ {NoRef} = CommittedRefs'
  BY DEF AllOrNothing, PostedRefs, RefsOf, CommittedRefs
<1> QED
  BY <1>2, <1>3, WholeFiles

LEMMA CheckFileStep ==
  ASSUME IInv, NEW w \in Slots, NEW f \in Files, CheckFile(w, f)
  PROVE  IInv'
<1>1. /\ ledger' \in Seq(Entries) /\ balance' \in Int /\ StockIsLedger' /\ PostedRefs' = PostedRefs
      /\ TypeOK /\ WorkInv /\ AllOrNothing
  BY SameStock DEF CheckFile, IInv
<1>2. files[f] = "committing" /\ \A v \in Slots : InJob(v, "file") => work[v].file # f
  BY DEF CheckFile, InJob
<1>3. CASE /\ work' = [work EXCEPT ![w] = [job |-> "file", file |-> f, rows |-> Fresh(f)]]
           /\ UNCHANGED files
  <2>1. f \in Seq(Rows)
    BY ReceivingAssumption
  <2>2. FileWork(f, Fresh(f))
    <3>1. /\ Fresh(f) \in Seq(Rows) /\ RefsOf(Fresh(f)) \subseteq RefsOf(f)
          /\ \A k \in DOMAIN f : Posted(f[k]) \/ f[k].ref \in RefsOf(Fresh(f))
      BY <2>1, FreshRows
    <3>2. \A k \in DOMAIN f : Posted(f[k]) => f[k].ref \in PostedRefs
      BY DEF Posted, PostedRefs, RefsOf
    <3>3. \A r \in RefsOf(f) : \E k \in DOMAIN f : r = f[k].ref
      BY DEF RefsOf
    <3> QED
      BY <1>2, <3>1, <3>2, <3>3 DEF FileWork
  <2>3. PICK x : x = [job |-> "file", file |-> f, rows |-> Fresh(f)]
    OBVIOUS
  <2>4. WorkInv' /\ work' = [v \in Slots |-> work'[v]]
    <3>1. x.job = "file" /\ x.file = f /\ x.rows = Fresh(f)
      BY <2>3
    <3>2. work' = [work EXCEPT ![w] = x] /\ UNCHANGED <<ledger, files>>
      BY <1>3, <2>3 DEF CheckFile, stockVars
    <3> QED
      BY <1>1, <1>2, <2>2, <3>1, <3>2, SlotTaken
  <2>5. AllOrNothing'
    BY <1>1, <1>3 DEF AllOrNothing, CheckFile, stockVars
  <2> QED
    BY <1>1, <1>3, <2>4, <2>5, FilesOnly DEF CheckFile, TypeOK
<1>4. CASE files' = [files EXCEPT ![f] = "failed"] /\ UNCHANGED work
  <2>1. AllOrNothing'
    BY <1>1, <1>2, <1>4, CommittedSame
  <2>2. WorkInv'
    <3>1. \A g, rows : FileWork(g, rows) /\ g # f => FileWork(g, rows)'
      <4>1. \A g \in Files \ {f} : files'[g] = files[g]
        BY <1>1, <1>4 DEF TypeOK
      <4> QED
        BY <1>1, <4>1 DEF FileWork, RefsOf
    <3> QED
      BY <1>1, <1>2, <1>4, <3>1 DEF WorkInv, InJob
  <2>3. files' \in [Files -> {"committing", "committed", "failed"}] /\ work' = [v \in Slots |-> work'[v]]
    BY <1>1, <1>4 DEF TypeOK
  <2> QED
    BY <1>1, <2>1, <2>2, <2>3, FilesOnly DEF CheckFile
<1> QED
  BY <1>3, <1>4 DEF CheckFile

LEMMA RetryFileStep ==
  ASSUME IInv, NEW f \in Files, RetryFile(f)
  PROVE  IInv'
<1>1. /\ ledger' \in Seq(Entries) /\ balance' \in Int /\ StockIsLedger' /\ PostedRefs' = PostedRefs
      /\ TypeOK /\ WorkInv /\ AllOrNothing
  BY SameStock DEF RetryFile, IInv
<1>2. files[f] = "failed" /\ files' = [files EXCEPT ![f] = "committing"] /\ work' = work
  BY DEF RetryFile
<1>3. AllOrNothing'
  BY <1>1, <1>2, CommittedSame
<1>4. WorkInv'
  <2>1. \A g, rows : FileWork(g, rows) => FileWork(g, rows)'
    <3>1. \A g \in Files : files[g] = "committing" => files'[g] = "committing"
      BY <1>1, <1>2 DEF TypeOK
    <3> QED
      BY <1>1, <3>1 DEF FileWork, RefsOf
  <2> QED
    BY <1>1, <1>2, <2>1 DEF WorkInv, InJob
<1>5. files' \in [Files -> {"committing", "committed", "failed"}] /\ work' = [v \in Slots |-> work'[v]]
  BY <1>1, <1>2 DEF TypeOK
<1> QED
  BY <1>1, <1>3, <1>4, <1>5, FilesOnly DEF RetryFile

LEMMA WriteFileStep ==
  ASSUME IInv, NEW w \in Slots, WriteFile(w)
  PROVE  IInv'
<1>1. TypeOK /\ WorkInv /\ AllOrNothing /\ StockIsLedger
  BY DEF IInv
<1>2. PICK f, rows : f = work[w].file /\ rows = work[w].rows
  OBVIOUS
<1>3. FileWork(f, rows) /\ \A v \in Slots \ {w} : InJob(v, "file") => work[v].file # f
  BY <1>1, <1>2 DEF WriteFile, WorkInv, InJob
<1>4. f \in Files /\ files[f] = "committing" /\ rows \in Seq(Rows)
  BY <1>3 DEF FileWork
<1>5. ASSUME NEW s, files' = [files EXCEPT ![f] = s], PostedRefs \subseteq PostedRefs'
      PROVE  WorkInv' /\ work' = [v \in Slots |-> work'[v]]
  <2>1. \A g \in Files \ {f} : files'[g] = files[g]
    BY <1>1, <1>5 DEF TypeOK
  <2>2. \A v \in Slots \ {w} : InJob(v, "file") => files'[work[v].file] = files[work[v].file]
    BY <1>1, <1>3, <2>1 DEF WorkInv, FileWork
  <2>3. work' = [work EXCEPT ![w] = Nothing]
    BY DEF WriteFile
  <2> QED
    BY <1>1, <1>5, <2>2, <2>3, SlotDone
<1>6. CASE UNCHANGED <<stockVars, files>>
  <2>1. /\ ledger' \in Seq(Entries) /\ balance' \in Int /\ StockIsLedger' /\ PostedRefs' = PostedRefs
    BY <1>6, SameStock
  <2>2. WorkInv' /\ work' = [v \in Slots |-> work'[v]]
    <3>1. files' = [files EXCEPT ![f] = files[f]]
      BY <1>1, <1>6 DEF TypeOK
    <3> QED
      BY <1>5, <2>1, <3>1
  <2>3. AllOrNothing'
    BY <1>1, <1>6 DEF AllOrNothing, stockVars
  <2> QED
    BY <1>1, <1>6, <2>1, <2>2, <2>3, FilesOnly DEF WriteFile, TypeOK
<1>7. CASE files' = [files EXCEPT ![f] = "failed"] /\ UNCHANGED stockVars
  <2>1. /\ ledger' \in Seq(Entries) /\ balance' \in Int /\ StockIsLedger' /\ PostedRefs' = PostedRefs
    BY <1>7, SameStock
  <2>2. WorkInv' /\ work' = [v \in Slots |-> work'[v]]
    BY <1>5, <1>7, <2>1
  <2>3. AllOrNothing'
    BY <1>1, <1>4, <1>7, <2>1, CommittedSame
  <2>4. files' \in [Files -> {"committing", "committed", "failed"}]
    BY <1>1, <1>7 DEF TypeOK
  <2> QED
    BY <2>1, <2>2, <2>3, <2>4, FilesOnly DEF WriteFile
<1>8. CASE Covered(rows) /\ Post(rows) /\ files' = [files EXCEPT ![f] = "committed"]
  <2>1. /\ ledger' \in Seq(Entries) /\ balance' \in Int /\ StockIsLedger'
        /\ PostedRefs' = PostedRefs \cup RefsOf(rows)
    <3>1. balance + Total(rows) >= 0
      BY <1>1, <1>4, <1>8, CoveredTotal
    <3> QED
      BY <1>1, <1>4, <1>8, <3>1, PostStock
  <2>2. WorkInv' /\ work' = [v \in Slots |-> work'[v]]
    BY <1>5, <1>8, <2>1
  <2>3. CommittedRefs' = CommittedRefs \cup RefsOf(f)
    <3>1. {g \in Files : files'[g] = "committed"} = {g \in Files : files[g] = "committed"} \cup {f}
      BY <1>1, <1>4, <1>8 DEF TypeOK
    <3> QED
      BY <3>1 DEF CommittedRefs, RefsOf
  <2>4. AllOrNothing'
    <3>1. RefsOf(rows) \subseteq RefsOf(f) /\ RefsOf(f) \subseteq RefsOf(rows) \cup PostedRefs
      BY <1>3 DEF FileWork
    <3>2. NoRef \notin RefsOf(f)
      BY <1>4, ReceivingAssumption DEF Refs
    <3>3. PostedRefs' \ {NoRef} = CommittedRefs'
      BY <1>1, <2>1, <2>3, <3>1, <3>2, WholeFiles
    <3>4. AllOrNothing' <=> PostedRefs' \ {NoRef} = CommittedRefs'
      BY DEF AllOrNothing, PostedRefs, RefsOf, CommittedRefs
    <3> QED
      BY <3>3, <3>4
  <2>5. files' \in [Files -> {"committing", "committed", "failed"}]
    BY <1>1, <1>8 DEF TypeOK
  <2> QED
    BY <2>1, <2>2, <2>4, <2>5, FilesOnly DEF WriteFile
<1> QED
  BY <1>2, <1>6, <1>7, <1>8 DEF WriteFile, SaveRows

LEMMA CheckDocStep ==
  ASSUME IInv, NEW w \in Slots, NEW d \in Docs, CheckDoc(w, d)
  PROVE  IInv'
<1>1. /\ ledger' \in Seq(Entries) /\ balance' \in Int /\ StockIsLedger'
      /\ TypeOK /\ WorkInv /\ AllOrNothing /\ UNCHANGED <<ledger, files>>
  BY SameStock DEF CheckDoc, IInv, stockVars
<1>2. PICK x : x = [job |-> "order", doc |-> d, new |-> order = "none"] /\ work' = [work EXCEPT ![w] = x]
  BY DEF CheckDoc
<1>3. x.job = "order" /\ x.doc = d
  BY <1>2
<1>4. WorkInv' /\ work' = [v \in Slots |-> work'[v]]
  BY <1>1, <1>2, <1>3, SlotTaken
<1>5. AllOrNothing' /\ files' \in [Files -> {"committing", "committed", "failed"}]
  BY <1>1 DEF AllOrNothing, TypeOK
<1> QED
  BY <1>1, <1>4, <1>5, FilesOnly DEF CheckDoc

LEMMA WriteDocStep ==
  ASSUME IInv, NEW w \in Slots, WriteDoc(w)
  PROVE  IInv'
<1>1. TypeOK /\ WorkInv /\ WithinOrdered /\ ReceivedFromReceipts /\ ApiInv
  BY DEF IInv
<1>2. UNCHANGED <<stockVars, files, receipts, api>> /\ work' = [work EXCEPT ![w] = Nothing]
  BY DEF WriteDoc
<1>3. WorkInv' /\ work' = [v \in Slots |-> work'[v]]
  <2>1. PostedRefs \subseteq PostedRefs'
    BY <1>2 DEF PostedRefs, RefsOf, stockVars
  <2> QED
    BY <1>1, <1>2, <2>1, SlotDone
<1>4. CASE UNCHANGED orderVars
  <2>1. WithinOrdered' /\ ReceivedFromReceipts' /\ ApiInv'
    BY <1>1, <1>2, <1>4, LinesFrame, FormFrame DEF orderVars
  <2> QED
    BY <1>1, <1>2, <1>3, <1>4, <2>1, OrderOnly DEF orderVars, TypeOK
<1>5. CASE LET d == work[w].doc
           IN WriteOrder(d, [l \in DOMAIN d |-> d[l].received],
                         {l \in DOMAIN d : d[l].received # line[l].received})
  <2>1. PICK d \in Docs : d = work[w].doc
    BY <1>1 DEF WriteDoc, WorkInv, InJob
  <2>2. PICK got, changed : /\ got = [l \in DOMAIN d |-> d[l].received]
                            /\ changed = {l \in DOMAIN d : d[l].received # line[l].received}
                            /\ WriteOrder(d, got, changed)
    BY <1>5, <2>1
  <2>3. DOMAIN d \subseteq Lines /\ \A l \in DOMAIN d : d[l].received \in 0 .. d[l].quantity /\ d[l].quantity \in Nat
    BY ReceivingAssumption
  <2>4. \A l \in DOMAIN d : /\ got[l] \in Nat /\ got[l] <= d[l].quantity
                            /\ l \notin foreign \cup changed => got[l] = line[l].received
    BY <2>2, <2>3
  <2>5. changed \in SUBSET Lines /\ receipts' = receipts
    BY <1>2, <2>2, <2>3
  <2>6. /\ line' \in [Lines -> LineRecords] /\ order' \in {"none", "OPEN", "CANCELLED"}
        /\ foreign' \subseteq Lines /\ foreign \subseteq foreign'
        /\ \A l \in Lines \ foreign' : line'[l].received = line[l].received
        /\ WithinOrdered' /\ ReceivedFromReceipts'
    BY <1>1, <2>2, <2>4, <2>5, WrittenOrder
  <2>7. ApiInv'
    BY <1>1, <1>2, <2>6, FormFrame
  <2> QED
    BY <1>2, <1>3, <2>6, <2>7, OrderOnly
<1> QED
  BY <1>4, <1>5 DEF WriteDoc

-----------------------------------------------------------------------------
(* Goods receipts.                                                         *)

LEMMA InSomeOrder ==
  ASSUME NEW S, IsFiniteSet(S)
  PROVE  SetToSeq(S) \in Seq(S)
<1>1. Cardinality(S) \in Nat /\ ExistsBijection(1 .. Cardinality(S), S)
  BY FS_CardinalityType
<1>2. \E f \in [1 .. Cardinality(S) -> S] : IsInjective(f)
  BY <1>1 DEF ExistsBijection, Bijection, Injection, IsInjective
<1>3. SetToSeq(S) \in [1 .. Cardinality(S) -> S]
  BY <1>2 DEF SetToSeq
<1> QED
  BY <1>1, <1>3

LEMMA ReceiveStep ==
  ASSUME IInv, NEW q \in Requests, NEW got \in Received, Receive(q, got)
  PROVE  IInv'
<1>1. TypeOK /\ WorkInv /\ StockIsLedger /\ AllOrNothing /\ WithinOrdered /\ ReceivedFromReceipts
  BY DEF IInv
<1>2. UNCHANGED <<order, foreign, files, work, api>> /\ api = Nothing /\ receipts[q] = Nothing
  BY DEF Receive
<1>3. DOMAIN got \subseteq Lines /\ \A l \in DOMAIN got : got[l] \in Nat \ {0}
  BY ReceivingAssumption
<1>4. /\ receipts' = [receipts EXCEPT ![q] = [l \in Lines |->
           IF l \in DOMAIN got THEN [quantity |-> got[l], base |-> got[l] * line[l].factor]
                               ELSE [quantity |-> 0, base |-> 0]]]
      /\ line' = [l \in Lines |-> IF l \in DOMAIN got
                                    THEN [line[l] EXCEPT !.received = @ + got[l]] ELSE line[l]]
  BY DEF Receive, Record
<1>5. ASSUME NEW l \in DOMAIN got
      PROVE  got[l] * line[l].factor \in Nat /\ got[l] + line[l].received \in Nat
  <2>1. PICK a \in Nat, b \in Nat, c \in Nat : a = got[l] /\ b = line[l].factor /\ c = line[l].received
    BY <1>1, <1>3, LineType
  <2>2. a * b \in Nat /\ a + c \in Nat
    OBVIOUS
  <2> QED
    BY <2>1, <2>2
<1>6. PICK rows \in Seq(Rows) : /\ Post(rows) /\ RefsOf(rows) \subseteq {NoRef}
                               /\ \A k \in DOMAIN rows : rows[k].quantity \in Nat
  <2>1. PICK ls : ls = SetToSeq(DOMAIN got)
    OBVIOUS
  <2>2. ls \in Seq(DOMAIN got)
    <3>1. IsFiniteSet(DOMAIN got)
      BY <1>3, FS_Subset, ReceivingAssumption
    <3> QED
      BY <2>1, <3>1, InSomeOrder
  <2>3. PICK rows : /\ rows = [k \in DOMAIN ls |->
                        [type |-> "RECEIPT", quantity |-> got[ls[k]] * line[ls[k]].factor, ref |-> NoRef]]
                    /\ Post(rows)
    BY <2>1 DEF Receive, Record
  <2>4. \A k \in DOMAIN ls : /\ rows[k] \in Rows /\ rows[k].quantity \in Nat /\ rows[k].ref = NoRef
    <3> TAKE k \in DOMAIN ls
    <3>1. PICK n \in Nat : n = got[ls[k]] * line[ls[k]].factor
      BY <1>5, <2>2
    <3>2. rows[k] = [type |-> "RECEIPT", quantity |-> n, ref |-> NoRef]
      BY <2>3, <3>1
    <3> QED
      BY <3>2 DEF Rows, Types
  <2>5. rows \in Seq(Rows) /\ DOMAIN rows = DOMAIN ls
    BY <2>2, <2>3, <2>4
  <2> QED
    BY <2>3, <2>4, <2>5 DEF RefsOf
<1>7. /\ ledger' \in Seq(Entries) /\ balance' \in Int /\ StockIsLedger'
      /\ PostedRefs' = PostedRefs \cup RefsOf(rows)
  <2>1. Total(rows) \in Nat
    BY <1>6, TotalNotNegative
  <2>2. balance + Total(rows) >= 0
    BY <1>1, <2>1 DEF TypeOK, StockIsLedger
  <2> QED
    BY <1>1, <1>6, <2>2, PostStock
<1>8. WorkInv' /\ AllOrNothing'
  BY <1>1, <1>2, <1>6, <1>7, FilesFrame
<1>9. PICK brought \in Receipts :
        /\ receipts' = [receipts EXCEPT ![q] = brought]
        /\ \A l \in Lines : brought[l].base = IF l \in DOMAIN got THEN got[l] * line[l].factor ELSE 0
  <2> DEFINE b == [l \in Lines |->
                     IF l \in DOMAIN got THEN [quantity |-> got[l], base |-> got[l] * line[l].factor]
                                         ELSE [quantity |-> 0, base |-> 0]]
  <2>1. \A l \in Lines : b[l] \in [quantity: Nat, base: Nat]
    BY <1>3, <1>5
  <2>2. b \in Receipts
    BY <2>1 DEF Receipts
  <2>3. \A l \in Lines : b[l].base = IF l \in DOMAIN got THEN got[l] * line[l].factor ELSE 0
    OBVIOUS
  <2> QED
    BY <1>4, <2>2, <2>3
<1>10. receipts' \in [Requests -> Receipts \cup {Nothing}]
  BY <1>1, <1>9 DEF TypeOK
<1>11. ASSUME NEW l \in Lines
       PROVE  /\ AllBrought(l) \in Int
              /\ AllBrought(l)' = AllBrought(l) + IF l \in DOMAIN got THEN got[l] * line[l].factor ELSE 0
  <2>1. PICK f, g : f = [r \in Requests |-> Brought(r, l)] /\ g = [r \in Requests |-> Brought(r, l)']
    OBVIOUS
  <2>2. AllBrought(l) = SumFunctionOnSet(f, Requests) /\ AllBrought(l)' = SumFunctionOnSet(g, Requests)
    BY <2>1 DEF AllBrought, SumFunction
  <2>3. f[q] = 0 /\ g[q] = IF l \in DOMAIN got THEN got[l] * line[l].factor ELSE 0
    <3>1. receipts'[q] = brought /\ brought # Nothing
      BY <1>1, <1>9, ReceivingAssumption DEF TypeOK
    <3> QED
      BY <1>2, <1>9, <2>1, <3>1 DEF Brought
  <2>4. \A r \in Requests \ {q} : f[r] = g[r]
    BY <1>1, <1>9, <2>1 DEF Brought, TypeOK
  <2>5. ASSUME NEW r \in Requests PROVE f[r] \in Int
    <3>1. receipts[r] \in Receipts => receipts[r][l].base \in Int
      BY DEF Receipts
    <3> QED
      BY <1>1, <2>1, <3>1 DEF Brought, TypeOK
  <2>6. g[q] \in Int
    BY <1>5, <2>3
  <2>7. IntsOn(f, Requests) /\ IntsOn(g, Requests)
    BY <2>4, <2>5, <2>6 DEF IntsOn
  <2>8. SumFunctionOnSet(g, Requests) = SumFunctionOnSet(f, Requests) - f[q] + g[q]
    BY <2>4, <2>7, SumChange, ReceivingAssumption
  <2>9. SumFunctionOnSet(f, Requests) \in Int
    BY <2>7, SumAdds, ReceivingAssumption
  <2> QED
    BY <2>2, <2>3, <2>6, <2>8, <2>9
<1>12. ASSUME NEW l \in Lines, l \in DOMAIN got PROVE line'[l] \in LineRecords /\ LineOK(l)'
  <2>1. PICK n \in Nat, old \in Nat, c \in Nat \ {0}, a \in Nat :
          n = got[l] /\ old = line[l].received /\ c = line[l].factor /\ a = line[l].quantity
    BY <1>1, <1>3, <1>12, LineType
  <2>2. line'[l] = [line[l] EXCEPT !.received = old + n]
    BY <1>4, <1>12, <2>1
  <2>3. /\ line'[l] \in LineRecords /\ line'[l].received = old + n
        /\ line'[l].quantity = a /\ line'[l].factor = c
    BY <1>1, <2>1, <2>2, LineType DEF LineRecords
  <2>4. old + n <= a
    BY <1>12, <2>1 DEF Receive, Receivable, Due
  <2>5. ASSUME l \notin foreign' PROVE (old + n) * c = AllBrought(l)'
    <3>1. old * c = AllBrought(l)
      BY <1>1, <1>2, <2>1, <2>5, LinesOK DEF LineOK
    <3>2. AllBrought(l)' = AllBrought(l) + n * c
      BY <1>11, <1>12, <2>1
    <3>3. (old + n) * c = old * c + n * c
      BY SMT
    <3> QED
      BY <3>1, <3>2, <3>3
  <2> QED
    BY <2>3, <2>4, <2>5 DEF LineOK
<1>13. ASSUME NEW l \in Lines, l \notin DOMAIN got PROVE line'[l] \in LineRecords /\ LineOK(l)'
  <2>1. line'[l] = line[l]
    BY <1>4, <1>13
  <2>2. AllBrought(l)' = AllBrought(l)
    BY <1>11, <1>13
  <2>3. LineOK(l)
    BY <1>1, LinesOK
  <2> QED
    BY <1>1, <1>2, <2>1, <2>2, <2>3, LineType DEF LineOK
<1>14. line' \in [Lines -> LineRecords] /\ WithinOrdered' /\ ReceivedFromReceipts'
  <2>1. line' = [l \in Lines |-> line'[l]]
    BY <1>4
  <2>2. \A l \in Lines : line'[l] \in LineRecords /\ LineOK(l)'
    BY <1>12, <1>13
  <2> QED
    BY <2>1, <2>2, LinesOKNext
<1>15. ApiInv'
  BY <1>2 DEF ApiInv
<1>16. TypeOK'
  BY <1>1, <1>2, <1>7, <1>10, <1>14 DEF TypeOK
<1> QED
  BY <1>7, <1>8, <1>14, <1>15, <1>16 DEF IInv

-----------------------------------------------------------------------------
(* The theorems.                                                           *)

LEMMA StepInv == IInv /\ [Next]_vars => IInv'
<1> SUFFICES ASSUME IInv, [Next]_vars PROVE IInv'
  OBVIOUS
<1>1. CASE UNCHANGED vars
  <2>1. ApiInv'
    BY <1>1, FormFrame DEF IInv, vars, orderVars
  <2> QED
    BY <1>1, <2>1, SameStock, StockOnly DEF vars
<1>2. CASE People
  BY <1>2, CheckPostStep, WritePostStep, ReverseStep, CheckFormStep, WriteFormStep,
     CancelOrderStep, ReceiveStep DEF People
<1>3. CASE Imports
  BY <1>3, CheckFileStep, CheckDocStep, WriteFileStep, WriteDocStep, RetryFileStep DEF Imports
<1> QED
  BY <1>1, <1>2, <1>3 DEF Next

\* The ledger, the files of movements and the order in every reachable state,
\* for any lines, forms, files, movements and requests.
THEOREM Invariance == Spec => []IInv
<1>1. Init => IInv
  BY InitInv
<1>2. IInv /\ [Next]_vars => IInv'
  BY StepInv
<1> QED
  BY <1>1, <1>2, PTL DEF Spec

\* A file of movements is in the ledger as a whole or not at all, whatever
\* movements are posted and reversed while it waits between its check and its
\* writing, and although two files may have references in common (commitBatch,
\* postMovements).
THEOREM FilesWhole == Spec => []AllOrNothing
<1>1. IInv => AllOrNothing
  BY DEF IInv
<1> QED
  BY <1>1, Invariance, PTL

\* No line of a purchase order has received more than it orders, although an
\* order form is saved with what its lines had received when it was checked
\* (postReceipt, receivedFromRecords, writeOrder).
THEOREM NeverOverReceived == Spec => []WithinOrdered
<1>1. IInv => WithinOrdered
  BY DEF IInv
<1> QED
  BY <1>1, Invariance, PTL

\* What a line has received is the sum of what the receipts brought it, for the
\* lines no import and no change of unit took out of that account (postReceipt).
THEOREM ReceivedIsSum == Spec => []ReceivedFromReceipts
<1>1. IInv => ReceivedFromReceipts
  BY DEF IInv
<1> QED
  BY <1>1, Invariance, PTL

\* The stock on hand is the sum of the movements of the ledger and is never
\* negative (stock_balances and its trigger, stock_not_negative).
THEOREM StockIsItsMovements == Spec => []StockIsLedger
<1>1. IInv => StockIsLedger
  BY DEF IInv
<1> QED
  BY <1>1, Invariance, PTL

-----------------------------------------------------------------------------
(* The buffers of a calculation.                                           *)

-----------------------------------------------------------------------------
(* Items and their components.                                             *)

\* The edges of a graph without loops, and the graph turned around.
Loopless(D, E) ==
  \A S \in (SUBSET D) \ {{}} : \E i \in S : (\A j \in S : <<i, j>> \notin E) \/ (\A j \in S : <<j, i>> \notin E)

\* Among some of its nodes one has no edge to another.
LEMMA Lowest ==
  ASSUME NEW D, IsFiniteSet(D), NEW E, Loopless(D, E), NEW S \in SUBSET D, S # {}
  PROVE  \E i \in S : \A j \in S : <<i, j>> \notin E
<1> DEFINE B == {T \in SUBSET D : T # {} /\ \A i \in T : \E j \in T : <<i, j>> \in E}
<1> SUFFICES ASSUME S \in B PROVE FALSE
  OBVIOUS
<1>1. PICK T \in B : \A U \in B : U \subseteq T => U = T
  <2>1. B \in SUBSET (SUBSET D)
    OBVIOUS
  <2> HIDE DEF B
  <2> QED
    BY <2>1, SmallestSet
<1>2. PICK i \in T : \A j \in T : <<j, i>> \notin E
  BY <1>1 DEF Loopless
<1>3. T \ {i} \in B
  <2>1. PICK j \in T : <<i, j>> \in E
    BY <1>1
  <2>2. j # i
    BY <1>2, <2>1
  <2>3. \A k \in T \ {i} : \E l \in T \ {i} : <<k, l>> \in E
    BY <1>1, <1>2
  <2> QED
    BY <1>1, <2>1, <2>2, <2>3
<1> QED
  BY <1>1, <1>3

\* Turned around, a graph still has no loops.
LEMMA TurnedAround ==
  ASSUME NEW D, NEW E, Loopless(D, E), NEW F, \A i, j \in D : <<i, j>> \in F <=> <<j, i>> \in E
  PROVE  Loopless(D, F)
<1> SUFFICES ASSUME NEW S \in (SUBSET D) \ {{}}
             PROVE  \E i \in S : (\A j \in S : <<i, j>> \notin F) \/ (\A j \in S : <<j, i>> \notin F)
  BY DEF Loopless
<1>1. PICK i \in S : (\A j \in S : <<i, j>> \notin E) \/ (\A j \in S : <<j, i>> \notin E)
  BY DEF Loopless
<1> QED
  BY <1>1

\* Items and what they are made from.
Uses == {e \in Parts \X Parts : Usage[e[1]][e[2]] > 0}
UsedIn == {e \in Parts \X Parts : Usage[e[2]][e[1]] > 0}

\* The library as Buffers sees it.
LEMMA SameFinite == ASSUME NEW S PROVE Buffers!IsFiniteSet(S) <=> IsFiniteSet(S)
BY DEF Buffers!IsFiniteSet, IsFiniteSet

LEMMA SameSum == ASSUME NEW f PROVE Buffers!SumFunction(f) = SumFunction(f)
BY DEF Buffers!SumFunction, SumFunction, Buffers!SumFunctionOnSet, SumFunctionOnSet, Buffers!FoldFunctionOnSet,
       FoldFunctionOnSet, Buffers!MapThenFoldSet, MapThenFoldSet

LEMMA SameMax == ASSUME NEW S PROVE Buffers!Max(S) = Max(S)
BY DEF Buffers!Max, Max

LEMMA UsageFacts ==
  /\ IsFiniteSet(Parts)
  /\ \A i, j \in Parts : Usage[i][j] \in Nat
  /\ \A i, j \in Parts : (<<i, j>> \in Uses <=> Usage[i][j] > 0) /\ (<<i, j>> \in UsedIn <=> Usage[j][i] > 0)
BY CalculationAssumption, SameFinite DEF Buffers!BuffersAssumption, Uses, UsedIn

LEMMA UsesNoLoops == Loopless(Parts, Uses) /\ Loopless(Parts, UsedIn)
<1>1. Loopless(Parts, Uses)
  <2> SUFFICES ASSUME NEW S \in (SUBSET Parts) \ {{}}
               PROVE  \E i \in S : (\A j \in S : <<i, j>> \notin Uses) \/ (\A j \in S : <<j, i>> \notin Uses)
    BY DEF Loopless
  <2>1. PICK i \in S : (\A j \in S : Usage[i][j] = 0) \/ (\A j \in S : Usage[j][i] = 0)
    BY CalculationAssumption DEF Buffers!BuffersAssumption
  <2>2. \A j \in S : (<<i, j>> \in Uses => Usage[i][j] # 0) /\ (<<j, i>> \in Uses => Usage[j][i] # 0)
    BY UsageFacts
  <2> QED
    BY <2>1, <2>2
<1>2. Loopless(Parts, UsedIn)
  BY <1>1, TurnedAround, UsageFacts
<1> QED
  BY <1>1, <1>2

\* Among some items one is made from none of them.
LEMMA SomeLowest ==
  ASSUME NEW S \in SUBSET Parts, S # {}
  PROVE  \E i \in S : \A j \in S : Usage[i][j] = 0
<1>1. PICK i \in S : \A j \in S : <<i, j>> \notin Uses
  BY UsageFacts, UsesNoLoops, Lowest
<1>2. \A j \in S : Usage[i][j] \in Nat /\ ~(Usage[i][j] > 0)
  BY <1>1, UsageFacts
<1> QED
  BY <1>1, <1>2

LEMMA SomeHighest ==
  ASSUME NEW S \in SUBSET Parts, S # {}
  PROVE  \E i \in S : \A j \in S : Usage[j][i] = 0
<1>1. PICK i \in S : \A j \in S : <<i, j>> \notin UsedIn
  BY UsageFacts, UsesNoLoops, Lowest
<1>2. \A j \in S : Usage[j][i] \in Nat /\ ~(Usage[j][i] > 0)
  BY <1>1, UsageFacts
<1> QED
  BY <1>1, <1>2

-----------------------------------------------------------------------------
(* The ways down from an item.                                             *)

\* Where demand for i is passed on to, and what a unit of i asks of c.
Via(i) == {m \in Parts : Usage[i][m] > 0 /\ ~Buffers!Buffered(m)}
Step(f, i, c) == SumFunction([m \in Via(i) |-> Usage[i][m] * f[m][c]])
Ways(f, D) == f = [i \in D |-> [c \in Parts |-> Usage[i][c] + Step(f, i, c)]]

LEMMA StepAgrees ==
  ASSUME NEW f, NEW g, NEW i, \A m \in Via(i) : f[m] = g[m], NEW c
  PROVE  Step(f, i, c) = Step(g, i, c)
<1>1. [m \in Via(i) |-> Usage[i][m] * f[m][c]] = [m \in Via(i) |-> Usage[i][m] * g[m][c]]
  OBVIOUS
<1> QED
  BY <1>1 DEF Step

\* There is a function that is what Through says: of the sets of items left
\* over by one that is defined on a set closed downward, the smallest is empty.
LEMMA WaysExist == \E f : Ways(f, Parts)
<1> DEFINE A == {D \in SUBSET Parts : (\A i \in D : Via(i) \subseteq D) /\ \E f : Ways(f, D)}
           B == {Parts \ D : D \in A}
<1>1. {} \in A
  <2>1. Ways([i \in {} |-> 0], {})
    BY DEF Ways
  <2> QED
    BY <2>1
<1>2. PICK T \in B : \A U \in B : U \subseteq T => U = T
  <2>1. B \in SUBSET (SUBSET Parts) /\ B # {}
    BY <1>1
  <2> HIDE DEF B
  <2> QED
    BY <2>1, SmallestSet, UsageFacts
<1>3. PICK D \in A : T = Parts \ D
  OBVIOUS
<1>4. PICK f : Ways(f, D)
  BY <1>3
<1>5. CASE T = {}
  BY <1>3, <1>4, <1>5
<1>6. CASE T # {}
  <2>1. PICK i \in T : \A j \in T : Usage[i][j] = 0
    BY <1>3, <1>6, SomeLowest
  <2>2. Via(i) \subseteq D /\ i \in Parts /\ i \notin D
    BY <1>3, <2>1 DEF Via
  <2> DEFINE E == D \cup {i}
             g == [k \in E |-> IF k = i THEN [c \in Parts |-> Usage[i][c] + Step(f, i, c)] ELSE f[k]]
  <2>3. \A k \in E : Via(k) \subseteq D
    BY <1>3, <2>2
  <2>4. \A m \in D : g[m] = f[m]
    BY <2>2
  <2>5. \A k \in E : \A c \in Parts : Step(g, k, c) = Step(f, k, c)
    <3> HIDE DEF g
    <3> QED
      BY <2>3, <2>4, StepAgrees
  <2>6. \A k \in D : f[k] = [c \in Parts |-> Usage[k][c] + Step(f, k, c)]
    BY <1>4 DEF Ways
  <2>7. \A k \in E : g[k] = [c \in Parts |-> Usage[k][c] + Step(f, k, c)]
    BY <2>2, <2>6
  <2>8. \A k \in E : g[k] = [c \in Parts |-> Usage[k][c] + Step(g, k, c)]
    <3> HIDE DEF g
    <3> QED
      BY <2>5, <2>7
  <2>9. g = [k \in E |-> g[k]]
    OBVIOUS
  <2>10. Ways(g, E)
    <3> HIDE DEF g
    <3> QED
      BY <2>8, <2>9 DEF Ways
  <2>11. E \in A
    BY <1>3, <2>2, <2>3, <2>10
  <2>12. Parts \ E \in B /\ Parts \ E \subseteq T /\ Parts \ E # T
    BY <1>3, <2>1, <2>2, <2>11
  <2> HIDE DEF B, E
  <2> QED
    BY <1>2, <2>12
<1> QED
  BY <1>5, <1>6

LEMMA ThroughWays == Ways(Buffers!Through, Parts)
<1>1. Buffers!Through = CHOOSE f : Ways(f, Parts)
  BY SameSum DEF Buffers!Through, Ways, Step, Via
<1> QED
  BY <1>1, WaysExist

\* What a unit asks for: directly, and by its components that pass it on.
LEMMA ThroughIs ==
  \A i, c \in Parts : Buffers!Through[i][c] = Usage[i][c] + Step(Buffers!Through, i, c)
<1>1. PICK f : f = Buffers!Through
  OBVIOUS
<1>2. Ways(f, Parts)
  BY <1>1, ThroughWays
<1>3. ASSUME NEW i \in Parts, NEW c \in Parts PROVE f[i][c] = Usage[i][c] + Step(f, i, c)
  <2>1. f[i] = [k \in Parts |-> Usage[i][k] + Step(f, i, k)]
    BY <1>2 DEF Ways
  <2> QED
    BY <2>1
<1> QED
  BY <1>1, <1>3

LEMMA ViaFacts ==
  ASSUME NEW i \in Parts
  PROVE  /\ Via(i) \subseteq Parts /\ IsFiniteSet(Via(i))
         /\ \A m \in Via(i) : Usage[i][m] \in Nat \ {0}
<1>1. Via(i) \subseteq Parts /\ \A m \in Via(i) : Usage[i][m] > 0
  BY DEF Via
<1> QED
  BY <1>1, UsageFacts, FS_Subset

LEMMA NatTimes == ASSUME NEW a \in Nat, NEW b \in Nat PROVE a * b \in Nat
OBVIOUS

LEMMA StepNat ==
  ASSUME NEW f, NEW i \in Parts, NEW c, \A m \in Via(i) : f[m][c] \in Nat
  PROVE  Step(f, i, c) \in Nat
<1>1. PICK g : g = [m \in Via(i) |-> Usage[i][m] * f[m][c]]
  OBVIOUS
<1>2. \A m \in Via(i) : g[m] \in Nat
  <2> SUFFICES ASSUME NEW m \in Via(i) PROVE Usage[i][m] * f[m][c] \in Nat
    BY <1>1
  <2> QED
    BY ViaFacts, NatTimes
<1>3. SumFunctionOnSet(g, Via(i)) \in Nat
  BY <1>2, ViaFacts, SumNotNegative
<1> QED
  BY <1>1, <1>3 DEF Step, SumFunction

LEMMA ThroughNat == \A i, c \in Parts : Buffers!Through[i][c] \in Nat
<1> SUFFICES ASSUME NEW c \in Parts PROVE \A i \in Parts : Buffers!Through[i][c] \in Nat
  OBVIOUS
<1>1. PICK f : f = Buffers!Through
  OBVIOUS
<1> DEFINE S == {i \in Parts : f[i][c] \notin Nat}
<1> SUFFICES ASSUME S # {} PROVE FALSE
  BY <1>1
<1>2. PICK i \in S : \A j \in S : Usage[i][j] = 0
  BY SomeLowest
<1>3. \A m \in Via(i) : f[m][c] \in Nat
  BY <1>2 DEF Via
<1>4. Step(f, i, c) \in Nat
  BY <1>3, StepNat
<1>5. f[i][c] = Usage[i][c] + Step(f, i, c)
  BY <1>1, ThroughIs
<1> QED
  BY <1>4, <1>5, UsageFacts

\* A unit of i asks for c if one of its components is c, or passes it on.
LEMMA NoWay ==
  ASSUME NEW i \in Parts, NEW c \in Parts, Buffers!Through[i][c] = 0
  PROVE  Usage[i][c] = 0 /\ \A m \in Via(i) : Buffers!Through[m][c] = 0
<1>1. PICK f : f = Buffers!Through
  OBVIOUS
<1>2. \A m \in Parts : f[m][c] \in Nat
  BY <1>1, ThroughNat
<1>3. Usage[i][c] = 0 /\ Step(f, i, c) = 0
  <2>1. Step(f, i, c) \in Nat
    BY <1>2, StepNat, ViaFacts
  <2> QED
    BY <1>1, <2>1, ThroughIs, UsageFacts
<1>4. ASSUME NEW m \in Via(i) PROVE f[m][c] = 0
  <2>1. PICK g : g = [k \in Via(i) |-> Usage[i][k] * f[k][c]]
    OBVIOUS
  <2>2. \A k \in Via(i) : g[k] \in Nat
    <3> SUFFICES ASSUME NEW k \in Via(i) PROVE Usage[i][k] * f[k][c] \in Nat
      BY <2>1
    <3> QED
      BY <1>2, ViaFacts, NatTimes
  <2>3. SumFunctionOnSet(g, Via(i)) = 0
    BY <1>3, <2>1 DEF Step, SumFunction
  <2>4. SumFunctionOnSet(g, Via(i)) = g[m] + SumFunctionOnSet(g, Via(i) \ {m})
    <3>1. IntsOn(g, Via(i))
      BY <2>2 DEF IntsOn
    <3> QED
      BY <3>1, ViaFacts, SumAdds
  <2>5. SumFunctionOnSet(g, Via(i) \ {m}) \in Nat
    <3>1. PICK V : V = Via(i) \ {m} /\ V \subseteq Via(i)
      OBVIOUS
    <3>2. IsFiniteSet(V)
      BY <3>1, ViaFacts, FS_Subset
    <3>3. \A k \in V : g[k] \in Nat
      BY <2>2, <3>1
    <3> QED
      BY <3>1, <3>2, <3>3, SumNotNegative
  <2>6. g[m] = 0
    BY <2>2, <2>3, <2>4, <2>5
  <2>7. PICK a \in Nat \ {0}, b \in Nat : a = Usage[i][m] /\ b = f[m][c]
    BY <1>2, ViaFacts
  <2>8. a * b = 0
    BY <2>1, <2>6, <2>7
  <2> QED
    BY <2>7, <2>8
<1> QED
  BY <1>1, <1>3, <1>4

\* And conversely.
LEMMA SomeWay ==
  ASSUME NEW i \in Parts, NEW c \in Parts, Usage[i][c] = 0, \A m \in Via(i) : Buffers!Through[m][c] = 0
  PROVE  Buffers!Through[i][c] = 0
<1>1. PICK f : f = Buffers!Through
  OBVIOUS
<1>2. PICK g : g = [m \in Via(i) |-> Usage[i][m] * f[m][c]]
  OBVIOUS
<1>3. \A m \in Via(i) : g[m] = 0
  BY <1>1, <1>2, ViaFacts
<1>4. g = [m \in Via(i) |-> 0]
  BY <1>2, <1>3
<1>5. SumFunctionOnSet(g, Via(i)) = 0
  BY <1>4, ViaFacts, SumOfZeros
<1>6. Step(f, i, c) = 0
  BY <1>2, <1>5 DEF Step, SumFunction
<1> QED
  BY <1>1, <1>6, ThroughIs

-----------------------------------------------------------------------------
(* The levels of items.                                                    *)

Above(i) == {p \in Parts : Usage[p][i] > 0}
LevelOf(f, i) == IF Above(i) = {} THEN 0 ELSE 1 + Max({f[p] : p \in Above(i)})
Levels(f, D) == f = [i \in D |-> LevelOf(f, i)]

LEMMA LevelAgrees ==
  ASSUME NEW f, NEW g, NEW i, \A p \in Above(i) : f[p] = g[p]
  PROVE  LevelOf(f, i) = LevelOf(g, i)
<1>1. {f[p] : p \in Above(i)} = {g[p] : p \in Above(i)}
  OBVIOUS
<1> QED
  BY <1>1 DEF LevelOf

\* There is a function that is what Depth says.
LEMMA LevelsExist == \E f : Levels(f, Parts)
<1> DEFINE A == {D \in SUBSET Parts : (\A i \in D : Above(i) \subseteq D) /\ \E f : Levels(f, D)}
           B == {Parts \ D : D \in A}
<1>1. {} \in A
  <2>1. Levels([i \in {} |-> 0], {})
    BY DEF Levels
  <2> QED
    BY <2>1
<1>2. PICK T \in B : \A U \in B : U \subseteq T => U = T
  <2>1. B \in SUBSET (SUBSET Parts) /\ B # {}
    BY <1>1
  <2> HIDE DEF B
  <2> QED
    BY <2>1, SmallestSet, UsageFacts
<1>3. PICK D \in A : T = Parts \ D
  OBVIOUS
<1>4. PICK f : Levels(f, D)
  BY <1>3
<1>5. CASE T = {}
  BY <1>3, <1>4, <1>5
<1>6. CASE T # {}
  <2>1. PICK i \in T : \A j \in T : Usage[j][i] = 0
    BY <1>3, <1>6, SomeHighest
  <2>2. Above(i) \subseteq D /\ i \in Parts /\ i \notin D
    BY <1>3, <2>1 DEF Above
  <2> DEFINE E == D \cup {i}
             g == [k \in E |-> IF k = i THEN LevelOf(f, i) ELSE f[k]]
  <2>3. \A k \in E : Above(k) \subseteq D
    BY <1>3, <2>2
  <2>4. \A m \in D : g[m] = f[m]
    BY <2>2
  <2>5. \A k \in E : LevelOf(g, k) = LevelOf(f, k)
    <3> HIDE DEF g
    <3> QED
      BY <2>3, <2>4, LevelAgrees
  <2>6. \A k \in D : f[k] = LevelOf(f, k)
    BY <1>4 DEF Levels
  <2>7. \A k \in E : g[k] = LevelOf(f, k)
    BY <2>2, <2>6
  <2>8. \A k \in E : g[k] = LevelOf(g, k)
    <3> HIDE DEF g
    <3> QED
      BY <2>5, <2>7
  <2>9. g = [k \in E |-> g[k]]
    OBVIOUS
  <2>10. Levels(g, E)
    <3> HIDE DEF g
    <3> QED
      BY <2>8, <2>9 DEF Levels
  <2>11. E \in A
    BY <1>3, <2>2, <2>3, <2>10
  <2>12. Parts \ E \in B /\ Parts \ E \subseteq T /\ Parts \ E # T
    BY <1>3, <2>1, <2>2, <2>11
  <2> HIDE DEF B, E
  <2> QED
    BY <1>2, <2>12
<1> QED
  BY <1>5, <1>6

LEMMA DepthLevels == Levels(Buffers!Depth, Parts)
<1>1. Buffers!Depth = CHOOSE f : Levels(f, Parts)
  BY SameMax DEF Buffers!Depth, Levels, LevelOf, Above
<1> QED
  BY <1>1, LevelsExist

\* Of the values at finitely many places one is largest.
LEMMA Largest ==
  ASSUME NEW D, IsFiniteSet(D), D # {}, NEW f, \A p \in D : f[p] \in Nat
  PROVE  Max({f[p] : p \in D}) \in Nat /\ \A q \in D : f[q] <= Max({f[p] : p \in D})
<1> DEFINE B == {T \in SUBSET D : T # {} /\ ~\E p \in T : \A q \in T : f[q] <= f[p]}
<1>1. B = {}
  <2> SUFFICES ASSUME B # {} PROVE FALSE
    OBVIOUS
  <2>1. PICK T \in B : \A U \in B : U \subseteq T => U = T
    <3>1. B \in SUBSET (SUBSET D)
      OBVIOUS
    <3> HIDE DEF B
    <3> QED
      BY <3>1, SmallestSet
  <2>2. PICK x \in T : TRUE
    OBVIOUS
  <2>3. T \ {x} # {} /\ T \ {x} \notin B
    <3>1. T \ {x} # T
      BY <2>2
    <3>2. T # {x}
      BY <2>1, <2>2
    <3> QED
      BY <2>1, <3>1, <3>2
  <2>4. PICK p \in T \ {x} : \A q \in T \ {x} : f[q] <= f[p]
    BY <2>3
  <2>5. f[x] \in Nat /\ f[p] \in Nat /\ \A q \in T : f[q] \in Nat
    BY <2>2, <2>4
  <2>6. CASE f[x] <= f[p]
    <3>1. \A q \in T : f[q] <= f[p]
      BY <2>4, <2>6
    <3> QED
      BY <2>1, <2>4, <3>1
  <2>7. CASE f[p] < f[x]
    <3>1. \A q \in T : f[q] <= f[x]
      BY <2>4, <2>5, <2>7
    <3> QED
      BY <2>1, <2>2, <3>1
  <2> QED
    BY <2>5, <2>6, <2>7
<1>2. PICK p \in D : \A q \in D : f[q] <= f[p]
  BY <1>1
<1>3. PICK V : V = {f[q] : q \in D}
  OBVIOUS
<1>4. f[p] \in V /\ V \subseteq Nat /\ \A y \in V : f[p] >= y
  BY <1>2, <1>3
<1>5. Max(V) = CHOOSE x \in V : \A y \in V : x >= y
  BY DEF Max
<1>6. Max(V) \in V /\ \A y \in V : Max(V) >= y
  BY <1>4, <1>5
<1> QED
  BY <1>3, <1>4, <1>6

LEMMA DepthNat == \A i \in Parts : Buffers!Depth[i] \in Nat
<1>1. PICK f : f = Buffers!Depth
  OBVIOUS
<1> DEFINE S == {i \in Parts : f[i] \notin Nat}
<1> SUFFICES ASSUME S # {} PROVE FALSE
  BY <1>1
<1>2. PICK i \in S : \A j \in S : Usage[j][i] = 0
  BY SomeHighest
<1>3. \A p \in Above(i) : f[p] \in Nat
  BY <1>2 DEF Above
<1>4. f[i] = LevelOf(f, i)
  BY <1>1, <1>2, DepthLevels DEF Levels
<1>5. IsFiniteSet(Above(i))
  BY UsageFacts, FS_Subset DEF Above
<1>6. LevelOf(f, i) \in Nat
  BY <1>3, <1>5, Largest DEF LevelOf
<1> QED
  BY <1>2, <1>4, <1>6

\* A component lies below the items it is used in.
LEMMA DepthRises ==
  ASSUME NEW p \in Parts, NEW i \in Parts, Usage[p][i] > 0
  PROVE  Buffers!Depth[p] < Buffers!Depth[i]
<1>1. PICK f : f = Buffers!Depth
  OBVIOUS
<1>2. p \in Above(i) /\ Above(i) \subseteq Parts
  BY DEF Above
<1>3. IsFiniteSet(Above(i))
  BY <1>2, UsageFacts, FS_Subset
<1>4. \A q \in Parts : f[q] \in Nat
  BY <1>1, DepthNat
<1>5. f[i] = LevelOf(f, i)
  BY <1>1, DepthLevels DEF Levels
<1>6. Max({f[q] : q \in Above(i)}) \in Nat /\ f[p] <= Max({f[q] : q \in Above(i)})
  BY <1>2, <1>3, <1>4, Largest
<1>7. f[i] = 1 + Max({f[q] : q \in Above(i)})
  BY <1>2, <1>5 DEF LevelOf
<1>8. PICK n : n = Max({f[q] : q \in Above(i)})
  OBVIOUS
<1>9. n \in Nat /\ f[p] <= n /\ f[i] = 1 + n /\ f[p] \in Nat
  BY <1>4, <1>6, <1>7, <1>8
<1> QED
  BY <1>1, <1>9

\* Demand goes down.
LEMMA ThroughRises ==
  \A c \in Parts : \A i \in Parts : Buffers!Through[i][c] # 0 => Buffers!Depth[i] < Buffers!Depth[c]
<1> SUFFICES ASSUME NEW c \in Parts
             PROVE  \A i \in Parts : Buffers!Through[i][c] # 0 => Buffers!Depth[i] < Buffers!Depth[c]
  OBVIOUS
<1>1. PICK f, d : f = Buffers!Through /\ d = Buffers!Depth
  OBVIOUS
<1> DEFINE S == {i \in Parts : f[i][c] # 0 /\ ~(d[i] < d[c])}
<1> SUFFICES ASSUME S # {} PROVE FALSE
  BY <1>1
<1>2. PICK i \in S : \A j \in S : Usage[i][j] = 0
  BY SomeLowest
<1>3. \A p, q \in Parts : d[p] \in Nat /\ (Usage[p][q] > 0 => d[p] < d[q])
  BY <1>1, DepthNat, DepthRises
<1>4. CASE Usage[i][c] # 0
  <2>1. Usage[i][c] > 0
    BY <1>2, <1>4, UsageFacts
  <2> QED
    BY <1>2, <1>3, <2>1
<1>5. CASE Usage[i][c] = 0
  <2>1. PICK m \in Via(i) : f[m][c] # 0
    BY <1>1, <1>2, <1>5, SomeWay
  <2>2. m \in Parts /\ Usage[i][m] > 0
    BY <2>1 DEF Via
  <2>3. m \notin S
    BY <1>2, <2>2
  <2>4. d[m] < d[c]
    BY <2>1, <2>2, <2>3
  <2>5. d[i] < d[m]
    BY <1>2, <1>3, <2>2
  <2>6. d[i] \in Nat /\ d[m] \in Nat /\ d[c] \in Nat
    BY <1>2, <1>3, <2>2
  <2>7. d[i] < d[c]
    BY <2>4, <2>5, <2>6
  <2> QED
    BY <1>2, <2>7
<1> QED
  BY <1>4, <1>5

-----------------------------------------------------------------------------
(* Lines and their sums.                                                   *)

\* The sum of a function, one element taken out.
LEMMA TakeOne ==
  ASSUME NEW S, IsFiniteSet(S), NEW f, f = [l \in S |-> f[l]], IntsOn(f, S), NEW x \in S,
         NEW g, g = [l \in S \ {x} |-> f[l]]
  PROVE  SumFunction(f) = f[x] + SumFunction(g)
<1>1. DOMAIN f = S /\ DOMAIN g = S \ {x}
  OBVIOUS
<1>2. SumFunctionOnSet(f, S) = f[x] + SumFunctionOnSet(f, S \ {x})
  BY SumAdds
<1>3. PICK T : T = S \ {x}
  OBVIOUS
<1>4. IsFiniteSet(T) /\ \A l \in T : f[l] = g[l]
  BY <1>3, FS_Subset
<1>5. SumFunctionOnSet(f, T) = SumFunctionOnSet(g, T)
  BY <1>4, SumAgrees
<1> QED
  BY <1>1, <1>2, <1>3, <1>5 DEF SumFunction

LEMMA SumIsNat ==
  ASSUME NEW S, IsFiniteSet(S), NEW f, f = [l \in S |-> f[l]], \A l \in S : f[l] \in Nat
  PROVE  SumFunction(f) \in Nat
<1>1. DOMAIN f = S
  OBVIOUS
<1> QED
  BY <1>1, SumNotNegative DEF SumFunction

LEMMA SumOfNothing == ASSUME NEW f, f = [l \in {} |-> f[l]] PROVE SumFunction(f) = 0
<1>1. DOMAIN f = {}
  OBVIOUS
<1> QED
  BY <1>1, SumOfNone DEF SumFunction

\* Lines ask for something; t says how much of an item a unit of another asks for.
SomeLines(S) == IsFiniteSet(S) /\ \A l \in S : l.item \in Parts /\ l.qty \in Nat
TableOf(t) == \A i, c \in Parts : t[i][c] \in Nat
Quantity(S) == SumFunction([l \in S |-> l.qty])
Load(t, c, l) == l.qty * t[l.item][c]
Weight(t, c, S) == SumFunction([l \in S |-> Load(t, c, l)])

\* The quantity of some lines, and what they weigh for an item: one line taken out.
LEMMA QuantityAdds ==
  ASSUME NEW S, SomeLines(S)
  PROVE  /\ Quantity(S) \in Nat
         /\ \A x \in S : Quantity(S) = x.qty + Quantity(S \ {x})
<1>1. PICK f : f = [l \in S |-> l.qty]
  OBVIOUS
<1>2. IsFiniteSet(S) /\ f = [l \in S |-> f[l]] /\ (\A l \in S : f[l] \in Nat) /\ Quantity(S) = SumFunction(f)
  BY <1>1 DEF SomeLines, Quantity
<1>3. Quantity(S) \in Nat
  BY <1>2, SumIsNat
<1>4. ASSUME NEW x \in S PROVE Quantity(S) = x.qty + Quantity(S \ {x})
  <2>1. PICK g : g = [l \in S \ {x} |-> f[l]]
    OBVIOUS
  <2>2. IntsOn(f, S)
    BY <1>2 DEF IntsOn
  <2>3. SumFunction(f) = f[x] + SumFunction(g)
    BY <1>2, <2>1, <2>2, TakeOne
  <2>4. g = [l \in S \ {x} |-> l.qty]
    BY <1>1, <2>1
  <2> QED
    BY <1>1, <1>2, <2>3, <2>4 DEF Quantity
<1> QED
  BY <1>3, <1>4

LEMMA LoadNat ==
  ASSUME NEW t, TableOf(t), NEW c \in Parts, NEW l, l.item \in Parts, l.qty \in Nat
  PROVE  Load(t, c, l) \in Nat
<1>1. t[l.item][c] \in Nat
  BY DEF TableOf
<1> QED
  BY <1>1, NatTimes DEF Load

LEMMA WeightAdds ==
  ASSUME NEW t, TableOf(t), NEW c \in Parts, NEW S, SomeLines(S)
  PROVE  /\ Weight(t, c, S) \in Nat
         /\ \A x \in S : Weight(t, c, S) = Load(t, c, x) + Weight(t, c, S \ {x})
<1>1. PICK f : f = [l \in S |-> Load(t, c, l)]
  OBVIOUS
<1>2. \A l \in S : Load(t, c, l) \in Nat
  BY LoadNat DEF SomeLines
<1>3. IsFiniteSet(S) /\ f = [l \in S |-> f[l]] /\ (\A l \in S : f[l] \in Nat) /\ Weight(t, c, S) = SumFunction(f)
  BY <1>1, <1>2 DEF SomeLines, Weight
<1>4. Weight(t, c, S) \in Nat
  BY <1>3, SumIsNat
<1>5. ASSUME NEW x \in S PROVE Weight(t, c, S) = Load(t, c, x) + Weight(t, c, S \ {x})
  <2>1. PICK g : g = [l \in S \ {x} |-> f[l]]
    OBVIOUS
  <2>2. IntsOn(f, S)
    BY <1>3 DEF IntsOn
  <2>3. SumFunction(f) = f[x] + SumFunction(g)
    <3>1. IsFiniteSet(S) /\ f = [l \in S |-> f[l]]
      BY <1>3
    <3> QED
      BY <2>1, <2>2, <3>1, TakeOne
  <2>4. g = [l \in S \ {x} |-> Load(t, c, l)]
    BY <1>1, <2>1
  <2> QED
    BY <1>1, <1>3, <2>3, <2>4 DEF Weight
<1> QED
  BY <1>4, <1>5

LEMMA NoLines == \A t, c : Quantity({}) = 0 /\ Weight(t, c, {}) = 0
<1> SUFFICES ASSUME NEW t, NEW c PROVE Quantity({}) = 0 /\ Weight(t, c, {}) = 0
  OBVIOUS
<1>1. PICK f : f = [l \in {} |-> l.qty]
  OBVIOUS
<1>2. PICK g : g = [l \in {} |-> Load(t, c, l)]
  OBVIOUS
<1>3. f = [l \in {} |-> f[l]] /\ g = [l \in {} |-> g[l]]
  BY <1>1, <1>2
<1> QED
  BY <1>1, <1>2, <1>3, SumOfNothing DEF Quantity, Weight

-----------------------------------------------------------------------------
(* Demand on the stack.                                                    *)

Demands == [item : Parts, due : Int, qty : Nat, for : {"customer", "production", "planned"}]
Waiting(t, c, s) == SumFunction([k \in 1 .. Len(s) |-> Load(t, c, s[k])])

LEMMA WaitingIs ==
  ASSUME NEW t, TableOf(t), NEW c \in Parts, NEW s \in Seq(Demands)
  PROVE  \E f : /\ f = [k \in 1 .. Len(s) |-> Load(t, c, s[k])]
                /\ \A k \in 1 .. Len(s) : f[k] \in Nat
                /\ IsFiniteSet(1 .. Len(s)) /\ DOMAIN f = 1 .. Len(s)
                /\ Waiting(t, c, s) = SumFunctionOnSet(f, 1 .. Len(s))
                /\ Waiting(t, c, s) \in Nat
<1>1. PICK f : f = [k \in 1 .. Len(s) |-> Load(t, c, s[k])]
  OBVIOUS
<1>2. ASSUME NEW k \in 1 .. Len(s) PROVE Load(t, c, s[k]) \in Nat
  <2>1. s[k] \in Demands
    OBVIOUS
  <2>2. s[k].item \in Parts /\ s[k].qty \in Nat
    BY <2>1 DEF Demands
  <2> QED
    BY <2>2, LoadNat
<1>3. IsFiniteSet(1 .. Len(s)) /\ DOMAIN f = 1 .. Len(s)
  <2>1. Len(s) \in Int /\ 1 \in Int
    OBVIOUS
  <2> QED
    BY <1>1, <2>1, FS_Interval
<1>4. Waiting(t, c, s) = SumFunctionOnSet(f, 1 .. Len(s))
  BY <1>1, <1>3 DEF Waiting, SumFunction
<1>5. \A k \in 1 .. Len(s) : f[k] \in Nat
  BY <1>1, <1>2
<1>6. Waiting(t, c, s) \in Nat
  BY <1>3, <1>4, <1>5, SumNotNegative
<1> QED
  BY <1>1, <1>3, <1>4, <1>5, <1>6

\* What two stacks ask for, one on top of the other.
LEMMA WaitingConcat ==
  ASSUME NEW t, TableOf(t), NEW c \in Parts, NEW r \in Seq(Demands), NEW s \in Seq(Demands)
  PROVE  Waiting(t, c, r \o s) = Waiting(t, c, r) + Waiting(t, c, s)
<1>1. PICK f : /\ f = [k \in 1 .. Len(r) |-> Load(t, c, r[k])]
               /\ \A k \in 1 .. Len(r) : f[k] \in Nat
               /\ IsFiniteSet(1 .. Len(r)) /\ Waiting(t, c, r) = SumFunctionOnSet(f, 1 .. Len(r))
  BY WaitingIs
<1>2. PICK g : /\ g = [k \in 1 .. Len(s) |-> Load(t, c, s[k])]
               /\ \A k \in 1 .. Len(s) : g[k] \in Nat
               /\ IsFiniteSet(1 .. Len(s)) /\ Waiting(t, c, s) = SumFunctionOnSet(g, 1 .. Len(s))
  BY WaitingIs
<1>3. PICK q : q = r \o s
  OBVIOUS
<1>4. /\ q \in Seq(Demands) /\ Len(q) = Len(r) + Len(s) /\ Len(r) \in Nat /\ Len(s) \in Nat
      /\ \A k \in 1 .. Len(r) : q[k] = r[k]
      /\ \A k \in 1 .. Len(s) : q[Len(r) + k] = s[k]
  BY <1>3
<1>5. PICK h : /\ h = [k \in 1 .. Len(q) |-> Load(t, c, q[k])]
               /\ Waiting(t, c, q) = SumFunctionOnSet(h, 1 .. Len(q))
  <2>1. q \in Seq(Demands)
    BY <1>4
  <2>2. \E h : /\ h = [k \in 1 .. Len(q) |-> Load(t, c, q[k])]
               /\ \A k \in 1 .. Len(q) : h[k] \in Nat
               /\ IsFiniteSet(1 .. Len(q)) /\ DOMAIN h = 1 .. Len(q)
               /\ Waiting(t, c, q) = SumFunctionOnSet(h, 1 .. Len(q))
               /\ Waiting(t, c, q) \in Nat
    BY <2>1, WaitingIs
  <2> QED
    BY <2>2
<1>6. PICK D, E, e : D = 1 .. Len(r) /\ E = 1 .. Len(s) /\ e = [k \in E |-> Len(r) + k]
  OBVIOUS
<1>7. \A k \in D : k \in 1 .. Len(q) /\ h[k] = f[k]
  <2> SUFFICES ASSUME NEW k \in D PROVE k \in 1 .. Len(q) /\ h[k] = f[k]
    OBVIOUS
  <2>1. k \in 1 .. Len(q) /\ q[k] = r[k] /\ k \in 1 .. Len(r)
    BY <1>4, <1>6
  <2> QED
    BY <1>1, <1>5, <2>1
<1>8. \A k \in E : e[k] = Len(r) + k /\ e[k] \in 1 .. Len(q) /\ e[k] \notin D /\ h[e[k]] = g[k]
  <2> SUFFICES ASSUME NEW k \in E
               PROVE  e[k] = Len(r) + k /\ e[k] \in 1 .. Len(q) /\ e[k] \notin D /\ h[e[k]] = g[k]
    OBVIOUS
  <2>1. e[k] = Len(r) + k /\ e[k] \in 1 .. Len(q) /\ e[k] \notin D
    BY <1>4, <1>6
  <2>2. q[e[k]] = s[k] /\ k \in 1 .. Len(s)
    BY <1>4, <1>6, <2>1
  <2> QED
    BY <1>2, <1>5, <2>1, <2>2
<1>9. 1 .. Len(q) = D \cup Image(e, E)
  <2>1. ASSUME NEW n \in 1 .. Len(q), n \notin D PROVE n \in Image(e, E)
    <3>1. n - Len(r) \in E /\ n = e[n - Len(r)]
      BY <1>4, <1>6, <2>1
    <3> QED
      BY <3>1 DEF Image
  <2>2. D \cup Image(e, E) \subseteq 1 .. Len(q)
    BY <1>7, <1>8 DEF Image
  <2> QED
    BY <2>1, <2>2
<1>10. IntsOn(h, D) /\ IntsOn(g, E)
  <2>1. \A k \in D : h[k] \in Nat
    BY <1>1, <1>6, <1>7
  <2>2. \A k \in E : g[k] \in Nat
    BY <1>2, <1>6
  <2> QED
    BY <2>1, <2>2 DEF IntsOn
<1>11. Continues(h, g, D, E, e)
  <2>1. \A j, k \in E : e[j] = e[k] => j = k
    BY <1>4, <1>6
  <2> QED
    BY <1>8, <2>1 DEF Continues
<1>12. SumFunctionOnSet(h, D \cup Image(e, E)) = SumFunctionOnSet(h, D) + SumFunctionOnSet(g, E)
  <2>1. IsFiniteSet(D) /\ IsFiniteSet(E)
    BY <1>1, <1>2, <1>6
  <2> QED
    BY <2>1, <1>10, <1>11, SumExtends
<1>13. SumFunctionOnSet(h, D) = SumFunctionOnSet(f, D)
  BY <1>1, <1>6, <1>7, SumAgrees
<1> QED
  BY <1>1, <1>2, <1>3, <1>5, <1>6, <1>9, <1>12, <1>13

LEMMA WaitingOne ==
  ASSUME NEW t, TableOf(t), NEW c \in Parts, NEW d \in Demands
  PROVE  Waiting(t, c, <<d>>) = Load(t, c, d)
<1>1. PICK s : s = <<d>>
  OBVIOUS
<1>2. s \in Seq(Demands) /\ Len(s) = 1 /\ s[1] = d
  BY <1>1
<1>3. PICK f : /\ f = [k \in 1 .. Len(s) |-> Load(t, c, s[k])]
               /\ \A k \in 1 .. Len(s) : f[k] \in Nat
               /\ IsFiniteSet(1 .. Len(s)) /\ Waiting(t, c, s) = SumFunctionOnSet(f, 1 .. Len(s))
  BY <1>2, WaitingIs
<1>4. 1 .. Len(s) = {1}
  BY <1>2
<1>5. IntsOn(f, {1}) /\ f[1] = Load(t, c, d) /\ Load(t, c, d) \in Int /\ IsFiniteSet({1})
  BY <1>2, <1>3, <1>4 DEF IntsOn
<1>6. SumFunctionOnSet(f, {1}) = f[1] + SumFunctionOnSet(f, {1} \ {1})
  BY <1>5, SumAdds
<1>7. SumFunctionOnSet(f, {1} \ {1}) = 0
  <2>1. {1} \ {1} = {}
    OBVIOUS
  <2> QED
    BY <2>1, SumOfNone
<1> QED
  BY <1>1, <1>3, <1>4, <1>5, <1>6, <1>7

LEMMA WaitingNone == \A t, c : Waiting(t, c, <<>>) = 0
<1> SUFFICES ASSUME NEW t, NEW c PROVE Waiting(t, c, <<>>) = 0
  OBVIOUS
<1>1. PICK s : s = <<>>
  OBVIOUS
<1>2. PICK f : f = [k \in 1 .. Len(s) |-> Load(t, c, s[k])]
  OBVIOUS
<1>3. 1 .. Len(s) = {}
  BY <1>1
<1>4. f = [l \in {} |-> f[l]]
  BY <1>2, <1>3
<1> QED
  BY <1>1, <1>2, <1>4, SumOfNothing DEF Waiting

\* The top of the stack, and what is below it.
LEMMA WaitingTop ==
  ASSUME NEW t, TableOf(t), NEW c \in Parts, NEW s \in Seq(Demands), s # <<>>
  PROVE  /\ Last(s) \in Demands /\ Front(s) \in Seq(Demands)
         /\ Waiting(t, c, s) = Waiting(t, c, Front(s)) + Load(t, c, Last(s))
<1>1. Last(s) \in Demands /\ Front(s) \in Seq(Demands) /\ s = Front(s) \o <<Last(s)>>
  BY DEF Last, Front
<1>2. PICK r, d : r = Front(s) /\ d = Last(s)
  OBVIOUS
<1>3. Waiting(t, c, r \o <<d>>) = Waiting(t, c, r) + Waiting(t, c, <<d>>)
  <2>1. r \in Seq(Demands) /\ <<d>> \in Seq(Demands)
    BY <1>1, <1>2
  <2> QED
    BY <2>1, WaitingConcat
<1>4. Waiting(t, c, <<d>>) = Load(t, c, d)
  BY <1>1, <1>2, WaitingOne
<1> QED
  BY <1>1, <1>2, <1>3, <1>4

-----------------------------------------------------------------------------
(* Demand that is passed on.                                               *)

\* A factor can be taken out of a sum.
LEMMA SumScaled ==
  ASSUME NEW f, NEW g, NEW T, IsFiniteSet(T), NEW a \in Nat,
         \A x \in T : g[x] \in Nat /\ f[x] = a * g[x]
  PROVE  SumFunctionOnSet(f, T) = a * SumFunctionOnSet(g, T)
<1> DEFINE B == {U \in SUBSET T : SumFunctionOnSet(f, U) # a * SumFunctionOnSet(g, U)}
<1> SUFFICES ASSUME B # {} PROVE FALSE
  BY T \in SUBSET T
<1>1. PICK U \in B : \A V \in B : V \subseteq U => V = U
  <2>1. B \in SUBSET (SUBSET T)
    OBVIOUS
  <2> HIDE DEF B
  <2> QED
    BY <2>1, SmallestSet
<1>2. IsFiniteSet(U) /\ U \in SUBSET T /\ SumFunctionOnSet(f, U) # a * SumFunctionOnSet(g, U)
  BY <1>1, FS_Subset
<1>3. U # {}
  <2>1. SumFunctionOnSet(f, {}) = 0 /\ SumFunctionOnSet(g, {}) = 0 /\ a * 0 = 0
    BY SumOfNone
  <2> QED
    BY <1>2, <2>1
<1>4. PICK x \in U : TRUE
  BY <1>3
<1>5. PICK V : V = U \ {x}
  OBVIOUS
<1>6. V \in SUBSET T /\ V \subseteq U /\ V # U /\ IsFiniteSet(V)
  BY <1>2, <1>4, <1>5, FS_Subset
<1>7. SumFunctionOnSet(f, V) = a * SumFunctionOnSet(g, V)
  BY <1>1, <1>6
<1>8. \A y \in U : g[y] \in Nat /\ f[y] \in Nat
  <2> SUFFICES ASSUME NEW y \in U PROVE g[y] \in Nat /\ a * g[y] \in Nat
    BY <1>2
  <2> QED
    BY <1>2, NatTimes
<1>9. SumFunctionOnSet(f, U) = f[x] + SumFunctionOnSet(f, V) /\ SumFunctionOnSet(g, U) = g[x] + SumFunctionOnSet(g, V)
  <2>1. IntsOn(f, U) /\ IntsOn(g, U)
    BY <1>8 DEF IntsOn
  <2> QED
    BY <1>2, <1>4, <1>5, <2>1, SumAdds
<1>10. SumFunctionOnSet(g, V) \in Nat
  BY <1>6, <1>8, SumNotNegative
<1>11. PICK m \in Nat, n \in Nat : m = g[x] /\ n = SumFunctionOnSet(g, V)
  BY <1>4, <1>8, <1>10
<1>12. f[x] = a * m
  BY <1>2, <1>4, <1>11
<1>13. a * m + a * n = a * (m + n)
  OBVIOUS
<1> QED
  BY <1>2, <1>7, <1>9, <1>11, <1>12, <1>13

LEMMA SameSeq == ASSUME NEW S PROVE Buffers!SetToSeq(S) = SetToSeq(S)
<1>1. Buffers!Cardinality(S) = Cardinality(S)
  BY DEF Buffers!Cardinality, Cardinality
<1> QED
  BY <1>1 DEF Buffers!SetToSeq, SetToSeq, Buffers!IsInjective, IsInjective

\* A finite set in some order: each of its members once.
LEMMA SomeOrder ==
  ASSUME NEW S, IsFiniteSet(S), NEW s, s = SetToSeq(S)
  PROVE  /\ s \in Seq(S)
         /\ \A x \in S : \E k \in 1 .. Len(s) : s[k] = x
         /\ \A j, k \in 1 .. Len(s) : s[j] = s[k] => j = k
<1>1. PICK n \in Nat : n = Cardinality(S) /\ ExistsBijection(1 .. n, S)
  BY FS_CardinalityType
<1>2. PICK f \in Bijection(1 .. n, S) : TRUE
  BY <1>1 DEF ExistsBijection
<1>3. f \in [1 .. n -> S] /\ IsInjective(f)
  BY <1>2 DEF Bijection, Injection, IsInjective
<1>4. s \in [1 .. n -> S] /\ IsInjective(s)
  BY <1>1, <1>3 DEF SetToSeq
<1>5. s \in Injection(1 .. n, S)
  BY <1>4 DEF Injection, IsInjective
<1>6. Cardinality(1 .. n) = n
  BY <1>1, FS_Interval
<1>7. s \in Surjection(1 .. n, S)
  BY <1>1, <1>5, <1>6, FS_Injection
<1>8. s \in Seq(S) /\ Len(s) = n
  BY <1>4
<1>9. \A x \in S : \E k \in 1 .. n : s[k] = x
  BY <1>7 DEF Surjection
<1>10. \A j, k \in 1 .. n : s[j] = s[k] => j = k
  BY <1>4 DEF IsInjective
<1> QED
  BY <1>8, <1>9, <1>10

Child(d, m) == [d EXCEPT !.item = m, !.qty = Buffers!Needs(d, m)]
On(d) == {m \in Parts : Buffers!Needs(d, m) > 0 /\ Buffers!PassesOn(m)}
Children(d) == {Child(d, m) : m \in On(d)}

LEMMA NeedsNat ==
  ASSUME NEW d \in Demands, NEW m \in Parts
  PROVE  Buffers!Needs(d, m) \in Nat /\ Buffers!Needs(d, m) = d.qty * Usage[d.item][m]
<1>1. d.qty \in Nat /\ d.item \in Parts
  BY DEF Demands
<1>2. Usage[d.item][m] \in Nat
  BY <1>1, UsageFacts
<1>3. Buffers!Needs(d, m) = d.qty * Usage[d.item][m]
  BY DEF Buffers!Needs
<1> QED
  BY <1>1, <1>2, <1>3, NatTimes

LEMMA ChildIs ==
  ASSUME NEW d \in Demands, NEW m \in Parts
  PROVE  /\ Child(d, m) \in Demands /\ Child(d, m).item = m /\ Child(d, m).qty = Buffers!Needs(d, m)
         /\ Child(d, m).due = d.due
BY NeedsNat DEF Child, Demands

LEMMA ChildrenFinite == ASSUME NEW d \in Demands PROVE IsFiniteSet(Children(d)) /\ IsFiniteSet(On(d))
<1>1. IsFiniteSet(On(d))
  BY UsageFacts, FS_Subset DEF On
<1>2. PICK f : f = [m \in On(d) |-> Child(d, m)]
  OBVIOUS
<1>3. f \in Surjection(On(d), Children(d))
  BY <1>2 DEF Surjection, Children
<1> QED
  BY <1>1, <1>3, FS_Surjection

\* What is pushed asks for what the components it names ask for.
LEMMA Pushed ==
  ASSUME NEW d \in Demands, NEW t, TableOf(t), NEW c \in Parts, NEW s, s = SetToSeq(Children(d))
  PROVE  /\ s \in Seq(Demands)
         /\ Waiting(t, c, s) = SumFunction([m \in On(d) |-> Buffers!Needs(d, m) * t[m][c]])
         /\ \A k \in 1 .. Len(s) : \E m \in On(d) : s[k] = Child(d, m)
<1>1. /\ s \in Seq(Children(d))
      /\ \A x \in Children(d) : \E k \in 1 .. Len(s) : s[k] = x
      /\ \A j, k \in 1 .. Len(s) : s[j] = s[k] => j = k
  BY ChildrenFinite, SomeOrder
<1>2. On(d) \subseteq Parts /\ Children(d) \subseteq Demands
  BY ChildIs DEF On, Children
<1>3. s \in Seq(Demands)
  BY <1>1, <1>2
<1>4. \A k \in 1 .. Len(s) : \E m \in On(d) : s[k] = Child(d, m)
  <2>1. \A k \in 1 .. Len(s) : s[k] \in Children(d)
    BY <1>1
  <2> QED
    BY <2>1 DEF Children
<1>5. PICK f : /\ f = [k \in 1 .. Len(s) |-> Load(t, c, s[k])]
               /\ \A k \in 1 .. Len(s) : f[k] \in Nat
               /\ IsFiniteSet(1 .. Len(s)) /\ Waiting(t, c, s) = SumFunctionOnSet(f, 1 .. Len(s))
  BY <1>3, WaitingIs
<1>6. PICK g : g = [m \in On(d) |-> Buffers!Needs(d, m) * t[m][c]]
  OBVIOUS
<1>7. PICK e : e = [m \in On(d) |-> CHOOSE k \in 1 .. Len(s) : s[k] = Child(d, m)]
  OBVIOUS
<1>8. \A m \in On(d) : e[m] \in 1 .. Len(s) /\ s[e[m]] = Child(d, m)
  BY <1>1, <1>7 DEF Children
<1>9. \A k \in 1 .. Len(s) : \E m \in On(d) : e[m] = k
  BY <1>1, <1>4, <1>8
<1>10. ASSUME NEW m \in On(d) PROVE f[e[m]] = g[m] /\ g[m] \in Nat
  <2>1. f[e[m]] = Load(t, c, Child(d, m))
    BY <1>5, <1>8
  <2>2. Child(d, m).item = m /\ Child(d, m).qty = Buffers!Needs(d, m)
    BY <1>2, ChildIs
  <2>3. Load(t, c, Child(d, m)) = Buffers!Needs(d, m) * t[m][c]
    BY <2>2 DEF Load
  <2> QED
    BY <1>5, <1>6, <1>8, <2>1, <2>3
<1>11. Image(e, On(d)) = 1 .. Len(s)
  BY <1>8, <1>9 DEF Image
<1>12. Continues(f, g, {}, On(d), e)
  <2>1. ASSUME NEW j \in On(d), NEW k \in On(d), e[j] = e[k] PROVE j = k
    <3>1. Child(d, j) = Child(d, k)
      BY <1>8, <2>1
    <3> QED
      BY <1>2, <3>1, ChildIs
  <2> QED
    BY <1>10, <2>1 DEF Continues
<1>13. SumFunctionOnSet(f, {} \cup Image(e, On(d))) = SumFunctionOnSet(f, {}) + SumFunctionOnSet(g, On(d))
  <2>1. IntsOn(f, {}) /\ IntsOn(g, On(d))
    BY <1>10 DEF IntsOn
  <2> QED
    BY <1>12, <2>1, ChildrenFinite, FS_EmptySet, SumExtends
<1>14. SumFunctionOnSet(g, On(d)) \in Nat
  BY <1>10, ChildrenFinite, SumNotNegative
<1>15. SumFunction(g) = SumFunctionOnSet(g, On(d))
  BY <1>6 DEF SumFunction
<1>16. {} \cup Image(e, On(d)) = 1 .. Len(s)
  BY <1>11
<1>17. Waiting(t, c, s) = SumFunction(g)
  BY <1>5, <1>13, <1>14, <1>15, <1>16, SumOfNone
<1> QED
  BY <1>3, <1>4, <1>6, <1>17

\* Nothing is lost on the way: what a line asks of an item it asks of it
\* directly, or by what it pushes.
LEMMA PassedDown ==
  ASSUME NEW d \in Demands, NEW c \in Parts
  PROVE  Load(Buffers!Through, c, d)
           = Buffers!Needs(d, c) + SumFunction([m \in On(d) |-> Buffers!Needs(d, m) * Buffers!Through[m][c]])
<1>1. PICK t : t = Buffers!Through
  OBVIOUS
<1>2. PICK q \in Nat, i \in Parts : q = d.qty /\ i = d.item
  BY DEF Demands
<1>3. PICK g : g = [m \in Via(i) |-> Usage[i][m] * t[m][c]]
  OBVIOUS
<1>4. PICK f : f = [m \in On(d) |-> Buffers!Needs(d, m) * t[m][c]]
  OBVIOUS
<1>5. t[i][c] = Usage[i][c] + SumFunctionOnSet(g, Via(i))
  BY <1>1, <1>3, ThroughIs DEF Step, SumFunction
<1>6. \A m \in Via(i) : g[m] \in Nat
  <2> SUFFICES ASSUME NEW m \in Via(i) PROVE Usage[i][m] * t[m][c] \in Nat
    BY <1>3
  <2>1. Usage[i][m] \in Nat /\ t[m][c] \in Nat
    BY <1>1, ViaFacts, ThroughNat
  <2> QED
    BY <2>1, NatTimes
<1>7. SumFunctionOnSet(g, Via(i)) \in Nat
  BY <1>6, ViaFacts, SumNotNegative
<1>8. Buffers!Needs(d, c) = q * Usage[i][c] /\ Usage[i][c] \in Nat
  BY <1>2, NeedsNat, UsageFacts
<1>9. SumFunction(f) = SumFunctionOnSet(f, On(d))
  BY <1>4 DEF SumFunction
<1>10. SumFunctionOnSet(f, On(d)) = q * SumFunctionOnSet(g, Via(i))
  <2>1. CASE q = 0
    <3>1. On(d) = {}
      <4>1. ASSUME NEW m \in Parts PROVE ~(Buffers!Needs(d, m) > 0)
        <5>1. Buffers!Needs(d, m) = q * Usage[i][m] /\ Usage[i][m] \in Nat
          BY <1>2, NeedsNat, UsageFacts
        <5> QED
          BY <2>1, <5>1
      <4> QED
        BY <4>1 DEF On
    <3>2. SumFunctionOnSet(f, On(d)) = 0
      BY <3>1, SumOfNone
    <3> QED
      BY <1>7, <2>1, <3>2
  <2>2. CASE q # 0
    <3>1. On(d) = Via(i)
      <4>1. ASSUME NEW m \in Parts PROVE Buffers!Needs(d, m) > 0 <=> Usage[i][m] > 0
        <5>1. PICK u \in Nat : u = Usage[i][m] /\ Buffers!Needs(d, m) = q * u
          BY <1>2, NeedsNat, UsageFacts
        <5>2. q * u > 0 <=> u > 0
          BY <2>2
        <5> QED
          BY <5>1, <5>2
      <4> QED
        BY <4>1 DEF On, Via, Buffers!PassesOn
    <3>2. ASSUME NEW m \in Via(i) PROVE f[m] = q * g[m]
      <4>1. Buffers!Needs(d, m) = q * Usage[i][m]
        BY <1>2, NeedsNat, ViaFacts
      <4>2. PICK u \in Nat, v \in Nat : u = Usage[i][m] /\ v = t[m][c]
        BY <1>1, ViaFacts, ThroughNat
      <4>3. (q * u) * v = q * (u * v)
        OBVIOUS
      <4> QED
        BY <1>3, <1>4, <3>1, <4>1, <4>2, <4>3
    <3> QED
      BY <1>6, <3>1, <3>2, ViaFacts, SumScaled
  <2> QED
    BY <2>1, <2>2
<1>11. PICK u \in Nat, v \in Nat : u = Usage[i][c] /\ v = SumFunctionOnSet(g, Via(i))
  BY <1>7, <1>8
<1>12. q * (u + v) = q * u + q * v
  OBVIOUS
<1>13. Load(t, c, d) = q * t[i][c]
  BY <1>2 DEF Load
<1> QED
  BY <1>1, <1>4, <1>5, <1>8, <1>9, <1>10, <1>11, <1>12, <1>13

\* One iteration over the stack takes from it, for every item, what it hands out.
LEMMA PassConserves ==
  ASSUME NEW s \in Seq(Demands), s # <<>>, NEW c \in Parts, NEW r,
         r = Front(s) \o SetToSeq(Children(Last(s)))
  PROVE  /\ r \in Seq(Demands) /\ Last(s) \in Demands
         /\ Waiting(Buffers!Through, c, s)
              = Waiting(Buffers!Through, c, r) + Buffers!Needs(Last(s), c)
         /\ Waiting(Buffers!Through, c, r) \in Nat
<1>1. PICK t : t = Buffers!Through
  OBVIOUS
<1>2. TableOf(t)
  BY <1>1, ThroughNat DEF TableOf
<1>3. PICK d, low, top : d = Last(s) /\ low = Front(s) /\ top = SetToSeq(Children(d))
  OBVIOUS
<1>4. /\ d \in Demands /\ low \in Seq(Demands)
      /\ Waiting(t, c, s) = Waiting(t, c, low) + Load(t, c, d)
  BY <1>2, <1>3, WaitingTop
<1>5. /\ top \in Seq(Demands)
      /\ Waiting(t, c, top) = SumFunction([m \in On(d) |-> Buffers!Needs(d, m) * t[m][c]])
  <2>1. top \in Seq(Demands)
    BY <1>2, <1>3, <1>4, Pushed
  <2>2. Waiting(t, c, top) = SumFunction([m \in On(d) |-> Buffers!Needs(d, m) * t[m][c]])
    BY <1>2, <1>3, <1>4, Pushed
  <2> QED
    BY <2>1, <2>2
<1>6. Load(t, c, d) = Buffers!Needs(d, c) + Waiting(t, c, top)
  BY <1>1, <1>4, <1>5, PassedDown
<1>7. r = low \o top /\ r \in Seq(Demands)
  BY <1>3, <1>4, <1>5
<1>8. Waiting(t, c, low \o top) = Waiting(t, c, low) + Waiting(t, c, top)
  BY <1>2, <1>4, <1>5, WaitingConcat
<1>9. Waiting(t, c, low) \in Nat /\ Waiting(t, c, top) \in Nat /\ Buffers!Needs(d, c) \in Nat
  BY <1>2, <1>4, <1>5, WaitingIs, NeedsNat
<1> QED
  BY <1>1, <1>3, <1>4, <1>6, <1>7, <1>8, <1>9

-----------------------------------------------------------------------------
(* The inductive invariant of the buffers.                                 *)

Zones == {"", "breach", "red", "yellow", "green"}
BufferRows == [qualified : Nat, outside : Nat, production : Nat, made : Nat,
         supply : Int, nfp : Int, zone : Zones, recommended : Int]

Settled == {c \in Parts : Buffers!Planned(c)}

\* What the loops have read.
Read == IF loop = "direct" THEN lines \ left ELSE lines
Own(c, S) == {d \in S : d.item = c /\ Buffers!Qualifies(d)}
Down(S) == {d \in S : Buffers!Exploded(d)}
Of(i, S) == {o \in S : o.item = i}
Inserted(c) == {o \in makes : o.item = c /\ o.inserted}
Waited(c) == loop = "finish" /\ c \notin left

\* What is known to be made of i.
SoFar(i) ==
  CASE loop = "direct" -> 0
    [] loop = "production" -> Quantity(Of(i, makes \ left))
    [] loop = "finish" -> Buffers!ToMake(i)
MadeFor(c) == [i \in Parts |-> SoFar(i) * Buffers!Through[i][c]]

\* What a buffer is asked for by what was read, and what has reached it or is
\* on its way.
Sought(c) ==
  (IF Buffers!WeeklyMade(c) THEN LeadTimeDemand ELSE 0)
    + Quantity(Own(c, Read)) + Weight(Buffers!Through, c, Down(Read))
    + (IF loop = "finish" THEN Quantity(Inserted(c)) ELSE 0)
    + SumFunction(MadeFor(c))
Reached(c) == row[c].qualified + row[c].outside
OnWay(c) == Waiting(Buffers!Through, c, pending)

BuffersTypes ==
  /\ policy \in [Parts -> {"standard", "weekly", "missing", "order", "none"}]
  /\ dlt \in [Parts -> Nat] /\ lines \in Books /\ makes \in Makes
  /\ stock \in [Parts -> Int] /\ aside \in [scheme : [Parts -> Nat], waits : [Parts -> Nat]]
  /\ loop \in {"direct", "production", "finish"}
  /\ left \subseteq (CASE loop = "direct" -> lines [] loop = "production" -> makes [] loop = "finish" -> Settled)
  /\ pending \in Seq(Demands)
  /\ row \in [Parts -> BufferRows]

\* Until an item is finished nothing of what it is asked for is lost; then
\* nothing asks for it any more.
Conserved(c) ==
  IF ~Waited(c)
  THEN row[c].recommended = 0 /\ Reached(c) + OnWay(c) = Sought(c)
  ELSE /\ \A j \in left : Buffers!Depth[c] <= Buffers!Depth[j]
       /\ \A k \in 1 .. Len(pending) : Buffers!Through[pending[k].item][c] = 0
       /\ aside.waits[c] = 0 =>
            /\ Reached(c) = Sought(c) + aside.scheme[c]
            /\ row[c].recommended = Buffers!Recommended(c, row[c].supply - row[c].qualified)

BuffersInv ==
  IF loop = "saved" THEN pending = <<>> /\ left = {}
  ELSE BuffersTypes /\ \A c \in Settled : Conserved(c)

LEMMA SameTotal == ASSUME NEW S PROVE Buffers!Total(S) = Quantity(S)
BY SameSum DEF Buffers!Total, Quantity

LEMMA SomeSubset == ASSUME NEW S, SomeLines(S), NEW V \in SUBSET S PROVE SomeLines(V)
BY FS_Subset DEF SomeLines

LEMMA InputLines ==
  ASSUME BuffersTypes
  PROVE  /\ SomeLines(lines) /\ \A d \in lines : d.item \in Parts /\ d.due \in Int /\ d.qty \in Nat
         /\ SomeLines(makes) /\ \A d \in makes : d.item \in Parts /\ d.due \in Int /\ d.qty \in Nat
<1>1. lines \in Books \cup Makes /\ makes \in Books \cup Makes
  BY DEF BuffersTypes
<1>2. \A S \in Books \cup Makes :
        Buffers!IsFiniteSet(S) /\ \A l \in S : l.item \in Parts /\ l.due \in Int /\ l.qty \in Nat
  BY CalculationAssumption DEF Buffers!BuffersAssumption
<1> QED
  BY <1>1, <1>2, SameFinite DEF SomeLines

LEMMA Constants ==
  /\ LeadTimeDemand \in Nat /\ Tops.red \in Nat /\ Tops.yellow \in Nat /\ Tops.green \in Nat
  /\ Lot \in Nat \ {0} /\ MinLot \in Nat
BY CalculationAssumption DEF Buffers!BuffersAssumption

LEMMA Tables == TableOf(Buffers!Through)
BY ThroughNat DEF TableOf

LEMMA LotsInt == ASSUME NEW n \in Int PROVE Buffers!Lots(n) \in Int
<1>1. PICK l \in Nat \ {0} : l = Lot
  BY Constants
<1>2. (n + l - 1) \div l \in Int
  OBVIOUS
<1>3. l * ((n + l - 1) \div l) \in Int
  BY <1>2
<1> QED
  BY <1>1, <1>3 DEF Buffers!Lots

\* Recommendations are numbers.
LEMMA RecommendedInt == ASSUME NEW i, NEW n \in Int PROVE Buffers!Recommended(i, n) \in Int
<1>1. PICK need \in Int : need = Tops.green - n
  BY Constants
<1>2. Buffers!Larger(need, MinLot) \in Int /\ Buffers!Larger(MinLot, need) \in Int
  BY Constants DEF Buffers!Larger
<1>3. Buffers!Lots(need) \in Int /\ Buffers!Lots(Buffers!Larger(need, MinLot)) \in Int
  BY <1>2, LotsInt
<1>4. Buffers!Larger(MinLot, Buffers!Lots(need)) \in Int
  BY <1>3, Constants DEF Buffers!Larger
<1> QED
  BY <1>1, <1>2, <1>3, <1>4 DEF Buffers!Recommended

LEMMA ZoneIs == ASSUME NEW n \in Int PROVE Buffers!Zone(n) \in Zones
<1>1. PICK r \in Nat, y \in Nat : r = Tops.red /\ y = Tops.yellow /\ r <= y
  BY CalculationAssumption DEF Buffers!BuffersAssumption
<1>2. \/ n <= 0
      \/ n > 0 /\ n <= r
      \/ n > r /\ n <= y
      \/ n > y
  OBVIOUS
<1> QED
  BY <1>1, <1>2 DEF Buffers!Zone, Zones

LEMMA ScheduledNat ==
  ASSUME BuffersTypes, NEW i
  PROVE  Buffers!Scheduled(i) \in Nat /\ Buffers!Scheduled(i) = Quantity(Of(i, makes))
<1>1. SomeLines(Of(i, makes))
  BY InputLines, SomeSubset DEF Of
<1> QED
  BY <1>1, QuantityAdds, SameTotal DEF Buffers!Scheduled, Of

LEMMA SoFarNat ==
  ASSUME BuffersTypes, NEW i \in Parts
  PROVE  SoFar(i) \in Nat
<1>1. Quantity(Of(i, makes \ left)) \in Nat
  <2>1. SomeLines(Of(i, makes \ left))
    BY InputLines, SomeSubset DEF Of
  <2> QED
    BY <2>1, QuantityAdds
<1>2. Buffers!ToMake(i) \in Nat
  <2>1. row[i].recommended \in Int
    BY DEF BuffersTypes, BufferRows
  <2> QED
    BY <2>1, ScheduledNat DEF Buffers!ToMake, Buffers!Larger
<1> QED
  BY <1>1, <1>2 DEF SoFar, BuffersTypes

\* The table that is summed up for what is made.
LEMMA MadeForIs ==
  ASSUME BuffersTypes, NEW c \in Parts
  PROVE  /\ \A i \in Parts : MadeFor(c)[i] = SoFar(i) * Buffers!Through[i][c] /\ MadeFor(c)[i] \in Nat
         /\ IsFiniteSet(Parts) /\ SumFunction(MadeFor(c)) = SumFunctionOnSet(MadeFor(c), Parts)
         /\ SumFunction(MadeFor(c)) \in Nat
<1>1. PICK f : f = MadeFor(c)
  OBVIOUS
<1>2. f = [i \in Parts |-> SoFar(i) * Buffers!Through[i][c]]
  BY <1>1 DEF MadeFor
<1>3. \A i \in Parts : f[i] = SoFar(i) * Buffers!Through[i][c] /\ f[i] \in Nat
  <2> SUFFICES ASSUME NEW i \in Parts PROVE SoFar(i) * Buffers!Through[i][c] \in Nat
    BY <1>2
  <2>1. SoFar(i) \in Nat /\ Buffers!Through[i][c] \in Nat
    BY SoFarNat, ThroughNat
  <2> QED
    BY <2>1, NatTimes
<1>4. DOMAIN f = Parts /\ IsFiniteSet(Parts)
  BY <1>2, UsageFacts
<1>5. SumFunctionOnSet(f, Parts) \in Nat
  BY <1>3, <1>4, SumNotNegative
<1> QED
  BY <1>1, <1>3, <1>4, <1>5 DEF SumFunction

LEMMA SoughtNat ==
  ASSUME BuffersTypes, NEW c \in Parts
  PROVE  /\ Quantity(Own(c, Read)) \in Nat /\ Weight(Buffers!Through, c, Down(Read)) \in Nat
         /\ Quantity(Inserted(c)) \in Nat /\ SumFunction(MadeFor(c)) \in Nat
         /\ LeadTimeDemand \in Nat /\ Sought(c) \in Nat
<1>1. SomeLines(Own(c, Read)) /\ SomeLines(Down(Read)) /\ SomeLines(Inserted(c))
  BY InputLines, SomeSubset DEF Own, Down, Inserted, Read
<1>2. /\ Quantity(Own(c, Read)) \in Nat /\ Quantity(Inserted(c)) \in Nat
      /\ Weight(Buffers!Through, c, Down(Read)) \in Nat
  BY <1>1, QuantityAdds, WeightAdds, Tables
<1> QED
  BY <1>2, MadeForIs, Constants DEF Sought

-----------------------------------------------------------------------------
(* What a step leaves alone.                                               *)

InputsKept == UNCHANGED <<policy, dlt, lines, makes, stock, aside>>

\* The inputs fix the ways down, the levels and what is planned.
LEMMA Keeps ==
  ASSUME InputsKept
  PROVE  /\ Buffers!Through' = Buffers!Through /\ Buffers!Depth' = Buffers!Depth /\ Settled' = Settled
         /\ \A c : (Buffers!WeeklyMade(c)' <=> Buffers!WeeklyMade(c)) /\ Buffers!Scheduled(c)' = Buffers!Scheduled(c)
                   /\ (Buffers!Planned(c)' <=> Buffers!Planned(c)) /\ Inserted(c)' = Inserted(c)
<1>1. Buffers!Through' = Buffers!Through
  BY DEF Buffers!Through, Buffers!Buffered, InputsKept
<1>2. Buffers!Depth' = Buffers!Depth
  BY DEF Buffers!Depth
<1>3. \A c : (Buffers!WeeklyMade(c)' <=> Buffers!WeeklyMade(c)) /\ (Buffers!Planned(c)' <=> Buffers!Planned(c))
  BY DEF Buffers!Planned, Buffers!WeeklyMade, InputsKept
<1>4. Settled' = Settled
  BY <1>3 DEF Settled
<1>5. \A c : Buffers!Scheduled(c)' = Buffers!Scheduled(c) /\ Inserted(c)' = Inserted(c)
  BY DEF Buffers!Scheduled, Inserted, InputsKept
<1> QED
  BY <1>1, <1>2, <1>3, <1>4, <1>5

\* What is sought after a step, by what was read and what is made then.
LEMMA SoughtThen ==
  ASSUME InputsKept, NEW c, NEW R, R = Read', NEW f, f = [i \in Parts |-> SoFar(i)' * Buffers!Through[i][c]]
  PROVE  Sought(c)' = (IF Buffers!WeeklyMade(c) THEN LeadTimeDemand ELSE 0)
                        + Quantity(Own(c, R)) + Weight(Buffers!Through, c, Down(R))
                        + (IF loop' = "finish" THEN Quantity(Inserted(c)) ELSE 0)
                        + SumFunction(f)
<1>1. Own(c, Read)' = Own(c, R)
  BY DEF Own, InputsKept, Buffers!Qualifies, Buffers!Spike, Buffers!Planned
<1>2. Down(Read)' = Down(R)
  BY DEF Down, InputsKept, Buffers!Exploded, Buffers!Spike, Buffers!Planned, Buffers!Buffered
<1>3. MadeFor(c)' = f
  BY Keeps DEF MadeFor
<1> QED
  BY <1>1, <1>2, <1>3, Keeps DEF Sought

LEMMA OnWayThen == ASSUME InputsKept, NEW c PROVE OnWay(c)' = Waiting(Buffers!Through, c, pending')
BY Keeps DEF OnWay

LEMMA NothingMade ==
  ASSUME NEW c \in Parts, NEW f, f = [i \in Parts |-> 0 * Buffers!Through[i][c]]
  PROVE  SumFunction(f) = 0
<1>1. \A i \in Parts : 0 * Buffers!Through[i][c] = 0
  BY ThroughNat
<1>2. f = [i \in Parts |-> 0] /\ DOMAIN f = Parts
  BY <1>1
<1>3. SumFunctionOnSet(f, Parts) = 0
  BY <1>2, SumOfZeros, UsageFacts
<1> QED
  BY <1>2, <1>3 DEF SumFunction

\* Before anything is read only the demand over the lead time is there.
LEMMA BuffersInit == InitCalculation => BuffersInv
<1> SUFFICES ASSUME InitCalculation PROVE BuffersInv
  OBVIOUS
<1>i. /\ Buffers!Init /\ left = lines /\ pending = <<>> /\ loop = "direct"
      /\ lines \in Books /\ makes \in Makes /\ stock \in Stocks
      /\ \A i \in Parts : row[i] = [qualified |-> IF Buffers!WeeklyMade(i) THEN LeadTimeDemand ELSE 0,
               outside |-> 0, production |-> 0, made |-> 0,
               supply |-> stock[i], nfp |-> 0, zone |-> "", recommended |-> 0]
      /\ DOMAIN row = Parts /\ row = [i \in Parts |-> row[i]]
  BY DEF InitCalculation, Buffers!Init
<1>1. BuffersTypes
  <2>1. policy \in [Parts -> {"standard", "weekly", "missing", "order", "none"}]
    BY <1>i, CalculationAssumption DEF Buffers!BuffersAssumption, Buffers!Init
  <2>2. dlt \in [Parts -> Nat] /\ stock \in [Parts -> Int] /\ aside \in [scheme : [Parts -> Nat], waits : [Parts -> Nat]]
    BY <1>i, CalculationAssumption DEF Buffers!BuffersAssumption, Buffers!Init
  <2>z. PICK z \in Zones : z = ""
    BY DEF Zones
  <2>3. row \in [Parts -> BufferRows]
    <3> SUFFICES ASSUME NEW i \in Parts PROVE row[i] \in BufferRows
      BY <1>i
    <3>1. stock[i] \in Int
      BY <2>2
    <3>2. PICK b \in Nat : b = IF Buffers!WeeklyMade(i) THEN LeadTimeDemand ELSE 0
      BY Constants
    <3>3. row[i] = [qualified |-> b, outside |-> 0, production |-> 0, made |-> 0,
                    supply |-> stock[i], nfp |-> 0, zone |-> "", recommended |-> 0]
      BY <1>i, <3>2
    <3>4. row[i] = [qualified |-> b, outside |-> 0, production |-> 0, made |-> 0,
                    supply |-> stock[i], nfp |-> 0, zone |-> z, recommended |-> 0]
      BY <3>3, <2>z
    <3> QED
      BY <3>1, <3>4 DEF BufferRows
  <2>4. pending \in Seq(Demands) /\ loop = "direct" /\ left \subseteq lines /\ lines \in Books /\ makes \in Makes
    <3>1. <<>> \in Seq(Demands) /\ lines \subseteq lines
      OBVIOUS
    <3>2. pending = <<>> /\ left = lines
      BY <1>i
    <3> QED
      BY <1>i, <3>1, <3>2
  <2> QED
    BY <2>1, <2>2, <2>3, <2>4 DEF BuffersTypes
<1>2. ASSUME NEW c \in Settled PROVE Conserved(c)
  <2>1. c \in Parts /\ ~Waited(c)
    BY <1>i DEF Settled, Waited
  <2>2. Read = {}
    BY <1>i DEF Read
  <2>3. Own(c, Read) = {} /\ Down(Read) = {}
    BY <2>2 DEF Own, Down
  <2>4. Quantity(Own(c, Read)) = 0 /\ Weight(Buffers!Through, c, Down(Read)) = 0
    BY <2>3, NoLines
  <2>5. SumFunction(MadeFor(c)) = 0
    <3>1. MadeFor(c) = [i \in Parts |-> 0 * Buffers!Through[i][c]]
      BY <1>i DEF MadeFor, SoFar
    <3> QED
      BY <2>1, <3>1, NothingMade
  <2>6. OnWay(c) = 0
    BY <1>i, WaitingNone DEF OnWay
  <2>b. PICK b \in Nat : b = IF Buffers!WeeklyMade(c) THEN LeadTimeDemand ELSE 0
    BY Constants
  <2>7. row[c].recommended = 0 /\ Reached(c) = b
    <3>1. row[c] = [qualified |-> b, outside |-> 0, production |-> 0, made |-> 0,
                    supply |-> stock[c], nfp |-> 0, zone |-> "", recommended |-> 0]
      BY <1>i, <2>1, <2>b
    <3>2. PICK z : row[c] = [qualified |-> b, outside |-> 0, production |-> 0, made |-> 0,
                    supply |-> stock[c], nfp |-> 0, zone |-> z, recommended |-> 0]
      BY <3>1
    <3>3. row[c].qualified = b /\ row[c].outside = 0 /\ row[c].recommended = 0
      BY <3>2
    <3> QED
      BY <2>b, <3>3 DEF Reached
  <2>8. Sought(c) = b
    <3>1. Sought(c) = b + Quantity(Own(c, Read)) + Weight(Buffers!Through, c, Down(Read)) + 0
                        + SumFunction(MadeFor(c))
      <4>1. loop # "finish"
        BY <1>i
      <4> QED
        BY <2>b, <4>1 DEF Sought
    <3> QED
      BY <2>4, <2>5, <2>b, <3>1
  <2>9. Reached(c) + OnWay(c) = Sought(c)
    BY <2>6, <2>7, <2>8
  <2> QED
    BY <2>1, <2>7, <2>9 DEF Conserved
<1>3. loop # "saved"
  BY <1>i
<1> QED
  BY <1>1, <1>2, <1>3 DEF BuffersInv

-----------------------------------------------------------------------------
(* The steps.                                                              *)

LEMMA SettledIs == ASSUME BuffersTypes PROVE \A c \in Parts : c \in Settled <=> Buffers!Planned(c)
BY DEF Settled

\* A line of the book is read.
LEMMA DirectTypes ==
  ASSUME BuffersTypes, NEW d \in left, Buffers!Direct(d)
  PROVE  /\ BuffersTypes' /\ InputsKept /\ loop = "direct" /\ loop' = "direct"
         /\ d \in lines /\ d.item \in Parts /\ d.qty \in Nat /\ Buffers!Line(d, "customer") \in Demands
<1>1. /\ loop = "direct" /\ loop' = "direct" /\ InputsKept /\ left \subseteq lines
      /\ left' = left \ {d} /\ makes' = makes
  BY DEF Buffers!Direct, Buffers!inputs, InputsKept, BuffersTypes
<1>2. d \in lines /\ d.item \in Parts /\ d.qty \in Nat /\ d.due \in Int
  BY <1>1, InputLines
<1>3. Buffers!Line(d, "customer") \in Demands
  BY <1>2 DEF Buffers!Line, Demands
<1>4. pending' \in Seq(Demands)
  <2>1. pending \in Seq(Demands)
    BY DEF BuffersTypes
  <2> QED
    BY <1>3, <2>1 DEF Buffers!Direct
<1>5. row' \in [Parts -> BufferRows]
  <2>1. row \in [Parts -> BufferRows] /\ row[d.item].qualified \in Nat
    BY <1>2 DEF BuffersTypes, BufferRows
  <2>2. row' = row \/ row' = [row EXCEPT ![d.item].qualified = @ + d.qty]
    BY DEF Buffers!Direct
  <2>3. [row EXCEPT ![d.item].qualified = @ + d.qty] \in [Parts -> BufferRows]
    BY <1>2, <2>1 DEF BufferRows
  <2> QED
    BY <2>1, <2>2, <2>3
<1>6. /\ policy' \in [Parts -> {"standard", "weekly", "missing", "order", "none"}]
      /\ dlt' \in [Parts -> Nat] /\ lines' \in Books /\ makes' \in Makes
      /\ stock' \in [Parts -> Int] /\ aside' \in [scheme : [Parts -> Nat], waits : [Parts -> Nat]]
  BY <1>1 DEF BuffersTypes, InputsKept
<1>7. left' \subseteq lines'
  BY <1>1 DEF InputsKept
<1> QED
  BY <1>1, <1>2, <1>3, <1>4, <1>5, <1>6, <1>7 DEF BuffersTypes

LEMMA DirectConserves ==
  ASSUME BuffersTypes, NEW d \in left, Buffers!Direct(d), NEW c \in Settled, Conserved(c)
  PROVE  Conserved(c)'
<1>1. /\ BuffersTypes' /\ InputsKept /\ loop = "direct" /\ loop' = "direct"
      /\ d \in lines /\ d.item \in Parts /\ d.qty \in Nat /\ Buffers!Line(d, "customer") \in Demands
  BY DirectTypes
<1>2. c \in Parts /\ row \in [Parts -> BufferRows]
  BY DEF Settled, BuffersTypes
<1>3. ~Waited(c) /\ ~Waited(c)'
  BY <1>1 DEF Waited
<1>4. row[c].recommended = 0 /\ Reached(c) + OnWay(c) = Sought(c)
  BY <1>3 DEF Conserved
<1>5. PICK R : R = Read'
  OBVIOUS
<1>6. R = Read \cup {d} /\ d \notin Read /\ d \in R /\ R \subseteq lines
  BY <1>1, <1>5 DEF Read, Buffers!Direct, InputsKept
<1>7. PICK t : t = Buffers!Through
  OBVIOUS
<1>8. SomeLines(Own(c, R)) /\ SomeLines(Down(R)) /\ SomeLines(Own(c, Read)) /\ SomeLines(Down(Read))
  <2>1. Own(c, R) \subseteq lines /\ Down(R) \subseteq lines /\ Own(c, Read) \subseteq lines /\ Down(Read) \subseteq lines
    BY <1>6 DEF Own, Down
  <2> QED
    BY <2>1, InputLines, SomeSubset
<1>9. PICK mine \in Nat : mine = IF Buffers!Qualifies(d) /\ d.item = c THEN d.qty ELSE 0
  BY <1>1
<1>10. Quantity(Own(c, R)) = Quantity(Own(c, Read)) + mine
  <2>1. CASE Buffers!Qualifies(d) /\ d.item = c
    <3>1. d \in Own(c, R) /\ Own(c, R) \ {d} = Own(c, Read)
      BY <1>6, <2>1 DEF Own
    <3>2. Quantity(Own(c, R)) = d.qty + Quantity(Own(c, R) \ {d}) /\ Quantity(Own(c, Read)) \in Nat
      BY <1>8, <3>1, QuantityAdds
    <3>3. Quantity(Own(c, R) \ {d}) = Quantity(Own(c, Read)) /\ d.qty = mine
      BY <1>9, <2>1, <3>1
    <3> QED
      BY <3>2, <3>3
  <2>2. CASE ~(Buffers!Qualifies(d) /\ d.item = c)
    <3>1. Own(c, R) = Own(c, Read)
      BY <1>6, <2>2 DEF Own
    <3>2. Quantity(Own(c, Read)) \in Nat
      BY <1>8, QuantityAdds
    <3> QED
      BY <1>9, <2>2, <3>1, <3>2
  <2> QED
    BY <2>1, <2>2
<1>11. PICK down \in Nat : down = IF Buffers!Exploded(d) THEN Load(t, c, d) ELSE 0
  BY <1>1, <1>2, <1>7, Tables, LoadNat
<1>12. Weight(t, c, Down(R)) = Weight(t, c, Down(Read)) + down
  <2>1. CASE Buffers!Exploded(d)
    <3>1. d \in Down(R) /\ Down(R) \ {d} = Down(Read)
      BY <1>6, <2>1 DEF Down
    <3>2. Weight(t, c, Down(R)) = Load(t, c, d) + Weight(t, c, Down(R) \ {d}) /\ Weight(t, c, Down(Read)) \in Nat
      BY <1>2, <1>7, <1>8, <3>1, WeightAdds, Tables
    <3>3. Weight(t, c, Down(R) \ {d}) = Weight(t, c, Down(Read)) /\ Load(t, c, d) = down
      BY <1>11, <2>1, <3>1
    <3> QED
      BY <3>2, <3>3
  <2>2. CASE ~Buffers!Exploded(d)
    <3>1. Down(R) = Down(Read)
      BY <1>6, <2>2 DEF Down
    <3>2. Weight(t, c, Down(Read)) \in Nat
      BY <1>2, <1>7, <1>8, WeightAdds, Tables
    <3> QED
      BY <1>11, <2>2, <3>1, <3>2
  <2> QED
    BY <2>1, <2>2
<1>13. OnWay(c)' = OnWay(c) + down
  <2>1. pending \in Seq(Demands) /\ OnWay(c)' = Waiting(t, c, pending')
    BY <1>1, <1>7, OnWayThen DEF BuffersTypes
  <2>2. OnWay(c) = Waiting(t, c, pending) /\ OnWay(c) \in Nat
    BY <1>2, <1>7, <2>1, WaitingIs, Tables DEF OnWay
  <2>3. CASE Buffers!Exploded(d)
    <3>1. PICK l \in Demands : l = Buffers!Line(d, "customer")
      BY <1>1
    <3>2. pending' = pending \o <<l>>
      BY <2>1, <2>3, <3>1 DEF Buffers!Direct
    <3>3. Waiting(t, c, pending \o <<l>>) = Waiting(t, c, pending) + Waiting(t, c, <<l>>)
      <4>1. <<l>> \in Seq(Demands)
        OBVIOUS
      <4> QED
        BY <1>2, <1>7, <2>1, <4>1, WaitingConcat, Tables
    <3>4. Waiting(t, c, <<l>>) = Load(t, c, l)
      BY <1>2, <1>7, WaitingOne, Tables
    <3>5. Load(t, c, l) = Load(t, c, d)
      BY <3>1 DEF Load, Buffers!Line
    <3> QED
      BY <1>11, <2>1, <2>2, <2>3, <3>2, <3>3, <3>4, <3>5
  <2>4. CASE ~Buffers!Exploded(d)
    <3>1. pending' = pending
      BY <2>4 DEF Buffers!Direct
    <3> QED
      BY <1>11, <2>1, <2>2, <2>4, <3>1
  <2> QED
    BY <2>3, <2>4
<1>14. Reached(c)' = Reached(c) + mine /\ row'[c].recommended = row[c].recommended /\ Reached(c) \in Nat
  <2>1. row[c] \in BufferRows /\ row[c].qualified \in Nat /\ row[c].outside \in Nat
    BY <1>2 DEF BufferRows
  <2>2. CASE Buffers!Qualifies(d)
    <3>1. row' = [row EXCEPT ![d.item].qualified = @ + d.qty]
      BY <2>2 DEF Buffers!Direct
    <3>2. row'[c].qualified = row[c].qualified + mine /\ row'[c].outside = row[c].outside
          /\ row'[c].recommended = row[c].recommended
      BY <1>1, <1>2, <1>9, <2>1, <2>2, <3>1 DEF BufferRows
    <3> QED
      BY <1>9, <2>1, <3>2 DEF Reached
  <2>3. CASE ~Buffers!Qualifies(d)
    <3>1. row' = row
      BY <2>3 DEF Buffers!Direct
    <3> QED
      BY <1>9, <2>1, <2>3, <3>1 DEF Reached
  <2> QED
    BY <2>2, <2>3
<1>15. PICK f : f = [i \in Parts |-> SoFar(i)' * Buffers!Through[i][c]]
  OBVIOUS
<1>16. f = MadeFor(c)
  BY <1>1, <1>15 DEF MadeFor, SoFar
<1>17. PICK b \in Nat : b = IF Buffers!WeeklyMade(c) THEN LeadTimeDemand ELSE 0
  BY Constants
<1>18. Sought(c)' = b + Quantity(Own(c, R)) + Weight(t, c, Down(R)) + 0 + SumFunction(f)
  BY <1>1, <1>5, <1>7, <1>15, <1>17, SoughtThen
<1>19. Sought(c) = b + Quantity(Own(c, Read)) + Weight(t, c, Down(Read)) + 0 + SumFunction(f)
  BY <1>1, <1>7, <1>16, <1>17 DEF Sought
<1>20. Quantity(Own(c, Read)) \in Nat /\ Weight(t, c, Down(Read)) \in Nat /\ SumFunction(f) \in Nat
  BY <1>2, <1>7, <1>16, SoughtNat
<1>21. OnWay(c) \in Nat
  BY <1>2, WaitingIs, Tables DEF OnWay, BuffersTypes
<1>22. Reached(c)' + OnWay(c)' = Sought(c)'
  BY <1>4, <1>10, <1>12, <1>13, <1>14, <1>18, <1>19, <1>20, <1>21
<1> QED
  BY <1>3, <1>4, <1>14, <1>22 DEF Conserved

LEMMA TypesKept ==
  ASSUME BuffersTypes, InputsKept, loop' \in {"direct", "production", "finish"},
         left' \subseteq (CASE loop' = "direct" -> lines [] loop' = "production" -> makes [] loop' = "finish" -> Settled),
         pending' \in Seq(Demands), row' \in [Parts -> BufferRows]
  PROVE  BuffersTypes'
<1>1. /\ policy' \in [Parts -> {"standard", "weekly", "missing", "order", "none"}]
      /\ dlt' \in [Parts -> Nat] /\ lines' \in Books /\ makes' \in Makes
      /\ stock' \in [Parts -> Int] /\ aside' \in [scheme : [Parts -> Nat], waits : [Parts -> Nat]]
  BY DEF BuffersTypes, InputsKept
<1>2. lines' = lines /\ makes' = makes /\ Settled' = Settled
  BY Keeps DEF InputsKept
<1> QED
  BY <1>1, <1>2 DEF BuffersTypes

\* The sum of what is made, where one item's share changes.
LEMMA OneMoreMade ==
  ASSUME BuffersTypes, NEW c \in Parts, NEW i \in Parts, NEW n \in Nat,
         NEW f, f = [j \in Parts |-> SoFar(j)' * Buffers!Through[j][c]],
         SoFar(i)' = SoFar(i) + n, \A j \in Parts \ {i} : SoFar(j)' = SoFar(j)
  PROVE  SumFunction(f) = SumFunction(MadeFor(c)) + n * Buffers!Through[i][c]
<1>1. PICK g : g = MadeFor(c)
  OBVIOUS
<1>2. /\ \A j \in Parts : g[j] = SoFar(j) * Buffers!Through[j][c] /\ g[j] \in Nat
      /\ IsFiniteSet(Parts) /\ SumFunction(g) = SumFunctionOnSet(g, Parts) /\ SumFunction(g) \in Nat
  BY <1>1, MadeForIs
<1>3. PICK a \in Nat, b \in Nat : a = SoFar(i) /\ b = Buffers!Through[i][c]
  BY SoFarNat, ThroughNat
<1>4. f[i] = (a + n) * b /\ g[i] = a * b /\ \A j \in Parts \ {i} : g[j] = f[j]
  BY <1>2, <1>3
<1>5. (a + n) * b = a * b + n * b /\ (a + n) * b \in Nat /\ n * b \in Nat
  <2>1. a + n \in Nat
    OBVIOUS
  <2> QED
    BY <2>1, NatTimes
<1>6. IntsOn(g, Parts) /\ IntsOn(f, Parts)
  <2>1. \A j \in Parts : f[j] \in Nat
    BY <1>2, <1>4, <1>5
  <2> QED
    BY <1>2, <2>1 DEF IntsOn
<1>7. SumFunctionOnSet(f, Parts) = SumFunctionOnSet(g, Parts) - g[i] + f[i]
  BY <1>2, <1>4, <1>6, SumChange
<1>8. SumFunction(f) = SumFunctionOnSet(f, Parts)
  BY DEF SumFunction
<1>9. g[i] \in Nat
  BY <1>2
<1> QED
  BY <1>1, <1>2, <1>3, <1>4, <1>5, <1>7, <1>8, <1>9

LEMMA NoneMoreMade ==
  ASSUME NEW c, NEW f, f = [j \in Parts |-> SoFar(j)' * Buffers!Through[j][c]],
         \A j \in Parts : SoFar(j)' = SoFar(j)
  PROVE  f = MadeFor(c)
BY DEF MadeFor

(* The book has been read. *)
LEMMA DirectDoneStep ==
  ASSUME BuffersTypes, \A c \in Settled : Conserved(c), Buffers!DirectDone
  PROVE  BuffersTypes' /\ InputsKept /\ \A c \in Settled : Conserved(c)'
<1>1. /\ loop = "direct" /\ left = {} /\ loop' = "production" /\ left' = makes
      /\ InputsKept /\ pending' = pending /\ row' = row
  BY DEF Buffers!DirectDone, Buffers!inputs, InputsKept
<1>2. BuffersTypes'
  <2>1. pending \in Seq(Demands) /\ row \in [Parts -> BufferRows]
    BY DEF BuffersTypes
  <2> QED
    BY <1>1, <2>1, TypesKept
<1>3. ASSUME NEW c \in Settled PROVE Conserved(c)'
  <2>1. c \in Parts /\ ~Waited(c) /\ ~Waited(c)'
    BY <1>1 DEF Waited, Settled
  <2>2. row[c].recommended = 0 /\ Reached(c) + OnWay(c) = Sought(c)
    BY <2>1 DEF Conserved
  <2>3. Read' = Read /\ Read = lines
    BY <1>1 DEF Read, InputsKept
  <2>4. PICK f : f = [j \in Parts |-> SoFar(j)' * Buffers!Through[j][c]]
    OBVIOUS
  <2>5. ASSUME NEW j \in Parts PROVE SoFar(j)' = SoFar(j)
    <3>1. SoFar(j)' = Quantity(Of(j, makes' \ left'))
      BY <1>1 DEF SoFar, Of
    <3>2. Of(j, makes' \ left') = {}
      BY <1>1 DEF Of, InputsKept
    <3>3. SoFar(j) = 0
      BY <1>1 DEF SoFar
    <3> QED
      BY <3>1, <3>2, <3>3, NoLines
  <2>6. f = MadeFor(c)
    BY <2>4, <2>5, NoneMoreMade
  <2>7. Sought(c)' = Sought(c)
    BY <1>1, <2>3, <2>4, <2>6, SoughtThen DEF Sought
  <2>8. OnWay(c)' = OnWay(c) /\ Reached(c)' = Reached(c)
    BY <1>1, OnWayThen DEF OnWay, Reached
  <2> QED
    BY <1>1, <2>1, <2>2, <2>7, <2>8 DEF Conserved
<1> QED
  BY <1>1, <1>2, <1>3

(* A production order is put on the stack. *)
LEMMA ProductionStep ==
  ASSUME BuffersTypes, \A c \in Settled : Conserved(c), NEW o \in left, Buffers!Production(o)
  PROVE  BuffersTypes' /\ InputsKept /\ \A c \in Settled : Conserved(c)'
<1>1. /\ loop = "production" /\ loop' = "production" /\ left' = left \ {o} /\ left \subseteq makes
      /\ InputsKept /\ pending = <<>> /\ pending' = <<Buffers!Line(o, "production")>> /\ row' = row
      /\ makes' = makes
  BY DEF Buffers!Production, Buffers!inputs, InputsKept, BuffersTypes
<1>2. o \in makes /\ o.item \in Parts /\ o.due \in Int /\ o.qty \in Nat
  BY <1>1, InputLines
<1>3. PICK l \in Demands : l = Buffers!Line(o, "production") /\ l.item = o.item /\ l.qty = o.qty
  <2>1. Buffers!Line(o, "production") \in Demands
    BY <1>2 DEF Buffers!Line, Demands
  <2>2. Buffers!Line(o, "production").item = o.item /\ Buffers!Line(o, "production").qty = o.qty
    BY DEF Buffers!Line
  <2> QED
    BY <2>1, <2>2
<1>4. BuffersTypes'
  <2>1. <<l>> \in Seq(Demands) /\ row \in [Parts -> BufferRows]
    BY DEF BuffersTypes
  <2>2. left' \subseteq makes
    BY <1>1
  <2> QED
    BY <1>1, <1>3, <2>1, <2>2, TypesKept
<1>5. ASSUME NEW c \in Settled PROVE Conserved(c)'
  <2>1. c \in Parts /\ ~Waited(c) /\ ~Waited(c)'
    BY <1>1 DEF Waited, Settled
  <2>2. row[c].recommended = 0 /\ Reached(c) + OnWay(c) = Sought(c)
    BY <2>1 DEF Conserved
  <2>3. Read' = Read
    BY <1>1 DEF Read, InputsKept
  <2>4. PICK f : f = [j \in Parts |-> SoFar(j)' * Buffers!Through[j][c]]
    OBVIOUS
  <2>5. PICK S : S = Of(o.item, makes \ left')
    OBVIOUS
  <2>6. o \in S /\ S \ {o} = Of(o.item, makes \ left) /\ SomeLines(S)
    <3>1. o \in S /\ S \ {o} = Of(o.item, makes \ left) /\ S \subseteq makes
      BY <1>1, <1>2, <2>5 DEF Of
    <3> QED
      BY <3>1, InputLines, SomeSubset
  <2>7. SoFar(o.item)' = SoFar(o.item) + o.qty
    <3>1. SoFar(o.item)' = Quantity(S) /\ SoFar(o.item) = Quantity(S \ {o})
      BY <1>1, <2>5, <2>6 DEF SoFar, Of
    <3>2. Quantity(S) = o.qty + Quantity(S \ {o})
      BY <2>6, QuantityAdds
    <3>3. SoFar(o.item) \in Nat
      BY <1>2, SoFarNat
    <3> QED
      BY <1>2, <3>1, <3>2, <3>3
  <2>8. ASSUME NEW j \in Parts \ {o.item} PROVE SoFar(j)' = SoFar(j)
    <3>1. SoFar(j)' = Quantity(Of(j, makes \ left')) /\ SoFar(j) = Quantity(Of(j, makes \ left))
      BY <1>1 DEF SoFar, Of
    <3>2. Of(j, makes \ left') = Of(j, makes \ left)
      BY <1>1 DEF Of
    <3> QED
      BY <3>1, <3>2
  <2>9. SumFunction(f) = SumFunction(MadeFor(c)) + o.qty * Buffers!Through[o.item][c]
    BY <1>2, <2>1, <2>4, <2>7, <2>8, OneMoreMade
  <2>10. OnWay(c) = 0 /\ OnWay(c)' = o.qty * Buffers!Through[o.item][c]
    <3>1. OnWay(c) = 0
      BY <1>1, WaitingNone DEF OnWay
    <3>2. OnWay(c)' = Waiting(Buffers!Through, c, <<l>>)
      BY <1>1, <1>3, OnWayThen
    <3>3. Waiting(Buffers!Through, c, <<l>>) = Load(Buffers!Through, c, l)
      BY <2>1, WaitingOne, Tables
    <3> QED
      BY <1>3, <3>1, <3>2, <3>3 DEF Load
  <2>11. PICK n \in Nat : n = o.qty * Buffers!Through[o.item][c]
    BY <1>2, <2>1, ThroughNat, NatTimes
  <2>12. PICK a \in Nat : a = (IF Buffers!WeeklyMade(c) THEN LeadTimeDemand ELSE 0)
    BY Constants
  <2>13. Sought(c)' = a + Quantity(Own(c, Read)) + Weight(Buffers!Through, c, Down(Read)) + 0 + SumFunction(f)
    BY <1>1, <2>3, <2>4, <2>12, SoughtThen
  <2>14. Sought(c) = a + Quantity(Own(c, Read)) + Weight(Buffers!Through, c, Down(Read)) + 0
                       + SumFunction(MadeFor(c))
    BY <1>1, <2>12 DEF Sought
  <2>15. /\ Quantity(Own(c, Read)) \in Nat /\ Weight(Buffers!Through, c, Down(Read)) \in Nat
         /\ SumFunction(MadeFor(c)) \in Nat
    BY <2>1, SoughtNat
  <2>16. Reached(c)' = Reached(c) /\ Reached(c) \in Nat
    <3>1. row[c] \in BufferRows
      BY <2>1 DEF BuffersTypes
    <3> QED
      BY <1>1, <3>1 DEF Reached, BufferRows
  <2>17. Reached(c)' + OnWay(c)' = Sought(c)'
    BY <2>2, <2>9, <2>10, <2>11, <2>13, <2>14, <2>15, <2>16
  <2> QED
    BY <1>1, <2>1, <2>2, <2>17 DEF Conserved
<1> QED
  BY <1>1, <1>4, <1>5

(* The production orders have been read. *)
LEMMA ProductionDoneStep ==
  ASSUME BuffersTypes, \A c \in Settled : Conserved(c), Buffers!ProductionDone
  PROVE  BuffersTypes' /\ InputsKept /\ \A c \in Settled : Conserved(c)'
<1>1. /\ loop = "production" /\ loop' = "finish" /\ left = {} /\ left' = Settled
      /\ InputsKept /\ pending = <<>> /\ pending' = <<>>
  BY DEF Buffers!ProductionDone, Buffers!inputs, InputsKept, Settled
<1>2. \A c \in Parts : row[c] \in BufferRows
  BY DEF BuffersTypes
<1>3. row' = [i \in Parts |->
               IF ~Buffers!Planned(i) THEN row[i]
               ELSE [row[i] EXCEPT
                       !.qualified = @ + Buffers!Total({o \in makes : o.item = i /\ o.inserted}),
                       !.supply = IF policy[i] = "weekly" THEN @ ELSE @ + Buffers!Scheduled(i)]]
  BY DEF Buffers!ProductionDone
<1>4. ASSUME NEW c \in Settled
      PROVE  row'[c] = [row[c] EXCEPT !.qualified = @ + Quantity(Inserted(c)),
                                      !.supply = IF policy[c] = "weekly" THEN @ ELSE @ + Buffers!Scheduled(c)]
  <2>1. c \in Parts /\ Buffers!Planned(c)
    BY DEF Settled
  <2>2. Buffers!Total({o \in makes : o.item = c /\ o.inserted}) = Quantity(Inserted(c))
    BY SameTotal DEF Inserted
  <2> QED
    BY <1>3, <2>1, <2>2
<1>5. ASSUME NEW c \in Settled
      PROVE  /\ row'[c] \in BufferRows /\ row'[c].recommended = row[c].recommended
             /\ row'[c].qualified = row[c].qualified + Quantity(Inserted(c))
             /\ row'[c].outside = row[c].outside
  <2>1. c \in Parts /\ row[c] \in BufferRows
    BY <1>2 DEF Settled
  <2>2. PICK q \in Nat : q = Quantity(Inserted(c))
    BY <2>1, SoughtNat
  <2>3. PICK s \in Int : s = IF policy[c] = "weekly" THEN row[c].supply ELSE row[c].supply + Buffers!Scheduled(c)
    BY <2>1, ScheduledNat DEF BufferRows
  <2>4. PICK r \in BufferRows : r = row[c]
    BY <2>1
  <2>5. row'[c] = [r EXCEPT !.qualified = r.qualified + q, !.supply = s]
    BY <1>4, <2>2, <2>3, <2>4
  <2>6. r.qualified + q \in Nat
    BY DEF BufferRows
  <2>7. row'[c] \in BufferRows
    BY <2>5, <2>6 DEF BufferRows
  <2>8. row'[c].recommended = r.recommended /\ row'[c].qualified = r.qualified + q /\ row'[c].outside = r.outside
    BY <2>5 DEF BufferRows
  <2> QED
    BY <2>2, <2>4, <2>7, <2>8
<1>6. row' \in [Parts -> BufferRows]
  <2>1. ASSUME NEW i \in Parts PROVE row'[i] \in BufferRows
    <3>1. CASE i \in Settled
      BY <1>5, <3>1
    <3>2. CASE i \notin Settled
      <4>1. ~Buffers!Planned(i)
        BY <3>2 DEF Settled
      <4>2. row'[i] = row[i]
        BY <1>3, <4>1
      <4> QED
        BY <1>2, <4>2
    <3> QED
      BY <3>1, <3>2
  <2>2. row' = [i \in Parts |-> row'[i]]
    BY <1>3
  <2> QED
    BY <2>1, <2>2
<1>7. BuffersTypes'
  <2>1. <<>> \in Seq(Demands)
    OBVIOUS
  <2> QED
    BY <1>1, <1>6, <2>1, TypesKept
<1>8. ASSUME NEW c \in Settled PROVE row[c].recommended = 0 /\ Reached(c) + OnWay(c) = Sought(c)
  <2>1. ~Waited(c)
    BY <1>1 DEF Waited
  <2> QED
    BY <2>1 DEF Conserved
<1>9. ASSUME NEW j \in Parts PROVE SoFar(j)' = SoFar(j)
  <2>1. SoFar(j) = Buffers!Scheduled(j)
    <3>1. SoFar(j) = Quantity(Of(j, makes \ left))
      BY <1>1 DEF SoFar
    <3>2. Of(j, makes \ left) = Of(j, makes)
      BY <1>1 DEF Of
    <3> QED
      BY <3>1, <3>2, ScheduledNat
  <2>2. SoFar(j)' = Buffers!ToMake(j)'
    BY <1>1 DEF SoFar
  <2>3. Buffers!Scheduled(j)' = Buffers!Scheduled(j) /\ (Buffers!WeeklyMade(j)' <=> Buffers!WeeklyMade(j))
    BY <1>1, Keeps
  <2>4. CASE ~Buffers!WeeklyMade(j)
    BY <2>1, <2>2, <2>3, <2>4 DEF Buffers!ToMake
  <2>5. CASE Buffers!WeeklyMade(j)
    <3>1. j \in Settled
      BY <2>5 DEF Settled, Buffers!WeeklyMade, Buffers!Planned
    <3>2. row'[j].recommended = 0
      BY <1>5, <1>8, <3>1
    <3>3. Buffers!ToMake(j)' = Buffers!Larger(Buffers!Scheduled(j), 0)
      BY <2>3, <2>5, <3>2 DEF Buffers!ToMake, Buffers!Larger
    <3> QED
      BY <2>1, <2>2, <3>3, ScheduledNat DEF Buffers!Larger
  <2> QED
    BY <2>4, <2>5
<1>10. ASSUME NEW c \in Settled PROVE Conserved(c)'
  <2>1. c \in Parts /\ ~Waited(c)' /\ row[c] \in BufferRows
    BY <1>1, <1>2 DEF Waited, Settled
  <2>2. Read' = Read /\ Read = lines
    BY <1>1 DEF Read, InputsKept
  <2>3. PICK f : f = [j \in Parts |-> SoFar(j)' * Buffers!Through[j][c]]
    OBVIOUS
  <2>4. f = MadeFor(c)
    BY <1>9, <2>3, NoneMoreMade
  <2>5. PICK a \in Nat : a = (IF Buffers!WeeklyMade(c) THEN LeadTimeDemand ELSE 0)
    BY Constants
  <2>6. Sought(c)' = a + Quantity(Own(c, Read)) + Weight(Buffers!Through, c, Down(Read))
                       + Quantity(Inserted(c)) + SumFunction(MadeFor(c))
    BY <1>1, <2>2, <2>3, <2>4, <2>5, SoughtThen
  <2>7. Sought(c) = a + Quantity(Own(c, Read)) + Weight(Buffers!Through, c, Down(Read)) + 0
                       + SumFunction(MadeFor(c))
    BY <1>1, <2>5 DEF Sought
  <2>8. /\ Quantity(Own(c, Read)) \in Nat /\ Weight(Buffers!Through, c, Down(Read)) \in Nat
        /\ SumFunction(MadeFor(c)) \in Nat /\ Quantity(Inserted(c)) \in Nat
    BY <2>1, SoughtNat
  <2>9. OnWay(c)' = 0 /\ OnWay(c) = 0
    BY <1>1, WaitingNone, OnWayThen DEF OnWay
  <2>10. Reached(c)' = Reached(c) + Quantity(Inserted(c)) /\ Reached(c) \in Nat
    <3>1. row[c].qualified \in Nat /\ row[c].outside \in Nat
      BY <2>1 DEF BufferRows
    <3> QED
      BY <1>5, <2>8, <3>1 DEF Reached
  <2>11. Reached(c)' + OnWay(c)' = Sought(c)'
    BY <1>8, <2>6, <2>7, <2>8, <2>9, <2>10
  <2>12. row'[c].recommended = 0
    BY <1>5, <1>8
  <2> QED
    BY <2>1, <2>11, <2>12 DEF Conserved
<1> QED
  BY <1>1, <1>7, <1>10

(* One iteration over the stack. *)
LEMMA AskedIs ==
  ASSUME BuffersTypes, NEW d \in Demands, NEW c \in Parts, NEW r, r = Buffers!Asked(row[c], d, c)
  PROVE  /\ r \in BufferRows /\ r.recommended = row[c].recommended /\ r.supply = row[c].supply
         /\ Buffers!Planned(c) => r.qualified + r.outside = row[c].qualified + row[c].outside + Buffers!Needs(d, c)
         /\ Buffers!Needs(d, c) = 0 => r = row[c]
<1>1. PICK s \in BufferRows : s = row[c]
  BY DEF BuffersTypes
<1>2. PICK n \in Nat : n = Buffers!Needs(d, c)
  BY NeedsNat
<1>3. d.due \in Int /\ dlt[c] \in Nat
  BY DEF BuffersTypes, Demands
<1>4. r = IF ~Buffers!Planned(c) \/ n = 0 THEN s
          ELSE IF d.due > dlt[c] THEN [s EXCEPT !.outside = @ + n]
          ELSE [s EXCEPT !.qualified = @ + n,
                     !.production = IF d.for = "production" THEN @ + n ELSE @,
                     !.made = IF d.for = "planned" THEN @ + n ELSE @]
  BY <1>1, <1>2 DEF Buffers!Asked
<1>5. s.qualified \in Nat /\ s.outside \in Nat /\ s.production \in Nat /\ s.made \in Nat
  BY DEF BufferRows
<1>6. CASE ~Buffers!Planned(c) \/ n = 0
  BY <1>1, <1>2, <1>4, <1>5, <1>6
<1>7. CASE ~(~Buffers!Planned(c) \/ n = 0) /\ d.due > dlt[c]
  <2>1. r = [s EXCEPT !.outside = s.outside + n]
    BY <1>4, <1>7
  <2>2. r \in BufferRows /\ r.recommended = s.recommended /\ r.supply = s.supply
        /\ r.qualified = s.qualified /\ r.outside = s.outside + n
    BY <1>5, <2>1 DEF BufferRows
  <2> QED
    BY <1>1, <1>2, <1>5, <1>7, <2>2
<1>8. CASE ~(~Buffers!Planned(c) \/ n = 0) /\ ~(d.due > dlt[c])
  <2>1. PICK p \in Nat, m \in Nat : /\ p = IF d.for = "production" THEN s.production + n ELSE s.production
                                    /\ m = IF d.for = "planned" THEN s.made + n ELSE s.made
    BY <1>5
  <2>2. r = [s EXCEPT !.qualified = s.qualified + n, !.production = p, !.made = m]
    BY <1>4, <1>8, <2>1
  <2>3. s.qualified + n \in Nat
    BY <1>5
  <2>4. r \in BufferRows
    BY <2>2, <2>3 DEF BufferRows
  <2>5. r.recommended = s.recommended /\ r.supply = s.supply
        /\ r.qualified = s.qualified + n /\ r.outside = s.outside
    BY <2>2 DEF BufferRows
  <2> QED
    BY <1>1, <1>2, <1>5, <1>8, <2>4, <2>5
<1> QED
  BY <1>6, <1>7, <1>8

LEMMA SameEnds == ASSUME NEW s PROVE Buffers!Last(s) = Last(s) /\ Buffers!Front(s) = Front(s)
BY DEF Buffers!Last, Last, Buffers!Front, Front

\* What the top of the stack asks for is handed out, or waits below.
LEMMA PassStep ==
  ASSUME BuffersTypes, \A c \in Settled : Conserved(c), Buffers!Pass
  PROVE  BuffersTypes' /\ InputsKept /\ \A c \in Settled : Conserved(c)'
<1>1. PICK d : d = Last(pending)
  OBVIOUS
<1>2. /\ loop # "direct" /\ loop' = loop /\ left' = left /\ InputsKept /\ pending # <<>>
      /\ row' = [c \in Parts |-> Buffers!Asked(row[c], d, c)]
      /\ pending' = Front(pending) \o SetToSeq(Children(d))
  <2>1. loop # "direct" /\ loop' = loop /\ left' = left /\ InputsKept /\ pending # <<>>
    BY DEF Buffers!Pass, Buffers!inputs, InputsKept
  <2>2. row' = [c \in Parts |-> Buffers!Asked(row[c], d, c)]
    BY <1>1, SameEnds DEF Buffers!Pass
  <2>3. pending' = Front(pending) \o SetToSeq(Children(d))
    <3>1. pending' = Buffers!Front(pending) \o Buffers!SetToSeq(Children(Buffers!Last(pending)))
      BY DEF Buffers!Pass, Children, Child, On
    <3> QED
      BY <1>1, <3>1, SameEnds, SameSeq
  <2> QED
    BY <2>1, <2>2, <2>3
<1>3. pending \in Seq(Demands)
  BY DEF BuffersTypes
<1>4. PICK r : r = pending' /\ r = Front(pending) \o SetToSeq(Children(Last(pending)))
  BY <1>1, <1>2
<1>5. ASSUME NEW c \in Parts
      PROVE  /\ r \in Seq(Demands) /\ d \in Demands
             /\ Waiting(Buffers!Through, c, pending) = Waiting(Buffers!Through, c, r) + Buffers!Needs(d, c)
             /\ Waiting(Buffers!Through, c, r) \in Nat
  BY <1>1, <1>2, <1>3, <1>4, PassConserves
<1>6. d \in Demands
  BY <1>1, <1>2, <1>3 DEF Last
<1>7. r \in Seq(Demands)
  <2>1. CASE Parts = {}
    BY <1>6, <2>1 DEF Demands
  <2>2. CASE Parts # {}
    BY <1>5, <2>2
  <2> QED
    BY <2>1, <2>2
<1>8. ASSUME NEW c \in Parts
      PROVE  /\ row'[c] \in BufferRows /\ row'[c].recommended = row[c].recommended
             /\ row'[c].supply = row[c].supply
             /\ Buffers!Planned(c) => Reached(c)' = Reached(c) + Buffers!Needs(d, c)
             /\ Buffers!Needs(d, c) = 0 => row'[c] = row[c]
  <2>1. row'[c] = Buffers!Asked(row[c], d, c)
    BY <1>2
  <2> QED
    BY <1>6, <2>1, AskedIs DEF Reached
<1>9. BuffersTypes'
  <2>1. row' \in [Parts -> BufferRows]
    BY <1>2, <1>8
  <2>2. left' \subseteq (CASE loop' = "direct" -> lines [] loop' = "production" -> makes [] loop' = "finish" -> Settled)
    BY <1>2 DEF BuffersTypes
  <2>3. loop' \in {"direct", "production", "finish"}
    BY <1>2 DEF BuffersTypes
  <2> QED
    BY <1>2, <1>4, <1>7, <2>1, <2>2, <2>3, TypesKept
<1>10. ASSUME NEW j \in Parts PROVE SoFar(j)' = SoFar(j)
  <2>1. Quantity(Of(j, makes \ left))' = Quantity(Of(j, makes \ left))
    BY <1>2 DEF Of, InputsKept
  <2>2. Buffers!ToMake(j)' = Buffers!ToMake(j)
    <3>1. row'[j].recommended = row[j].recommended
      BY <1>8
    <3> QED
      BY <1>2, <3>1, Keeps DEF Buffers!ToMake, Buffers!Larger
  <2> QED
    BY <1>2, <2>1, <2>2 DEF SoFar
<1>11. ASSUME NEW c \in Parts PROVE Sought(c)' = Sought(c)
  <2>1. PICK f : f = [j \in Parts |-> SoFar(j)' * Buffers!Through[j][c]]
    OBVIOUS
  <2>2. f = MadeFor(c)
    BY <1>10, <2>1, NoneMoreMade
  <2>3. Read' = Read
    BY <1>2 DEF Read, InputsKept
  <2> QED
    BY <1>2, <2>1, <2>2, <2>3, SoughtThen DEF Sought
<1>12. ASSUME NEW c \in Settled, ~Waited(c) PROVE Conserved(c)'
  <2>1. c \in Parts /\ Buffers!Planned(c) /\ ~Waited(c)'
    BY <1>2, <1>12 DEF Waited, Settled
  <2>2. row[c].recommended = 0 /\ Reached(c) + OnWay(c) = Sought(c)
    BY <1>12 DEF Conserved
  <2>3. OnWay(c) = OnWay(c)' + Buffers!Needs(d, c) /\ OnWay(c)' \in Nat
    BY <1>2, <1>4, <1>5, <2>1, OnWayThen DEF OnWay
  <2>4. Reached(c)' = Reached(c) + Buffers!Needs(d, c) /\ row'[c].recommended = 0
    BY <1>8, <2>1, <2>2
  <2>5. Buffers!Needs(d, c) \in Nat /\ Reached(c) \in Nat
    <3>1. row[c] \in BufferRows
      BY <2>1 DEF BuffersTypes
    <3> QED
      BY <1>6, <2>1, <3>1, NeedsNat DEF Reached, BufferRows
  <2>6. Reached(c)' + OnWay(c)' = Sought(c)'
    BY <1>11, <2>1, <2>2, <2>3, <2>4, <2>5
  <2> QED
    BY <2>1, <2>4, <2>6 DEF Conserved
<1>13. ASSUME NEW c \in Settled, Waited(c) PROVE Conserved(c)'
  <2>1. c \in Parts /\ Waited(c)'
    BY <1>2, <1>13 DEF Waited, Settled
  <2>2. /\ \A j \in left : Buffers!Depth[c] <= Buffers!Depth[j]
        /\ \A k \in 1 .. Len(pending) : Buffers!Through[pending[k].item][c] = 0
        /\ aside.waits[c] = 0 =>
            /\ Reached(c) = Sought(c) + aside.scheme[c]
            /\ row[c].recommended = Buffers!Recommended(c, row[c].supply - row[c].qualified)
    BY <1>13 DEF Conserved
  <2>3. Buffers!Through[d.item][c] = 0 /\ d.item \in Parts
    <3>1. Len(pending) \in 1 .. Len(pending) /\ pending[Len(pending)] = d
      BY <1>1, <1>2, <1>3 DEF Last
    <3> QED
      BY <1>6, <2>2, <3>1 DEF Demands
  <2>4. Usage[d.item][c] = 0 /\ \A m \in Via(d.item) : Buffers!Through[m][c] = 0
    BY <2>1, <2>3, NoWay
  <2>5. Buffers!Needs(d, c) = 0
    <3>1. d.qty \in Nat /\ Buffers!Needs(d, c) = d.qty * Usage[d.item][c]
      BY <1>6, <2>1, NeedsNat DEF Demands
    <3> QED
      BY <2>4, <3>1
  <2>6. row'[c] = row[c]
    BY <1>8, <2>1, <2>5
  <2>7. ASSUME NEW k \in 1 .. Len(r) PROVE Buffers!Through[r[k].item][c] = 0
    <3>1. PICK low, top : low = Front(pending) /\ top = SetToSeq(Children(d)) /\ r = low \o top
      BY <1>1, <1>4
    <3>2. low \in Seq(Demands) /\ Len(low) = Len(pending) - 1
          /\ \A n \in 1 .. Len(low) : n \in 1 .. Len(pending) /\ low[n] = pending[n]
      <4>1. PICK n \in Nat : n = Len(pending) /\ n # 0
        BY <1>2, <1>3
      <4>2. low = SubSeq(pending, 1, n - 1)
        BY <3>1, <4>1 DEF Front
      <4>3. low \in Seq(Demands) /\ Len(low) = n - 1
        BY <1>3, <4>1, <4>2
      <4>4. \A m \in 1 .. n - 1 : low[m] = pending[m]
        BY <1>3, <4>1, <4>2
      <4> QED
        BY <4>1, <4>3, <4>4
    <3>3. top \in Seq(Demands) /\ \A n \in 1 .. Len(top) : \E m \in On(d) : top[n] = Child(d, m)
      BY <1>6, <2>1, <3>1, Pushed, Tables
    <3>4. k \in 1 .. Len(low) \/ (k - Len(low)) \in 1 .. Len(top)
      BY <3>1, <3>2, <3>3
    <3>5. CASE k \in 1 .. Len(low)
      <4>1. r[k] = pending[k] /\ k \in 1 .. Len(pending)
        BY <3>1, <3>2, <3>3, <3>5
      <4> QED
        BY <2>2, <4>1
    <3>6. CASE (k - Len(low)) \in 1 .. Len(top)
      <4>1. PICK n \in 1 .. Len(top) : n = k - Len(low)
        BY <3>6
      <4>2. r[k] = top[n]
        BY <3>1, <3>2, <3>3, <4>1
      <4>3. PICK m \in On(d) : top[n] = Child(d, m)
        BY <3>3
      <4>4. m \in Via(d.item)
        <5>1. m \in Parts /\ Buffers!Needs(d, m) > 0 /\ ~Buffers!Buffered(m)
          BY DEF On, Buffers!PassesOn
        <5>2. PICK q \in Nat, u \in Nat : q = d.qty /\ u = Usage[d.item][m] /\ q * u > 0
          BY <1>6, <2>3, <5>1, NeedsNat, UsageFacts DEF Demands
        <5>3. u > 0
          BY <5>2
        <5> QED
          BY <5>1, <5>2, <5>3 DEF Via
      <4>5. Child(d, m).item = m
        BY <1>6, ChildIs DEF On
      <4> QED
        BY <2>4, <4>2, <4>3, <4>4, <4>5
    <3> QED
      BY <3>4, <3>5, <3>6
  <2>8. aside' = aside /\ Buffers!Through' = Buffers!Through /\ Buffers!Depth' = Buffers!Depth
    BY <1>2, Keeps DEF InputsKept
  <2>9. \A j \in left' : Buffers!Depth[c] <= Buffers!Depth[j]
    BY <1>2, <2>2
  <2>10. Reached(c)' = Reached(c)
    BY <2>6 DEF Reached
  <2>11. aside.waits[c] = 0 =>
            /\ Reached(c)' = Sought(c)' + aside.scheme[c]
            /\ row'[c].recommended = Buffers!Recommended(c, row'[c].supply - row'[c].qualified)
    BY <1>11, <2>1, <2>2, <2>6, <2>10
  <2>12. Buffers!Recommended(c, row[c].supply - row[c].qualified)'
          = Buffers!Recommended(c, row'[c].supply - row'[c].qualified)
    BY <1>2 DEF InputsKept, Buffers!Recommended
  <2>13. \A k \in 1 .. Len(pending') : Buffers!Through[pending'[k].item][c] = 0
    BY <1>4, <2>7
  <2> QED
    BY <2>1, <2>8, <2>9, <2>11, <2>12, <2>13 DEF Conserved
<1> QED
  BY <1>2, <1>9, <1>12, <1>13

\* What an item recommends beyond its open orders is made of it.
LEMMA ExtraMade ==
  ASSUME NEW s \in Nat, NEW q \in Int
  PROVE  Buffers!Larger(s, q) = s + (IF q - s > 0 THEN q - s ELSE 0) /\ Buffers!Larger(s, 0) = s
BY DEF Buffers!Larger

\* An item is finished; what it recommends beyond its orders is passed on.
LEMMA FinishStep ==
  ASSUME BuffersTypes, \A c \in Settled : Conserved(c), NEW i \in left, Buffers!Finish(i)
  PROVE  BuffersTypes' /\ InputsKept /\ \A c \in Settled : Conserved(c)'
<1>1. /\ loop = "finish" /\ loop' = "finish" /\ InputsKept /\ pending = <<>> /\ left' = left \ {i}
      /\ \A j \in left : Buffers!Depth[i] <= Buffers!Depth[j]
  BY DEF Buffers!Finish, Buffers!inputs, InputsKept, Buffers!InTurn
<1>2. left \subseteq Settled /\ i \in Settled /\ i \in Parts /\ Settled \subseteq Parts
  BY <1>1 DEF BuffersTypes, Settled
<1>3. /\ row \in [Parts -> BufferRows] /\ dlt[i] \in Nat
      /\ \A c \in Parts : aside.scheme[c] \in Nat /\ aside.waits[c] \in Nat
  BY <1>2 DEF BuffersTypes
<1>4. PICK r \in BufferRows : r = row[i]
  BY <1>2, <1>3
<1>5. r.qualified \in Nat /\ r.outside \in Nat /\ r.supply \in Int
  BY DEF BufferRows
<1> DEFINE demand == row[i].qualified + aside.scheme[i]
           net == IF aside.waits[i] > 0 THEN Buffers!Larger(0, demand - aside.waits[i]) ELSE demand
           flow == row[i].supply - net
           want == Buffers!Recommended(i, flow)
<1>6. PICK q \in Nat : q = net /\ (aside.waits[i] = 0 => q = r.qualified + aside.scheme[i])
  BY <1>2, <1>3, <1>4, <1>5 DEF Buffers!Larger
<1>7. PICK n \in Int : n = r.supply - q
  BY <1>5
<1>8. PICK p \in Int : p = Buffers!Recommended(i, n)
  BY RecommendedInt
<1>9. PICK z \in Zones : z = Buffers!Zone(n)
  BY ZoneIs
<1>10. PICK s \in Nat : s = Buffers!Scheduled(i)
  BY ScheduledNat
<1>11. PICK more \in Nat : more = IF Buffers!WeeklyMade(i) /\ p - s > 0 THEN p - s ELSE 0
  OBVIOUS
<1>f. /\ row' = [row EXCEPT ![i].qualified = net, ![i].nfp = flow, ![i].zone = Buffers!Zone(flow), ![i].recommended = want]
      /\ pending' = IF Buffers!WeeklyMade(i) /\ want - Buffers!Scheduled(i) > 0
                    THEN <<[item |-> i, due |-> Buffers!Larger(1, dlt[i]), qty |-> want - Buffers!Scheduled(i),
                            for |-> "planned"]>>
                    ELSE <<>>
  BY DEF Buffers!Finish
<1>n. net = q
  BY <1>6
<1> HIDE DEF net
<1>v. flow = n
  BY <1>4, <1>7, <1>n
<1> HIDE DEF flow
<1>w. want = p
  BY <1>8, <1>v
<1> HIDE DEF want
<1>12. row' = [row EXCEPT ![i].qualified = q, ![i].nfp = n, ![i].zone = z, ![i].recommended = p]
  BY <1>9, <1>f, <1>n, <1>v, <1>w
<1>13. pending' = IF Buffers!WeeklyMade(i) /\ p - s > 0
                  THEN <<[item |-> i, due |-> Buffers!Larger(1, dlt[i]), qty |-> p - s, for |-> "planned"]>>
                  ELSE <<>>
  BY <1>10, <1>f, <1>w
<1>14. /\ row'[i] \in BufferRows /\ row'[i].qualified = q /\ row'[i].outside = r.outside
       /\ row'[i].supply = r.supply /\ row'[i].recommended = p
       /\ \A c \in Parts \ {i} : row'[c] = row[c]
       /\ row' \in [Parts -> BufferRows]
  <2>1. PICK w : w = [r EXCEPT !.qualified = q, !.nfp = n, !.zone = z, !.recommended = p]
    OBVIOUS
  <2>2. w \in BufferRows
    BY <2>1 DEF BufferRows
  <2>3. w.qualified = q /\ w.outside = r.outside /\ w.supply = r.supply /\ w.recommended = p
    BY <2>1 DEF BufferRows
  <2>4. row' = [row EXCEPT ![i] = w]
    BY <1>2, <1>3, <1>4, <1>12, <2>1
  <2>5. row'[i] = w /\ \A c \in Parts \ {i} : row'[c] = row[c]
    BY <1>2, <1>3, <2>4
  <2>6. row' \in [Parts -> BufferRows]
    BY <1>3, <2>2, <2>4
  <2> QED
    BY <2>2, <2>3, <2>5, <2>6
<1>15. ASSUME NEW c \in Parts
       PROVE  /\ Waiting(Buffers!Through, c, pending') = more * Buffers!Through[i][c]
              /\ pending' \in Seq(Demands)
              /\ \A k \in 1 .. Len(pending') : pending'[k].item = i
  <2>1. CASE Buffers!WeeklyMade(i) /\ p - s > 0
    <3>1. PICK due \in Int : due = Buffers!Larger(1, dlt[i])
      BY <1>3 DEF Buffers!Larger
    <3>2. PICK l : l = [item |-> i, due |-> due, qty |-> more, for |-> "planned"]
      OBVIOUS
    <3>3. l \in Demands /\ l.item = i /\ l.qty = more
      BY <1>2, <3>2 DEF Demands
    <3>4. pending' = <<l>>
      BY <1>11, <1>13, <2>1, <3>1, <3>2
    <3>5. Waiting(Buffers!Through, c, <<l>>) = Load(Buffers!Through, c, l)
      BY <3>3, WaitingOne, Tables
    <3>6. <<l>> \in Seq(Demands) /\ \A k \in 1 .. Len(<<l>>) : <<l>>[k] = l
      BY <3>3
    <3> QED
      BY <3>3, <3>4, <3>5, <3>6 DEF Load
  <2>2. CASE ~(Buffers!WeeklyMade(i) /\ p - s > 0)
    <3>1. pending' = <<>> /\ more = 0
      BY <1>11, <1>13, <2>2
    <3>2. Waiting(Buffers!Through, c, <<>>) = 0 /\ 0 * Buffers!Through[i][c] = 0
      BY <1>2, WaitingNone, ThroughNat
    <3>3. <<>> \in Seq(Demands) /\ \A k \in 1 .. Len(<<>>) : <<>>[k].item = i
      OBVIOUS
    <3> QED
      BY <3>1, <3>2, <3>3
  <2> QED
    BY <2>1, <2>2
<1>16. BuffersTypes'
  <2>1. left' \subseteq Settled /\ pending' \in Seq(Demands)
    BY <1>1, <1>2, <1>15
  <2> QED
    BY <1>1, <1>14, <2>1, TypesKept
<1>17. row[i].recommended = 0
  BY <1>2 DEF Conserved, Waited
<1>18. SoFar(i)' = SoFar(i) + more
  <2>1. SoFar(i) = s
    BY <1>1, <1>10, <1>17, ExtraMade DEF SoFar, Buffers!ToMake
  <2>2. Buffers!Scheduled(i)' = s /\ (Buffers!WeeklyMade(i)' <=> Buffers!WeeklyMade(i))
    BY <1>1, <1>10, Keeps
  <2>3. SoFar(i)' = IF Buffers!WeeklyMade(i) THEN Buffers!Larger(s, p) ELSE s
    <3>1. SoFar(i)' = Buffers!ToMake(i)'
      BY <1>1 DEF SoFar
    <3> QED
      BY <1>14, <2>2, <3>1 DEF Buffers!ToMake, Buffers!Larger
  <2> QED
    BY <1>11, <2>1, <2>3, ExtraMade
<1>19. ASSUME NEW j \in Parts \ {i} PROVE SoFar(j)' = SoFar(j)
  <2>1. row'[j].recommended = row[j].recommended
    BY <1>14
  <2>2. Buffers!ToMake(j)' = Buffers!ToMake(j)
    BY <1>1, <2>1, Keeps DEF Buffers!ToMake, Buffers!Larger
  <2> QED
    BY <1>1, <2>2 DEF SoFar
<1>20. ASSUME NEW c \in Parts PROVE Sought(c)' = Sought(c) + more * Buffers!Through[i][c]
  <2>1. PICK f : f = [j \in Parts |-> SoFar(j)' * Buffers!Through[j][c]]
    OBVIOUS
  <2>2. SumFunction(f) = SumFunction(MadeFor(c)) + more * Buffers!Through[i][c]
    BY <1>2, <1>18, <1>19, <2>1, OneMoreMade
  <2>3. Read' = Read
    BY <1>1 DEF Read, InputsKept
  <2>4. PICK a \in Nat : a = (IF Buffers!WeeklyMade(c) THEN LeadTimeDemand ELSE 0)
    BY Constants
  <2>5. Sought(c)' = a + Quantity(Own(c, Read)) + Weight(Buffers!Through, c, Down(Read))
                       + Quantity(Inserted(c)) + SumFunction(f)
    BY <1>1, <2>1, <2>3, <2>4, SoughtThen
  <2>6. Sought(c) = a + Quantity(Own(c, Read)) + Weight(Buffers!Through, c, Down(Read))
                       + Quantity(Inserted(c)) + SumFunction(MadeFor(c))
    BY <1>1, <2>4 DEF Sought
  <2>7. /\ Quantity(Own(c, Read)) \in Nat /\ Weight(Buffers!Through, c, Down(Read)) \in Nat
        /\ SumFunction(MadeFor(c)) \in Nat /\ Quantity(Inserted(c)) \in Nat
    BY SoughtNat
  <2>8. PICK b \in Nat : b = more * Buffers!Through[i][c]
    BY <1>2, ThroughNat, NatTimes
  <2> QED
    BY <2>2, <2>5, <2>6, <2>7, <2>8
<1>21. ASSUME NEW c \in Settled, Buffers!Depth[c] <= Buffers!Depth[i] PROVE Buffers!Through[i][c] = 0
  <2>1. Buffers!Depth[c] \in Nat /\ Buffers!Depth[i] \in Nat /\ c \in Parts
    BY <1>2, DepthNat
  <2> QED
    BY <1>2, <1>21, <2>1, ThroughRises
<1>22. ASSUME NEW c \in Settled, c \in left, c # i PROVE Conserved(c)'
  <2>1. c \in Parts /\ ~Waited(c) /\ ~Waited(c)'
    BY <1>1, <1>2, <1>22 DEF Waited
  <2>2. row[c].recommended = 0 /\ Reached(c) + OnWay(c) = Sought(c)
    BY <2>1 DEF Conserved
  <2>3. PICK b \in Nat : b = more * Buffers!Through[i][c]
    BY <1>2, <2>1, ThroughNat, NatTimes
  <2>4. OnWay(c) = 0 /\ OnWay(c)' = b
    BY <1>1, <1>15, <2>1, <2>3, WaitingNone, OnWayThen DEF OnWay
  <2>5. Reached(c)' = Reached(c) /\ row'[c].recommended = 0 /\ Reached(c) \in Nat
    <3>1. row'[c] = row[c] /\ row[c] \in BufferRows
      BY <1>3, <1>14, <1>22, <2>1
    <3> QED
      BY <2>2, <3>1 DEF Reached, BufferRows
  <2>6. Reached(c)' + OnWay(c)' = Sought(c)'
    BY <1>20, <2>1, <2>2, <2>3, <2>4, <2>5
  <2> QED
    BY <2>1, <2>5, <2>6 DEF Conserved
<1>23. ASSUME NEW c \in Settled, Waited(c)'
       PROVE  Sought(c)' = Sought(c) /\ Buffers!Through[i][c] = 0 /\ \A j \in left : Buffers!Depth[c] <= Buffers!Depth[j]
  <2>1. c = i \/ Waited(c)
    BY <1>1, <1>23 DEF Waited
  <2>2. \A j \in left : Buffers!Depth[c] <= Buffers!Depth[j]
    <3>1. CASE c = i
      BY <1>1, <3>1
    <3>2. CASE Waited(c)
      BY <3>2 DEF Conserved
    <3> QED
      BY <2>1, <3>1, <3>2
  <2>3. Buffers!Through[i][c] = 0
    BY <1>21, <2>2
  <2>4. Sought(c)' = Sought(c) + more * 0 /\ Sought(c) \in Nat
    BY <1>2, <1>20, <2>3, SoughtNat
  <2> QED
    BY <2>2, <2>3, <2>4
<1>24. aside' = aside /\ Buffers!Through' = Buffers!Through /\ Buffers!Depth' = Buffers!Depth
  BY <1>1, Keeps DEF InputsKept
<1>25. ASSUME NEW c PROVE Buffers!Recommended(c, row[c].supply - row[c].qualified)'
          = Buffers!Recommended(c, row'[c].supply - row'[c].qualified)
  BY <1>1 DEF InputsKept, Buffers!Recommended
<1>26. Conserved(i)'
  <2>1. Waited(i)' /\ ~Waited(i)
    BY <1>1 DEF Waited
  <2>2. Reached(i) + OnWay(i) = Sought(i) /\ OnWay(i) = 0
    BY <1>1, <1>2, <2>1, WaitingNone DEF Conserved, OnWay
  <2>3. aside.waits[i] = 0 => Reached(i)' = Reached(i) + aside.scheme[i]
    BY <1>2, <1>3, <1>4, <1>5, <1>6, <1>14 DEF Reached
  <2>4. Reached(i) \in Nat
    BY <1>4, <1>5 DEF Reached
  <2>5. row'[i].recommended = Buffers!Recommended(i, row'[i].supply - row'[i].qualified)
    BY <1>7, <1>8, <1>14
  <2>6. aside.waits[i] = 0 => Reached(i)' = Sought(i)' + aside.scheme[i]
    BY <1>2, <1>23, <2>1, <2>2, <2>3, <2>4
  <2>7. /\ \A k \in 1 .. Len(pending') : Buffers!Through[pending'[k].item][i] = 0
        /\ \A j \in left' : Buffers!Depth[i] <= Buffers!Depth[j]
    <3>1. Buffers!Through[i][i] = 0 /\ \A j \in left : Buffers!Depth[i] <= Buffers!Depth[j]
      BY <1>2, <1>23, <2>1
    <3>2. \A k \in 1 .. Len(pending') : pending'[k].item = i
      BY <1>2, <1>15
    <3> QED
      BY <1>1, <3>1, <3>2
  <2>8. Buffers!Recommended(i, row[i].supply - row[i].qualified)'
          = Buffers!Recommended(i, row'[i].supply - row'[i].qualified)
    BY <1>25
  <2> QED
    BY <1>24, <2>1, <2>5, <2>6, <2>7, <2>8 DEF Conserved
<1>27. ASSUME NEW c \in Settled, c \notin left PROVE Conserved(c)'
  <2>1. Waited(c) /\ Waited(c)' /\ c # i /\ c \in Parts
    BY <1>1, <1>2, <1>27 DEF Waited
  <2>2. row'[c] = row[c] /\ Reached(c)' = Reached(c)
    BY <1>14, <2>1 DEF Reached
  <2>3. aside.waits[c] = 0 =>
            /\ Reached(c) = Sought(c) + aside.scheme[c]
            /\ row[c].recommended = Buffers!Recommended(c, row[c].supply - row[c].qualified)
    BY <2>1 DEF Conserved
  <2>4. aside.waits[c] = 0 =>
            /\ Reached(c)' = Sought(c)' + aside.scheme[c]
            /\ row'[c].recommended = Buffers!Recommended(c, row'[c].supply - row'[c].qualified)
    BY <1>23, <2>1, <2>2, <2>3
  <2>5. /\ \A k \in 1 .. Len(pending') : Buffers!Through[pending'[k].item][c] = 0
        /\ \A j \in left' : Buffers!Depth[c] <= Buffers!Depth[j]
    <3>1. Buffers!Through[i][c] = 0 /\ \A j \in left : Buffers!Depth[c] <= Buffers!Depth[j]
      BY <1>2, <1>23, <2>1
    <3>2. \A k \in 1 .. Len(pending') : pending'[k].item = i
      BY <1>2, <1>15
    <3> QED
      BY <1>1, <3>1, <3>2
  <2>6. Buffers!Recommended(c, row[c].supply - row[c].qualified)'
          = Buffers!Recommended(c, row'[c].supply - row'[c].qualified)
    BY <1>25
  <2> QED
    BY <1>24, <2>1, <2>4, <2>5, <2>6 DEF Conserved
<1> QED
  BY <1>1, <1>16, <1>22, <1>26, <1>27

\* The steps of the schedule leave the buffers alone.
LEMMA BuffersUntouched ==
  ASSUME BuffersInv, UNCHANGED buffers
  PROVE  BuffersInv'
<1>1. InputsKept /\ loop' = loop /\ left' = left /\ pending' = pending /\ row' = row
  BY DEF buffers, InputsKept
<1>2. CASE loop = "saved"
  BY <1>1, <1>2 DEF BuffersInv
<1>3. CASE loop # "saved"
  <2>1. BuffersTypes /\ \A c \in Settled : Conserved(c)
    BY <1>3 DEF BuffersInv
  <2>2. BuffersTypes'
    <3>1. Settled' = Settled
      BY <1>1, Keeps
    <3> QED
      BY <1>1, <2>1, <3>1 DEF BuffersTypes, InputsKept
  <2>3. ASSUME NEW c \in Settled PROVE Conserved(c)'
    <3>1. PICK f : f = [j \in Parts |-> SoFar(j)' * Buffers!Through[j][c]]
      OBVIOUS
    <3>2. ASSUME NEW j \in Parts PROVE SoFar(j)' = SoFar(j)
      <4>1. Buffers!ToMake(j)' = Buffers!ToMake(j)
        BY <1>1, Keeps DEF Buffers!ToMake, Buffers!Larger
      <4>2. Quantity(Of(j, makes \ left))' = Quantity(Of(j, makes \ left))
        BY <1>1 DEF Of, InputsKept
      <4> QED
        BY <1>1, <4>1, <4>2 DEF SoFar
    <3>3. f = MadeFor(c)
      BY <3>1, <3>2, NoneMoreMade
    <3>4. Read' = Read
      BY <1>1 DEF Read, InputsKept
    <3>5. Sought(c)' = Sought(c)
      BY <1>1, <3>1, <3>3, <3>4, SoughtThen DEF Sought
    <3>6. OnWay(c)' = OnWay(c) /\ Reached(c)' = Reached(c) /\ (Waited(c)' <=> Waited(c))
      BY <1>1, OnWayThen DEF OnWay, Reached, Waited
    <3>7. Buffers!Recommended(c, row[c].supply - row[c].qualified)'
          = Buffers!Recommended(c, row[c].supply - row[c].qualified)
      BY <1>1 DEF InputsKept, Buffers!Recommended
    <3>8. aside' = aside /\ Buffers!Through' = Buffers!Through /\ Buffers!Depth' = Buffers!Depth
      BY <1>1, Keeps DEF InputsKept
    <3> QED
      BY <1>1, <2>1, <3>5, <3>6, <3>7, <3>8 DEF Conserved
  <2>4. Settled' = Settled
    BY <1>1, Keeps
  <2> QED
    BY <1>1, <1>3, <2>2, <2>3, <2>4 DEF BuffersInv
<1> QED
  BY <1>2, <1>3

\* Each step of the buffers keeps the invariant.
LEMMA BuffersNext == BuffersInv /\ Buffers!Next => BuffersInv'
<1> SUFFICES ASSUME BuffersInv, Buffers!Next PROVE BuffersInv'
  OBVIOUS
<1>1. loop # "saved"
  <2> SUFFICES ASSUME loop = "saved" PROVE FALSE
    OBVIOUS
  <2>1. pending = <<>> /\ left = {}
    BY DEF BuffersInv
  <2> QED
    BY <2>1 DEF Buffers!Next, Buffers!DirectDone, Buffers!Pass, Buffers!ProductionDone
<1>2. BuffersTypes /\ \A c \in Settled : Conserved(c)
  BY <1>1 DEF BuffersInv
<1>3. BuffersTypes' /\ InputsKept /\ \A c \in Settled : Conserved(c)'
  <2>1. CASE \E d \in left : Buffers!Direct(d)
    BY <1>2, <2>1, DirectTypes, DirectConserves
  <2>2. CASE \E o \in left : Buffers!Production(o)
    BY <1>2, <2>2, ProductionStep
  <2>3. CASE \E i \in left : Buffers!Finish(i)
    BY <1>2, <2>3, FinishStep
  <2>4. CASE Buffers!DirectDone
    BY <1>2, <2>4, DirectDoneStep
  <2>5. CASE Buffers!Pass
    BY <1>2, <2>5, PassStep
  <2>6. CASE Buffers!ProductionDone
    BY <1>2, <2>6, ProductionDoneStep
  <2> QED
    BY <2>1, <2>2, <2>3, <2>4, <2>5, <2>6 DEF Buffers!Next
<1>4. Settled' = Settled
  BY <1>3, Keeps
<1>5. loop' # "saved"
  BY <1>3 DEF BuffersTypes
<1> QED
  BY <1>3, <1>4, <1>5 DEF BuffersInv

\* With nothing left to read, nothing is on its way.
LEMMA InvDemands == BuffersInv => DemandByPaths
<1> SUFFICES ASSUME BuffersInv, Buffers!Calculated, NEW c \in Parts, Buffers!Planned(c), aside.waits[c] = 0
             PROVE  LET down(S) == Buffers!SumFunction([l \in S |-> l.qty * Buffers!Through[l.item][c]])
                        components == Buffers!SumFunction([i \in Parts |-> Buffers!ToMake(i) * Buffers!Through[i][c]])
                        mine == {d \in lines : d.item = c /\ Buffers!Qualifies(d)}
                        inserted == {o \in makes : o.item = c /\ o.inserted}
                        asked == Buffers!Total(mine) + Buffers!Total(inserted) + down({d \in lines : Buffers!Exploded(d)})
                                   + components + aside.scheme[c]
                                   + (IF Buffers!WeeklyMade(c) THEN LeadTimeDemand ELSE 0)
                    IN  /\ row[c].qualified + row[c].outside = asked
                        /\ row[c].recommended = Buffers!Recommended(c, row[c].supply - row[c].qualified)
  BY DEF DemandByPaths, Buffers!DemandByPaths
<1>1. loop = "finish" /\ left = {}
  BY DEF Buffers!Calculated
<1>2. BuffersTypes /\ c \in Settled /\ Waited(c) /\ Read = lines
  BY <1>1 DEF BuffersInv, Settled, Waited, Read
<1>3. /\ Reached(c) = Sought(c) + aside.scheme[c]
      /\ row[c].recommended = Buffers!Recommended(c, row[c].supply - row[c].qualified)
  BY <1>1, <1>2 DEF BuffersInv, Conserved
<1>4. PICK a \in Nat : a = (IF Buffers!WeeklyMade(c) THEN LeadTimeDemand ELSE 0)
  BY Constants
<1>5. Sought(c) = a + Quantity(Own(c, lines)) + Weight(Buffers!Through, c, Down(lines))
                    + Quantity(Inserted(c)) + SumFunction(MadeFor(c))
  BY <1>1, <1>2, <1>4 DEF Sought
<1>6. Quantity(Own(c, lines)) = Buffers!Total({d \in lines : d.item = c /\ Buffers!Qualifies(d)})
  BY SameTotal DEF Own
<1>7. Quantity(Inserted(c)) = Buffers!Total({o \in makes : o.item = c /\ o.inserted})
  BY SameTotal DEF Inserted
<1>8. PICK D : D = {d \in lines : Buffers!Exploded(d)}
  OBVIOUS
<1>9. Weight(Buffers!Through, c, Down(lines))
        = Buffers!SumFunction([l \in D |-> l.qty * Buffers!Through[l.item][c]])
  BY <1>8, SameSum DEF Weight, Load, Down
<1>10. SumFunction(MadeFor(c))
         = Buffers!SumFunction([i \in Parts |-> Buffers!ToMake(i) * Buffers!Through[i][c]])
  <2>1. \A i \in Parts : SoFar(i) = Buffers!ToMake(i)
    BY <1>1 DEF SoFar
  <2>2. MadeFor(c) = [i \in Parts |-> Buffers!ToMake(i) * Buffers!Through[i][c]]
    BY <2>1 DEF MadeFor
  <2> QED
    BY <2>2, SameSum
<1>11. /\ Quantity(Own(c, lines)) \in Nat /\ Weight(Buffers!Through, c, Down(lines)) \in Nat
       /\ SumFunction(MadeFor(c)) \in Nat /\ Quantity(Inserted(c)) \in Nat /\ aside.scheme[c] \in Nat
  BY <1>2, SoughtNat DEF BuffersTypes
<1>12. PICK taken, forced, passed, built \in Nat :
         /\ taken = Quantity(Own(c, lines)) /\ forced = Quantity(Inserted(c))
         /\ passed = Weight(Buffers!Through, c, Down(lines)) /\ built = SumFunction(MadeFor(c))
  BY <1>11
<1>13. row[c].qualified + row[c].outside = taken + forced + passed + built + aside.scheme[c] + a
  BY <1>3, <1>5, <1>11, <1>12 DEF Reached
<1> QED
  BY <1>3, <1>4, <1>6, <1>7, <1>8, <1>9, <1>10, <1>12, <1>13

\* The invariant holds whatever the calculation reads, until its results are
\* written and after (planPlant).
THEOREM BuffersInvariance == SpecCalculation => []BuffersInv
<1>1. InitCalculation => BuffersInv
  BY BuffersInit
<1>2. BuffersInv /\ [NextCalculation]_<<buffers, schedule>> => BuffersInv'
  <2> SUFFICES ASSUME BuffersInv, [NextCalculation]_<<buffers, schedule>> PROVE BuffersInv'
    OBVIOUS
  <2>1. CASE CalculateBuffers
    BY <2>1, BuffersNext DEF CalculateBuffers
  <2>2. CASE SaveResults
    BY <2>2 DEF SaveResults, BuffersInv
  <2>3. CASE StartSchedule
    BY <2>3, BuffersUntouched DEF StartSchedule
  <2>4. CASE CalculateSchedule
    BY <2>4, BuffersUntouched DEF CalculateSchedule
  <2>5. CASE UNCHANGED <<buffers, schedule>>
    BY <2>5, BuffersUntouched
  <2> QED
    BY <2>1, <2>2, <2>3, <2>4, <2>5 DEF NextCalculation
<1> QED
  BY <1>1, <1>2, PTL DEF SpecCalculation

\* For every plant whose items have no loop, and every book and orders: when the
\* calculation of the buffers ends, each buffer was asked for exactly what the
\* lines and all that is made above it ask for, once for every way down, and
\* what is recommended was worked out from all of it (planPlant, explode and
\* consume of ddmrp.mjs).
THEOREM BuffersByPaths == SpecCalculation => []DemandByPaths
BY BuffersInvariance, InvDemands, PTL

=============================================================================
