------------------------- MODULE BookPricingProofs -------------------------
(* What holds of every book, plan, mapping, chunk size and number of rows   *)
(* that BookPricing.tla allows.                                             *)
(*                                                                          *)
(* A total is a fold over a finite set in an order nobody chose, so the     *)
(* first section proves what the sums of the model owe that choice: nothing *)
(* (a term may be taken out anywhere, the places renamed, a table added up  *)
(* by rows or by columns).  The induction over finite sets is by a minimal  *)
(* counterexample.                                                          *)
(*                                                                          *)
(* The inductive invariant IInv says that the inputs are the job's, the     *)
(* policies what the inputs compose to, and the rows stored and collected   *)
(* the images of the first `base` rows of the book.  The properties are     *)
(* facts about such a state.  Most of what they relate is computed from     *)
(* variables no action changes, so a group of lemmas says, one operator at  *)
(* a time, that what the inputs determine stays as it is.                   *)
EXTENDS BookPricing, FiniteSetTheorems, WellFoundedInduction, TLAPS

-----------------------------------------------------------------------------
(* Finite sums *)

\* A family of subsets of a finite set has a minimal member.
LEMMA MinimalSubset ==
  ASSUME NEW S, IsFiniteSet(S), NEW B \in SUBSET SUBSET S, B # {}
  PROVE  \E T \in B : \A U \in B : U \subseteq T => U = T
<1>1. IsWellFoundedOn(StrictSubsetOrdering(S), SUBSET S)
  BY FS_StrictSubsetOrderingWellFounded, FS_FiniteSubsetsOfFinite
<1>2. \E T \in B : \A U \in B : ~ (<<U, T>> \in StrictSubsetOrdering(S))
  BY <1>1, WFMin
<1>3. QED
  BY <1>2 DEF StrictSubsetOrdering

\* The table of the partial sums of f over the subsets of S, as the fold of
\* the library builds it: take out the picked term, add the rest.
Pick(s) == CHOOSE x \in s : TRUE
SumStep(f, h, s) == IF s = {} THEN 0 ELSE f[Pick(s)] + h[s \ {Pick(s)}]
Sums(f, h, S) == h = [s \in SUBSET S |-> SumStep(f, h, s)]

\* The tables of partial sums of two sets agree where both are defined.
LEMMA SumsAgree ==
  ASSUME NEW f, NEW S, IsFiniteSet(S), NEW T, NEW g, NEW h,
         Sums(f, g, S), Sums(f, h, T)
  PROVE  \A s \in SUBSET S : s \subseteq T => g[s] = h[s]
<1> DEFINE B == {s \in SUBSET S : s \subseteq T /\ g[s] # h[s]}
<1>1. SUFFICES ASSUME B # {} PROVE FALSE
  OBVIOUS
<1> HIDE DEF B
<1>2. PICK s \in B : \A u \in B : u \subseteq s => u = s
  <2>1. B \in SUBSET SUBSET S
    BY DEF B
  <2>2. QED
    BY <1>1, <2>1, MinimalSubset
<1> USE DEF B
<1>3. /\ g[s] = SumStep(f, g, s) /\ h[s] = SumStep(f, h, s)
  BY DEF Sums
<1>4. s # {}
  BY <1>3 DEF SumStep
<1>5. Pick(s) \in s
  BY <1>4 DEF Pick
<1>6. s \ {Pick(s)} \notin B /\ s \ {Pick(s)} \in SUBSET S /\ s \ {Pick(s)} \subseteq T
  BY <1>2, <1>5
<1>7. g[s \ {Pick(s)}] = h[s \ {Pick(s)}]
  BY <1>6
<1>8. QED
  BY <1>3, <1>4, <1>7 DEF SumStep

\* A table of partial sums exists for every finite set.
LEMMA SumsExist ==
  ASSUME NEW f, NEW S, IsFiniteSet(S)
  PROVE  \E h : Sums(f, h, S)
<1> DEFINE B == {T \in SUBSET S : ~ \E h : Sums(f, h, T)}
<1>1. SUFFICES ASSUME B # {} PROVE FALSE
  OBVIOUS
<1> HIDE DEF B
<1>2. PICK T \in B : \A U \in B : U \subseteq T => U = T
  <2>1. B \in SUBSET SUBSET S
    BY DEF B
  <2>2. QED
    BY <1>1, <2>1, MinimalSubset
<1> USE DEF B
<1>3. ASSUME NEW U \in SUBSET T, U # T PROVE \E h : Sums(f, h, U)
  BY <1>2, <1>3
<1> DEFINE part == [U \in SUBSET T |-> CHOOSE h : Sums(f, h, U)]
<1>4. ASSUME NEW U \in SUBSET T, U # T PROVE Sums(f, part[U], U)
  BY <1>3, <1>4
<1> HIDE DEF part
<1> DEFINE h == [s \in SUBSET T |-> IF s = {} THEN 0
                   ELSE f[Pick(s)] + part[s \ {Pick(s)}][s \ {Pick(s)}]]
<1>5. ASSUME NEW s \in SUBSET T, s # {} PROVE h[s \ {Pick(s)}] = part[s \ {Pick(s)}][s \ {Pick(s)}]
  <2> DEFINE u == s \ {Pick(s)}
  <2>1. Pick(s) \in s
    BY <1>5 DEF Pick
  <2>2. u \in SUBSET T /\ u # T
    BY <2>1
  <2>3. Sums(f, part[u], u)
    BY <1>4, <2>2
  <2>4. part[u][u] = SumStep(f, part[u], u)
    BY <2>3 DEF Sums
  <2>5. CASE u = {}
    BY <2>2, <2>4, <2>5 DEF SumStep
  <2>6. CASE u # {}
    <3> DEFINE v == u \ {Pick(u)}
    <3>1. Pick(u) \in u
      BY <2>6 DEF Pick
    <3>2. v \in SUBSET u /\ v \in SUBSET T /\ v # T
      BY <2>1, <3>1
    <3>3. Sums(f, part[v], v)
      BY <1>4, <3>2
    <3>4. IsFiniteSet(v)
      BY <3>2, FS_Subset
    <3>5. part[v][v] = part[u][v]
      <4> HIDE DEF u, v
      <4>1. PICK g, k : g = part[v] /\ k = part[u]
        OBVIOUS
      <4>2. Sums(f, g, v) /\ Sums(f, k, u)
        BY <2>3, <3>3, <4>1
      <4>3. \A r \in SUBSET v : r \subseteq u => g[r] = k[r]
        BY <3>4, <4>2, SumsAgree
      <4>4. QED
        BY <3>2, <4>1, <4>3
    <3>6. h[u] = f[Pick(u)] + part[v][v]
      BY <2>2, <2>6
    <3>7. QED
      BY <2>4, <2>6, <3>5, <3>6 DEF SumStep
  <2>7. QED
    BY <2>5, <2>6
<1>6. \A s \in SUBSET T : h[s] = SumStep(f, h, s)
  BY <1>5 DEF SumStep
<1>7. h = [s \in SUBSET T |-> SumStep(f, h, s)]
  BY <1>6
<1>8. Sums(f, h, T)
  BY <1>7 DEF Sums
<1>9. QED
  BY <1>8

\* So the sum over a set is its picked term and the sum of the rest.
LEMMA SumRecursive ==
  ASSUME NEW f, NEW S, IsFiniteSet(S)
  PROVE  /\ S = {} => SumFunctionOnSet(f, S) = 0
         /\ S # {} => SumFunctionOnSet(f, S) = f[Pick(S)] + SumFunctionOnSet(f, S \ {Pick(S)})
<1> DEFINE It(U) == CHOOSE h : Sums(f, h, U)
<1>1. \A U : SumFunctionOnSet(f, U) = It(U)[U]
  BY DEF SumFunctionOnSet, FoldFunctionOnSet, MapThenFoldSet, Sums, SumStep, Pick
<1>2. \A U \in SUBSET S : Sums(f, It(U), U)
  BY SumsExist, FS_Subset
<1> HIDE DEF It
<1>3. It(S)[S] = SumStep(f, It(S), S)
  BY <1>2 DEF Sums
<1>4. CASE S = {}
  BY <1>1, <1>3, <1>4 DEF SumStep
<1>5. CASE S # {}
  <2> DEFINE u == S \ {Pick(S)}
  <2>1. u \in SUBSET S /\ IsFiniteSet(u)
    BY FS_Subset
  <2>2. It(u)[u] = It(S)[u]
    BY <1>2, <2>1, SumsAgree
  <2>3. QED
    BY <1>1, <1>3, <1>5, <2>2 DEF SumStep
<1>6. QED
  BY <1>4, <1>5

\* Integers add up to an integer.
LEMMA SumInt ==
  ASSUME NEW f, NEW S, IsFiniteSet(S), \A x \in S : f[x] \in Int
  PROVE  SumFunctionOnSet(f, S) \in Int
<1> DEFINE B == {T \in SUBSET S : SumFunctionOnSet(f, T) \notin Int}
<1>1. SUFFICES ASSUME B # {} PROVE FALSE
  OBVIOUS
<1> HIDE DEF B
<1>2. PICK T \in B : \A U \in B : U \subseteq T => U = T
  <2>1. B \in SUBSET SUBSET S
    BY DEF B
  <2>2. QED
    BY <1>1, <2>1, MinimalSubset
<1>3. T \in SUBSET S /\ IsFiniteSet(T) /\ SumFunctionOnSet(f, T) \notin Int
  BY <1>2, FS_Subset DEF B
<1>4. T # {}
  BY <1>3, SumRecursive
<1>5. Pick(T) \in T /\ Pick(T) \in S
  BY <1>3, <1>4 DEF Pick
<1>6. SumFunctionOnSet(f, T \ {Pick(T)}) \in Int
  BY <1>2, <1>3, <1>5 DEF B
<1>7. SumFunctionOnSet(f, T) = f[Pick(T)] + SumFunctionOnSet(f, T \ {Pick(T)})
  BY <1>3, <1>4, SumRecursive
<1>8. QED
  BY <1>3, <1>5, <1>6, <1>7

\* Any term may be taken out first, not only the picked one.
LEMMA SumTakeOut ==
  ASSUME NEW f, NEW S, IsFiniteSet(S), \A x \in S : f[x] \in Int, NEW y \in S
  PROVE  SumFunctionOnSet(f, S) = f[y] + SumFunctionOnSet(f, S \ {y})
<1> DEFINE P(z, T) == SumFunctionOnSet(f, T) = f[z] + SumFunctionOnSet(f, T \ {z})
<1> DEFINE C == {T \in SUBSET S : ~ \A z \in T : P(z, T)}
<1> HIDE DEF P
<1>1. SUFFICES ASSUME C # {} PROVE FALSE
  BY DEF P
<1> HIDE DEF C
<1>2. PICK T \in C : \A U \in C : U \subseteq T => U = T
  <2>1. C \in SUBSET SUBSET S
    BY DEF C
  <2>2. QED
    BY <1>1, <2>1, MinimalSubset
<1>3. PICK z \in T : ~P(z, T)
  BY <1>2 DEF C
<1>4. T \in SUBSET S /\ IsFiniteSet(T)
  BY <1>2, FS_Subset DEF C
<1> DEFINE p == Pick(T)
<1>5. p \in T /\ P(p, T)
  <2>1. p \in T
    BY <1>3 DEF Pick
  <2>2. QED
    BY <1>3, <1>4, <2>1, SumRecursive DEF P
<1> HIDE DEF p
<1>6. p # z
  BY <1>3, <1>5
<1>7. P(z, T \ {p}) /\ P(p, T \ {z})
  BY <1>2, <1>3, <1>4, <1>5, <1>6 DEF C
<1>8. (T \ {p}) \ {z} = (T \ {z}) \ {p}
  OBVIOUS
<1>9. SumFunctionOnSet(f, (T \ {z}) \ {p}) \in Int /\ f[p] \in Int /\ f[z] \in Int
  BY <1>3, <1>4, <1>5, SumInt, FS_Subset
<1>10. /\ SumFunctionOnSet(f, T) = f[p] + SumFunctionOnSet(f, T \ {p})
       /\ SumFunctionOnSet(f, T \ {p}) = f[z] + SumFunctionOnSet(f, (T \ {z}) \ {p})
       /\ SumFunctionOnSet(f, T \ {z}) = f[p] + SumFunctionOnSet(f, (T \ {z}) \ {p})
       /\ SumFunctionOnSet(f, T) # f[z] + SumFunctionOnSet(f, T \ {z})
  BY <1>3, <1>5, <1>7, <1>8 DEF P
<1>11. QED
  BY <1>9, <1>10

\* A sum depends only on the values of the function on the set, whatever
\* the function calls the places it is summed over.
LEMMA SumReindex ==
  ASSUME NEW f, NEW g, NEW m, NEW S, IsFiniteSet(S),
         \A x \in S : f[x] \in Int,
         \A x \in S : g[m[x]] = f[x],
         \A x, y \in S : m[x] = m[y] => x = y
  PROVE  SumFunctionOnSet(g, {m[x] : x \in S}) = SumFunctionOnSet(f, S)
<1> DEFINE Img(T) == {m[x] : x \in T}
<1> DEFINE B == {T \in SUBSET S : SumFunctionOnSet(g, Img(T)) # SumFunctionOnSet(f, T)}
<1>1. SUFFICES ASSUME B # {} PROVE FALSE
  OBVIOUS
<1> HIDE DEF B
<1>2. PICK T \in B : \A U \in B : U \subseteq T => U = T
  <2>1. B \in SUBSET SUBSET S
    BY DEF B
  <2>2. QED
    BY <1>1, <2>1, MinimalSubset
<1>3. T \in SUBSET S /\ IsFiniteSet(T) /\ SumFunctionOnSet(g, Img(T)) # SumFunctionOnSet(f, T)
  BY <1>2, FS_Subset DEF B
<1>4. T # {}
  <2>1. SUFFICES ASSUME T = {} PROVE FALSE
    OBVIOUS
  <2>2. Img(T) = {}
    BY <2>1
  <2>3. QED
    BY <1>3, <2>1, <2>2, SumRecursive
<1>5. PICK x : x \in T
  BY <1>4
<1>6. SumFunctionOnSet(g, Img(T \ {x})) = SumFunctionOnSet(f, T \ {x})
  BY <1>2, <1>3, <1>5 DEF B
<1>7. Img(T \ {x}) = Img(T) \ {m[x]} /\ m[x] \in Img(T)
  BY <1>3, <1>5
<1>8. SumFunctionOnSet(f, T) = f[x] + SumFunctionOnSet(f, T \ {x})
  BY <1>3, <1>5, SumTakeOut
<1>9. SumFunctionOnSet(g, Img(T)) = g[m[x]] + SumFunctionOnSet(g, Img(T) \ {m[x]})
  <2>1. IsFiniteSet(Img(T))
    <3>1. PICK to : to = [y \in T |-> m[y]]
      OBVIOUS
    <3>2. to \in Surjection(T, Img(T))
      BY <3>1 DEF Surjection
    <3>3. QED
      BY <1>3, <3>2, FS_Surjection
  <2>2. \A y \in Img(T) : g[y] \in Int
    BY <1>3
  <2> HIDE DEF Img
  <2>3. QED
    BY <1>7, <2>1, <2>2, SumTakeOut
<1>10. QED
  BY <1>3, <1>5, <1>6, <1>7, <1>8, <1>9

\* Functions equal on a set have equal sums there.
LEMMA SumCong ==
  ASSUME NEW f, NEW g, NEW S, IsFiniteSet(S),
         \A x \in S : f[x] \in Int, \A x \in S : g[x] = f[x]
  PROVE  SumFunctionOnSet(g, S) = SumFunctionOnSet(f, S)
<1>1. PICK m : m = [x \in S |-> x]
  OBVIOUS
<1>2. {m[x] : x \in S} = S
  BY <1>1
<1>3. /\ \A x \in S : g[m[x]] = f[x]
      /\ \A x, y \in S : m[x] = m[y] => x = y
  BY <1>1
<1>4. QED
  BY <1>2, <1>3, SumReindex

\* The sum of one term is the term.
LEMMA SumOne ==
  ASSUME NEW f, NEW x, f[x] \in Int
  PROVE  SumFunctionOnSet(f, {x}) = f[x]
<1>1. IsFiniteSet({x}) /\ {x} \ {x} = {} /\ IsFiniteSet({})
  BY FS_Singleton, FS_EmptySet
<1>2. SumFunctionOnSet(f, {}) = 0
  BY <1>1, SumRecursive
<1>3. SumFunctionOnSet(f, {x}) = f[x] + SumFunctionOnSet(f, {x} \ {x})
  BY <1>1, SumTakeOut
<1>4. SumFunctionOnSet(f, {x}) = f[x] + 0
  BY <1>1, <1>2, <1>3
<1>5. QED
  BY <1>4

\* Sums of equal amounts in every place, term by term.
\* The sum of two functions is the sum of their sums.
LEMMA SumPlus ==
  ASSUME NEW f, NEW g, NEW h, NEW S, IsFiniteSet(S),
         \A x \in S : f[x] \in Int /\ g[x] \in Int /\ h[x] = f[x] + g[x]
  PROVE  SumFunctionOnSet(h, S) = SumFunctionOnSet(f, S) + SumFunctionOnSet(g, S)
<1> DEFINE Both(T) == SumFunctionOnSet(f, T) + SumFunctionOnSet(g, T)
<1> DEFINE B == {T \in SUBSET S : SumFunctionOnSet(h, T) # Both(T)}
<1>1. SUFFICES ASSUME B # {} PROVE FALSE
  OBVIOUS
<1> HIDE DEF B
<1>2. PICK T \in B : \A U \in B : U \subseteq T => U = T
  <2>1. B \in SUBSET SUBSET S
    BY DEF B
  <2>2. QED
    BY <1>1, <2>1, MinimalSubset
<1>3. T \in SUBSET S /\ IsFiniteSet(T) /\ SumFunctionOnSet(h, T) # Both(T)
  BY <1>2, FS_Subset DEF B
<1>4. T # {}
  BY <1>3, SumRecursive
<1>5. PICK x : x \in T
  BY <1>4
<1> DEFINE U == T \ {x}
<1>6. IsFiniteSet(U) /\ U \subseteq S
  BY <1>3, FS_Subset
<1>7. SumFunctionOnSet(h, U) = Both(U)
  BY <1>2, <1>3, <1>5 DEF B
<1>8. /\ SumFunctionOnSet(f, T) = f[x] + SumFunctionOnSet(f, U)
      /\ SumFunctionOnSet(g, T) = g[x] + SumFunctionOnSet(g, U)
      /\ SumFunctionOnSet(h, T) = h[x] + SumFunctionOnSet(h, U)
  <2>1. /\ \A y \in T : f[y] \in Int /\ g[y] \in Int
        /\ \A y \in T : h[y] \in Int
    BY <1>3
  <2>2. QED
    BY <1>3, <1>5, <2>1, SumTakeOut
<1>9. SumFunctionOnSet(f, U) \in Int /\ SumFunctionOnSet(g, U) \in Int
  BY <1>6, SumInt
<1>10. f[x] \in Int /\ g[x] \in Int /\ h[x] = f[x] + g[x]
  BY <1>3, <1>5
<1>11. QED
  BY <1>3, <1>7, <1>8, <1>9, <1>10

\* Zeros add up to zero.
LEMMA SumZero ==
  ASSUME NEW f, NEW S, IsFiniteSet(S), \A x \in S : f[x] = 0
  PROVE  SumFunctionOnSet(f, S) = 0
<1>1. SumFunctionOnSet(f, S) = SumFunctionOnSet(f, S) + SumFunctionOnSet(f, S)
  <2>1. \A x \in S : f[x] \in Int /\ f[x] = f[x] + f[x]
    OBVIOUS
  <2>2. QED
    BY <2>1, SumPlus
<1>2. PICK n \in Int : n = SumFunctionOnSet(f, S)
  <2>1. \A x \in S : f[x] \in Int
    OBVIOUS
  <2>2. QED
    BY <2>1, SumInt
<1>3. n = n + n
  BY <1>1, <1>2
<1>4. \A k \in Int : k = k + k => k = 0
  OBVIOUS
<1>5. QED
  BY <1>2, <1>3, <1>4

\* The rows of a table added up are its columns added up.
LEMMA SumSwap ==
  ASSUME NEW a, NEW row, NEW col, NEW S, NEW C, IsFiniteSet(S), IsFiniteSet(C),
         \A x \in S, c \in C : a[x][c] \in Int,
         \A x \in S : row[x] = SumFunctionOnSet(a[x], C),
         \A c \in C : \E g : /\ \A x \in S : g[x] = a[x][c]
                             /\ col[c] = SumFunctionOnSet(g, S)
  PROVE  SumFunctionOnSet(row, S) = SumFunctionOnSet(col, C)
<1> DEFINE cols == [T \in SUBSET S |->
             [c \in C |-> SumFunctionOnSet([x \in S |-> a[x][c]], T)]]
<1> DEFINE B == {T \in SUBSET S :
             SumFunctionOnSet(row, T) # SumFunctionOnSet(cols[T], C)}
<1>0. SUFFICES ASSUME B # {} PROVE FALSE
  <2>1. B = {}
    BY <1>0
  <2>2. SumFunctionOnSet(row, S) = SumFunctionOnSet(cols[S], C)
    BY <2>1
  <2>3. PICK f : f = cols[S]
    OBVIOUS
  <2>4. \A c \in C : f[c] = col[c]
    <3>1. TAKE c \in C
    <3>2. PICK g, h : /\ \A x \in S : g[x] = a[x][c]
                      /\ col[c] = SumFunctionOnSet(g, S)
                      /\ h = [x \in S |-> a[x][c]]
      OBVIOUS
    <3>3. \A x \in S : g[x] = h[x] /\ h[x] \in Int
      BY <3>2
    <3>4. SumFunctionOnSet(g, S) = SumFunctionOnSet(h, S)
      BY <3>3, SumCong
    <3>5. QED
      BY <2>3, <3>2, <3>4
  <2>5. \A c \in C : f[c] \in Int
    <3>1. TAKE c \in C
    <3>2. \A x \in S : [y \in S |-> a[y][c]][x] \in Int
      OBVIOUS
    <3>3. SumFunctionOnSet([y \in S |-> a[y][c]], S) \in Int
      BY <3>2, SumInt
    <3>4. QED
      BY <2>3, <3>3
  <2>6. SumFunctionOnSet(col, C) = SumFunctionOnSet(f, C)
    BY <2>4, <2>5, SumCong
  <2>7. QED
    BY <2>2, <2>3, <2>6
<1> HIDE DEF B
<1>1. PICK T \in B : \A U \in B : U \subseteq T => U = T
  <2>1. B \in SUBSET SUBSET S
    BY DEF B
  <2>2. QED
    BY <1>0, <2>1, MinimalSubset
<1>2. T \in SUBSET S /\ IsFiniteSet(T)
      /\ SumFunctionOnSet(row, T) # SumFunctionOnSet(cols[T], C)
  BY <1>1, FS_Subset DEF B
<1>3. T # {}
  <2>1. SUFFICES ASSUME T = {} PROVE FALSE
    OBVIOUS
  <2>2. PICK f : f = cols[{}]
    OBVIOUS
  <2>3. \A c \in C : f[c] = SumFunctionOnSet([x \in S |-> a[x][c]], {})
    BY <2>2
  <2>4. IsFiniteSet({})
    BY FS_EmptySet
  <2>5. \A c \in C : f[c] = 0
    BY <2>3, <2>4, SumRecursive
  <2>6. SumFunctionOnSet(f, C) = 0
    BY <2>5, SumZero
  <2>7. SumFunctionOnSet(row, {}) = 0
    BY <2>4, SumRecursive
  <2>8. QED
    BY <1>2, <2>1, <2>2, <2>6, <2>7
<1>4. PICK x : x \in T
  BY <1>3
<1> DEFINE U == T \ {x}
<1>5. IsFiniteSet(U) /\ U \subseteq S /\ U \in SUBSET S /\ x \in S
  BY <1>2, <1>4, FS_Subset
<1>6. SumFunctionOnSet(row, U) = SumFunctionOnSet(cols[U], C)
  BY <1>1, <1>2, <1>4 DEF B
<1>7. \A y \in S : row[y] \in Int
  BY SumInt
<1>8. SumFunctionOnSet(row, T) = row[x] + SumFunctionOnSet(row, U)
  BY <1>2, <1>4, <1>7, SumTakeOut
<1>9. PICK f, g, h : f = cols[T] /\ g = cols[U] /\ h = a[x]
  OBVIOUS
<1>10. \A c \in C : h[c] \in Int /\ g[c] \in Int /\ f[c] = h[c] + g[c]
  <2>1. TAKE c \in C
  <2>2. PICK k : k = [y \in S |-> a[y][c]]
    OBVIOUS
  <2>3. \A y \in S : k[y] = a[y][c] /\ k[y] \in Int
    BY <2>2
  <2>4. f[c] = SumFunctionOnSet(k, T) /\ g[c] = SumFunctionOnSet(k, U)
    BY <1>2, <1>5, <1>9, <2>2
  <2>5. SumFunctionOnSet(k, T) = k[x] + SumFunctionOnSet(k, U)
    BY <1>2, <1>4, <2>3, SumTakeOut
  <2>6. SumFunctionOnSet(k, U) \in Int
    BY <1>5, <2>3, SumInt
  <2>7. QED
    BY <1>5, <1>9, <2>3, <2>4, <2>5, <2>6
<1>11. SumFunctionOnSet(f, C) = SumFunctionOnSet(h, C) + SumFunctionOnSet(g, C)
  BY <1>10, SumPlus
<1>12. row[x] = SumFunctionOnSet(h, C)
  BY <1>5, <1>9
<1>13. QED
  BY <1>2, <1>6, <1>8, <1>9, <1>11, <1>12

-----------------------------------------------------------------------------
(* What the inputs determine stays as it is while they do *)

\* The engine answers the same for the same row of the same plan.
LEMMA ValueKept ==
  ASSUME UNCHANGED input
  PROVE  \A row, f : Value(row, f)' = Value(row, f)
BY DEF input, Value

\* The premium of the plan and the roll-ups of the mapping.
LEMMA FieldsKept ==
  ASSUME UNCHANGED input
  PROVE  /\ TotalLess' = TotalLess /\ PlanBasis' = PlanBasis
         /\ IsCoverageSum' = IsCoverageSum /\ Basis' = Basis
         /\ RollupFields' = RollupFields /\ ComposedTail' = ComposedTail
         /\ NothingToCompose' = NothingToCompose
<1>1. TotalLess' = TotalLess /\ ComposedTail' = ComposedTail
  BY DEF input, TotalLess, ComposedTail
<1>2. PlanBasis' = PlanBasis
  BY <1>1 DEF input, PlanBasis
<1>3. Declared' = Declared /\ DeclaredPremium' = DeclaredPremium
  BY DEF input, Declared, DeclaredPremium
<1>4. IsCoverageSum' = IsCoverageSum /\ Basis' = Basis
  BY <1>1, <1>2, <1>3 DEF input, IsCoverageSum, Basis
<1>5. ExtraRollups' = ExtraRollups
  BY <1>3, <1>4 DEF input, ExtraRollups
<1>6. RollupFields' = RollupFields
  BY <1>3, <1>5 DEF input, RollupFields
<1>7. NothingToCompose' = NothingToCompose
  BY <1>1 DEF input, NothingToCompose
<1>8. QED
  BY <1>1, <1>2, <1>4, <1>6, <1>7

\* The premium of a row.
LEMMA ViewsKept ==
  ASSUME UNCHANGED input
  PROVE  \A row : DeriveViews(row)' = DeriveViews(row)
BY ValueKept, FieldsKept DEF input, DeriveViews

\* A roll-up of a set of rows.
LEMMA ReduceKept ==
  ASSUME UNCHANGED input
  PROVE  \A reducer, S, f : ReduceRollup(reducer, S, f)' = ReduceRollup(reducer, S, f)
<1> TAKE reducer, S, f
<1>1. \A i : Value(book[i], f)' = Value(book[i], f)
  BY ValueKept DEF input
<1> DEFINE finite == {i \in S : Value(book[i], f) # None}
<1>2. PICK new : new = {i \in S : Value(book[i], f)' # None}
  OBVIOUS
<1>3. PICK old : old = {i \in S : Value(book[i], f) # None}
  OBVIOUS
<1>4. new = old
  BY <1>1, <1>2, <1>3
<1>5. {Value(book[i], f)' : i \in new} = {Value(book[i], f) : i \in old}
  BY <1>1, <1>4
<1>6. [i \in new |-> Value(book[i], f)'] = [i \in old |-> Value(book[i], f)]
  BY <1>1, <1>4
<1>7. QED
  BY <1>2, <1>3, <1>4, <1>5, <1>6 DEF ReduceRollup

\* The fields of a policy, by name.
RolledOf(S, fields) == [f \in DOMAIN fields |-> ReduceRollup(fields[f], S, f)]
TotalsOf(S, fields) ==
  [f \in {LocationCount} \cup DOMAIN fields |->
     IF f \in DOMAIN fields THEN RolledOf(S, fields)[f] ELSE Cardinality(S)]
ErrorsOf(S) == Cardinality({i \in S : book[i].error})
TierOf(S, fields) ==
  MostRestrictive(({book[i].tier : i \in S} \ {None})
                  \cup {GateVerdict(g, TotalsOf(S, fields)) : g \in plan.gates})
ComposedOf(S, fields, key) ==
  ComposePolicyTail(ErrorsOf(S), RolledOf(S, fields), key, TotalsOf(S, fields))

\* A policy is the record of its fields.
LEMMA PolicyIs ==
  ASSUME NEW S, NEW fields, NEW key
  PROVE  Policy(S, fields, key) =
           [rows |-> S, rolled |-> RolledOf(S, fields), errors |-> ErrorsOf(S),
            tier |-> TierOf(S, fields), composed |-> ComposedOf(S, fields, key)]
BY DEF Policy, RolledOf, TotalsOf, ErrorsOf, TierOf, ComposedOf

\* The policy of a set of rows.
LEMMA PolicyKept ==
  ASSUME UNCHANGED input
  PROVE  \A S, fields, key : Policy(S, fields, key)' = Policy(S, fields, key)
<1> TAKE S, fields, key
<1>1. ComposedTail' = ComposedTail
  BY FieldsKept
<1>2. RolledOf(S, fields)' = RolledOf(S, fields)
  BY ReduceKept DEF RolledOf
<1>3. TotalsOf(S, fields)' = TotalsOf(S, fields)
  BY <1>2 DEF TotalsOf
<1>4. ErrorsOf(S)' = ErrorsOf(S)
  BY DEF input, ErrorsOf
<1>5. TierOf(S, fields)' = TierOf(S, fields)
  BY <1>3 DEF input, TierOf
<1>6. ComposedOf(S, fields, key)' = ComposedOf(S, fields, key)
  BY <1>1, <1>2, <1>3, <1>4 DEF ComposedOf, ComposePolicyTail
<1>7. Policy(S, fields, key)' =
           [rows |-> S, rolled |-> RolledOf(S, fields)', errors |-> ErrorsOf(S)',
            tier |-> TierOf(S, fields)', composed |-> ComposedOf(S, fields, key)']
  BY DEF Policy, RolledOf, TotalsOf, ErrorsOf, TierOf, ComposedOf
<1>8. QED
  BY <1>2, <1>4, <1>5, <1>6, <1>7, PolicyIs

\* The policies of the book.
LEMMA BookPoliciesKept ==
  ASSUME UNCHANGED input
  PROVE  /\ BookPolicies' = BookPolicies /\ Keys' = Keys
         /\ \A k : Members(k)' = Members(k)
<1>1. \A i : KeyOf(i)' = KeyOf(i)
  BY DEF input, KeyOf
<1>2. Keys' = Keys
  BY <1>1 DEF input, Keys, Numbers
<1>3. \A k : Members(k)' = Members(k)
  BY <1>1 DEF input, Members, Numbers
<1>4. \A k : Policy(Members(k), RollupFields, Basis)' = Policy(Members(k), RollupFields, Basis)
  BY <1>3, FieldsKept, PolicyKept
<1>5. QED
  BY <1>2, <1>3, <1>4 DEF BookPolicies

\* The refusals folded into them.
LEMMA FoldKept ==
  ASSUME UNCHANGED input
  PROVE  \A ps : FoldRefusals(ps)' = FoldRefusals(ps)
BY DEF input, FoldRefusals

\* What is stored and collected for a row, once composed.
LEMMA RowsKept ==
  ASSUME UNCHANGED <<input, policies>>
  PROVE  /\ HasPolicy' = HasPolicy
         /\ \A i : /\ PolicyOf(i)' = PolicyOf(i) /\ Composed(i)' = Composed(i)
                   /\ Unpriced(i)' = Unpriced(i)
                   /\ Stored(i)' = Stored(i) /\ Collected(i)' = Collected(i)
<1>1. HasPolicy' = HasPolicy /\ \A i : PolicyOf(i)' = PolicyOf(i)
  BY DEF input, HasPolicy, PolicyOf
<1>2. \A i : Composed(i)' = Composed(i)
  BY <1>1 DEF Composed
<1>3. \A i : CompositionFailed(i)' = CompositionFailed(i)
  BY <1>1, FieldsKept DEF input, CompositionFailed
<1>4. \A i : Unpriced(i)' = Unpriced(i)
  BY <1>3 DEF input, Unpriced
<1>5. \A i : DeriveViews(book[i])' = DeriveViews(book[i])
  BY ViewsKept DEF input
<1>6. \A i : Stored(i)' = Stored(i) /\ Collected(i)' = Collected(i)
  BY <1>1, <1>2, <1>4, <1>5 DEF input, Stored, Collected
<1>7. QED
  BY <1>1, <1>2, <1>4, <1>6

\* What the summary would say.
LEMMA SummaryKept ==
  ASSUME UNCHANGED <<input, policies, adjusted, collected>>
  PROVE  SummarizeBook' = SummarizeBook
<1>1. \A i : /\ DeriveViews(book[i])' = DeriveViews(book[i])
             /\ Value(book[i], Basis)' = Value(book[i], Basis)
             /\ Composed(i)' = Composed(i) /\ PolicyOf(i)' = PolicyOf(i)
  BY ViewsKept, ValueKept, FieldsKept, RowsKept DEF input
<1>2. \A i : PremiumOf(i)' = PremiumOf(i)
  BY <1>1 DEF PremiumOf
<1>3. \A i : LedgerRow(i)' = LedgerRow(i)
  BY <1>2 DEF input, LedgerRow
<1>4. \A r : RolledPolicyPremium(r)' = RolledPolicyPremium(r)
  BY FieldsKept DEF input, RolledPolicyPremium
<1>5. \A p : PolicyPremiumOf(p)' = PolicyPremiumOf(p)
  BY <1>4 DEF PolicyPremiumOf
<1>6. \A k : PolicyPremiumOf(adjusted[k])' = PolicyPremiumOf(adjusted[k])
  BY <1>5
<1>7. Entries' = Entries
  BY <1>3, <1>6 DEF input, Entries, Numbers
<1>8. \A d : SumEntries(d)' = SumEntries(d)
  BY <1>7 DEF SumEntries
<1>9. QED
  BY <1>3, <1>6, <1>8 DEF input, SummarizeBook, Numbers

-----------------------------------------------------------------------------
(* The inductive invariant *)

\* The inputs are the ones the job was given.
Inputs ==
  /\ book \in Seq(Shapes) /\ Len(book) > 0
  /\ plan \in Plans /\ mapping \in Mappings /\ chunk \in Nat \ {0}
  /\ DeclaredPremium \subseteq plan.coverages \cup (IF plan.total THEN {Total} ELSE {})

\* Policies exist once composed, and are what the inputs compose to.
Composition ==
  IF phase \in {"rate", "done"}
  THEN /\ ~CannotCompose
       /\ policies = IF NothingToCompose THEN NoPolicies ELSE BookPolicies
       /\ adjusted = FoldRefusals(policies)
  ELSE policies = NoPolicies /\ adjusted = NoPolicies /\ base = 0

\* The chunks rated so far are the first rows of the book, in its order.
Rows ==
  /\ base \in 0..Len(book)
  /\ stored = [i \in 1..base |-> Stored(i)]
  /\ collected = [i \in 1..base |-> Collected(i)]

Ending ==
  IF phase = "done" THEN base = Len(book) /\ summary = SummarizeBook
                    ELSE summary = None

IInv ==
  /\ phase \in {"compose", "rate", "done", "failed"}
  /\ Inputs /\ Composition /\ Rows /\ Ending

\* The extremes of a pair.
LEMMA Extremes ==
  ASSUME NEW a \in Int, NEW b \in Int
  PROVE  /\ Min({a, b}) = IF a <= b THEN a ELSE b
         /\ Max({a, b}) = IF a <= b THEN b ELSE a
<1>1. \E x \in {a, b} : \A y \in {a, b} : x <= y
  BY a <= b \/ b <= a
<1>2. Min({a, b}) \in {a, b} /\ \A y \in {a, b} : Min({a, b}) <= y
  BY <1>1 DEF Min
<1>3. \E x \in {a, b} : \A y \in {a, b} : x >= y
  BY a <= b \/ b <= a
<1>4. Max({a, b}) \in {a, b} /\ \A y \in {a, b} : Max({a, b}) >= y
  BY <1>3 DEF Max
<1>5. QED
  BY <1>2, <1>4

\* Two runs of consecutive values of a function are one.
LEMMA Extend ==
  ASSUME NEW m \in Nat, NEW n \in Nat, NEW f
  PROVE  [i \in 1..m |-> f[i]] \o [j \in 1..n |-> f[m + j]] = [i \in 1..(m + n) |-> f[i]]
<1> DEFINE V == {f[i] : i \in 1..(m + n)}
           s == [i \in 1..m |-> f[i]]
           t == [j \in 1..n |-> f[m + j]]
<1>1. s \in Seq(V) /\ Len(s) = m
  OBVIOUS
<1>2. t \in Seq(V) /\ Len(t) = n
  OBVIOUS
<1> HIDE DEF V, s, t
<1>3. s \o t \in Seq(V) /\ Len(s \o t) = m + n
  BY <1>1, <1>2
<1>4. \A i \in 1..(m + n) : (s \o t)[i] = f[i]
  BY <1>1, <1>2 DEF s, t
<1>5. QED
  BY <1>3, <1>4 DEF s, t

\* A job starts in a state of the invariant.
LEMMA Started == Init => IInv
<1> SUFFICES ASSUME Init PROVE IInv
  OBVIOUS
<1>1. Inputs
  <2>1. PICK n \in 1..MaxRows : book \in [1..n -> Shapes]
    BY DEF Init
  <2>2. book \in Seq(Shapes) /\ Len(book) = n
    BY <2>1, Sizes
  <2>3. QED
    BY <2>2, Sizes DEF Init, Inputs
<1>2. Composition /\ Ending
  BY DEF Init, Composition, Ending
<1>3. Rows
  <2>1. Len(book) \in Nat
    BY <1>1 DEF Inputs
  <2>2. QED
    BY <2>1 DEF Init, Rows
<1>4. QED
  BY <1>1, <1>2, <1>3 DEF Init, IInv

\* The inputs stay the ones the job was given.
LEMMA InputsKept ==
  ASSUME Inputs, UNCHANGED input
  PROVE  Inputs'
BY DEF Inputs, input, DeclaredPremium, Declared

\* Every step of the worker keeps the invariant.
LEMMA Stays == IInv /\ [Next]_vars => IInv'
<1> SUFFICES ASSUME IInv, [Next]_vars PROVE IInv'
  OBVIOUS
<1>1. CASE Compose
  <2>1. UNCHANGED <<input, base, collected, stored, summary>>
        /\ phase = "compose" /\ base = 0 /\ summary = None
    BY <1>1 DEF Compose, IInv, Composition, Ending
  <2>2. Inputs'
    BY <2>1, InputsKept DEF IInv
  <2>3. Composition' /\ phase' \in {"rate", "failed"}
    <3>1. /\ NothingToCompose' = NothingToCompose
          /\ CannotCompose' = CannotCompose
      BY <2>1, FieldsKept DEF CannotCompose
    <3>2. BookPolicies' = BookPolicies /\ \A ps : FoldRefusals(ps)' = FoldRefusals(ps)
      BY <2>1, BookPoliciesKept, FoldKept
    <3>3. CASE CannotCompose
      BY <1>1, <2>1, <3>3 DEF Compose, IInv, Composition
    <3>4. CASE ~CannotCompose
      BY <1>1, <3>1, <3>2, <3>4 DEF Compose, Composition
    <3>5. QED
      BY <3>3, <3>4
  <2>4. Rows'
    BY <2>1 DEF IInv, Rows, input
  <2>5. Ending'
    BY <2>1, <2>3 DEF Ending
  <2>6. QED
    BY <2>2, <2>3, <2>4, <2>5 DEF IInv
<1>2. CASE RateChunk
  <2>1. UNCHANGED <<input, phase, policies, adjusted, summary>>
        /\ phase = "rate" /\ base < Len(book)
    BY <1>2 DEF RateChunk
  <2>2. Inputs'
    BY <2>1, InputsKept DEF IInv
  <2>3. Composition'
    <3>1. /\ NothingToCompose' = NothingToCompose
          /\ CannotCompose' = CannotCompose
      BY <2>1, FieldsKept DEF CannotCompose
    <3>2. BookPolicies' = BookPolicies /\ \A ps : FoldRefusals(ps)' = FoldRefusals(ps)
      BY <2>1, BookPoliciesKept, FoldKept
    <3>3. QED
      BY <2>1, <3>1, <3>2 DEF IInv, Composition
  <2>4. Rows'
    <3>1. PICK size : size = Min({chunk, Len(book) - base})
      OBVIOUS
    <3>2. size \in Nat /\ base \in Nat /\ base + size \in 0..Len(book)
      <4>1. chunk \in Nat /\ base \in Nat /\ Len(book) \in Nat
        BY DEF IInv, Inputs, Rows
      <4>2. size = IF chunk <= Len(book) - base THEN chunk ELSE Len(book) - base
        BY <3>1, <4>1, Extremes
      <4>3. QED
        BY <2>1, <4>1, <4>2
    <3>3. /\ base' = base + size
          /\ collected' = collected \o [j \in 1..size |-> Collected(base + j)]
          /\ stored' = stored \o [j \in 1..size |-> Stored(base + j)]
      BY <1>2, <3>1 DEF RateChunk
    <3>4. /\ \A i : Stored(i)' = Stored(i) /\ Collected(i)' = Collected(i)
          /\ Len(book)' = Len(book)
      BY <2>1, RowsKept DEF input
    <3>5. PICK f, g : /\ f = [i \in 1..(base + size) |-> Stored(i)]
                      /\ g = [i \in 1..(base + size) |-> Collected(i)]
      OBVIOUS
    <3>6. /\ stored = [i \in 1..base |-> f[i]]
          /\ collected = [i \in 1..base |-> g[i]]
      BY <3>2, <3>5 DEF IInv, Rows
    <3>7. /\ [j \in 1..size |-> Stored(base + j)] = [j \in 1..size |-> f[base + j]]
          /\ [j \in 1..size |-> Collected(base + j)] = [j \in 1..size |-> g[base + j]]
      BY <3>2, <3>5
    <3>8. /\ stored' = [i \in 1..(base + size) |-> f[i]]
          /\ collected' = [i \in 1..(base + size) |-> g[i]]
      <4>1. /\ [i \in 1..base |-> f[i]] \o [j \in 1..size |-> f[base + j]]
                 = [i \in 1..(base + size) |-> f[i]]
            /\ [i \in 1..base |-> g[i]] \o [j \in 1..size |-> g[base + j]]
                 = [i \in 1..(base + size) |-> g[i]]
        BY <3>2, Extend
      <4>2. stored' = [i \in 1..base |-> f[i]] \o [j \in 1..size |-> f[base + j]]
        BY <3>3, <3>6, <3>7, Zenon
      <4>3. collected' = [i \in 1..base |-> g[i]] \o [j \in 1..size |-> g[base + j]]
        BY <3>3, <3>6, <3>7, Zenon
      <4>4. QED
        BY <4>1, <4>2, <4>3, Zenon
    <3>9. /\ stored' = [i \in 1..base' |-> Stored(i)']
          /\ collected' = [i \in 1..base' |-> Collected(i)']
      BY <3>3, <3>4, <3>5, <3>8
    <3>10. QED
      BY <3>2, <3>3, <3>4, <3>9 DEF Rows
  <2>5. Ending'
    BY <2>1 DEF IInv, Ending
  <2>6. QED
    BY <2>1, <2>2, <2>3, <2>4, <2>5 DEF IInv
<1>3. CASE Summarize \/ UNCHANGED vars
  <2>1. UNCHANGED <<input, policies, adjusted, base, collected, stored>>
    BY <1>3 DEF Summarize, vars, input
  <2>2. Inputs'
    BY <2>1, InputsKept DEF IInv
  <2>3. Composition'
    <3>1. /\ NothingToCompose' = NothingToCompose
          /\ CannotCompose' = CannotCompose
      BY <2>1, FieldsKept DEF CannotCompose
    <3>2. BookPolicies' = BookPolicies /\ \A ps : FoldRefusals(ps)' = FoldRefusals(ps)
      BY <2>1, BookPoliciesKept, FoldKept
    <3>3. \/ phase = "rate" /\ phase' = "done"
          \/ phase' = phase
      BY <1>3 DEF Summarize, vars
    <3>4. QED
      BY <2>1, <3>1, <3>2, <3>3 DEF IInv, Composition
  <2>4. Rows'
    <3>1. \A i : Stored(i)' = Stored(i) /\ Collected(i)' = Collected(i)
      BY <2>1, RowsKept
    <3>2. QED
      BY <2>1, <3>1 DEF IInv, Rows, input
  <2>5. Ending' /\ phase' \in {"compose", "rate", "done", "failed"}
    <3>1. SummarizeBook' = SummarizeBook /\ Len(book)' = Len(book)
      BY <2>1, SummaryKept DEF input
    <3>2. CASE Summarize
      BY <2>1, <3>1, <3>2 DEF Summarize, Ending
    <3>3. CASE UNCHANGED vars
      BY <3>1, <3>3 DEF vars, IInv, Ending
    <3>4. QED
      BY <1>3, <3>2, <3>3
  <2>6. QED
    BY <2>2, <2>3, <2>4, <2>5 DEF IInv
<1>4. QED
  BY <1>1, <1>2, <1>3 DEF Next

\* The invariant holds throughout.
LEMMA AlwaysIInv == Spec => []IInv
BY Started, Stays, PTL DEF Spec

-----------------------------------------------------------------------------
(* Rows and the policies they belong to *)

\* A row of the book, as the engine answers it.
LEMMA Row ==
  ASSUME Inputs, NEW i \in Numbers
  PROVE  /\ book[i].tiv \in Int /\ book[i].error \in BOOLEAN /\ book[i].refused \in BOOLEAN
         /\ book[i].tier \in Tiers \cup {None}
         /\ \A c \in plan.coverages : book[i].money[c] \in Int
<1>1. book[i] \in Shapes /\ plan \in Plans
  BY DEF Inputs, Numbers
<1>2. QED
  BY <1>1, RowsRated

\* The plan and the mapping, as they are resolved.
LEMMA Bundle ==
  ASSUME Inputs
  PROVE  /\ plan.total \in BOOLEAN /\ plan.floor \in Nat
         /\ IsFiniteSet(plan.coverages) /\ plan.coverages # {}
         /\ plan.coverages \cap {Total, CoverageSum, Exposure, LocationCount} = {}
         /\ \A gate \in plan.gates : gate.tier \in Tiers /\ gate.default \in Tiers
         /\ plan.tail \in Seq(Range(plan.tail))
         /\ \A n \in 1..Len(plan.tail) : IsAdjustment(plan.tail[n])
         /\ mapping.grouped \in BOOLEAN
         /\ \A f \in Declared : mapping.rollups[f] \in {"count", "sum", "max", "min"}
<1>1. plan \in Plans /\ mapping \in Mappings
  BY DEF Inputs
<1>2. QED
  BY <1>1, PlansResolved, MappingsDeclare DEF Declared

\* What the engine answers for a row that is not in error.
LEMMA Valued ==
  ASSUME Inputs, NEW i \in Numbers
  PROVE  /\ \A f : Value(book[i], f) = None \/ Value(book[i], f) \in Int
         /\ \A f : book[i].error => f = Exposure \/ Value(book[i], f) = None
         /\ Value(book[i], Exposure) \in Int
         /\ ~book[i].error =>
              /\ \A c \in plan.coverages : Value(book[i], c) = book[i].money[c]
              /\ plan.total =>
                   Value(book[i], Total) = SumFunctionOnSet(book[i].money, plan.coverages)
              /\ SumFunctionOnSet(book[i].money, plan.coverages) \in Int
<1>1. SumFunctionOnSet(book[i].money, plan.coverages) \in Int
  BY Row, Bundle, SumInt
<1>2. Exposure \notin plan.coverages /\ Total \notin plan.coverages /\ Total # Exposure
  BY Bundle DEF Total, Exposure
<1>3. book[i].tiv \in Int /\ \A c \in plan.coverages : book[i].money[c] \in Int
  BY Row
<1>4. ASSUME NEW f
      PROVE  /\ f = Exposure => Value(book[i], f) = book[i].tiv
             /\ f \in plan.coverages /\ ~book[i].error => Value(book[i], f) = book[i].money[f]
             /\ f = Total /\ plan.total /\ ~book[i].error
                  => Value(book[i], f) = SumFunctionOnSet(book[i].money, plan.coverages)
             /\ f # Exposure /\ book[i].error => Value(book[i], f) = None
             /\ f # Exposure /\ f \notin plan.coverages /\ ~(f = Total /\ plan.total)
                  => Value(book[i], f) = None
  BY <1>2 DEF Value
<1>5. \A f : \/ f = Exposure
             \/ f \in plan.coverages /\ ~book[i].error
             \/ f = Total /\ plan.total /\ ~book[i].error
             \/ f # Exposure /\ book[i].error
             \/ f # Exposure /\ f \notin plan.coverages /\ ~(f = Total /\ plan.total)
  BY Row
<1>6. QED
  BY <1>1, <1>2, <1>3, <1>4, <1>5

\* A row that is not in error has a premium, and which it is.
LEMMA Derived ==
  ASSUME Inputs, NEW i \in Numbers, ~book[i].error
  PROVE  /\ DeriveViews(book[i]) \in Int
         /\ ~TotalLess => DeriveViews(book[i]) = Value(book[i], PlanBasis)
         /\ TotalLess => DeriveViews(book[i])
                           = SumFunctionOnSet(book[i].money, plan.coverages)
<1>1. ~TotalLess => Value(book[i], PlanBasis) \in Int
  <2>1. CASE plan.total
    BY <2>1, Valued DEF PlanBasis
  <2>2. CASE ~plan.total /\ ~TotalLess
    <3>1. PlanBasis \in plan.coverages
      BY <2>2, Bundle DEF PlanBasis
    <3>2. QED
      BY <3>1, Valued, Row
  <2>3. QED
    BY <2>1, <2>2
<1>2. QED
  BY <1>1, Valued DEF DeriveViews

\* Every row has one policy; the rows and the policies are finitely many.
LEMMA Kept ==
  ASSUME Inputs
  PROVE  /\ IsFiniteSet(Numbers) /\ Numbers # {} /\ IsFiniteSet(Keys) /\ Keys # {}
         /\ \A i \in Numbers : KeyOf(i) \in Keys /\ i \in Members(KeyOf(i))
         /\ \A k : Members(k) \subseteq Numbers /\ IsFiniteSet(Members(k))
         /\ \A k \in Keys : Members(k) # {}
         /\ BookPolicies # NoPolicies
<1>1. IsFiniteSet(Numbers) /\ Numbers # {}
  <2>1. Len(book) \in Nat /\ Len(book) > 0
    BY DEF Inputs
  <2>2. IsFiniteSet(1..Len(book))
    BY <2>1, FS_Interval
  <2>3. QED
    BY <2>1, <2>2 DEF Numbers
<1>2. \A i \in Numbers : KeyOf(i) \in Keys /\ i \in Members(KeyOf(i))
  BY DEF Keys, Members
<1>3. \A k : Members(k) \subseteq Numbers /\ IsFiniteSet(Members(k))
  BY <1>1, FS_Subset DEF Members
<1>4. IsFiniteSet(Keys)
  <2>1. PICK to : to = [i \in Numbers |-> KeyOf(i)]
    OBVIOUS
  <2>2. to \in Surjection(Numbers, Keys)
    BY <2>1 DEF Surjection, Keys
  <2>3. QED
    BY <1>1, <2>2, FS_Surjection
<1>5. Keys # {} /\ \A k \in Keys : Members(k) # {}
  BY <1>1, <1>2 DEF Keys
<1>6. BookPolicies # NoPolicies
  BY <1>5 DEF BookPolicies, NoPolicies
<1>7. QED
  BY <1>1, <1>2, <1>3, <1>4, <1>5, <1>6

\* In a book that is not grouped each row is a policy.
LEMMA OwnPolicy ==
  ASSUME Inputs, ~mapping.grouped, NEW i \in Numbers
  PROVE  /\ KeyOf(i) = RowKey(i) /\ Members(RowKey(i)) = {i}
         /\ RowKey(i) \in Keys /\ BookPolicies[RowKey(i)] = Policy({i}, RollupFields, Basis)
<1>1. \A j : KeyOf(j) = RowKey(j)
  BY DEF KeyOf
<1>2. \A j : RowKey(j) = RowKey(i) => j = i
  BY DEF RowKey
<1>3. Members(RowKey(i)) = {i}
  BY <1>1, <1>2 DEF Members
<1>4. RowKey(i) \in Keys
  BY <1>1 DEF Keys
<1>5. QED
  BY <1>1, <1>3, <1>4 DEF BookPolicies

\* A policy counts no error exactly when no row of it is in error.
LEMMA Errors ==
  ASSUME Inputs, NEW S, IsFiniteSet(S), S \subseteq Numbers
  PROVE  /\ ErrorsOf(S) \in Nat
         /\ ErrorsOf(S) = 0 <=> \A i \in S : ~book[i].error
<1>1. IsFiniteSet({i \in S : book[i].error})
  BY FS_Subset
<1>2. QED
  BY <1>1, FS_CardinalityType, FS_EmptySet DEF ErrorsOf

\* After the fold a policy is clean exactly when all its rows can be rated,
\* and then it is what was composed.
LEMMA Refusals ==
  ASSUME Inputs, mapping.grouped, NEW k \in Keys
  PROVE  LET p == Policy(Members(k), RollupFields, Basis)
             q == FoldRefusals(BookPolicies)[k]
         IN /\ DOMAIN FoldRefusals(BookPolicies) = Keys
            /\ q.errors \in Nat
            /\ q.errors = 0 <=> Rateable(k)
            /\ Rateable(k) => q = p
            /\ q.tier = p.tier
<1> DEFINE p == Policy(Members(k), RollupFields, Basis)
           R == {i \in Members(k) : book[i].refused}
           n == Cardinality(R)
           q == FoldRefusals(BookPolicies)[k]
<1>1. BookPolicies[k] = p /\ DOMAIN BookPolicies = Keys
  BY DEF BookPolicies
<1>2. p.rows = Members(k) /\ p.errors = ErrorsOf(Members(k))
  BY PolicyIs
<1>3. /\ DOMAIN FoldRefusals(BookPolicies) = Keys
      /\ q = IF n = 0 THEN p ELSE [p EXCEPT !.errors = @ + n, !.composed = None]
  BY <1>1, <1>2 DEF FoldRefusals
<1>4. n \in Nat /\ (n = 0 <=> \A i \in Members(k) : ~book[i].refused)
  <2>1. IsFiniteSet(R)
    BY Kept, FS_Subset
  <2>2. QED
    BY <2>1, FS_CardinalityType, FS_EmptySet
<1>5. p.errors \in Nat /\ (p.errors = 0 <=> \A i \in Members(k) : ~book[i].error)
  BY <1>2, Kept, Errors
<1> HIDE DEF n
<1>6. CASE n = 0
  BY <1>3, <1>4, <1>5, <1>6 DEF Rateable
<1>7. CASE n # 0
  <2>1. q.errors = p.errors + n /\ q.tier = p.tier
    BY <1>3, <1>7, PolicyIs
  <2>2. QED
    BY <1>3, <1>4, <1>5, <1>7, <2>1 DEF Rateable
<1>8. QED
  BY <1>6, <1>7

-----------------------------------------------------------------------------
(* Nothing withheld leaks *)

\* A row that has been stored was stored for what its inputs compose to.
LEMMA Begun ==
  ASSUME IInv, NEW i \in 1..base
  PROVE  /\ phase \in {"rate", "done"} /\ i \in Numbers
         /\ stored[i] = Stored(i) /\ collected[i] = Collected(i)
<1>1. base \in 0..Len(book) /\ Len(book) \in Nat
  BY DEF IInv, Rows, Inputs
<1>2. phase \in {"rate", "done"}
  BY <1>1 DEF IInv, Composition
<1>3. QED
  BY <1>1, <1>2 DEF IInv, Rows, Numbers

\* What a finished job holds.
LEMMA Finished ==
  ASSUME IInv, phase = "done"
  PROVE  /\ base = Len(book) /\ summary = SummarizeBook /\ ~CannotCompose
         /\ policies = IF NothingToCompose THEN NoPolicies ELSE BookPolicies
         /\ adjusted = FoldRefusals(policies)
         /\ \A i \in Numbers : stored[i] = Stored(i) /\ collected[i] = Collected(i)
<1>1. base = Len(book) /\ summary = SummarizeBook
  BY DEF IInv, Ending
<1>2. \A i \in Numbers : stored[i] = Stored(i) /\ collected[i] = Collected(i)
  BY <1>1, Begun DEF Numbers
<1>3. QED
  BY <1>1, <1>2 DEF IInv, Composition

\* A row in error is unpriced by definition; a refused one takes its policy
\* with it through the fold.
LEMMA WithheldStays == IInv => NothingWithheldLeaks
<1> SUFFICES ASSUME IInv PROVE NothingWithheldLeaks
  OBVIOUS
<1>1. ASSUME NEW i \in 1..base, book[i].error \/ book[i].refused
      PROVE  stored[i] = [status |-> "error", premium |-> None, tier |-> None]
  BY <1>1, Begun DEF Stored, Unpriced
<1>2. ASSUME phase = "done", NEW i \in Numbers, book[i].error \/ book[i].refused
      PROVE  /\ summary.rows[i].premium = None /\ summary.rows[i].tier = None
             /\ mapping.grouped => summary.policies[KeyOf(i)].premium = None
  <2>1. summary.rows[i] = LedgerRow(i)
    BY <1>2, Finished DEF SummarizeBook
  <2>2. collected[i].status = "error"
    <3>1. collected[i] = Collected(i) /\ Unpriced(i)
      BY <1>2, Finished DEF Unpriced
    <3>2. QED
      BY <3>1 DEF Collected
  <2>3. LedgerRow(i).premium = None /\ LedgerRow(i).tier = None
    BY <2>2 DEF LedgerRow
  <2>4. ASSUME mapping.grouped PROVE summary.policies[KeyOf(i)].premium = None
    <3>1. adjusted = FoldRefusals(BookPolicies)
      BY <1>2, <2>4, Finished DEF NothingToCompose
    <3>2. KeyOf(i) \in Keys /\ i \in Members(KeyOf(i)) /\ Inputs
      BY Kept DEF IInv
    <3>3. ~Rateable(KeyOf(i))
      BY <1>2, <3>2 DEF Rateable
    <3>4. /\ DOMAIN adjusted = Keys /\ adjusted[KeyOf(i)].errors \in Nat
          /\ adjusted[KeyOf(i)].errors # 0
      BY <2>4, <3>1, <3>2, <3>3, Refusals
    <3>5. PolicyPremiumOf(adjusted[KeyOf(i)]) = None
      BY <3>4 DEF PolicyPremiumOf
    <3>6. summary.policies
            = [k \in DOMAIN adjusted |-> [premium |-> PolicyPremiumOf(adjusted[k]),
                                          tier |-> adjusted[k].tier,
                                          errors |-> adjusted[k].errors]]
      BY <1>2, <2>4, Finished DEF SummarizeBook
    <3>7. QED
      BY <3>2, <3>4, <3>5, <3>6
  <2>5. QED
    BY <2>1, <2>3, <2>4
<1>3. QED
  BY <1>1, <1>2 DEF NothingWithheldLeaks

\* Nothing withheld leaks, for every book: a row in error or refused has no
\* premium and no verdict in the store or the ledger, and its policy no
\* premium (worker.ts, summarizeBook).
THEOREM NothingLeaks == Spec => []NothingWithheldLeaks
BY AlwaysIInv, WithheldStays, PTL

-----------------------------------------------------------------------------
(* The ledger, the store and the quote *)

\* A row that is priced has a premium, so the ledger does not fall back on
\* the roll-up basis where the store has the composed one.
LEMMA LedgerIsStored == IInv => LedgerIsWhatWasStored
<1> SUFFICES ASSUME IInv, phase = "done", NEW i \in Numbers
             PROVE  /\ summary.rows[i].status = stored[i].status
                    /\ summary.rows[i].premium = stored[i].premium
                    /\ summary.rows[i].tier = stored[i].tier
  BY DEF LedgerIsWhatWasStored
<1>1. summary.rows[i] = LedgerRow(i) /\ stored[i] = Stored(i) /\ collected[i] = Collected(i)
  BY Finished DEF SummarizeBook
<1>2. CASE Unpriced(i)
  BY <1>1, <1>2 DEF LedgerRow, Stored, Collected
<1>3. CASE ~Unpriced(i)
  <2>1. ~book[i].error /\ ~book[i].refused
    BY <1>3 DEF Unpriced
  <2>2. DeriveViews(book[i]) # None
    BY <2>1, Derived, NoneApart DEF IInv
  <2>3. PremiumOf(i) = IF Composed(i) THEN PolicyOf(i).composed ELSE DeriveViews(book[i])
    BY <1>1, <1>3, <2>2 DEF PremiumOf, Collected
  <2>4. QED
    BY <1>1, <1>3, <2>1, <2>3 DEF LedgerRow, Stored, Collected
<1>4. QED
  BY <1>2, <1>3

\* The ledger of a finished book says of every row what the store says of it,
\* though the two are made from different results of the chunk.
THEOREM LedgerAgrees == Spec => []LedgerIsWhatWasStored
BY AlwaysIInv, LedgerIsStored, PTL

\* With no roll-up declared the one field rolled up is the plan's premium,
\* and the policy of the row is the policy the quote composes.
LEMMA StoredIsQuoted == IInv => RowsMatchQuotes
<1> SUFFICES ASSUME IInv, ~mapping.grouped, Declared = {}, ~TotalLess, NEW i \in 1..base
             PROVE  stored[i] = Quote(i)
  BY DEF RowsMatchQuotes
<1>1. Inputs /\ phase \in {"rate", "done"} /\ i \in Numbers /\ stored[i] = Stored(i)
  BY Begun DEF IInv
<1>2. policies = IF NothingToCompose THEN NoPolicies ELSE BookPolicies
  BY <1>1 DEF IInv, Composition
<1> DEFINE key == IF plan.total THEN Total ELSE CHOOSE c \in plan.coverages : TRUE
           one == Policy({i}, [f \in {key} |-> "sum"], key)
<1>3. Basis = key /\ RollupFields = [f \in {key} |-> "sum"]
  <2>1. DeclaredPremium = {} /\ ~IsCoverageSum
    BY DEF DeclaredPremium, IsCoverageSum
  <2>2. Basis = key
    BY <2>1 DEF Basis, PlanBasis
  <2>3. ExtraRollups = {key}
    BY <2>1, <2>2 DEF ExtraRollups
  <2>4. QED
    BY <2>2, <2>3 DEF RollupFields
<1>4. CASE NothingToCompose
  BY <1>1, <1>2, <1>4
     DEF Stored, Quote, Unpriced, CompositionFailed, Composed, HasPolicy, NothingToCompose
<1>5. CASE ~NothingToCompose
  <2>1. HasPolicy /\ PolicyOf(i) = one
    BY <1>1, <1>2, <1>3, <1>5, Kept, OwnPolicy DEF HasPolicy, PolicyOf
  <2>2. ComposedTail # <<>> \/ plan.gates # {}
    BY <1>5 DEF NothingToCompose
  <2>3. one.errors = ErrorsOf({i}) /\ (~book[i].error => one.errors = 0)
    <3>1. IsFiniteSet({i}) /\ {i} \subseteq Numbers
      BY <1>1, FS_Singleton
    <3>2. QED
      BY <1>1, <3>1, Errors, PolicyIs
  <2> HIDE DEF one, key
  <2>4. Quote(i) =
          IF book[i].error \/ book[i].refused \/ (ComposedTail # <<>> /\ one.composed = None)
          THEN [status |-> "error", premium |-> None, tier |-> None]
          ELSE [status |-> "ok",
                premium |-> IF one.composed # None THEN one.composed ELSE DeriveViews(book[i]),
                tier |-> one.tier]
    BY <2>2 DEF Quote, one, key
  <2>5. CASE book[i].error \/ book[i].refused
    BY <1>1, <2>4, <2>5 DEF Stored, Unpriced
  <2>6. CASE ~book[i].error /\ ~book[i].refused
    <3>1. Unpriced(i) <=> ComposedTail # <<>> /\ one.composed = None
      BY <2>1, <2>3, <2>6 DEF Unpriced, CompositionFailed
    <3>2. Composed(i) <=> one.composed # None
      BY <2>1 DEF Composed
    <3>3. QED
      BY <1>1, <2>1, <2>4, <2>6, <3>1, <3>2 DEF Stored
  <2>7. QED
    BY <2>5, <2>6
<1>6. QED
  BY <1>4, <1>5

\* A row of an ungrouped book that rolls nothing up is stored as a quote of
\* the same inputs answers it, for every chunk size (worker.ts, score.ts).
THEOREM SameAsQuoted == Spec => []RowsMatchQuotes
BY AlwaysIInv, StoredIsQuoted, PTL

-----------------------------------------------------------------------------
(* The tail, the tiers and the roll-ups have their types *)

\* A set of natural numbers below a bound has a least member.
LEMMA FirstOf ==
  ASSUME NEW N \in Nat, NEW B \in SUBSET (0..N), B # {}
  PROVE  \E n \in B : \A m \in B : n <= m
<1> DEFINE D == 0..N
           C == {0..n : n \in B}
<1>1. C \in SUBSET SUBSET D /\ C # {} /\ IsFiniteSet(D)
  <2>1. IsFiniteSet(D)
    BY FS_Interval
  <2>2. \A n \in B : 0..n \subseteq D
    OBVIOUS
  <2> HIDE DEF D
  <2>3. C \in SUBSET SUBSET D
    BY <2>2
  <2>4. QED
    BY <2>1, <2>3
<1> HIDE DEF C, D
<1>2. PICK T \in C : \A U \in C : U \subseteq T => U = T
  BY <1>1, MinimalSubset
<1> USE DEF C, D
<1>3. PICK n \in B : T = 0..n
  BY <1>2
<1>4. ASSUME NEW m \in B, ~(n <= m) PROVE FALSE
  <2>1. 0..m \in C /\ 0..m \subseteq 0..n /\ n \notin 0..m /\ n \in 0..n
    BY <1>4
  <2>2. QED
    BY <1>2, <1>3, <2>1
<1>5. QED
  BY <1>4

\* Finitely many integers have a greatest and a least.
LEMMA Bounded ==
  ASSUME NEW f, NEW S, IsFiniteSet(S), S # {}, \A x \in S : f[x] \in Int
  PROVE  /\ \E x \in S : \A y \in S : f[x] >= f[y]
         /\ \E x \in S : \A y \in S : f[x] <= f[y]
<1> DEFINE Good(T) == /\ \E x \in T : \A y \in T : f[x] >= f[y]
                      /\ \E x \in T : \A y \in T : f[x] <= f[y]
           B == {T \in SUBSET S : T # {} /\ ~Good(T)}
<1> HIDE DEF Good
<1>1. SUFFICES ASSUME B # {} PROVE FALSE
  BY DEF Good
<1> HIDE DEF B
<1>2. PICK T \in B : \A U \in B : U \subseteq T => U = T
  <2>1. B \in SUBSET SUBSET S
    BY DEF B
  <2>2. QED
    BY <1>1, <2>1, MinimalSubset
<1>3. T \subseteq S /\ T # {} /\ ~Good(T)
  BY <1>2 DEF B
<1>4. PICK x \in T : f[x] \in Int
  BY <1>3
<1>5. CASE T \ {x} = {}
  <2>1. T = {x}
    BY <1>4, <1>5
  <2>2. Good(T)
    BY <1>4, <2>1 DEF Good
  <2>3. QED
    BY <1>3, <2>2
<1>6. CASE T \ {x} # {}
  <2>1. Good(T \ {x})
    BY <1>2, <1>3, <1>4, <1>6 DEF B
  <2>2. PICK y \in T \ {x}, z \in T \ {x} :
          \A w \in T \ {x} : f[y] >= f[w] /\ f[z] <= f[w]
    BY <2>1 DEF Good
  <2>3. f[y] \in Int /\ f[z] \in Int /\ \A w \in T : f[w] \in Int
    BY <1>3
  <2>4. \E u \in T : \A w \in T : f[u] >= f[w]
    <3>1. CASE f[x] >= f[y]
      BY <1>4, <2>2, <2>3, <3>1
    <3>2. CASE ~(f[x] >= f[y])
      BY <1>4, <2>2, <2>3, <3>2
    <3>3. QED
      BY <3>1, <3>2
  <2>5. \E u \in T : \A w \in T : f[u] <= f[w]
    <3>1. CASE f[x] <= f[z]
      BY <1>4, <2>2, <2>3, <3>1
    <3>2. CASE ~(f[x] <= f[z])
      BY <1>4, <2>2, <2>3, <3>2
    <3>3. QED
      BY <3>1, <3>2
  <2>6. QED
    BY <1>3, <2>4, <2>5 DEF Good
<1>7. QED
  BY <1>5, <1>6

\* One adjustment takes an integral premium to an integral premium.
LEMMA ApplyInt ==
  ASSUME NEW adj, IsAdjustment(adj), NEW x \in Int, NEW totals
  PROVE  Apply(adj, x, totals) \in Int
<1>1. ASSUME adj.kind = "schedule_rating"
      PROVE  Percent(x, 100 + Clamp(adj.net, -adj.cap, adj.cap)) \in Int
  <2>1. adj.net \in Int /\ adj.cap \in Int /\ -adj.cap \in Int
    BY <1>1 DEF IsAdjustment
  <2>2. Min({adj.net, adj.cap}) \in Int
    BY <2>1, Extremes
  <2>3. Clamp(adj.net, -adj.cap, adj.cap) \in Int
    BY <2>1, <2>2, Extremes DEF Clamp
  <2>4. QED
    BY <2>3 DEF Percent
<1>2. ASSUME adj.kind = "package_factor" PROVE Percent(x, adj.percent) \in Int
  BY <1>2 DEF IsAdjustment, Percent
<1>3. ASSUME adj.kind = "endorsement" PROVE x + adj.amount \in Int
  BY <1>3 DEF IsAdjustment
<1>4. ASSUME adj.kind = "minimum_premium" PROVE Max({x, adj.floor}) \in Int
  BY <1>4, Extremes DEF IsAdjustment
<1>5. adj.kind \in {"schedule_rating", "package_factor", "endorsement", "minimum_premium"}
  BY DEF IsAdjustment
<1>6. QED
  BY <1>1, <1>2, <1>3, <1>4, <1>5 DEF Apply

\* The premium after each of the first n adjustments, as EvaluateTail runs it.
Running(r, n, x, tail, totals) ==
  r = [m \in 0..n |-> IF m = 0 THEN x ELSE Apply(tail[m], r[m - 1], totals)]

\* The running premium of a tail is defined for a tail of any length.
LEMMA RunningExists ==
  ASSUME NEW N \in Nat, NEW x, NEW tail, NEW totals
  PROVE  \E r : Running(r, N, x, tail, totals)
<1> DEFINE B == {n \in 0..N : ~ \E r : \* The premium after each of the first n adjustments, as EvaluateTail runs it.
Running(r, n, x, tail, totals)}
<1>1. SUFFICES ASSUME B # {} PROVE FALSE
  OBVIOUS
<1> HIDE DEF B
<1>2. PICK n \in B : \A m \in B : n <= m
  <2>1. B \in SUBSET (0..N)
    BY DEF B
  <2>2. QED
    BY <1>1, <2>1, FirstOf
<1> USE DEF B
<1>3. n \in 0..N /\ ~ \E r : \* The premium after each of the first n adjustments, as EvaluateTail runs it.
Running(r, n, x, tail, totals)
  BY <1>2
<1>4. n # 0
  <2>1. PICK r : r = [m \in 0..0 |-> x]
    OBVIOUS
  <2>2. Running(r, 0, x, tail, totals)
    BY <2>1 DEF Running
  <2>3. QED
    BY <1>3, <2>2
<1>5. PICK r : Running(r, n - 1, x, tail, totals)
  BY <1>2, <1>3, <1>4
<1>6. PICK s : s = [m \in 0..n |-> IF m = n THEN Apply(tail[n], r[n - 1], totals) ELSE r[m]]
  OBVIOUS
<1>7. \A m \in 0..(n - 1) : /\ s[m] = r[m]
                            /\ r[m] = IF m = 0 THEN x ELSE Apply(tail[m], r[m - 1], totals)
  BY <1>3, <1>4, <1>5, <1>6 DEF Running
<1>8. \A m \in 0..n : s[m] = IF m = 0 THEN x ELSE Apply(tail[m], s[m - 1], totals)
  <2>1. TAKE m \in 0..n
  <2>2. CASE m = n
    BY <1>3, <1>4, <1>6, <1>7, <2>2
  <2>3. CASE m # n
    BY <1>3, <1>4, <1>7, <2>3
  <2>4. QED
    BY <2>2, <2>3
<1>9. Running(s, n, x, tail, totals)
  BY <1>6, <1>8 DEF Running
<1>10. QED
  BY <1>3, <1>9

\* So a tail takes an integral premium to an integral premium.
LEMMA TailInt ==
  ASSUME NEW tail, Len(tail) \in Nat, NEW x \in Int, NEW totals,
         \A n \in 1..Len(tail) : IsAdjustment(tail[n])
  PROVE  EvaluateTail(x, tail, totals) \in Int
<1> DEFINE N == Len(tail)
<1>1. PICK r : Running(r, N, x, tail, totals) /\ EvaluateTail(x, tail, totals) = r[N]
  <2>1. PICK r : r = CHOOSE q : Running(q, N, x, tail, totals)
    OBVIOUS
  <2>2. Running(r, N, x, tail, totals)
    BY <2>1, RunningExists
  <2>3. EvaluateTail(x, tail, totals) = r[N]
    BY <2>1 DEF EvaluateTail, Running
  <2>4. QED
    BY <2>2, <2>3
<1> DEFINE B == {n \in 0..N : r[n] \notin Int}
<1>2. SUFFICES ASSUME B # {} PROVE FALSE
  BY <1>1
<1> HIDE DEF B
<1>3. PICK n \in B : \A m \in B : n <= m
  <2>1. B \in SUBSET (0..N)
    BY DEF B
  <2>2. QED
    BY <1>2, <2>1, FirstOf
<1> USE DEF B
<1>4. n \in 0..N /\ r[n] \notin Int
  BY <1>3
<1>5. r[n] = IF n = 0 THEN x ELSE Apply(tail[n], r[n - 1], totals)
  BY <1>1, <1>4 DEF Running
<1>6. n # 0
  BY <1>4, <1>5
<1>7. r[n - 1] \in Int
  BY <1>3, <1>4, <1>6
<1>8. IsAdjustment(tail[n])
  BY <1>4, <1>6
<1>9. QED
  BY <1>4, <1>5, <1>6, <1>7, <1>8, ApplyInt

\* The floor of the plan is one more adjustment.
LEMMA TailTyped ==
  ASSUME Inputs
  PROVE  /\ Len(ComposedTail) \in Nat
         /\ \A n \in 1..Len(ComposedTail) : IsAdjustment(ComposedTail[n])
<1> DEFINE floor == [kind |-> "minimum_premium", floor |-> plan.floor, when |-> None]
<1>1. IsAdjustment(floor)
  BY Bundle DEF IsAdjustment
<1> DEFINE V == Range(plan.tail) \cup {floor}
<1>2. plan.tail \in Seq(V) /\ <<>> \in Seq(V) /\ <<floor>> \in Seq(V)
  BY Bundle
<1> HIDE DEF V, floor
<1>3. ComposedTail = plan.tail \o (IF plan.floor = 0 THEN <<>> ELSE <<floor>>)
  BY DEF ComposedTail, floor
<1>4. \A n \in 1..Len(plan.tail) : IsAdjustment(plan.tail[n])
  BY Bundle
<1>5. CASE plan.floor = 0
  <2>1. ComposedTail = plan.tail
    BY <1>2, <1>3, <1>5
  <2>2. QED
    BY <1>2, <1>4, <2>1
<1>6. CASE plan.floor # 0
  <2>1. ComposedTail = plan.tail \o <<floor>>
    BY <1>3, <1>6
  <2>2. Len(ComposedTail) = Len(plan.tail) + 1 /\ Len(plan.tail) \in Nat
    BY <1>2, <2>1
  <2>3. \A n \in 1..Len(ComposedTail) :
          ComposedTail[n] = IF n <= Len(plan.tail) THEN plan.tail[n] ELSE floor
    BY <1>2, <2>1, <2>2
  <2>4. QED
    BY <1>1, <1>4, <2>2, <2>3
<1>7. QED
  BY <1>5, <1>6

\* The most restrictive of any verdicts is one of the four tiers.
LEMMA Tiered ==
  ASSUME NEW tiers
  PROVE  MostRestrictive(tiers) \in Tiers
<1> DEFINE ranks == {r \in 1..4 : TiersInOrder[r] \in tiers}
<1>1. \A r \in 1..4 : TiersInOrder[r] \in Tiers
  BY DEF Tiers, Range, TiersInOrder
<1>2. ranks # {} => \E r \in ranks : \A s \in ranks : r >= s
  BY 4 \in ranks \/ 3 \in ranks \/ 2 \in ranks \/ 1 \in ranks \/ ranks = {}
<1>3. ranks # {} => Max(ranks) \in 1..4
  BY <1>2 DEF Max
<1> HIDE DEF ranks
<1>4. MostRestrictive(tiers) = IF ranks = {} THEN TiersInOrder[1] ELSE TiersInOrder[Max(ranks)]
  BY DEF MostRestrictive, ranks
<1>5. QED
  BY <1>1, <1>3, <1>4

\* A roll-up of a finite set of rows is a number.
LEMMA ReduceInt ==
  ASSUME Inputs, NEW S, IsFiniteSet(S), S \subseteq Numbers, NEW f,
         NEW reducer \in {"count", "sum", "max", "min"}
  PROVE  ReduceRollup(reducer, S, f) \in Int
<1> DEFINE finite == {i \in S : Value(book[i], f) # None}
           values == {Value(book[i], f) : i \in finite}
           money == [i \in finite |-> Value(book[i], f)]
<1>1. IsFiniteSet(finite) /\ \A i \in finite : money[i] = Value(book[i], f) /\ money[i] \in Int
  BY Valued, FS_Subset
<1>2. finite # {} => /\ \E x \in values : \A y \in values : x >= y
                     /\ \E x \in values : \A y \in values : x <= y
  <2> HIDE DEF finite, money
  <2>1. finite # {} => /\ \E x \in finite : \A y \in finite : money[x] >= money[y]
                       /\ \E x \in finite : \A y \in finite : money[x] <= money[y]
    BY <1>1, Bounded
  <2>2. values = {money[i] : i \in finite}
    BY <1>1
  <2>3. QED
    BY <2>1, <2>2
<1>3. SumFunctionOnSet(money, finite) \in Int
  BY <1>1, SumInt
<1>4. finite # {} => Max(values) \in Int /\ Min(values) \in Int
  <2>1. finite # {} => Max(values) \in values /\ Min(values) \in values
    BY <1>2 DEF Max, Min
  <2>2. \A v \in values : v \in Int
    BY <1>1
  <2>3. QED
    BY <2>1, <2>2
<1>5. Cardinality(S) \in Int
  BY FS_CardinalityType
<1>6. SumFunction(money) = SumFunctionOnSet(money, finite)
  BY DEF SumFunction, SumFunctionOnSet, FoldFunction
<1> HIDE DEF money, values, finite
<1>7. /\ reducer = "count" => ReduceRollup(reducer, S, f) = Cardinality(S)
      /\ reducer = "sum" => ReduceRollup(reducer, S, f) = SumFunction(money)
      /\ reducer = "max" => ReduceRollup(reducer, S, f) = IF finite = {} THEN 0 ELSE Max(values)
      /\ reducer = "min" => ReduceRollup(reducer, S, f) = IF finite = {} THEN 0 ELSE Min(values)
  BY DEF ReduceRollup, money, values, finite
<1>8. QED
  BY <1>3, <1>4, <1>5, <1>6, <1>7

\* A policy has a tier, numbers and, with a tail it can apply, a premium.
LEMMA PolicyTyped ==
  ASSUME Inputs, NEW S, IsFiniteSet(S), S \subseteq Numbers
  PROVE  LET p == Policy(S, RollupFields, Basis)
         IN /\ p.tier \in Tiers
            /\ DOMAIN p.rolled = DOMAIN RollupFields
            /\ \A f \in DOMAIN RollupFields :
                 /\ p.rolled[f] = ReduceRollup(RollupFields[f], S, f)
                 /\ p.rolled[f] \in Int
            /\ IF ErrorsOf(S) > 0 \/ ComposedTail = <<>> \/ Basis \notin DOMAIN RollupFields
               THEN p.composed = None ELSE p.composed \in Int
<1> DEFINE p == Policy(S, RollupFields, Basis)
<1>1. p.tier \in Tiers
  BY PolicyIs, Tiered DEF TierOf
<1>2. p.rolled = [f \in DOMAIN RollupFields |-> ReduceRollup(RollupFields[f], S, f)]
  BY PolicyIs DEF RolledOf
<1>3. \A f \in DOMAIN RollupFields : RollupFields[f] \in {"count", "sum", "max", "min"}
  BY Bundle DEF RollupFields
<1>4. \A f \in DOMAIN RollupFields : /\ p.rolled[f] = ReduceRollup(RollupFields[f], S, f)
                                     /\ p.rolled[f] \in Int
  BY <1>2, <1>3, ReduceInt
<1>5. p.composed = ComposePolicyTail(ErrorsOf(S), p.rolled, Basis, TotalsOf(S, RollupFields))
  BY PolicyIs DEF ComposedOf
<1>6. DOMAIN p.rolled = DOMAIN RollupFields
  BY <1>2
<1> HIDE DEF p
<1>7. CASE ErrorsOf(S) > 0 \/ ComposedTail = <<>> \/ Basis \notin DOMAIN RollupFields
  <2>1. p.composed = None
    BY <1>5, <1>6, <1>7 DEF ComposePolicyTail
  <2>2. QED
    BY <1>1, <1>4, <1>6, <1>7, <2>1 DEF p
<1>8. CASE ~(ErrorsOf(S) > 0 \/ ComposedTail = <<>> \/ Basis \notin DOMAIN RollupFields)
  <2>1. p.composed = EvaluateTail(p.rolled[Basis], ComposedTail, TotalsOf(S, RollupFields))
    BY <1>5, <1>6, <1>8 DEF ComposePolicyTail
  <2>2. p.rolled[Basis] \in Int
    BY <1>4, <1>8
  <2>3. p.composed \in Int
    BY <2>1, <2>2, TailTyped, TailInt
  <2>4. QED
    BY <1>1, <1>4, <1>6, <1>8, <2>3 DEF p
<1>9. QED
  BY <1>7, <1>8

\* What is stored is made of a policy, or of the row and the plan.
LEMMA Typed == IInv => TypeOK
<1> SUFFICES ASSUME IInv PROVE TypeOK
  OBVIOUS
<1>1. /\ phase \in {"compose", "rate", "done", "failed"} /\ Inputs
      /\ base \in 0..Len(book) /\ Len(stored) = base /\ Len(collected) = base
  BY DEF IInv, Rows, Inputs
<1>2. ASSUME NEW i \in 1..base PROVE stored[i] \in Facets
  <2>1. i \in Numbers /\ stored[i] = Stored(i) /\ phase \in {"rate", "done"}
    BY <1>2, Begun
  <2>2. CASE Unpriced(i)
    BY <2>1, <2>2 DEF Stored, Facets
  <2>3. CASE ~Unpriced(i)
    <3>1. ~book[i].error /\ DeriveViews(book[i]) \in Int
      BY <1>1, <2>1, <2>3, Derived DEF Unpriced
    <3>2. book[i].tier \in Tiers \cup {None}
      BY <1>1, <2>1, Row
    <3>3. HasPolicy => /\ PolicyOf(i).tier \in Tiers
                       /\ PolicyOf(i).composed = None \/ PolicyOf(i).composed \in Int
      <4>1. SUFFICES ASSUME HasPolicy
                     PROVE  /\ PolicyOf(i).tier \in Tiers
                            /\ PolicyOf(i).composed = None \/ PolicyOf(i).composed \in Int
        OBVIOUS
      <4>2. policies = BookPolicies /\ ~mapping.grouped
        BY <2>1, <4>1 DEF IInv, Composition, HasPolicy
      <4>3. PolicyOf(i) = Policy({i}, RollupFields, Basis)
        BY <1>1, <2>1, <4>2, OwnPolicy DEF PolicyOf
      <4>4. IsFiniteSet({i}) /\ {i} \subseteq Numbers
        BY <2>1, FS_Singleton
      <4>5. QED
        BY <1>1, <4>3, <4>4, PolicyTyped
    <3>4. PICK m, t : /\ m = (IF Composed(i) THEN PolicyOf(i).composed ELSE DeriveViews(book[i]))
                      /\ t = (IF HasPolicy THEN PolicyOf(i).tier ELSE book[i].tier)
      OBVIOUS
    <3>5. m \in Int /\ t \in Tiers \cup {None}
      BY <3>1, <3>2, <3>3, <3>4 DEF Composed
    <3>6. stored[i] = [status |-> "ok", premium |-> m, tier |-> t]
      BY <2>1, <2>3, <3>4 DEF Stored
    <3>7. QED
      BY <3>5, <3>6 DEF Facets
  <2>4. QED
    BY <2>2, <2>3
<1>3. IF phase = "done" THEN DOMAIN summary.rows = Numbers ELSE summary = None
  <2>1. CASE phase = "done"
    <3>1. SummarizeBook.rows = [i \in Numbers |-> LedgerRow(i)]
      BY DEF SummarizeBook
    <3>2. QED
      BY <2>1, <3>1, Finished
  <2>2. CASE phase # "done"
    BY <2>2 DEF IInv, Ending
  <2>3. QED
    BY <2>1, <2>2
<1>4. QED
  BY <1>1, <1>2, <1>3 DEF TypeOK

\* Every row stored is a priced row with its verdict, or an error row.
THEOREM TypeCorrect == Spec => []TypeOK
BY AlwaysIInv, Typed, PTL

-----------------------------------------------------------------------------
(* The totals *)

\* What TotalsAreFiled asks of the mapping.
SumsThePremium ==
  /\ RollsThePremium
  /\ \A f \in Declared \ {Exposure} : mapping.rollups[f] = "sum"

\* What the roll-ups of a plan that can be composed hold.
LEMMA RollsUp ==
  ASSUME Inputs, SumsThePremium, ~CannotCompose
  PROVE  /\ ComposedTail # <<>> => Basis \in DOMAIN RollupFields
         /\ ~IsCoverageSum => /\ ~TotalLess /\ Basis = PlanBasis
                              /\ Basis \in DOMAIN RollupFields
                              /\ RollupFields[Basis] = "sum"
         /\ IsCoverageSum => /\ TotalLess
                             /\ \A c \in plan.coverages : /\ c \in DOMAIN RollupFields
                                                          /\ RollupFields[c] = "sum"
<1>1. Basis = PlanBasis /\ (IsCoverageSum \/ Basis \in DOMAIN RollupFields)
  BY DEF SumsThePremium, RollsThePremium
<1>2. /\ DOMAIN RollupFields = Declared \cup ExtraRollups
      /\ \A f \in DOMAIN RollupFields :
           RollupFields[f] = IF f \in Declared THEN mapping.rollups[f] ELSE "sum"
  BY DEF RollupFields
<1>3. ASSUME IsCoverageSum
      PROVE  /\ TotalLess
             /\ \A c \in plan.coverages : c \in DOMAIN RollupFields /\ RollupFields[c] = "sum"
  <2>1. TotalLess /\ Declared \subseteq {Exposure} /\ ExtraRollups = plan.coverages \ Declared
    BY <1>3 DEF IsCoverageSum, DeclaredPremium, ExtraRollups
  <2>2. Exposure \notin plan.coverages
    BY Bundle
  <2>3. QED
    BY <1>2, <2>1, <2>2
<1>4. ASSUME ~IsCoverageSum
      PROVE  /\ ~TotalLess /\ Basis = PlanBasis /\ Basis \in DOMAIN RollupFields
             /\ RollupFields[Basis] = "sum"
  <2>1. ~TotalLess
    <3>1. SUFFICES ASSUME TotalLess PROVE FALSE
      OBVIOUS
    <3>2. DeclaredPremium # {} /\ ~plan.total
      BY <1>4, <3>1 DEF IsCoverageSum, TotalLess
    <3>3. Basis \in plan.coverages
      BY <3>2 DEF Basis, Inputs
    <3>4. PlanBasis = CoverageSum
      BY <3>1, <3>2 DEF PlanBasis
    <3>5. CoverageSum \notin plan.coverages
      BY Bundle
    <3>6. QED
      BY <1>1, <3>3, <3>4, <3>5
  <2>2. Basis # Exposure
    <3>1. PlanBasis = Total \/ PlanBasis \in plan.coverages
      BY <2>1, Bundle DEF PlanBasis
    <3>2. Total # Exposure /\ Exposure \notin plan.coverages
      BY Bundle DEF Total, Exposure
    <3>3. QED
      BY <1>1, <3>1, <3>2
  <2>3. QED
    BY <1>1, <1>2, <1>4, <2>1, <2>2 DEF SumsThePremium
<1>5. QED
  BY <1>1, <1>3, <1>4 DEF CannotCompose

\* Rolled up as a sum, a field of rows that are not in error is their sum.
LEMMA SumRolled ==
  ASSUME Inputs, NEW S, IsFiniteSet(S), S \subseteq Numbers, NEW f, NEW g,
         \A i \in S : Value(book[i], f) \in Int /\ g[i] = Value(book[i], f)
  PROVE  ReduceRollup("sum", S, f) = SumFunctionOnSet(g, S)
<1>1. {i \in S : Value(book[i], f) # None} = S
  BY NoneApart
<1>2. PICK h : h = [i \in S |-> Value(book[i], f)]
  OBVIOUS
<1>3. ReduceRollup("sum", S, f) = SumFunctionOnSet(h, S)
  BY <1>1, <1>2 DEF ReduceRollup, SumFunction
<1>4. \A i \in S : g[i] = h[i] /\ h[i] \in Int
  BY <1>2
<1>5. QED
  BY <1>3, <1>4, SumCong

\* The premium the summary finds for a policy all of whose rows can be rated
\* is the one that is filed: its composed premium, or its rows' added up.
LEMMA PremiumIsFiled ==
  ASSUME Inputs, SumsThePremium, ~CannotCompose, NEW k \in Keys, Rateable(k)
  PROVE  LET p == Policy(Members(k), RollupFields, Basis)
         IN /\ p.errors = 0 /\ Filed(k) \in Int
            /\ PolicyPremiumOf(p) = Filed(k)
            /\ ComposedTail = <<>> => p.composed = None
            /\ ComposedTail # <<>> => p.composed = Filed(k)
<1> DEFINE M == Members(k)
           p == Policy(M, RollupFields, Basis)
<1>1. M \subseteq Numbers /\ IsFiniteSet(M)
      /\ \A i \in M : ~book[i].error /\ DeriveViews(book[i]) \in Int
  BY Kept, Derived DEF Rateable
<1>2. p.errors = 0 /\ ErrorsOf(M) = 0
  BY <1>1, Errors, PolicyIs
<1>3. CASE ComposedTail # <<>>
  <2>1. p.composed \in Int
    BY <1>1, <1>2, <1>3, RollsUp, PolicyTyped
  <2>2. Filed(k) = p.composed
    BY <1>3 DEF Filed
  <2>3. PolicyPremiumOf(p) = p.composed
    BY <1>2, <2>1, NoneApart DEF PolicyPremiumOf
  <2>4. QED
    BY <1>2, <1>3, <2>1, <2>2, <2>3
<1>4. CASE ComposedTail = <<>>
  <2>1. PICK views : views = [i \in M |-> DeriveViews(book[i])]
    OBVIOUS
  <2>2. /\ Filed(k) = SumFunctionOnSet(views, M)
        /\ \A i \in M : views[i] = DeriveViews(book[i]) /\ views[i] \in Int
    BY <1>1, <1>4, <2>1 DEF Filed, SumFunction
  <2>3. Filed(k) \in Int
    BY <1>1, <2>2, SumInt
  <2>4. p.composed = None
    BY <1>1, <1>4, PolicyTyped
  <2>5. PolicyPremiumOf(p) = RolledPolicyPremium(p.rolled)
    BY <1>2, <2>4 DEF PolicyPremiumOf
  <2>6. /\ DOMAIN p.rolled = DOMAIN RollupFields
        /\ \A f \in DOMAIN RollupFields : p.rolled[f] = ReduceRollup(RollupFields[f], M, f)
    BY <1>1, PolicyTyped
  <2>7. RolledPolicyPremium(p.rolled) = Filed(k)
    <3>1. CASE ~IsCoverageSum
      <4>1. /\ ~TotalLess /\ Basis = PlanBasis /\ Basis \in DOMAIN RollupFields
            /\ RollupFields[Basis] = "sum"
        BY <3>1, RollsUp
      <4>2. \A i \in M : Value(book[i], Basis) = views[i]
        BY <1>1, <2>2, <4>1, Derived
      <4>3. ReduceRollup("sum", M, Basis) = SumFunctionOnSet(views, M)
        BY <1>1, <2>2, <4>2, SumRolled
      <4>4. QED
        BY <2>2, <2>6, <3>1, <4>1, <4>3 DEF RolledPolicyPremium
    <3>2. CASE IsCoverageSum
      <4>1. /\ TotalLess /\ IsFiniteSet(plan.coverages)
            /\ \A c \in plan.coverages : c \in DOMAIN RollupFields /\ RollupFields[c] = "sum"
        BY <3>2, RollsUp, Bundle
      <4>2. PICK a, rolled : a = [i \in M |-> book[i].money] /\ rolled = p.rolled
        OBVIOUS
      <4>3. \A i \in M, c \in plan.coverages : /\ a[i][c] \in Int
                                               /\ Value(book[i], c) = a[i][c]
        BY <1>1, <4>2, Row, Valued
      <4>4. \A i \in M : views[i] = SumFunctionOnSet(a[i], plan.coverages)
        BY <1>1, <2>2, <4>1, <4>2, Derived
      <4>5. \A c \in plan.coverages :
              \E g : /\ \A i \in M : g[i] = a[i][c]
                    /\ rolled[c] = SumFunctionOnSet(g, M)
        <5>1. TAKE c \in plan.coverages
        <5>2. PICK g : g = [i \in M |-> a[i][c]]
          OBVIOUS
        <5>3. \A i \in M : Value(book[i], c) \in Int /\ g[i] = Value(book[i], c)
          BY <4>3, <5>2
        <5>4. ReduceRollup("sum", M, c) = SumFunctionOnSet(g, M)
          BY <1>1, <5>3, SumRolled
        <5>5. QED
          BY <2>6, <4>1, <4>2, <5>2, <5>4
      <4>6. SumFunctionOnSet(views, M) = SumFunctionOnSet(rolled, plan.coverages)
        <5> HIDE DEF M
        <5> QED
          BY <1>1, <4>1, <4>3, <4>4, <4>5, SumSwap
      <4>7. QED
        BY <2>2, <3>2, <4>2, <4>6 DEF RolledPolicyPremium
    <3>3. QED
      BY <3>1, <3>2
  <2>8. QED
    BY <1>2, <1>4, <2>3, <2>4, <2>5, <2>7
<1>5. QED
  BY <1>3, <1>4

\* The policies whose rows can all be rated, and those of them declined.
GoodKeys == {k \in Keys : Rateable(k)}
DeclinedKeys ==
  {k \in GoodKeys : IF NothingToCompose THEN book[k.row].tier = "decline"
                                        ELSE policies[k].tier = "decline"}

\* What a total adds up are the policies, each under one entry.
LEMMA EntriesAddUp ==
  ASSUME Inputs, NEW m, NEW E, E = DOMAIN Entries, IsFiniteSet(E),
         {m[e] : e \in E} = Keys,
         \A e, d \in E : m[e] = m[d] => e = d,
         \A e \in E : Entries[e].error <=> ~Rateable(m[e]),
         \A e \in E : Rateable(m[e]) =>
           /\ Entries[e].premium = Filed(m[e]) /\ Filed(m[e]) \in Int
           /\ Entries[e].tier = "decline" <=> m[e] \in DeclinedKeys
  PROVE  /\ SumEntries(FALSE) = SumFunction([k \in GoodKeys \ DeclinedKeys |-> Filed(k)])
         /\ SumEntries(TRUE) = SumFunction([k \in DeclinedKeys |-> Filed(k)])
<1> DEFINE Of(d) == {e \in E : /\ ~Entries[e].error /\ Entries[e].premium # None
                               /\ (Entries[e].tier = "decline") = d}
<1>1. ASSUME NEW d \in BOOLEAN, NEW T, T = {m[e] : e \in Of(d)},
             T \subseteq GoodKeys
      PROVE  SumEntries(d) = SumFunction([k \in T |-> Filed(k)])
  <2>1. PICK f, g : /\ f = [e \in Of(d) |-> Entries[e].premium]
                    /\ g = [k \in T |-> Filed(k)]
    OBVIOUS
  <2>2. SumEntries(d) = SumFunctionOnSet(f, Of(d))
    BY <2>1 DEF SumEntries, SumFunction
  <2>3. SumFunction(g) = SumFunctionOnSet(g, T)
    BY <2>1 DEF SumFunction
  <2>4. IsFiniteSet(Of(d)) /\ \A e, c \in Of(d) : m[e] = m[c] => e = c
    BY FS_Subset
  <2>5. \A e \in Of(d) : m[e] \in T /\ f[e] \in Int /\ g[m[e]] = f[e]
    BY <1>1, <2>1 DEF GoodKeys
  <2> HIDE DEF Of
  <2>6. SumFunctionOnSet(g, {m[e] : e \in Of(d)}) = SumFunctionOnSet(f, Of(d))
    BY <2>4, <2>5, SumReindex
  <2>7. QED
    BY <1>1, <2>1, <2>2, <2>3, <2>6
<1>2. \A e \in E : /\ m[e] \in GoodKeys <=> ~Entries[e].error
                   /\ ~Entries[e].error => Entries[e].premium # None
  BY NoneApart DEF GoodKeys
<1>3. DeclinedKeys \subseteq GoodKeys /\ GoodKeys \subseteq Keys
  BY DEF DeclinedKeys, GoodKeys
<1>4. /\ \A e \in E : e \in Of(TRUE) <=> m[e] \in DeclinedKeys
      /\ \A e \in E : e \in Of(FALSE) <=> m[e] \in GoodKeys \ DeclinedKeys
  BY <1>2, <1>3 DEF GoodKeys
<1>5. /\ DeclinedKeys = {m[e] : e \in Of(TRUE)}
      /\ GoodKeys \ DeclinedKeys = {m[e] : e \in Of(FALSE)}
  <2> HIDE DEF Of
  <2>1. Of(TRUE) \subseteq E /\ Of(FALSE) \subseteq E
    BY DEF Of
  <2>2. ASSUME NEW T, NEW D, T \subseteq Keys, D \subseteq E,
               \A e \in E : e \in D <=> m[e] \in T
        PROVE  T = {m[e] : e \in D}
    <3>1. \A k \in T : \E e \in D : k = m[e]
      BY <2>2
    <3>2. QED
      BY <2>2, <3>1
  <2>3. QED
    BY <1>3, <1>4, <2>1, <2>2
<1> HIDE DEF Of
<1>6. QED
  BY <1>1, <1>3, <1>5

\* The entries of a grouped book are its policies.
LEMMA GroupedTotals ==
  ASSUME IInv, phase = "done", SumsThePremium, mapping.grouped
  PROVE  /\ SumEntries(FALSE) = SumFunction([k \in GoodKeys \ DeclinedKeys |-> Filed(k)])
         /\ SumEntries(TRUE) = SumFunction([k \in DeclinedKeys |-> Filed(k)])
<1>1. /\ Inputs /\ ~CannotCompose /\ ~NothingToCompose
      /\ policies = BookPolicies /\ adjusted = FoldRefusals(BookPolicies)
  BY Finished DEF IInv, NothingToCompose
<1>2. PICK m : m = [k \in Keys |-> k]
  OBVIOUS
<1>3. DOMAIN adjusted = Keys /\ IsFiniteSet(Keys)
  BY <1>1, Kept, Refusals
<1>4. Entries = [k \in Keys |-> [error |-> adjusted[k].errors > 0,
                                 premium |-> PolicyPremiumOf(adjusted[k]),
                                 tier |-> adjusted[k].tier]]
  BY <1>3 DEF Entries
<1>5. ASSUME NEW k \in Keys
      PROVE  /\ Entries[k].error <=> ~Rateable(k)
             /\ Rateable(k) => /\ Entries[k].premium = Filed(k) /\ Filed(k) \in Int
                               /\ Entries[k].tier = "decline" <=> k \in DeclinedKeys
  <2>1. PICK p : p = Policy(Members(k), RollupFields, Basis)
    OBVIOUS
  <2>2. /\ adjusted[k].errors \in Nat /\ (adjusted[k].errors = 0 <=> Rateable(k))
        /\ Rateable(k) => adjusted[k] = p
        /\ adjusted[k].tier = p.tier /\ policies[k] = p
    BY <1>1, <2>1, Refusals DEF BookPolicies
  <2>3. Rateable(k) => PolicyPremiumOf(p) = Filed(k) /\ Filed(k) \in Int
    BY <1>1, <2>1, PremiumIsFiled
  <2>4. Rateable(k) => (k \in DeclinedKeys <=> p.tier = "decline")
    BY <1>1, <2>2 DEF DeclinedKeys, GoodKeys
  <2>5. /\ Entries[k].error <=> adjusted[k].errors > 0
        /\ Entries[k].premium = PolicyPremiumOf(adjusted[k])
        /\ Entries[k].tier = adjusted[k].tier
    BY <1>4
  <2>6. QED
    BY <2>2, <2>3, <2>4, <2>5
<1>6. /\ {m[k] : k \in Keys} = Keys /\ DOMAIN Entries = Keys
      /\ \A k \in Keys : m[k] = k
  BY <1>2, <1>4
<1>7. /\ \A k \in Keys : Entries[k].error <=> ~Rateable(m[k])
      /\ \A k \in Keys : Rateable(m[k]) =>
           /\ Entries[k].premium = Filed(m[k]) /\ Filed(m[k]) \in Int
           /\ Entries[k].tier = "decline" <=> m[k] \in DeclinedKeys
      /\ \A k, l \in Keys : m[k] = m[l] => k = l
  BY <1>5, <1>6
<1>8. QED
  BY <1>1, <1>3, <1>6, <1>7, EntriesAddUp

\* The entries of a book that is not grouped are the rows of its ledger.
LEMMA UngroupedTotals ==
  ASSUME IInv, phase = "done", SumsThePremium, ~mapping.grouped
  PROVE  /\ SumEntries(FALSE) = SumFunction([k \in GoodKeys \ DeclinedKeys |-> Filed(k)])
         /\ SumEntries(TRUE) = SumFunction([k \in DeclinedKeys |-> Filed(k)])
<1>1. /\ Inputs /\ ~CannotCompose
      /\ policies = IF NothingToCompose THEN NoPolicies ELSE BookPolicies
      /\ \A i \in Numbers : collected[i] = Collected(i) /\ stored[i] = Stored(i)
      /\ summary = SummarizeBook
  BY Finished DEF IInv
<1>2. PICK m : m = [i \in Numbers |-> RowKey(i)]
  OBVIOUS
<1>3. HasPolicy <=> ~NothingToCompose
  BY <1>1, Kept DEF HasPolicy
<1>4. Entries = [i \in Numbers |-> [error |-> LedgerRow(i).status = "error",
                                    premium |-> LedgerRow(i).premium,
                                    tier |-> LedgerRow(i).tier]]
  BY DEF Entries
<1>5. ASSUME NEW i \in Numbers
      PROVE  /\ Entries[i].error <=> ~Rateable(RowKey(i))
             /\ Rateable(RowKey(i)) =>
                  /\ Entries[i].premium = Filed(RowKey(i)) /\ Filed(RowKey(i)) \in Int
                  /\ Entries[i].tier = "decline" <=> RowKey(i) \in DeclinedKeys
  <2> DEFINE k == RowKey(i)
  <2>1. PICK p : p = Policy(Members(k), RollupFields, Basis)
    OBVIOUS
  <2>2. /\ Members(k) = {i} /\ k \in Keys /\ k.row = i
        /\ HasPolicy => policies[k] = p /\ PolicyOf(i) = p
    BY <1>1, <1>3, <2>1, OwnPolicy DEF PolicyOf, RowKey
  <2>3. Rateable(k) <=> ~book[i].error /\ ~book[i].refused
    BY <2>2 DEF Rateable
  <2>4. /\ LedgerRow(i).status = stored[i].status
        /\ LedgerRow(i).premium = stored[i].premium
        /\ LedgerRow(i).tier = stored[i].tier
    <3>1. SummarizeBook.rows = [j \in Numbers |-> LedgerRow(j)]
      BY DEF SummarizeBook
    <3>2. QED
      BY <1>1, <3>1, LedgerIsStored DEF LedgerIsWhatWasStored
  <2> HIDE DEF k
  <2>5. /\ Rateable(k) => /\ p.errors = 0 /\ Filed(k) \in Int
                          /\ ComposedTail = <<>> => p.composed = None
                          /\ ComposedTail # <<>> => p.composed = Filed(k)
    BY <1>1, <2>1, <2>2, PremiumIsFiled
  <2>6. Unpriced(i) <=> ~Rateable(k)
    BY <2>2, <2>3, <2>5, NoneApart DEF Unpriced, CompositionFailed
  <2>7. ASSUME Rateable(k), ComposedTail = <<>>
        PROVE  Filed(k) = DeriveViews(book[i])
    <3>1. PICK h : h = [j \in {i} |-> DeriveViews(book[j])]
      OBVIOUS
    <3>2. h[i] = DeriveViews(book[i]) /\ h[i] \in Int
      BY <1>1, <2>3, <2>7, <3>1, Derived
    <3>3. Filed(k) = SumFunctionOnSet(h, {i})
      BY <2>2, <2>7, <3>1 DEF Filed, SumFunction
    <3>4. QED
      BY <3>2, <3>3, SumOne
  <2>8. ASSUME Rateable(k)
        PROVE  /\ stored[i].status = "ok" /\ stored[i].premium = Filed(k)
               /\ stored[i].tier = IF HasPolicy THEN p.tier ELSE book[i].tier
    <3>1. ~Unpriced(i)
      BY <2>6, <2>8
    <3>2. (IF Composed(i) THEN PolicyOf(i).composed ELSE DeriveViews(book[i])) = Filed(k)
      <4>1. CASE ComposedTail = <<>>
        <5>1. ~Composed(i)
          BY <2>2, <2>5, <2>8, <4>1 DEF Composed
        <5>2. QED
          BY <2>7, <2>8, <4>1, <5>1
      <4>2. CASE ComposedTail # <<>>
        <5>1. HasPolicy
          BY <1>3, <4>2 DEF NothingToCompose
        <5>2. QED
          BY <2>2, <2>5, <2>8, <4>2, <5>1, NoneApart DEF Composed
      <4>3. QED
        BY <4>1, <4>2
    <3>3. stored[i] = [status |-> "ok", premium |-> Filed(k),
                       tier |-> IF HasPolicy THEN PolicyOf(i).tier ELSE book[i].tier]
      BY <1>1, <3>1, <3>2 DEF Stored
    <3>4. QED
      BY <2>2, <3>3
  <2>9. Rateable(k) =>
          (k \in DeclinedKeys <=> (IF HasPolicy THEN p.tier ELSE book[i].tier) = "decline")
    BY <1>3, <2>2 DEF DeclinedKeys, GoodKeys
  <2>10. ASSUME ~Rateable(k) PROVE stored[i].status = "error"
    <3>1. stored[i] = [status |-> "error", premium |-> None, tier |-> None]
      BY <1>1, <2>6, <2>10 DEF Stored
    <3>2. QED
      BY <3>1
  <2>11. QED
    BY <1>4, <2>4, <2>5, <2>8, <2>9, <2>10 DEF k
<1>6. /\ {m[i] : i \in Numbers} = Keys /\ DOMAIN Entries = Numbers /\ IsFiniteSet(Numbers)
      /\ \A i \in Numbers : m[i] = RowKey(i)
      /\ \A i, j \in Numbers : m[i] = m[j] => i = j
  <2>1. \A i : KeyOf(i) = RowKey(i)
    BY DEF KeyOf
  <2>2. QED
    BY <1>1, <1>2, <1>4, <2>1, Kept DEF Keys, RowKey
<1>7. /\ \A i \in Numbers : Entries[i].error <=> ~Rateable(m[i])
      /\ \A i \in Numbers : Rateable(m[i]) =>
           /\ Entries[i].premium = Filed(m[i]) /\ Filed(m[i]) \in Int
           /\ Entries[i].tier = "decline" <=> m[i] \in DeclinedKeys
  BY <1>5, <1>6
<1>8. QED
  BY <1>1, <1>6, <1>7, EntriesAddUp

\* The two cases cover every book.
LEMMA TotalsFiled == IInv => TotalsAreFiled
<1> SUFFICES ASSUME IInv, phase = "done", SumsThePremium
             PROVE  /\ summary.written = SumFunction([k \in GoodKeys \ DeclinedKeys |-> Filed(k)])
                    /\ summary.indicative = SumFunction([k \in DeclinedKeys |-> Filed(k)])
  <2>1. DeclinedKeys = {k \in GoodKeys : ~NothingToCompose /\ policies[k].tier = "decline"}
          \cup {k \in GoodKeys : NothingToCompose /\ book[k.row].tier = "decline"}
    BY DEF DeclinedKeys
  <2>2. QED
    BY <2>1 DEF TotalsAreFiled, SumsThePremium, GoodKeys
<1>1. summary.written = SumEntries(FALSE) /\ summary.indicative = SumEntries(TRUE)
  <2>1. /\ SummarizeBook.written = SumEntries(FALSE)
        /\ SummarizeBook.indicative = SumEntries(TRUE)
    BY DEF SummarizeBook
  <2>2. QED
    BY <2>1, Finished
<1>2. QED
  BY <1>1, GroupedTotals, UngroupedTotals

\* The written and the indicative total of a finished book add up the filed
\* premium of each policy that can be rated, once, for every book whose
\* mapping sums the premium of the plan (summarizeBook).
THEOREM TotalsAddUp == Spec => []TotalsAreFiled
BY AlwaysIInv, TotalsFiled, PTL
=============================================================================
