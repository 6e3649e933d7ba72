----------------------------- MODULE Stock_proofs -----------------------------
(***************************************************************************)
(* Sums over finite sets, and what the statements of Stock do to the sums   *)
(* of quantities.                                                           *)
(*                                                                         *)
(* SumFunction of the community modules is a recursive function.  That it   *)
(* exists and does not depend on the order in which the elements are taken  *)
(* is proved here by minimal counterexamples: a non-empty set of subsets of *)
(* a finite set has a minimal element (FiniteMinimal, from the library's    *)
(* theorem that strict inclusion is well founded on finite sets).           *)
(***************************************************************************)
EXTENDS Stock, FiniteSetTheorems, TLAPS

(* A non-empty set of subsets of a finite set has a minimal element.        *)
LEMMA FiniteMinimal ==
  ASSUME NEW S, IsFiniteSet(S), NEW T, T \subseteq SUBSET S, T # {}
  PROVE  \E x \in T : \A y \in T : y \subseteq x => y = x
<1>1. IsWellFoundedOn(StrictSubsetOrdering(S), SUBSET S)
  BY FS_StrictSubsetOrderingWellFounded, FS_FiniteSubsetsOfFinite
<1>2. PICK x \in T : \A y \in T : <<y, x>> \notin StrictSubsetOrdering(S)
  BY <1>1, WFMin
<1>3. ASSUME NEW y \in T, y \subseteq x
      PROVE  y = x
  BY <1>2, <1>3 DEF StrictSubsetOrdering
<1> QED
  BY <1>3

-----------------------------------------------------------------------------
(* The recursive function behind SumFunction.                               *)

AnyOf(s) == CHOOSE x \in s : TRUE

(* What g has to be at s, g being known on smaller sets.                    *)
SumStep(w, g, s) == IF s = {} THEN 0 ELSE w[AnyOf(s)] + g[s \ {AnyOf(s)}]

(* g maps every subset of S to the sum of its weights.                      *)
IsSum(w, g, S) == g = [s \in SUBSET S |-> SumStep(w, g, s)]

SumOf(w, S) == CHOOSE g : IsSum(w, g, S)

(* SumFunctionOnSet of the community modules is SumOf at the whole set.     *)
LEMMA SumDefinition ==
  ASSUME NEW w, NEW S
  PROVE  SumFunctionOnSet(w, S) = SumOf(w, S)[S]
  BY DEF SumFunctionOnSet, FoldFunctionOnSet, MapThenFoldSet, SumOf, IsSum, SumStep, AnyOf

(* The element a fold takes first is one of the set.                        *)
LEMMA AnyOfIn ==
  ASSUME NEW s, s # {}
  PROVE  AnyOf(s) \in s
  BY DEF AnyOf

(* Two such functions agree where both are defined.                         *)
LEMMA SumsAgree ==
  ASSUME NEW w, NEW S, IsFiniteSet(S), NEW T, NEW g, NEW h,
         IsSum(w, g, S), IsSum(w, h, T), NEW U, U \subseteq S, U \subseteq T
  PROVE  g[U] = h[U]
<1> DEFINE Bad == {V \in SUBSET S : V \subseteq T /\ g[V] # h[V]}
<1>1. SUFFICES ASSUME Bad # {} PROVE FALSE
  OBVIOUS
<1>2. PICK V \in Bad : \A W \in Bad : W \subseteq V => W = V
  <2>1. Bad \subseteq SUBSET S
    OBVIOUS
  <2> HIDE DEF Bad
  <2> QED
    BY <1>1, <2>1, FiniteMinimal
<1>3. g[V] = SumStep(w, g, V) /\ h[V] = SumStep(w, h, V)
  BY DEF IsSum
<1>4. V # {}
  BY <1>3 DEF SumStep
<1>5. AnyOf(V) \in V
  BY <1>4, AnyOfIn
<1>6. g[V \ {AnyOf(V)}] = h[V \ {AnyOf(V)}]
  BY <1>2, <1>5
<1> QED
  BY <1>3, <1>4, <1>6 DEF SumStep

(* The function exists: from the sums of all smaller sets the sum of a set  *)
(* is made.                                                                 *)
LEMMA SumExists ==
  ASSUME NEW w, NEW S, IsFiniteSet(S)
  PROVE  IsSum(w, SumOf(w, S), S)
<1> DEFINE Bad == {V \in SUBSET S : ~ IsSum(w, SumOf(w, V), V)}
<1>1. SUFFICES ASSUME Bad # {} PROVE FALSE
  OBVIOUS
<1>2. PICK U \in Bad : \A W \in Bad : W \subseteq U => W = U
  <2>1. Bad \subseteq SUBSET S
    OBVIOUS
  <2> HIDE DEF Bad
  <2> QED
    BY <1>1, <2>1, FiniteMinimal
<1> DEFINE v(V) == SumOf(w, V)[V]
           g == [s \in SUBSET U |-> IF s = {} THEN 0 ELSE w[AnyOf(s)] + v(s \ {AnyOf(s)})]
<1>3. ASSUME NEW V \in SUBSET U, V # U
      PROVE  g[V] = v(V)
  <2>1. IsSum(w, SumOf(w, V), V)
    BY <1>2, <1>3
  <2>2. v(V) = SumStep(w, SumOf(w, V), V)
    BY <2>1 DEF IsSum
  <2>3. CASE V = {}
    BY <2>2, <2>3 DEF SumStep
  <2>4. CASE V # {}
    <3> DEFINE W == V \ {AnyOf(V)}
    <3>1. AnyOf(V) \in V
      BY <2>4, AnyOfIn
    <3>2. IsSum(w, SumOf(w, W), W)
      BY <1>2, <1>3, <3>1
    <3>3. IsFiniteSet(V)
      BY FS_Subset
    <3>4. SumOf(w, V)[W] = v(W)
      BY <2>1, <3>2, <3>3, SumsAgree
    <3> QED
      BY <2>2, <2>4, <3>4 DEF SumStep
  <2> QED
    BY <2>3, <2>4
<1>4. ASSUME NEW s \in SUBSET U
      PROVE  g[s] = SumStep(w, g, s)
  <2>1. CASE s # {}
    <3>1. AnyOf(s) \in s
      BY <2>1, AnyOfIn
    <3>2. g[s \ {AnyOf(s)}] = v(s \ {AnyOf(s)})
      BY <1>3, <3>1
    <3> QED
      BY <2>1, <3>2 DEF SumStep
  <2> QED
    BY <2>1 DEF SumStep
<1>5. IsSum(w, g, U)
  BY <1>4 DEF IsSum
<1>6. IsSum(w, SumOf(w, U), U)
  BY <1>5 DEF SumOf
<1> QED
  BY <1>6

-----------------------------------------------------------------------------
(* Sums without their recursion.                                            *)

(* The empty sum.                                                           *)
LEMMA SumEmpty == ASSUME NEW w PROVE SumFunctionOnSet(w, {}) = 0
<1>1. IsSum(w, SumOf(w, {}), {})
  BY SumExists, FS_EmptySet
<1>2. SumOf(w, {})[{}] = 0
  BY <1>1 DEF IsSum, SumStep
<1> QED
  BY <1>2, SumDefinition

(* One element, the one the recursion takes, and the rest.                  *)
LEMMA SumAnyOf ==
  ASSUME NEW w, NEW S, IsFiniteSet(S), S # {}
  PROVE  /\ AnyOf(S) \in S
         /\ SumFunctionOnSet(w, S) = w[AnyOf(S)] + SumFunctionOnSet(w, S \ {AnyOf(S)})
<1> DEFINE T == S \ {AnyOf(S)}
<1>1. AnyOf(S) \in S /\ T \subseteq S /\ IsFiniteSet(T)
  BY AnyOfIn, FS_Subset
<1>2. IsSum(w, SumOf(w, S), S) /\ IsSum(w, SumOf(w, T), T)
  BY <1>1, SumExists
<1>3. SumOf(w, S)[S] = w[AnyOf(S)] + SumOf(w, S)[T]
  BY <1>2 DEF IsSum, SumStep
<1>4. SumOf(w, S)[T] = SumOf(w, T)[T]
  <2> HIDE DEF T
  <2>1. T \subseteq T
    OBVIOUS
  <2> QED
    BY <1>1, <1>2, <2>1, SumsAgree
<1> QED
  BY <1>1, <1>3, <1>4, SumDefinition

(* A sum of integers is an integer, of naturals a natural.                  *)
LEMMA SumType ==
  ASSUME NEW w, NEW S, IsFiniteSet(S), NEW N, N \in {Nat, Int}, \A x \in S : w[x] \in N
  PROVE  SumFunctionOnSet(w, S) \in N
<1> DEFINE Bad == {V \in SUBSET S : SumFunctionOnSet(w, V) \notin N}
<1>1. SUFFICES ASSUME Bad # {} PROVE FALSE
  OBVIOUS
<1>2. PICK V \in Bad : \A W \in Bad : W \subseteq V => W = V
  <2>1. Bad \subseteq SUBSET S
    OBVIOUS
  <2> HIDE DEF Bad
  <2> QED
    BY <1>1, <2>1, FiniteMinimal
<1>3. V # {}
  BY SumEmpty
<1>4. /\ AnyOf(V) \in V
      /\ SumFunctionOnSet(w, V) = w[AnyOf(V)] + SumFunctionOnSet(w, V \ {AnyOf(V)})
  BY <1>3, SumAnyOf, FS_Subset
<1>5. SumFunctionOnSet(w, V \ {AnyOf(V)}) \in N
  BY <1>2, <1>4
<1>6. w[AnyOf(V)] \in N
  BY <1>4
<1> QED
  BY <1>4, <1>5, <1>6

(* Any element and the rest: the order does not matter.                     *)
LEMMA SumRemove ==
  ASSUME NEW w, NEW S, IsFiniteSet(S), \A x \in S : w[x] \in Int, NEW x \in S
  PROVE  SumFunctionOnSet(w, S) = w[x] + SumFunctionOnSet(w, S \ {x})
<1> DEFINE Bad == {V \in SUBSET S : \E y \in V :
                     SumFunctionOnSet(w, V) # w[y] + SumFunctionOnSet(w, V \ {y})}
<1>1. SUFFICES ASSUME Bad # {} PROVE FALSE
  OBVIOUS
<1>2. PICK V \in Bad : \A W \in Bad : W \subseteq V => W = V
  <2>1. Bad \subseteq SUBSET S
    OBVIOUS
  <2> HIDE DEF Bad
  <2> QED
    BY <1>1, <2>1, FiniteMinimal
<1>3. PICK y \in V : SumFunctionOnSet(w, V) # w[y] + SumFunctionOnSet(w, V \ {y})
  OBVIOUS
<1> DEFINE z == AnyOf(V)
<1>4. z \in V /\ SumFunctionOnSet(w, V) = w[z] + SumFunctionOnSet(w, V \ {z})
  BY SumAnyOf, FS_Subset
<1>5. z # y
  BY <1>3, <1>4
<1>6. SumFunctionOnSet(w, V \ {z}) = w[y] + SumFunctionOnSet(w, (V \ {z}) \ {y})
  BY <1>2, <1>4, <1>5
<1>7. SumFunctionOnSet(w, V \ {y}) = w[z] + SumFunctionOnSet(w, (V \ {y}) \ {z})
  BY <1>2, <1>4, <1>5
<1>8. SumFunctionOnSet(w, (V \ {y}) \ {z}) = SumFunctionOnSet(w, (V \ {z}) \ {y})
  <2>1. (V \ {y}) \ {z} = (V \ {z}) \ {y}
    OBVIOUS
  <2> QED
    BY <2>1
<1>9. /\ w[y] \in Int /\ w[z] \in Int
      /\ SumFunctionOnSet(w, (V \ {z}) \ {y}) \in Int
  <2>1. IsFiniteSet((V \ {z}) \ {y})
    BY FS_Subset
  <2> QED
    BY <1>4, <2>1, SumType
<1> HIDE DEF z
<1> QED
  BY <1>3, <1>4, <1>6, <1>7, <1>8, <1>9

(* Only the weights of the elements count.                                  *)
LEMMA SumEqual ==
  ASSUME NEW w, NEW h, NEW S, IsFiniteSet(S), \A x \in S : w[x] = h[x]
  PROVE  SumFunctionOnSet(w, S) = SumFunctionOnSet(h, S)
<1> DEFINE Bad == {V \in SUBSET S : SumFunctionOnSet(w, V) # SumFunctionOnSet(h, V)}
<1>1. SUFFICES ASSUME Bad # {} PROVE FALSE
  OBVIOUS
<1>2. PICK V \in Bad : \A W \in Bad : W \subseteq V => W = V
  <2>1. Bad \subseteq SUBSET S
    OBVIOUS
  <2> HIDE DEF Bad
  <2> QED
    BY <1>1, <2>1, FiniteMinimal
<1>3. V # {}
  BY SumEmpty
<1>4. /\ AnyOf(V) \in V
      /\ SumFunctionOnSet(w, V) = w[AnyOf(V)] + SumFunctionOnSet(w, V \ {AnyOf(V)})
      /\ SumFunctionOnSet(h, V) = h[AnyOf(V)] + SumFunctionOnSet(h, V \ {AnyOf(V)})
  BY <1>3, SumAnyOf, FS_Subset
<1>5. SumFunctionOnSet(w, V \ {AnyOf(V)}) = SumFunctionOnSet(h, V \ {AnyOf(V)})
  BY <1>2, <1>4
<1> QED
  BY <1>4, <1>5

(* Two disjoint sets.                                                       *)
LEMMA SumUnion ==
  ASSUME NEW w, NEW S, NEW T, IsFiniteSet(S), IsFiniteSet(T), S \cap T = {},
         \A x \in S \cup T : w[x] \in Int
  PROVE  SumFunctionOnSet(w, S \cup T) = SumFunctionOnSet(w, S) + SumFunctionOnSet(w, T)
<1> DEFINE Bad == {V \in SUBSET S :
                     SumFunctionOnSet(w, V \cup T) # SumFunctionOnSet(w, V) + SumFunctionOnSet(w, T)}
<1>1. SUFFICES ASSUME Bad # {} PROVE FALSE
  OBVIOUS
<1>2. PICK V \in Bad : \A W \in Bad : W \subseteq V => W = V
  <2>1. Bad \subseteq SUBSET S
    OBVIOUS
  <2> HIDE DEF Bad
  <2> QED
    BY <1>1, <2>1, FiniteMinimal
<1>3. IsFiniteSet(V) /\ IsFiniteSet(V \cup T)
  BY FS_Subset, FS_Union
<1>4. V # {}
  <2>1. SUFFICES ASSUME V = {} PROVE FALSE
    OBVIOUS
  <2>2. V \cup T = T
    BY <2>1
  <2>3. SumFunctionOnSet(w, V \cup T) = SumFunctionOnSet(w, T) /\ SumFunctionOnSet(w, V) = 0
    BY <2>1, <2>2, SumEmpty
  <2>4. SumFunctionOnSet(w, T) \in Int
    BY SumType
  <2> QED
    BY <2>3, <2>4
<1>5. PICK x \in V : TRUE
  BY <1>4
<1>6. /\ SumFunctionOnSet(w, V) = w[x] + SumFunctionOnSet(w, V \ {x})
      /\ SumFunctionOnSet(w, V \cup T) = w[x] + SumFunctionOnSet(w, (V \cup T) \ {x})
  BY <1>3, SumRemove
<1>7. SumFunctionOnSet(w, (V \cup T) \ {x}) = SumFunctionOnSet(w, (V \ {x}) \cup T)
  <2>1. (V \cup T) \ {x} = (V \ {x}) \cup T
    OBVIOUS
  <2> QED
    BY <2>1
<1>8. SumFunctionOnSet(w, (V \ {x}) \cup T) = SumFunctionOnSet(w, V \ {x}) + SumFunctionOnSet(w, T)
  BY <1>2, <1>5
<1>9. IsFiniteSet(V \ {x})
  BY <1>3, FS_Subset
<1>10. w[x] \in Int /\ SumFunctionOnSet(w, V \ {x}) \in Int /\ SumFunctionOnSet(w, T) \in Int
  BY <1>5, <1>9, SumType
<1>11. SumFunctionOnSet(w, V \cup T) # SumFunctionOnSet(w, V) + SumFunctionOnSet(w, T)
  OBVIOUS
<1> HIDE DEF Bad
<1> QED
  BY <1>6, <1>7, <1>8, <1>10, <1>11

(* The elements under other names.                                          *)
LEMMA SumRename ==
  ASSUME NEW w, NEW h, NEW S, NEW T, IsFiniteSet(S), IsFiniteSet(T),
         NEW m \in [S -> T], \A y \in T : \E x \in S : m[x] = y,
         \A x, y \in S : m[x] = m[y] => x = y,
         \A x \in S : w[x] \in Int /\ h[m[x]] = w[x]
  PROVE  SumFunctionOnSet(w, S) = SumFunctionOnSet(h, T)
<1> DEFINE Image(V) == {m[x] : x \in V}
           Bad == {V \in SUBSET S : SumFunctionOnSet(w, V) # SumFunctionOnSet(h, Image(V))}
<1>1. Image(S) = T
  OBVIOUS
<1>2. SUFFICES ASSUME Bad # {} PROVE FALSE
  BY <1>1
<1>3. PICK V \in Bad : \A W \in Bad : W \subseteq V => W = V
  <2>1. Bad \subseteq SUBSET S
    OBVIOUS
  <2> HIDE DEF Bad
  <2> QED
    BY <1>2, <2>1, FiniteMinimal
<1>4. IsFiniteSet(V) /\ IsFiniteSet(Image(V))
  BY FS_Subset
<1>5. V # {}
  <2>1. V = {} => Image(V) = {}
    OBVIOUS
  <2> QED
    BY <2>1, SumEmpty
<1>6. PICK x \in V : TRUE
  BY <1>5
<1>7. SumFunctionOnSet(w, V) = w[x] + SumFunctionOnSet(w, V \ {x})
  BY <1>4, SumRemove
<1>8. SumFunctionOnSet(h, Image(V)) = h[m[x]] + SumFunctionOnSet(h, Image(V) \ {m[x]})
  <2>1. m[x] \in Image(V) /\ \A y \in Image(V) : h[y] \in Int
    OBVIOUS
  <2> HIDE DEF Image
  <2> QED
    BY <1>4, <2>1, SumRemove
<1>9. Image(V) \ {m[x]} = Image(V \ {x})
  OBVIOUS
<1>10. SumFunctionOnSet(w, V \ {x}) = SumFunctionOnSet(h, Image(V \ {x}))
  BY <1>3, <1>6
<1>11. h[m[x]] = w[x] /\ SumFunctionOnSet(w, V) # SumFunctionOnSet(h, Image(V))
  BY <1>6
<1> HIDE DEF Bad, Image
<1> QED
  BY <1>7, <1>8, <1>9, <1>10, <1>11

-----------------------------------------------------------------------------
(* The same for SumFunction, whose set is the domain of the weights.        *)

(* What x contributes.                                                      *)
Part(f, x) == IF x \in DOMAIN f THEN f[x] ELSE 0

(* A sum of natural numbers is natural, one of integers an integer.         *)
LEMMA TotalType ==
  ASSUME NEW f, IsFiniteSet(DOMAIN f), NEW N, N \in {Nat, Int}, \A x \in DOMAIN f : f[x] \in N
  PROVE  SumFunction(f) \in N
  BY SumType DEF SumFunction

(* The sum of a function without arguments.                                 *)
LEMMA TotalEmpty == ASSUME NEW f, DOMAIN f = {} PROVE SumFunction(f) = 0
  BY SumEmpty DEF SumFunction

(* Two functions that agree but on x: the sums differ by its part.          *)
LEMMA TotalChange ==
  ASSUME NEW f, NEW g, NEW x, IsFiniteSet(DOMAIN f), IsFiniteSet(DOMAIN g),
         \A y \in DOMAIN f : f[y] \in Int, \A y \in DOMAIN g : g[y] \in Int,
         (DOMAIN f) \ {x} = (DOMAIN g) \ {x},
         \A y \in (DOMAIN f) \ {x} : f[y] = g[y]
  PROVE  /\ SumFunction(g) = SumFunction(f) - Part(f, x) + Part(g, x)
         /\ SumFunction(f) \in Int /\ SumFunction(g) \in Int
<1> DEFINE T == (DOMAIN f) \ {x}
<1>1. IsFiniteSet(T)
  BY FS_Subset
<1>2. SumFunctionOnSet(f, T) = SumFunctionOnSet(g, T) /\ SumFunctionOnSet(f, T) \in Int
  BY <1>1, SumEqual, SumType
<1>3. SumFunction(f) = SumFunctionOnSet(f, T) + Part(f, x)
  <2>1. CASE x \in DOMAIN f
    BY <1>2, <2>1, SumRemove DEF SumFunction, Part
  <2>2. CASE x \notin DOMAIN f
    <3>1. DOMAIN f = T
      BY <2>2
    <3> QED
      BY <1>2, <2>2, <3>1 DEF SumFunction, Part
  <2> QED
    BY <2>1, <2>2
<1>4. SumFunction(g) = SumFunctionOnSet(g, T) + Part(g, x)
  <2>1. CASE x \in DOMAIN g
    BY <1>2, <2>1, SumRemove DEF SumFunction, Part
  <2>2. CASE x \notin DOMAIN g
    <3>1. DOMAIN g = T
      BY <2>2
    <3> QED
      BY <1>2, <2>2, <3>1 DEF SumFunction, Part
  <2> QED
    BY <2>1, <2>2
<1>5. Part(f, x) \in Int /\ Part(g, x) \in Int
  BY DEF Part
<1> QED
  BY <1>2, <1>3, <1>4, <1>5

(* One more element.                                                        *)
LEMMA TotalAdd ==
  ASSUME NEW f, NEW g, NEW x, IsFiniteSet(DOMAIN f), x \notin DOMAIN f,
         DOMAIN g = (DOMAIN f) \cup {x}, \A y \in DOMAIN g : g[y] \in Int,
         \A y \in DOMAIN f : f[y] = g[y]
  PROVE  /\ SumFunction(g) = SumFunction(f) + g[x]
         /\ SumFunction(f) \in Int /\ SumFunction(g) \in Int
<1>1. IsFiniteSet(DOMAIN g)
  BY FS_AddElement
<1>2. (DOMAIN f) \ {x} = (DOMAIN g) \ {x} /\ \A y \in DOMAIN f : f[y] \in Int
  OBVIOUS
<1>3. /\ SumFunction(g) = SumFunction(f) - Part(f, x) + Part(g, x)
      /\ SumFunction(f) \in Int /\ SumFunction(g) \in Int
  BY <1>1, <1>2, TotalChange
<1>4. Part(f, x) = 0 /\ Part(g, x) = g[x] /\ g[x] \in Int
  BY DEF Part
<1> QED
  BY <1>3, <1>4

(* A function whose domain falls into two parts.                            *)
LEMMA TotalSplit ==
  ASSUME NEW f, NEW A, NEW B, IsFiniteSet(A), IsFiniteSet(B), A \cap B = {},
         DOMAIN f = A \cup B, \A x \in A \cup B : f[x] \in Int
  PROVE  /\ SumFunction(f) = SumFunction([x \in A |-> f[x]]) + SumFunction([x \in B |-> f[x]])
         /\ SumFunction([x \in A |-> f[x]]) \in Int
         /\ SumFunction([x \in B |-> f[x]]) \in Int
<1>1. /\ SumFunctionOnSet([x \in A |-> f[x]], A) = SumFunctionOnSet(f, A)
      /\ SumFunctionOnSet([x \in B |-> f[x]], B) = SumFunctionOnSet(f, B)
  BY SumEqual
<1>2. SumFunctionOnSet(f, A) \in Int /\ SumFunctionOnSet(f, B) \in Int
  BY SumType
<1> QED
  BY <1>1, <1>2, SumUnion DEF SumFunction

-----------------------------------------------------------------------------
(* Stock.                                                                   *)

(* RowQuantities are never negative.                                           *)
LEMMA QuantityType ==
  ASSUME StockTypeOK, NEW R \in SUBSET Reservations, NEW c
  PROVE  QuantityAt(R, c) \in Nat
<1> DEFINE f == [r \in {x \in R : reservation[x].cell = c} |-> reservation[r].quantity]
<1>1. IsFiniteSet(DOMAIN f)
  BY StockConstants, FS_Subset
<1>2. \A x \in DOMAIN f : f[x] \in Nat
  BY DEF StockTypeOK, NoRow
<1>3. SumFunction(f) \in Nat
  <2> HIDE DEF f
  <2> QED
    BY <1>1, <1>2, TotalType
<1> QED
  BY <1>3 DEF QuantityAt

(* What the requests ask of a cell is a natural number.                     *)
LEMMA RequestedType ==
  ASSUME NEW requests, IsFiniteSet(requests), \A q \in requests : q.quantity \in Nat, NEW c
  PROVE  Requested(requests, c) \in Nat
<1> DEFINE f == [q \in {x \in requests : x.cell = c} |-> q.quantity]
<1>1. IsFiniteSet(DOMAIN f)
  BY FS_Subset
<1>2. \A x \in DOMAIN f : f[x] \in Nat
  OBVIOUS
<1>3. SumFunction(f) \in Nat
  <2> HIDE DEF f
  <2> QED
    BY <1>1, <1>2, TotalType
<1> QED
  BY <1>3 DEF Requested

(* What an active, or a fulfilled, row says.                                *)
RowQuantities(rows, st, c) ==
    [r \in {x \in Reservations : rows[x].status = st /\ rows[x].cell = c} |-> rows[r].quantity]

(* The quantity in a status at a cell as a sum over the rows, before and    *)
(* after a step.                                                            *)
LEMMA QuantityWithStatus ==
  ASSUME NEW st, NEW c
  PROVE  /\ QuantityAt(WithStatus(Reservations, st), c) = SumFunction(RowQuantities(reservation, st, c))
         /\ QuantityAt(WithStatus(Reservations, st), c)' = SumFunction(RowQuantities(reservation', st, c))
<1>1. {x \in WithStatus(Reservations, st) : reservation[x].cell = c}
        = {x \in Reservations : reservation[x].status = st /\ reservation[x].cell = c}
  BY DEF WithStatus
<1>2. {x \in WithStatus(Reservations, st)' : reservation'[x].cell = c}
        = {x \in Reservations : reservation'[x].status = st /\ reservation'[x].cell = c}
  BY DEF WithStatus
<1> QED
  BY <1>1, <1>2 DEF QuantityAt, RowQuantities

(* Requests that may be inserted together: each has its own key, of which   *)
(* there is no row.                                                         *)
NewKeys(requests) ==
    /\ IsFiniteSet(requests)
    /\ \A q \in requests :
         /\ q.id \in Reservations /\ ~ Exists(q)
         /\ q.cell \in Cells /\ q.quantity \in Nat \ {0}
    /\ \A q1, q2 \in requests : q1.id = q2.id => q1 = q2

(* Reservations inserted under new keys leave the rows that exist alone.    *)
LEMMA InsertedRows ==
  ASSUME StockTypeOK, NEW requests, NewKeys(requests), InsertReservations(requests)
  PROVE  /\ \A q \in requests :
              reservation'[q.id] = [status |-> "active", cell |-> q.cell, quantity |-> q.quantity]
         /\ \A r \in Reservations :
              (\A q \in requests : q.id # r) => reservation'[r] = reservation[r]
         /\ \A r \in Reservations :
              reservation[r].status # "absent" => reservation'[r] = reservation[r]
<1>1. \A q \in requests : (CHOOSE x \in requests : x.id = q.id) = q
  BY DEF NewKeys
<1>2. \A q \in requests :
        reservation'[q.id] = [status |-> "active", cell |-> q.cell, quantity |-> q.quantity]
  BY <1>1 DEF NewKeys, InsertReservations
<1>3. \A r \in Reservations : (\A q \in requests : q.id # r) => reservation'[r] = reservation[r]
  BY DEF InsertReservations
<1> QED
  BY <1>2, <1>3 DEF NewKeys, Exists

(* An insertion adds what is asked for to what is active.                   *)
LEMMA InsertStep ==
  ASSUME StockTypeOK, NEW requests, NewKeys(requests), InsertReservations(requests)
  PROVE  /\ StockTypeOK'
         /\ \A c \in Cells :
              /\ Requested(requests, c) \in Nat
              /\ QuantityAt(WithStatus(Reservations, "active"), c)'
                   = QuantityAt(WithStatus(Reservations, "active"), c) + Requested(requests, c)
              /\ QuantityAt(WithStatus(Reservations, "fulfilled"), c)'
                   = QuantityAt(WithStatus(Reservations, "fulfilled"), c)
<1>0. /\ \A q \in requests :
           reservation'[q.id] = [status |-> "active", cell |-> q.cell, quantity |-> q.quantity]
      /\ \A r \in Reservations :
           (\A q \in requests : q.id # r) => reservation'[r] = reservation[r]
      /\ \A r \in Reservations :
           reservation[r].status # "absent" => reservation'[r] = reservation[r]
  BY InsertedRows
<1>k. /\ IsFiniteSet(requests)
      /\ \A q \in requests :
           /\ q.id \in Reservations /\ reservation[q.id].status = "absent"
           /\ q.cell \in Cells /\ q.quantity \in Nat \ {0}
           /\ reservation'[q.id].status = "active"
           /\ reservation'[q.id].cell = q.cell
           /\ reservation'[q.id].quantity = q.quantity
      /\ \A q1, q2 \in requests : q1.id = q2.id => q1 = q2
  <2>1. /\ IsFiniteSet(requests)
        /\ \A q1, q2 \in requests : q1.id = q2.id => q1 = q2
    BY DEF NewKeys
  <2>2. ASSUME NEW q \in requests
        PROVE  /\ q.id \in Reservations /\ reservation[q.id].status = "absent"
               /\ q.cell \in Cells /\ q.quantity \in Nat \ {0}
    BY DEF NewKeys, Exists
  <2>3. ASSUME NEW q \in requests
        PROVE  /\ reservation'[q.id].status = "active"
               /\ reservation'[q.id].cell = q.cell
               /\ reservation'[q.id].quantity = q.quantity
    <3>1. reservation'[q.id] = [status |-> "active", cell |-> q.cell, quantity |-> q.quantity]
      BY <1>0
    <3> DEFINE a == q.cell
               b == q.quantity
    <3>2. reservation'[q.id] = [status |-> "active", cell |-> a, quantity |-> b]
      BY <3>1
    <3>3. /\ reservation'[q.id].status = "active"
          /\ reservation'[q.id].cell = a
          /\ reservation'[q.id].quantity = b
      <4> HIDE DEF a, b
      <4> QED
        BY <3>2
    <3> QED
      BY <3>3
  <2> QED
    BY <2>1, <2>2, <2>3
<1>1. \A c \in Cells : Requested(requests, c) \in Nat
  BY <1>k, RequestedType
<1>2. StockTypeOK'
  <2>1. \A r \in Reservations :
          reservation'[r] = reservation[r] \/
          \E q \in requests :
             reservation'[r] = [status |-> "active", cell |-> q.cell, quantity |-> q.quantity]
    BY <1>0
  <2>2. ASSUME NEW r \in Reservations
        PROVE  reservation'[r] \in
          {NoRow} \cup [status : {"active", "released", "fulfilled"}, cell : Cells, quantity : Nat \ {0}]
    <3>1. CASE reservation'[r] = reservation[r]
      BY <3>1 DEF StockTypeOK
    <3>2. ASSUME NEW q \in requests,
                 reservation'[r] = [status |-> "active", cell |-> q.cell, quantity |-> q.quantity]
          PROVE  reservation'[r] \in
                   [status : {"active", "released", "fulfilled"}, cell : Cells, quantity : Nat \ {0}]
      <4>1. q.cell \in Cells /\ q.quantity \in Nat \ {0}
        BY <1>k
      <4> QED
        BY <3>2, <4>1
    <3> QED
      BY <2>1, <3>1, <3>2
  <2>3. reservation' \in [Reservations ->
          {NoRow} \cup [status : {"active", "released", "fulfilled"}, cell : Cells, quantity : Nat \ {0}]]
    BY <2>2 DEF InsertReservations
  <2> QED
    BY <1>1, <2>3 DEF StockTypeOK, InsertReservations
<1>3. ASSUME NEW c \in Cells
      PROVE  QuantityAt(WithStatus(Reservations, "active"), c)'
               = QuantityAt(WithStatus(Reservations, "active"), c) + Requested(requests, c)
  <2> DEFINE f == RowQuantities(reservation, "active", c)
             g == RowQuantities(reservation', "active", c)
             A == DOMAIN f
             here == {q \in requests : q.cell = c}
             B == {q.id : q \in here}
             w == [q \in here |-> q.quantity]
             h == [x \in B |-> g[x]]
  <2>1. A \subseteq Reservations /\ B \subseteq Reservations
    BY <1>k DEF RowQuantities
  <2>2. IsFiniteSet(A) /\ IsFiniteSet(B) /\ IsFiniteSet(here)
    BY <1>k, <2>1, StockConstants, FS_Subset
  <2>3. A \cap B = {} /\ DOMAIN g = A \cup B
    BY <1>0, <1>k DEF RowQuantities
  <2>4. \A x \in A \cup B : g[x] \in Int
    BY <1>2, <2>3 DEF RowQuantities, StockTypeOK, NoRow
  <2>5. [x \in A |-> g[x]] = f
    BY <1>0, <2>3 DEF RowQuantities
  <2>6. SumFunction(g) = SumFunction(f) + SumFunction(h)
    <3> HIDE DEF f, g, A, B, h
    <3>1. SumFunction(g) = SumFunction([x \in A |-> g[x]]) + SumFunction([x \in B |-> g[x]])
      BY <2>2, <2>3, <2>4, TotalSplit
    <3> QED
      BY <2>5, <3>1 DEF h
  <2>7. SumFunction(w) = SumFunction(h)
    <3> DEFINE m == [q \in here |-> q.id]
    <3>1. /\ m \in [here -> B] /\ \A y \in B : \E x \in here : m[x] = y
          /\ \A x, y \in here : m[x] = m[y] => x = y
      BY <1>k
    <3>2. \A q \in here : w[q] \in Int /\ h[m[q]] = w[q]
      <4>1. \A q \in here : q.id \in B /\ h[q.id] = reservation'[q.id].quantity
        BY <2>3 DEF RowQuantities
      <4> QED
        BY <1>k, <4>1
    <3>3. DOMAIN w = here /\ DOMAIN h = B
      OBVIOUS
    <3> HIDE DEF m, w, h, B, here
    <3> QED
      BY <2>2, <3>1, <3>2, <3>3, SumRename DEF SumFunction
  <2>8. SumFunction(w) = Requested(requests, c)
    BY DEF Requested
  <2> HIDE DEF f, g, w, h
  <2> QED
    BY <2>6, <2>7, <2>8, QuantityWithStatus DEF f, g
<1>4. ASSUME NEW c \in Cells
      PROVE  QuantityAt(WithStatus(Reservations, "fulfilled"), c)'
               = QuantityAt(WithStatus(Reservations, "fulfilled"), c)
  <2>1. \A r \in Reservations :
          \/ reservation'[r] = reservation[r]
          \/ reservation[r].status = "absent" /\ reservation'[r].status = "active"
    <3>1. ASSUME NEW r \in Reservations, NEW q \in requests, q.id = r
          PROVE  reservation[r].status = "absent" /\ reservation'[r].status = "active"
      BY <1>k, <3>1
    <3> QED
      BY <1>0, <3>1
  <2>2. RowQuantities(reservation', "fulfilled", c) = RowQuantities(reservation, "fulfilled", c)
    BY <2>1 DEF RowQuantities
  <2> QED
    BY <2>2, QuantityWithStatus
<1> QED
  BY <1>1, <1>2, <1>3, <1>4

(* Closing takes what was open out of what is active; a fulfilment adds it  *)
(* to what is fulfilled, and rows that have ended stay as they are.         *)
LEMMA CloseStep ==
  ASSUME StockTypeOK, NEW R \in SUBSET Reservations, NEW st \in {"released", "fulfilled"},
         SetStatus(WithStatus(R, "active"), st)
  PROVE  /\ reservation' \in
              [Reservations -> {NoRow} \cup [status : {"active", "released", "fulfilled"},
                                             cell : Cells, quantity : Nat \ {0}]]
         /\ \A r \in WithStatus(R, "active") :
              reservation'[r] = [reservation[r] EXCEPT !.status = st]
         /\ \A r \in Reservations \ WithStatus(R, "active") : reservation'[r] = reservation[r]
         /\ \A c \in Cells :
              /\ QuantityAt(WithStatus(R, "active"), c) \in Nat
              /\ QuantityAt(WithStatus(Reservations, "active"), c)'
                   = QuantityAt(WithStatus(Reservations, "active"), c)
                       - QuantityAt(WithStatus(R, "active"), c)
              /\ QuantityAt(WithStatus(Reservations, "fulfilled"), c)'
                   = QuantityAt(WithStatus(Reservations, "fulfilled"), c)
                       + (IF st = "fulfilled" THEN QuantityAt(WithStatus(R, "active"), c) ELSE 0)
<1> DEFINE open == WithStatus(R, "active")
<1>0. open \subseteq Reservations /\ \A r \in open : reservation[r].status = "active"
  BY DEF WithStatus
<1>1. /\ DOMAIN reservation' = Reservations
      /\ \A r \in open : reservation'[r] = [reservation[r] EXCEPT !.status = st]
      /\ \A r \in Reservations \ open : reservation'[r] = reservation[r]
  <2>1. SetStatus(open, st)
    OBVIOUS
  <2> HIDE DEF open
  <2> QED
    BY <1>0, <2>1 DEF SetStatus
<1>2. ASSUME NEW r \in open
      PROVE  /\ reservation[r] \in [status : {"active", "released", "fulfilled"},
                                     cell : Cells, quantity : Nat \ {0}]
             /\ reservation'[r] \in [status : {"active", "released", "fulfilled"},
                                      cell : Cells, quantity : Nat \ {0}]
             /\ reservation'[r].status = st
             /\ reservation'[r].cell = reservation[r].cell
             /\ reservation'[r].quantity = reservation[r].quantity
  <2>1. reservation[r] \in [status : {"active", "released", "fulfilled"},
                            cell : Cells, quantity : Nat \ {0}]
    BY <1>0 DEF StockTypeOK, NoRow
  <2>2. reservation'[r] = [reservation[r] EXCEPT !.status = st]
    BY <1>1
  <2> HIDE DEF open
  <2> QED
    BY <2>1, <2>2
<1>3. \A r \in Reservations \ open :
        reservation'[r] \in {NoRow} \cup [status : {"active", "released", "fulfilled"},
                                          cell : Cells, quantity : Nat \ {0}]
  BY <1>1 DEF StockTypeOK
<1>4. reservation' \in
        [Reservations -> {NoRow} \cup [status : {"active", "released", "fulfilled"},
                                       cell : Cells, quantity : Nat \ {0}]]
  <2> HIDE DEF open
  <2>1. \A r \in Reservations :
          reservation'[r] \in {NoRow} \cup [status : {"active", "released", "fulfilled"},
                                            cell : Cells, quantity : Nat \ {0}]
    BY <1>2, <1>3
  <2>2. reservation' = [r \in Reservations |-> reservation'[r]]
    BY DEF SetStatus
  <2> QED
    BY <2>1, <2>2
<1>5. ASSUME NEW c \in Cells
      PROVE  /\ QuantityAt(open, c) \in Nat
             /\ QuantityAt(WithStatus(Reservations, "active"), c)'
                  = QuantityAt(WithStatus(Reservations, "active"), c) - QuantityAt(open, c)
             /\ QuantityAt(WithStatus(Reservations, "fulfilled"), c)'
                  = QuantityAt(WithStatus(Reservations, "fulfilled"), c)
                      + (IF st = "fulfilled" THEN QuantityAt(open, c) ELSE 0)
  <2> DEFINE f == RowQuantities(reservation, "active", c)
             g == RowQuantities(reservation', "active", c)
             A == DOMAIN g
             B == {r \in open : reservation[r].cell = c}
             F == RowQuantities(reservation, "fulfilled", c)
             G == RowQuantities(reservation', "fulfilled", c)
             C == DOMAIN F
  <2>1. IsFiniteSet(A) /\ IsFiniteSet(B) /\ IsFiniteSet(C)
    <3>1. A \subseteq Reservations /\ B \subseteq Reservations /\ C \subseteq Reservations
      BY <1>0 DEF RowQuantities
    <3> HIDE DEF A, B, C
    <3> QED
      BY <3>1, StockConstants, FS_Subset
  <2>2. A \cap B = {} /\ C \cap B = {}
    BY <1>0, <1>2 DEF RowQuantities
  <2>3. DOMAIN f = A \cup B
    BY <1>0, <1>1, <1>2 DEF RowQuantities
  <2>4. \A x \in A \cup B : f[x] \in Int
    BY <1>0, <2>3 DEF RowQuantities, StockTypeOK, NoRow
  <2>5. [x \in A |-> f[x]] = g
    BY <1>1, <1>2, <2>3 DEF RowQuantities
  <2>6. [x \in B |-> f[x]] = [x \in B |-> reservation[x].quantity]
    BY <2>3 DEF RowQuantities
  <2>7. SumFunction([x \in B |-> reservation[x].quantity]) = QuantityAt(open, c)
    BY DEF QuantityAt
  <2>8. QuantityAt(open, c) \in Nat
    BY <1>0, QuantityType
  <2>9. /\ SumFunction(f) = SumFunction(g) + QuantityAt(open, c)
        /\ SumFunction(f) \in Int /\ SumFunction(g) \in Int
    <3> HIDE DEF f, g, A, B, open
    <3>1. /\ SumFunction(f) = SumFunction([x \in A |-> f[x]]) + SumFunction([x \in B |-> f[x]])
          /\ SumFunction([x \in A |-> f[x]]) \in Int
          /\ SumFunction([x \in B |-> f[x]]) \in Int
      BY <2>1, <2>2, <2>3, <2>4, TotalSplit
    <3> QED
      BY <2>5, <2>6, <2>7, <3>1
  <2>10. CASE st = "released"
    <3>1. G = F
      BY <1>0, <1>1, <1>2, <2>10 DEF RowQuantities
    <3>2. SumFunction(F) \in Int
      <4>1. \A x \in DOMAIN F : F[x] \in Int
        BY DEF RowQuantities, StockTypeOK, NoRow
      <4> HIDE DEF F
      <4> QED
        BY <2>1, <4>1, TotalType
    <3> HIDE DEF f, g, F, G, open
    <3> QED
      BY <2>8, <2>9, <2>10, <3>1, <3>2, QuantityWithStatus DEF f, g, F, G
  <2>11. CASE st = "fulfilled"
    <3>1. DOMAIN G = C \cup B
      BY <1>0, <1>1, <1>2, <2>11 DEF RowQuantities
    <3>2. \A x \in C \cup B : G[x] \in Int
      BY <1>4, <3>1 DEF RowQuantities, NoRow
    <3>3. [x \in C |-> G[x]] = F
      BY <1>0, <1>1, <1>2, <3>1 DEF RowQuantities
    <3>4. [x \in B |-> G[x]] = [x \in B |-> reservation[x].quantity]
      BY <1>2, <3>1 DEF RowQuantities
    <3>5. SumFunction(G) = SumFunction(F) + QuantityAt(open, c)
      <4> HIDE DEF F, G, C, B, open
      <4>1. SumFunction(G) = SumFunction([x \in C |-> G[x]]) + SumFunction([x \in B |-> G[x]])
        BY <2>1, <2>2, <3>1, <3>2, TotalSplit
      <4> QED
        BY <2>7, <3>3, <3>4, <4>1
    <3> HIDE DEF f, g, F, G, open
    <3> QED
      BY <2>8, <2>9, <2>11, <3>5, QuantityWithStatus DEF f, g, F, G
  <2> QED
    BY <2>10, <2>11
<1> QED
  BY <1>1, <1>4, <1>5

-----------------------------------------------------------------------------
(* What every statement keeps: the types, and that what is reserved is the  *)
(* sum of the active rows and is on hand.                                   *)
StockInv == StockTypeOK /\ ReservedIsBacked

(* What a step may do to a row, once it is there.                           *)
RowsMove ==
    \A r \in Reservations :
      /\ reservation[r].status # "absent" =>
           /\ reservation'[r].status # "absent"
           /\ reservation'[r].cell = reservation[r].cell
           /\ reservation'[r].quantity = reservation[r].quantity
      /\ reservation[r].status \in {"released", "fulfilled"} => reservation'[r] = reservation[r]

(* Without rows nothing is reserved.                                        *)
LEMMA StockStart ==
  ASSUME StockInit
  PROVE  /\ StockInv
         /\ \A st \in {"active", "fulfilled"}, c \in Cells :
              QuantityAt(WithStatus(Reservations, st), c) = 0
<1>1. StockTypeOK
  BY DEF StockInit, StockTypeOK
<1>2. ASSUME NEW st \in {"active", "fulfilled"}, NEW c \in Cells
      PROVE  QuantityAt(WithStatus(Reservations, st), c) = 0
  <2>1. DOMAIN RowQuantities(reservation, st, c) = {}
    BY DEF StockInit, NoRow, RowQuantities
  <2> QED
    BY <2>1, TotalEmpty, QuantityWithStatus
<1> QED
  BY <1>1, <1>2 DEF StockInv, ReservedIsBacked, StockInit

(* A step that leaves the stock alone.                                      *)
LEMMA StockUnchanged ==
  ASSUME StockInv, UNCHANGED stockVars
  PROVE  StockInv' /\ RowsMove
  BY DEF StockInv, StockTypeOK, ReservedIsBacked, QuantityAt, WithStatus, stockVars, RowsMove

(* receiveStock adds to what is on hand and reserves nothing.               *)
LEMMA ReceivePreserves ==
  ASSUME StockInv, NEW goods \in [Cells -> Nat], NEW reference, receiveStock(goods, reference)
  PROVE  StockInv' /\ RowsMove
<1>1. StockTypeOK'
  BY DEF StockInv, StockTypeOK, receiveStock
<1>2. \A c \in Cells : QuantityAt(WithStatus(Reservations, "active"), c)'
                         = QuantityAt(WithStatus(Reservations, "active"), c)
  <2>1. reservation' = reservation
    BY DEF receiveStock
  <2> QED
    BY <2>1, QuantityWithStatus
<1>3. \A c \in Cells : reserved'[c] = reserved[c] /\ onHand'[c] >= onHand[c]
  BY DEF StockInv, StockTypeOK, receiveStock
<1>4. ReservedIsBacked'
  BY <1>1, <1>2, <1>3 DEF StockInv, StockTypeOK, ReservedIsBacked
<1>5. RowsMove
  BY DEF receiveStock, RowsMove
<1> QED
  BY <1>1, <1>4, <1>5 DEF StockInv

(* reserveStock takes no more than is available.                            *)
LEMMA InsertPreserves ==
  ASSUME StockInv, NEW requests, NewKeys(requests), Available(requests),
         InsertReservations(requests)
  PROVE  StockInv' /\ RowsMove
<1>1. StockTypeOK
  BY DEF StockInv
<1>2. /\ StockTypeOK'
      /\ \A c \in Cells :
           /\ Requested(requests, c) \in Nat
           /\ QuantityAt(WithStatus(Reservations, "active"), c)'
                = QuantityAt(WithStatus(Reservations, "active"), c) + Requested(requests, c)
  BY <1>1, InsertStep
<1>3. ASSUME NEW c \in Cells
      PROVE  /\ reserved'[c] = reserved[c] + Requested(requests, c)
             /\ onHand'[c] = onHand[c]
             /\ Requested(requests, c) <= onHand[c] - reserved[c]
             /\ reserved[c] \in Nat /\ onHand[c] \in Nat
  BY <1>1 DEF StockTypeOK, InsertReservations, Available
<1>4. ReservedIsBacked'
  BY <1>2, <1>3 DEF StockInv, ReservedIsBacked
<1>5. RowsMove
  <2>1. \A r \in Reservations : reservation[r].status # "absent" => reservation'[r] = reservation[r]
    BY <1>1, InsertedRows
  <2> QED
    BY <2>1 DEF RowsMove
<1> QED
  BY <1>2, <1>4, <1>5 DEF StockInv

(* Ending reservations, by release or by fulfilment, takes from the         *)
(* balances exactly what the rows held.                                     *)
LEMMA ClosePreserves ==
  ASSUME StockInv, NEW R \in SUBSET Reservations, NEW st \in {"released", "fulfilled"},
         SetStatus(WithStatus(R, "active"), st), CanClose(R, st),
         reserved' = [c \in Cells |-> reserved[c] - QuantityAt(WithStatus(R, "active"), c)],
         st = "released" => onHand' = onHand,
         st = "fulfilled" =>
           onHand' = [c \in Cells |-> onHand[c] - QuantityAt(WithStatus(R, "active"), c)],
         UNCHANGED receipts
  PROVE  StockInv' /\ RowsMove
<1> DEFINE open == WithStatus(R, "active")
<1>1. StockTypeOK
  BY DEF StockInv
<1>2. /\ reservation' \in
           [Reservations -> {NoRow} \cup [status : {"active", "released", "fulfilled"},
                                          cell : Cells, quantity : Nat \ {0}]]
      /\ \A r \in open : reservation'[r] = [reservation[r] EXCEPT !.status = st]
      /\ \A r \in Reservations \ open : reservation'[r] = reservation[r]
      /\ \A c \in Cells :
           /\ QuantityAt(open, c) \in Nat
           /\ QuantityAt(WithStatus(Reservations, "active"), c)'
                = QuantityAt(WithStatus(Reservations, "active"), c) - QuantityAt(open, c)
  BY <1>1, CloseStep
<1>3. ASSUME NEW c \in Cells
      PROVE  /\ reserved'[c] = reserved[c] - QuantityAt(open, c)
             /\ reserved'[c] <= onHand'[c]
             /\ reserved'[c] \in Nat /\ onHand'[c] \in Nat
  <2>1. /\ reserved'[c] = reserved[c] - QuantityAt(open, c)
        /\ onHand'[c] \in {onHand[c], onHand[c] - QuantityAt(open, c)}
    BY <1>1 DEF StockTypeOK
  <2>2. QuantityAt(open, c) <= reserved[c] /\ QuantityAt(open, c) \in Nat
    BY <1>2 DEF CanClose
  <2>3. reserved[c] <= onHand[c] /\ reserved[c] \in Nat /\ onHand[c] \in Nat
    BY <1>1 DEF StockInv, ReservedIsBacked, StockTypeOK
  <2> HIDE DEF open
  <2> QED
    BY <2>1, <2>2, <2>3
<1>4. StockTypeOK'
  <2>1. DOMAIN onHand' = Cells /\ DOMAIN reserved' = Cells
    BY <1>1 DEF StockTypeOK
  <2>2. onHand' = [c \in Cells |-> onHand'[c]] /\ reserved' = [c \in Cells |-> reserved'[c]]
    BY <1>1 DEF StockTypeOK
  <2>3. onHand' \in [Cells -> Nat] /\ reserved' \in [Cells -> Nat]
    BY <1>3, <2>2
  <2>4. receipts' \in [Cells -> Nat]
    BY <1>1 DEF StockTypeOK
  <2> QED
    BY <1>2, <2>3, <2>4 DEF StockTypeOK
<1>5. ReservedIsBacked'
  BY <1>2, <1>3 DEF StockInv, ReservedIsBacked
<1>6. RowsMove
  <2>1. ASSUME NEW r \in Reservations
        PROVE  /\ reservation[r].status # "absent" =>
                    /\ reservation'[r].status # "absent"
                    /\ reservation'[r].cell = reservation[r].cell
                    /\ reservation'[r].quantity = reservation[r].quantity
               /\ reservation[r].status \in {"released", "fulfilled"} =>
                    reservation'[r] = reservation[r]
    <3>1. CASE r \in open
      <4>1. reservation[r].status = "active"
        BY <3>1 DEF WithStatus
      <4>2. reservation[r] \in [status : {"active", "released", "fulfilled"},
                                cell : Cells, quantity : Nat \ {0}]
        BY <1>1, <4>1 DEF StockTypeOK, NoRow
      <4>3. reservation'[r] = [reservation[r] EXCEPT !.status = st]
        BY <1>2, <3>1
      <4>4. /\ reservation'[r].status = st
            /\ reservation'[r].cell = reservation[r].cell
            /\ reservation'[r].quantity = reservation[r].quantity
        BY <4>2, <4>3
      <4> QED
        BY <4>1, <4>4
    <3>2. CASE r \notin open
      BY <1>2, <3>2
    <3> QED
      BY <3>1, <3>2
  <2> QED
    BY <2>1 DEF RowsMove
<1> QED
  BY <1>4, <1>5, <1>6 DEF StockInv

(* A reservation is released, or fulfilled, or was already.                 *)
LEMMA ReleasePreserves ==
  ASSUME StockInv, NEW R \in SUBSET Reservations, releaseReservations(R)
  PROVE  StockInv' /\ RowsMove
  BY ClosePreserves DEF releaseReservations

(* fulfillReservations ends reservations and ships their goods.             *)
LEMMA FulfillPreserves ==
  ASSUME StockInv, NEW R \in SUBSET Reservations, fulfillReservations(R)
  PROVE  StockInv' /\ RowsMove
  BY ClosePreserves DEF fulfillReservations, CanFulfill

=============================================================================
