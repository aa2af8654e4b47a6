---------------------------- MODULE Market_proofs ----------------------------
(***************************************************************************)
(* Theorems about Market for any number of offers, orders, requests and    *)
(* faults, and any prices: no delivery or refund is taken back, the        *)
(* vendor's account balances and is an escrow, and a buyer is told once;   *)
(* and, of which it holds instances, about Rewards: the cap and the        *)
(* cooldown are kept for any number of kills, at any times and in any      *)
(* order; about Lottery: the money of a round is sound and its pot an      *)
(* escrow for any number of users, purchases, settlers and failures, and   *)
(* whoever leaves meanwhile; and about LinkRewards: play time is paid once *)
(* and to nobody who was not linked.  And that their variables keep their  *)
(* types, but for those of Rewards.                                        *)
(***************************************************************************)
EXTENDS Market, Sequences, FiniteSetTheorems, WellFoundedInduction, TLAPS

-----------------------------------------------------------------------------
(* Sums over finite sets.                                                  *)

\* Among any subsets of a finite set there is a smallest: induction over finite sets.
LEMMA Minimal ==
    ASSUME NEW D, IsFiniteSet(D), NEW Bad, Bad \subseteq SUBSET D, Bad # {}
    PROVE  \E T \in Bad : \A U \in Bad : ~ (U \subseteq T /\ U # T)
<1>0. FiniteSubsetsOf(D) = SUBSET D BY FS_FiniteSubsetsOfFinite
<1>1. PICK T \in Bad : \A U \in Bad : <<U, T>> \notin StrictSubsetOrdering(D)
  BY <1>0, FS_StrictSubsetOrderingWellFounded, WFMin
<1>2. ASSUME NEW U \in Bad, U \subseteq T, U # T PROVE FALSE
  <2>1. U \in SUBSET D /\ T \in SUBSET D BY <1>0
  <2>2. <<U, T>> \in StrictSubsetOrdering(D) BY <1>2, <2>1 DEF StrictSubsetOrdering
  <2> QED BY <1>1, <2>2
<1> QED BY <1>1, <1>2

\* The element a sum takes first, what it leaves, and the function that computes the
\* sums of all subsets of S.
First(s) == CHOOSE x \in s : TRUE
Rest(s) == s \ {First(s)}
Iter(w, S, g) == g = [s \in SUBSET S |-> IF s = {} THEN 0 ELSE w[First(s)] + g[Rest(s)]]

Total(w, S) == (CHOOSE g : Iter(w, S, g))[S]

\* Taking one element out leaves a smaller set.
LEMMA FirstIn == ASSUME NEW s, s # {} PROVE First(s) \in s /\ Rest(s) \subseteq s /\ Rest(s) # s
BY DEF First, Rest

\* Two such functions agree where both are defined.
LEMMA IterUnique ==
    ASSUME NEW D, IsFiniteSet(D), NEW w \in [D -> Nat], NEW S \in SUBSET D, NEW T \in SUBSET S, NEW g, NEW h,
           Iter(w, S, g), Iter(w, T, h)
    PROVE  g[T] = h[T]
<1> DEFINE Bad == {U \in SUBSET T : g[U] # h[U]}
<1>0. Bad \subseteq SUBSET D OBVIOUS
<1>1. SUFFICES ASSUME Bad # {} PROVE FALSE OBVIOUS
<1>m. \E U \in Bad : \A V \in Bad : ~ (V \subseteq U /\ V # U)
  <2> HIDE DEF Bad
  <2> QED BY <1>0, <1>1, Minimal
<1>2. PICK U \in Bad : \A V \in Bad : ~ (V \subseteq U /\ V # U) BY <1>m
<1>3. U \in SUBSET T /\ U \in SUBSET S OBVIOUS
<1>4. CASE U = {} BY <1>2, <1>3, <1>4 DEF Iter
<1>5. CASE U # {}
  <2>1. Rest(U) \in SUBSET T /\ g[Rest(U)] = h[Rest(U)] BY <1>2, <1>3, <1>5, FirstIn
  <2>2. g[U] = w[First(U)] + g[Rest(U)] BY <1>3, <1>5 DEF Iter
  <2>3. h[U] = w[First(U)] + h[Rest(U)] BY <1>3, <1>5 DEF Iter
  <2> QED BY <2>1, <2>2, <2>3
<1> QED BY <1>4, <1>5

\* There is such a function for every finite set.
LEMMA IterExists == ASSUME NEW D, IsFiniteSet(D), NEW w \in [D -> Nat], NEW S \in SUBSET D PROVE \E g : Iter(w,
  S, g)
<1> DEFINE Bad == {T \in SUBSET D : ~ \E g : Iter(w, T, g)}
<1>0. Bad \subseteq SUBSET D OBVIOUS
<1>1. SUFFICES ASSUME Bad # {} PROVE FALSE OBVIOUS
<1>m. \E T \in Bad : \A U \in Bad : ~ (U \subseteq T /\ U # T)
  <2> HIDE DEF Bad
  <2> QED BY <1>0, <1>1, Minimal
<1>2. PICK T \in Bad : \A V \in Bad : ~ (V \subseteq T /\ V # T) BY <1>m
<1> DEFINE f == [u \in SUBSET T |-> CHOOSE g : Iter(w, u, g)]
           G == [s \in SUBSET T |-> IF s = {} THEN 0 ELSE w[First(s)] + f[Rest(s)][Rest(s)]]
<1>3. ASSUME NEW u \in SUBSET T, u # T PROVE Iter(w, u, f[u])
  <2>1. \E g : Iter(w, u, g) BY <1>2, <1>3
  <2> QED BY <2>1
<1>4. ASSUME NEW s \in SUBSET T, s # {} PROVE G[Rest(s)] = f[Rest(s)][Rest(s)]
  <2>1. Rest(s) \in SUBSET T /\ Rest(s) # T /\ Rest(s) \subseteq s BY <1>4, FirstIn
  <2> DEFINE r == Rest(s)
  <2> HIDE DEF r, f
  <2>2. r \in SUBSET T /\ r # T BY <2>1 DEF r
  <2>3. Iter(w, r, f[r]) BY <1>3, <2>2
  <2>4. CASE r = {} BY <2>2, <2>3, <2>4 DEF Iter, r
  <2>5. CASE r # {}
    <3>1. Rest(r) \in SUBSET r /\ Rest(r) # T /\ Rest(r) \in SUBSET T BY <2>2, <2>5, FirstIn
    <3>2. f[r][r] = w[First(r)] + f[r][Rest(r)] BY <2>2, <2>3, <2>5 DEF Iter
    <3>3. Iter(w, Rest(r), f[Rest(r)]) BY <1>3, <3>1
    <3>4. f[r][Rest(r)] = f[Rest(r)][Rest(r)]
      <4>1. T \in SUBSET D BY <1>2
      <4>2. r \in SUBSET D /\ Rest(r) \in SUBSET r BY <2>2, <3>1, <4>1
      <4> DEFINE q == Rest(r)
      <4>3. Iter(w, q, f[q]) /\ q \in SUBSET r BY <3>3, <4>2
      <4> HIDE DEF q
      <4>4. \A B \in SUBSET r : \A g, h : Iter(w, r, g) /\ Iter(w, B, h) => g[B] = h[B] BY <4>2, IterUnique
      <4>5. f[r][q] = f[q][q] BY <2>3, <4>3, <4>4
      <4> QED BY <4>5 DEF q
    <3>5. G[r] = w[First(r)] + f[Rest(r)][Rest(r)] BY <2>2, <2>5
    <3> QED BY <3>2, <3>4, <3>5 DEF r
  <2> QED BY <2>4, <2>5
<1>5. Iter(w, T, G)
  <2> HIDE DEF f
  <2>1. G = [s \in SUBSET T |-> IF s = {} THEN 0 ELSE w[First(s)] + G[Rest(s)]]
    <3>1. \A s \in SUBSET T : G[s] = IF s = {} THEN 0 ELSE w[First(s)] + G[Rest(s)] BY <1>4
    <3>2. G = [s \in SUBSET T |-> G[s]] OBVIOUS
    <3> QED BY <3>1, <3>2
  <2> HIDE DEF G
  <2> QED BY <2>1 DEF Iter
<1> QED BY <1>2, <1>5

\* The sum of a set from the sum without its first element.
LEMMA TotalStep ==
    ASSUME NEW D, IsFiniteSet(D), NEW w \in [D -> Nat], NEW S \in SUBSET D, S # {}
    PROVE  Total(w, S) = w[First(S)] + Total(w, Rest(S))
<1> DEFINE g == CHOOSE i : Iter(w, S, i)
           h == CHOOSE i : Iter(w, Rest(S), i)
<1>1. Iter(w, S, g) BY IterExists
<1>2. Rest(S) \in SUBSET D /\ Rest(S) \in SUBSET S BY FirstIn
<1>3. Iter(w, Rest(S), h) BY <1>2, IterExists
<1>4. Total(w, S) = g[S] /\ Total(w, Rest(S)) = h[Rest(S)] BY DEF Total
<1> HIDE DEF g, h
<1>5. g[S] = w[First(S)] + g[Rest(S)] BY <1>1 DEF Iter
<1>6. g[Rest(S)] = h[Rest(S)] BY <1>1, <1>2, <1>3, IterUnique
<1> QED BY <1>4, <1>5, <1>6

\* The sum of nothing.
LEMMA TotalEmpty == ASSUME NEW D, IsFiniteSet(D), NEW w \in [D -> Nat] PROVE Total(w, {}) = 0
<1>1. \E g : Iter(w, {}, g) BY IterExists
<1>2. Iter(w, {}, CHOOSE g : Iter(w, {}, g)) BY <1>1
<1>3. (CHOOSE g : Iter(w, {}, g))[{}] = 0 BY <1>2 DEF Iter
<1> QED BY <1>3 DEF Total

\* Such a sum is a natural number.
LEMMA TotalNat == ASSUME NEW D, IsFiniteSet(D), NEW w \in [D -> Nat], NEW S \in SUBSET D PROVE Total(w, S) \in Nat
<1> DEFINE Bad == {T \in SUBSET D : Total(w, T) \notin Nat}
<1>0. Bad \subseteq SUBSET D OBVIOUS
<1>1. SUFFICES ASSUME Bad # {} PROVE FALSE OBVIOUS
<1>m. \E T \in Bad : \A U \in Bad : ~ (U \subseteq T /\ U # T)
  <2> HIDE DEF Bad
  <2> QED BY <1>0, <1>1, Minimal
<1>2. PICK T \in Bad : \A V \in Bad : ~ (V \subseteq T /\ V # T) BY <1>m
<1>3. T # {}
  <2>1. SUFFICES ASSUME T = {} PROVE FALSE OBVIOUS
  <2>2. Total(w, T) = 0 BY <2>1, TotalEmpty
  <2> QED BY <1>2, <2>2
<1>4. Total(w, Rest(T)) \in Nat /\ w[First(T)] \in Nat BY <1>2, <1>3, FirstIn
<1> QED BY <1>2, <1>3, <1>4, TotalStep

\* Any element can be taken out of a sum.
LEMMA TotalAdd ==
    ASSUME NEW D, IsFiniteSet(D), NEW w \in [D -> Nat], NEW S \in SUBSET D, NEW x \in S
    PROVE  Total(w, S) = w[x] + Total(w, S \ {x})
<1> DEFINE Bad == {T \in SUBSET D : \E y \in T : Total(w, T) # w[y] + Total(w, T \ {y})}
<1>0. Bad \subseteq SUBSET D OBVIOUS
<1>1. SUFFICES ASSUME Bad # {} PROVE FALSE OBVIOUS
<1>m. \E T \in Bad : \A U \in Bad : ~ (U \subseteq T /\ U # T)
  <2> HIDE DEF Bad
  <2> QED BY <1>0, <1>1, Minimal
<1>2. PICK T \in Bad : \A V \in Bad : ~ (V \subseteq T /\ V # T) BY <1>m
<1>3. PICK y \in T : Total(w, T) # w[y] + Total(w, T \ {y}) BY <1>2
<1>4. First(T) \in T /\ Rest(T) = T \ {First(T)} BY <1>3, FirstIn DEF Rest
<1>5. Total(w, T) = w[First(T)] + Total(w, Rest(T)) BY <1>3, TotalStep
<1>6. y # First(T) BY <1>3, <1>4, <1>5
<1>7. Rest(T) \in SUBSET D /\ Rest(T) \notin Bad BY <1>2, <1>4
<1>8. Total(w, Rest(T)) = w[y] + Total(w, Rest(T) \ {y}) BY <1>3, <1>4, <1>6, <1>7
<1>9. T \ {y} \in SUBSET D /\ T \ {y} \notin Bad BY <1>2, <1>3
<1>10. Total(w, T \ {y}) = w[First(T)] + Total(w, (T \ {y}) \ {First(T)}) BY <1>4, <1>6, <1>9
<1>11. (T \ {y}) \ {First(T)} = Rest(T) \ {y} BY <1>4
<1>12. w[y] \in Nat /\ w[First(T)] \in Nat /\ Total(w, Rest(T) \ {y}) \in Nat BY <1>3, <1>4, <1>7, TotalNat
<1>13. Total(w, T \ {y}) = w[First(T)] + Total(w, Rest(T) \ {y}) BY <1>10, <1>11
<1>14. Total(w, T) = w[y] + Total(w, T \ {y}) BY <1>5, <1>8, <1>12, <1>13
<1> QED BY <1>3, <1>14

\* The sum of two disjoint sets.
LEMMA TotalSplit ==
    ASSUME NEW D, IsFiniteSet(D), NEW w \in [D -> Nat], NEW S \in SUBSET D, NEW T \in SUBSET D, S \intersect T = {}
    PROVE  Total(w, S \union T) = Total(w, S) + Total(w, T)
<1> DEFINE Bad == {U \in SUBSET D : U \intersect S = {} /\ Total(w, S \union U) # Total(w, S) + Total(w, U)}
<1>0. Bad \subseteq SUBSET D OBVIOUS
<1>1. SUFFICES ASSUME Bad # {} PROVE FALSE OBVIOUS
<1>m. \E U \in Bad : \A V \in Bad : ~ (V \subseteq U /\ V # U)
  <2> HIDE DEF Bad
  <2> QED BY <1>0, <1>1, Minimal
<1>2. PICK U \in Bad : \A V \in Bad : ~ (V \subseteq U /\ V # U) BY <1>m
<1>3. Total(w, S) \in Nat BY TotalNat
<1>4. U # {}
  <2>1. ASSUME U = {} PROVE FALSE
    <3>1. S \union U = S BY <2>1
    <3> QED BY <1>2, <1>3, <2>1, <3>1, TotalEmpty
  <2> QED BY <2>1
<1>5. PICK x : x \in U BY <1>4
<1>6. U \ {x} \in SUBSET D /\ U \ {x} \notin Bad BY <1>2, <1>5
<1>7. Total(w, S \union (U \ {x})) = Total(w, S) + Total(w, U \ {x}) BY <1>2, <1>6
<1>8. Total(w, U) = w[x] + Total(w, U \ {x}) BY <1>2, <1>5, TotalAdd
<1>9. (S \union U) \ {x} = S \union (U \ {x}) BY <1>2, <1>5
<1>10. Total(w, S \union U) = w[x] + Total(w, S \union (U \ {x})) BY <1>2, <1>5, <1>9, TotalAdd
<1>11. w[x] \in Nat /\ Total(w, U \ {x}) \in Nat BY <1>2, <1>5, <1>6, TotalNat
<1> QED BY <1>2, <1>3, <1>7, <1>8, <1>10, <1>11

\* A part of a sum is at most the sum.
LEMMA TotalMore ==
    ASSUME NEW D, IsFiniteSet(D), NEW w \in [D -> Nat], NEW S \in SUBSET D, NEW T \in SUBSET S
    PROVE  Total(w, S) = Total(w, T) + Total(w, S \ T) /\ Total(w, T) \in Nat /\ Total(w, S \ T) \in Nat
           /\ Total(w, T) <= Total(w, S)
<1>1. T \in SUBSET D /\ S \ T \in SUBSET D /\ T \intersect (S \ T) = {} /\ T \union (S \ T) = S OBVIOUS
<1>2. Total(w, T) \in Nat /\ Total(w, S \ T) \in Nat BY <1>1, TotalNat
<1>3. Total(w, S) = Total(w, T) + Total(w, S \ T) BY <1>1, TotalSplit
<1> QED BY <1>2, <1>3

\* A set of one element.
LEMMA TotalOne == ASSUME NEW D, IsFiniteSet(D), NEW w \in [D -> Nat], NEW p \in D PROVE Total(w, {p}) = w[p]
<1>1. Total(w, {p}) = w[p] + Total(w, {p} \ {p}) BY TotalAdd
<1>2. {p} \ {p} = {} OBVIOUS
<1> QED BY <1>1, <1>2, TotalEmpty

\* A sum depends only on the weights of what is in it.
LEMMA TotalSame ==
    ASSUME NEW D, IsFiniteSet(D), NEW w \in [D -> Nat], NEW v \in [D -> Nat],
           NEW S \in SUBSET D, \A x \in S : w[x] = v[x]
    PROVE  Total(w, S) = Total(v, S)
<1> DEFINE Bad == {T \in SUBSET S : Total(w, T) # Total(v, T)}
<1>0. Bad \subseteq SUBSET D OBVIOUS
<1>1. SUFFICES ASSUME Bad # {} PROVE FALSE
  <2>1. S \in SUBSET S OBVIOUS
  <2> QED BY <2>1
<1>m. \E T \in Bad : \A U \in Bad : ~ (U \subseteq T /\ U # T)
  <2> HIDE DEF Bad
  <2> QED BY <1>0, <1>1, Minimal
<1>2. PICK T \in Bad : \A V \in Bad : ~ (V \subseteq T /\ V # T) BY <1>m
<1>3. T # {}
  <2>1. ASSUME T = {} PROVE FALSE
    <3>1. Total(w, {}) = 0 /\ Total(v, {}) = 0 BY TotalEmpty
    <3> QED BY <1>2, <2>1, <3>1
  <2> QED BY <2>1
<1>4. First(T) \in S /\ Rest(T) \in SUBSET S /\ Rest(T) \notin Bad BY <1>2, <1>3, FirstIn
<1>5. T \in SUBSET D /\ Rest(T) \in SUBSET D BY <1>2, <1>4
<1>6. Total(w, T) = w[First(T)] + Total(w, Rest(T)) BY <1>3, <1>5, TotalStep
<1>7. Total(v, T) = v[First(T)] + Total(v, Rest(T)) BY <1>3, <1>5, TotalStep
<1> QED BY <1>2, <1>4, <1>6, <1>7

-----------------------------------------------------------------------------
(* Sums over purchases.                                                    *)

\* There are finitely many purchases.
LEMMA PurchasesFinite == IsFiniteSet(Purchases)
<1>1. IsFiniteSet(Keys \X Listings) BY MarketAssumption, FS_Product
<1>2. Purchases \in SUBSET (Keys \X Listings) BY DEF Purchases
<1> QED BY <1>1, <1>2, FS_Subset

\* Each has a price.
LEMMA AmountNat == \A p \in Purchases : Amount(p) \in Nat
BY MarketAssumption DEF Purchases, Amount

Cost == [p \in Purchases |-> Amount(p)]

\* The price of purchases is the sum of their costs.
LEMMA SumIs == ASSUME NEW S \in SUBSET Purchases PROVE Sum(S) = Total(Cost, S)
<1> DEFINE Sums(g) == g = [s \in SUBSET S |-> IF s = {} THEN 0 ELSE Amount(First(s)) + g[Rest(s)]]
<1> DEFINE a == CHOOSE g : Sums(g)
           b == CHOOSE g : Iter(Cost, S, g)
<1>1. Cost \in [Purchases -> Nat] BY AmountNat DEF Cost
<1>2. Sum(S) = a[S] BY DEF Sum, MapThenSumSet, MapThenFoldSet, First, Rest
<1>3. \A g : Sums(g) <=> Iter(Cost, S, g)
  <2>1. \A s \in SUBSET S : s # {} => Cost[First(s)] = Amount(First(s)) BY FirstIn DEF Cost
  <2> QED BY <2>1 DEF Iter
<1>4. \E g : Iter(Cost, S, g) BY <1>1, PurchasesFinite, IterExists
<1>5. Iter(Cost, S, b) BY <1>4
<1>6. Sums(a)
  <2>1. \E g : Sums(g) BY <1>3, <1>4
  <2> HIDE DEF Sums
  <2> QED BY <2>1
<1>7. Iter(Cost, S, a) BY <1>3, <1>6
<1> HIDE DEF a, b, Sums
<1>8. a[S] = b[S] BY <1>1, <1>5, <1>7, PurchasesFinite, IterUnique
<1> QED BY <1>2, <1>8 DEF Total, b

\* The costs are numbers, and there are finitely many: what the laws of sums need.
LEMMA CostFinite == IsFiniteSet(Purchases) /\ Cost \in [Purchases -> Nat]
  /\ \A p \in Purchases : Cost[p] = Amount(p)
BY PurchasesFinite, AmountNat DEF Cost

\* The price of no purchase.
LEMMA SumEmpty == Sum({}) = 0
BY SumIs, CostFinite, TotalEmpty

\* The price of purchases is a natural number.
LEMMA SumNat == ASSUME NEW S \in SUBSET Purchases PROVE Sum(S) \in Nat
BY SumIs, CostFinite, TotalNat

\* Any purchase can be taken out of a sum.
LEMMA SumAdd ==
    ASSUME NEW S \in SUBSET Purchases, NEW x \in S
    PROVE  Sum(S) = Amount(x) + Sum(S \ {x})
<1>1. S \ {x} \in SUBSET Purchases /\ x \in Purchases OBVIOUS
<1>2. Sum(S) = Total(Cost, S) /\ Sum(S \ {x}) = Total(Cost, S \ {x}) BY <1>1, SumIs
<1>3. Total(Cost, S) = Cost[x] + Total(Cost, S \ {x}) BY CostFinite, TotalAdd
<1> QED BY <1>1, <1>2, <1>3, CostFinite

\* The price of a part is at most the price of all.
LEMMA SumMore ==
    ASSUME NEW S \in SUBSET Purchases, NEW T \in SUBSET S
    PROVE  Sum(S) = Sum(T) + Sum(S \ T) /\ Sum(T) \in Nat /\ Sum(S \ T) \in Nat /\ Sum(T) <= Sum(S)
<1>1. T \in SUBSET Purchases /\ S \ T \in SUBSET Purchases OBVIOUS
<1>2. Sum(S) = Total(Cost, S) /\ Sum(T) = Total(Cost, T) /\ Sum(S \ T) = Total(Cost, S \ T) BY <1>1, SumIs
<1> QED BY <1>2, CostFinite, TotalMore

\* The price of one purchase.
LEMMA SumOne == ASSUME NEW p \in Purchases PROVE Sum({p}) = Amount(p)
BY SumIs, CostFinite, TotalOne

\* The price of disjoint purchases.
LEMMA SumSplit ==
    ASSUME NEW S \in SUBSET Purchases, NEW T \in SUBSET Purchases, S \intersect T = {}
    PROVE  Sum(S \union T) = Sum(S) + Sum(T)
<1>1. S \union T \in SUBSET Purchases OBVIOUS
<1>2. Sum(S) = Total(Cost, S) /\ Sum(T) = Total(Cost, T) /\ Sum(S \union T) = Total(Cost, S \union T) BY <1>1, SumIs
<1> QED BY <1>2, CostFinite, TotalSplit

-----------------------------------------------------------------------------
(* What a step does to the purchases and to the vendor's account.          *)

\* What the proofs need of the types.
Typed ==
    /\ fulfilment \in [Purchases -> {"NONE", "PENDING", "DELIVERED", "REFUNDED"}]
    /\ balance \in Nat /\ out \in Nat
    /\ posted \in [Orders -> Nat]
    /\ bot.at # "idle" => bot.notice \in Orders
    /\ bot = [at |-> bot.at, notice |-> bot.notice]
    /\ \A r \in requests : r.op = "refund" => r.on \in Purchases

\* A message is about to be sent only after none was found in the channel.
SendsOnlyUnsent == bot.at = "send" => posted[bot.notice] = 0

\* The purchases S go from the state "from" to the state "to".
Move(S, from, to) ==
    /\ \A p \in S : fulfilment[p] = from
    /\ fulfilment' = [p \in Purchases |-> IF p \in S THEN to ELSE fulfilment[p]]

\* The steps that leave purchases, vendor and account as they are.
Quiet == UNCHANGED <<vendor, fulfilment, balance, out>>

\* Purchases are opened by a booking that finds none of its key, and the vendor there.
Opens ==
    /\ vendor = "ACTIVE" /\ vendor' = vendor /\ out' = out
    /\ \E S \in SUBSET Purchases : Move(S, "NONE", "PENDING") /\ balance' = balance + Sum(S)

\* Open purchases are delivered: their money stays.
Delivers ==
    /\ UNCHANGED <<vendor, balance, out>>
    /\ \E S \in SUBSET Purchases : Move(S, "PENDING", "DELIVERED")

\* One open purchase is given back.
Returns ==
    /\ UNCHANGED <<vendor, out>>
    /\ \E p \in Purchases : /\ Move({p}, "PENDING", "REFUNDED")
                            /\ Amount(p) <= balance /\ balance' = balance - Amount(p)

\* Money leaves the account, but not what the open purchases may claim.
Pays ==
    /\ vendor = "ACTIVE" /\ UNCHANGED <<vendor, fulfilment>>
    /\ \E a \in 1..Withdrawable : balance' = balance - a /\ out' = out + a

\* The vendor goes while nothing is open.
Goes == Pending = {} /\ vendor' = "ARCHIVED" /\ UNCHANGED <<fulfilment, balance, out>>

\* A booking opens all purchases of its key, or changes nothing.
LEMMA BookingStep ==
    ASSUME Typed, NEW r \in requests, BuyCommit(r)
    PROVE  Quiet \/ Opens
<1>1. CASE ~Booked(r.on) /\ Bookable(r.on)
  <2>1. Move(Of(r.on), "NONE", "PENDING")
    BY <1>1 DEF BuyCommit, Book, Booked, Move, Typed, Of
  <2>2. vendor = "ACTIVE" /\ vendor' = vendor /\ out' = out BY <1>1 DEF BuyCommit, Book, Bookable
  <2>3. balance' = balance + Sum(Of(r.on)) BY <1>1 DEF BuyCommit, Book
  <2>4. Of(r.on) \in SUBSET Purchases BY DEF Of
  <2> QED BY <2>1, <2>2, <2>3, <2>4 DEF Opens
<1>2. CASE ~(~Booked(r.on) /\ Bookable(r.on)) BY <1>2 DEF BuyCommit, Refused, account, Quiet
<1> QED BY <1>1, <1>2

\* A refund gives one open purchase back, or changes nothing.
LEMMA RefundStep ==
    ASSUME Typed, NEW r \in requests, RefundCommit(r)
    PROVE  Quiet \/ Returns
<1>1. CASE Refundable(r)
  <2>1. r.on \in Purchases BY DEF RefundCommit, Typed
  <2>2. Move({r.on}, "PENDING", "REFUNDED") BY <1>1, <2>1 DEF RefundCommit, Refundable, Move, Typed
  <2>3. Amount(r.on) <= balance /\ balance' = balance - Amount(r.on) /\ UNCHANGED <<vendor, out>>
    BY <1>1, <2>1, AmountNat DEF RefundCommit, Refundable, Typed
  <2> QED BY <2>1, <2>2, <2>3 DEF Returns
<1>2. CASE ~Refundable(r) BY <1>2 DEF RefundCommit, Refused, account, Quiet
<1> QED BY <1>1, <1>2

\* Every step is one of these.
LEMMA PurchaseStep ==
    ASSUME Typed, [Next]_vars
    PROVE  Quiet \/ Opens \/ Delivers \/ Returns \/ Pays \/ Goes
<1>1. CASE Request
  <2>1. ASSUME NEW r \in requests, CreateCommit(r) PROVE Quiet BY <2>1 DEF CreateCommit, account, Quiet
  <2>2. ASSUME NEW l \in Listings, CreateRead(l) PROVE Quiet BY <2>2 DEF CreateRead, Refused, account, Quiet
  <2>3. ASSUME NEW k \in Keys, BuyRead(k) PROVE Quiet BY <2>3 DEF BuyRead, Refused, account, Quiet
  <2>4. ASSUME NEW p \in Purchases, RefundRead(p) PROVE Quiet BY <2>4 DEF RefundRead, Refused, account, Quiet
  <2> QED BY <1>1, <2>1, <2>2, <2>3, <2>4, BookingStep, RefundStep DEF Request
<1>2. CASE Outbox
  BY <1>2 DEF Outbox, Claim, Cleanup, Find, Post, Ack, Fails, KeepMarket, account, Quiet
<1>3. ASSUME NEW p \in Purchases, Deliver(p) PROVE Delivers
  <2>1. Move({p}, "PENDING", "DELIVERED") BY <1>3 DEF Deliver, Move, Typed
  <2> QED BY <1>3, <2>1 DEF Deliver, Delivers, account
<1>4. ASSUME NEW o \in Orders, Close(o) PROVE Delivers
  <2>1. Move(Of(o) \intersect Pending, "PENDING", "DELIVERED") BY <1>4 DEF Close, Delivered, Move, Typed, Pending
  <2>2. Of(o) \intersect Pending \in SUBSET Purchases BY DEF Of
  <2> QED BY <1>4, <2>1, <2>2 DEF Close, Delivers, account
<1>5. CASE \/ \E l \in Listings : ArchiveListing(l)
           \/ Leave \/ UNCHANGED vars
  BY <1>5 DEF ArchiveListing, Leave, account, vars, Quiet
<1>6. CASE Payout BY <1>6 DEF Payout, Pays
<1>7. CASE ArchiveVendor \/ RemoveVendor BY <1>7 DEF ArchiveVendor, RemoveVendor, MayRemove, EndVendor, Goes
<1> QED BY <1>1, <1>2, <1>3, <1>4, <1>5, <1>6, <1>7 DEF Next

\* What may be paid out leaves the open purchases covered.
LEMMA WithdrawableKeeps ==
    ASSUME Typed, NEW a \in 1..Withdrawable
    PROVE  a \in Nat /\ a <= balance /\ Sum(Pending) <= balance - a
<1>1. Pending \in SUBSET Purchases BY DEF Pending
<1>2. Sum(Pending) \in Nat /\ balance \in Nat BY <1>1, SumNat DEF Typed
<1> QED BY <1>2 DEF Withdrawable

\* The types hold at the start.
LEMMA InitTyped == Init => Typed
BY DEF Init, Typed

\* Every step keeps the types.
LEMMA TypedStep == Typed /\ [Next]_vars => Typed'
<1> SUFFICES ASSUME Typed, [Next]_vars PROVE Typed' OBVIOUS
<1>1. fulfilment' \in [Purchases -> {"NONE", "PENDING", "DELIVERED", "REFUNDED"}]
  BY PurchaseStep DEF Typed, Quiet, Opens, Delivers, Returns, Pays, Goes, Move
<1>m. balance' \in Nat /\ out' \in Nat
  <2>1. ASSUME NEW S \in SUBSET Purchases, balance' = balance + Sum(S), out' = out PROVE balance' \in Nat
               /\ out' \in Nat
    BY <2>1, SumNat DEF Typed
  <2>2. ASSUME NEW p \in Purchases, Amount(p) <= balance, balance' = balance - Amount(p), out' = out
        PROVE  balance' \in Nat /\ out' \in Nat
    BY <2>2, AmountNat DEF Typed
  <2>3. CASE Pays BY <2>3, WithdrawableKeeps DEF Pays, Typed
  <2>4. CASE UNCHANGED <<balance, out>> BY <2>4 DEF Typed
  <2> QED BY <2>1, <2>2, <2>3, <2>4, PurchaseStep DEF Quiet, Opens, Delivers, Returns, Goes
<1>2. /\ posted' \in [Orders -> Nat]
      /\ bot'.at # "idle" => bot'.notice \in Orders
      /\ bot' = [at |-> bot'.at, notice |-> bot'.notice]
  <2>1. CASE Outbox
    BY <2>1 DEF Typed, Outbox, Claim, Cleanup, Find, Post, Ack, Fails, ToFree, outbox
  <2>2. CASE UNCHANGED outbox BY <2>2 DEF outbox, Typed
  <2>3. Outbox \/ UNCHANGED outbox
    BY DEF Next, Request, CreateCommit, CreateRead, BuyRead, RefundRead, BuyCommit, Book, RefundCommit, Refused,
           Deliver, Close, ArchiveListing, Payout, ArchiveVendor, RemoveVendor, EndVendor, Leave, vars
  <2> QED BY <2>1, <2>2, <2>3
<1>3. \A r \in requests' : r.op = "refund" => r.on \in Purchases
  <2>1. CASE requests' \subseteq requests BY <2>1 DEF Typed
  <2>2. ASSUME NEW p \in Purchases, RefundRead(p) PROVE \A r \in requests' : r.op = "refund" => r.on \in Purchases
    BY <2>2 DEF RefundRead, Read, Typed
  <2>3. ASSUME NEW l \in Listings, CreateRead(l) PROVE \A r \in requests' : r.op = "refund" => r.on \in Purchases
    BY <2>3 DEF CreateRead, Read, Typed
  <2>4. ASSUME NEW k \in Keys, BuyRead(k) PROVE \A r \in requests' : r.op = "refund" => r.on \in Purchases
    BY <2>4 DEF BuyRead, Read, Typed
  <2>5. \/ requests' \subseteq requests
        \/ \E p \in Purchases : RefundRead(p)
        \/ \E l \in Listings : CreateRead(l)
        \/ \E k \in Keys : BuyRead(k)
    BY DEF Next, Request, CreateCommit, BuyCommit, RefundCommit, Done, Outbox, Claim, Cleanup, Find, Post, Ack,
      Fails,
           KeepMarket, Deliver, Close, ArchiveListing, Payout, ArchiveVendor, RemoveVendor, EndVendor, Leave, vars
  <2> QED BY <2>1, <2>2, <2>3, <2>4, <2>5
<1> QED BY <1>1, <1>m, <1>2, <1>3 DEF Typed

\* Overlapping clicks on "close", "deliver" and "refund" never take back a delivery or
\* a refund, for any number of orders and offers.
THEOREM EndsOnceHolds == Spec => EndsOnce
<1>1. Typed /\ [Next]_vars =>
        [\A p \in Purchases : fulfilment[p] \in {"DELIVERED", "REFUNDED"} => fulfilment'[p] = fulfilment[p]]_vars
  <2> SUFFICES ASSUME Typed, [Next]_vars, NEW p \in Purchases, fulfilment[p] \in {"DELIVERED", "REFUNDED"}
               PROVE  fulfilment'[p] = fulfilment[p]
    OBVIOUS
  <2> QED BY PurchaseStep DEF Quiet, Opens, Delivers, Returns, Pays, Goes, Move
<1> QED BY <1>1, InitTyped, TypedStep, PTL DEF Spec, EndsOnce

\* A vendor that is archived or removed has no open purchase, although buyers read his
\* offers before he went and book after.
THEOREM ArchivedOwesNothingHolds == Spec => []ArchivedOwesNothing
<1>1. Init => ArchivedOwesNothing BY DEF Init, ArchivedOwesNothing
<1>2. Typed /\ ArchivedOwesNothing /\ [Next]_vars => ArchivedOwesNothing'
  <2> SUFFICES ASSUME Typed, ArchivedOwesNothing, [Next]_vars, vendor' = "ARCHIVED" PROVE Pending' = {}
    BY DEF ArchivedOwesNothing
  <2> QED BY PurchaseStep DEF ArchivedOwesNothing, Quiet, Opens, Delivers, Returns, Pays, Goes, Move, Pending, Typed
<1> QED BY <1>1, <1>2, InitTyped, TypedStep, PTL DEF Spec

-----------------------------------------------------------------------------
(* The vendor's account.                                                   *)

\* The purchases whose money the vendor has earned or holds.
Kept == {p \in Purchases : fulfilment[p] \in {"PENDING", "DELIVERED"}}

\* A booking adds its purchases to the open ones and their money to the account.
LEMMA OpensSound ==
    ASSUME Typed, PendingCovered, MoneyFollows, Opens
    PROVE  PendingCovered' /\ MoneyFollows'
<1>1. PICK S \in SUBSET Purchases : Move(S, "NONE", "PENDING") /\ balance' = balance + Sum(S) BY DEF Opens
<1>2. S \intersect Pending = {} /\ Pending' = Pending \union S /\ Pending \in SUBSET Purchases
  BY <1>1 DEF Move, Pending, Typed
<1>3. S \intersect Kept = {} /\ Kept' = Kept \union S /\ Kept \in SUBSET Purchases
  BY <1>1 DEF Move, Kept, Typed
<1>4. Sum(Pending') = Sum(Pending) + Sum(S) /\ Sum(Pending) \in Nat BY <1>2, SumSplit, SumNat
<1>5. Sum(Kept') = Sum(Kept) + Sum(S) /\ Sum(Kept) \in Nat /\ Sum(S) \in Nat BY <1>3, SumSplit, SumNat
<1>6. balance >= Sum(Pending) /\ balance + out = Sum(Kept) BY DEF PendingCovered, MoneyFollows, Kept
<1>7. out' = out /\ out \in Nat /\ balance \in Nat BY DEF Opens, Typed
<1>8. balance' >= Sum(Pending') BY <1>1, <1>4, <1>5, <1>6, <1>7
<1>9. balance' + out' = Sum(Kept') BY <1>1, <1>5, <1>6, <1>7
<1>10. Sum(Pending') = Sum(Pending)' /\ Sum(Kept') = Sum(Kept)' OBVIOUS
<1> QED BY <1>8, <1>9 DEF PendingCovered, MoneyFollows, Kept

\* A delivery takes purchases from the open ones and moves no money.
LEMMA DeliversSound ==
    ASSUME Typed, PendingCovered, MoneyFollows, Delivers
    PROVE  PendingCovered' /\ MoneyFollows'
<1>1. PICK S \in SUBSET Purchases : Move(S, "PENDING", "DELIVERED") BY DEF Delivers
<1>2. Pending' \in SUBSET Pending /\ Pending \in SUBSET Purchases BY <1>1 DEF Move, Pending, Typed
<1>3. Kept' = Kept BY <1>1 DEF Move, Kept, Typed
<1>4. Sum(Pending') <= Sum(Pending) /\ Sum(Pending') \in Nat /\ Sum(Pending) \in Nat BY <1>2, SumMore, SumNat
<1>5. balance >= Sum(Pending) /\ balance + out = Sum(Kept) BY DEF PendingCovered, MoneyFollows, Kept
<1>6. balance' = balance /\ out' = out /\ balance \in Nat BY DEF Delivers, Typed
<1>7. balance' >= Sum(Pending') BY <1>4, <1>5, <1>6
<1>8. balance' + out' = Sum(Kept') BY <1>3, <1>5, <1>6
<1> QED BY <1>7, <1>8 DEF PendingCovered, MoneyFollows, Kept

\* A refund takes one purchase from the open ones and its price from the account.
LEMMA ReturnsSound ==
    ASSUME Typed, PendingCovered, MoneyFollows, Returns
    PROVE  PendingCovered' /\ MoneyFollows'
<1>1. PICK p \in Purchases : /\ Move({p}, "PENDING", "REFUNDED")
                            /\ Amount(p) <= balance /\ balance' = balance - Amount(p)
  BY DEF Returns
<1>2. p \in Pending /\ Pending' = Pending \ {p} /\ Pending \in SUBSET Purchases BY <1>1 DEF Move, Pending, Typed
<1>3. p \in Kept /\ Kept' = Kept \ {p} /\ Kept \in SUBSET Purchases BY <1>1 DEF Move, Kept, Typed
<1>4. Sum(Pending) = Amount(p) + Sum(Pending') BY <1>2, SumAdd
<1>5. Sum(Kept) = Amount(p) + Sum(Kept') BY <1>3, SumAdd
<1>6. Pending' \in SUBSET Purchases /\ Kept' \in SUBSET Purchases BY <1>2, <1>3
<1>7. Amount(p) \in Nat /\ Sum(Pending') \in Nat /\ Sum(Kept') \in Nat BY <1>6, AmountNat, SumNat
<1>8. balance >= Sum(Pending) /\ balance + out = Sum(Kept) BY DEF PendingCovered, MoneyFollows, Kept
<1>9. out' = out /\ out \in Nat /\ balance \in Nat BY DEF Returns, Typed
<1>10. balance' >= Sum(Pending') BY <1>1, <1>4, <1>7, <1>8, <1>9
<1>11. balance' + out' = Sum(Kept') BY <1>1, <1>5, <1>7, <1>8, <1>9
<1> QED BY <1>10, <1>11 DEF PendingCovered, MoneyFollows, Kept

\* A payout moves money out of the account but not what is reserved.
LEMMA PaysSound ==
    ASSUME Typed, PendingCovered, MoneyFollows, Pays
    PROVE  PendingCovered' /\ MoneyFollows'
<1>1. PICK a \in 1..Withdrawable : balance' = balance - a /\ out' = out + a BY DEF Pays
<1>2. a \in Nat /\ a <= balance /\ Sum(Pending) <= balance - a BY WithdrawableKeeps
<1>3. Pending' = Pending /\ Kept' = Kept BY DEF Pays, Pending, Kept
<1>4. Pending \in SUBSET Purchases BY DEF Pending
<1>5. Sum(Pending) \in Nat /\ balance \in Nat /\ out \in Nat BY <1>4, SumNat DEF Typed
<1>6. balance + out = Sum(Kept) BY DEF MoneyFollows, Kept
<1>7. balance' >= Sum(Pending') BY <1>1, <1>2, <1>3, <1>5
<1>8. balance' + out' = Sum(Kept') BY <1>1, <1>2, <1>3, <1>5, <1>6
<1> QED BY <1>7, <1>8 DEF PendingCovered, MoneyFollows, Kept

\* The vendor's account is sound whatever is bought, delivered, refunded and paid out at
\* the same time, for any offers and prices: every open purchase can be given back, the
\* money is that of the purchases not refunded, and a vendor who is gone owes nothing.
THEOREM VendorSoundHolds == Spec => []VendorSound
<1>1. Init => PendingCovered /\ MoneyFollows
  <2> SUFFICES ASSUME Init PROVE PendingCovered /\ MoneyFollows OBVIOUS
  <2>1. Pending = {} /\ Kept = {} BY DEF Init, Pending, Kept
  <2>2. balance = 0 /\ out = 0 BY DEF Init
  <2> QED BY <2>1, <2>2, SumEmpty DEF PendingCovered, MoneyFollows, Kept
<1>2. Typed /\ PendingCovered /\ MoneyFollows /\ [Next]_vars => (PendingCovered /\ MoneyFollows)'
  <2> SUFFICES ASSUME Typed, PendingCovered, MoneyFollows, [Next]_vars PROVE (PendingCovered
    /\ MoneyFollows)' OBVIOUS
  <2>1. CASE UNCHANGED <<fulfilment, balance, out>>
    BY <2>1 DEF PendingCovered, MoneyFollows, Pending
  <2> QED BY <2>1, PurchaseStep, OpensSound, DeliversSound, ReturnsSound, PaysSound DEF Quiet, Goes
<1> QED BY <1>1, <1>2, InitTyped, TypedStep, ArchivedOwesNothingHolds, PTL DEF Spec, VendorSound

\* A buyer is told at most once that his order is ready, however often a send whose
\* answer was lost is tried again, as long as the message is found in the channel.
THEOREM ToldOnceHolds == Spec => []ToldOnce
<1>1. Init => ToldOnce /\ SendsOnlyUnsent BY DEF Init, ToldOnce, SendsOnlyUnsent
<1>2. Typed /\ ToldOnce /\ SendsOnlyUnsent /\ [Next]_vars => (ToldOnce /\ SendsOnlyUnsent)'
  <2> SUFFICES ASSUME Typed, ToldOnce, SendsOnlyUnsent, [Next]_vars PROVE (ToldOnce /\ SendsOnlyUnsent)' OBVIOUS
  <2>1. CASE Outbox
    <3>1. CASE \E o \in Orders : Claim(o) \/ Cleanup(o)
      BY <3>1 DEF Claim, Cleanup, ToldOnce, SendsOnlyUnsent, outbox
    <3>2. CASE Find BY <3>2 DEF Find, Found, ToldOnce, SendsOnlyUnsent, Typed
    <3>3. CASE Post BY <3>3 DEF Post, ToldOnce, SendsOnlyUnsent, Typed
    <3>4. CASE Ack BY <3>4 DEF Ack, ToFree, ToldOnce, SendsOnlyUnsent
    <3>5. CASE Fails BY <3>5 DEF Fails, ToFree, ToldOnce, SendsOnlyUnsent, Typed
    <3> QED BY <2>1, <3>1, <3>2, <3>3, <3>4, <3>5 DEF Outbox
  <2>2. CASE UNCHANGED outbox BY <2>2 DEF outbox, ToldOnce, SendsOnlyUnsent
  <2>3. Outbox \/ UNCHANGED outbox
    BY DEF Next, Request, CreateCommit, CreateRead, BuyRead, RefundRead, BuyCommit, Book, RefundCommit, Refused,
           Deliver, Close, ArchiveListing, Payout, ArchiveVendor, RemoveVendor, EndVendor, Leave, vars
  <2> QED BY <2>1, <2>2, <2>3
<1> QED BY <1>1, <1>2, InitTyped, TypedStep, PTL DEF Spec

-----------------------------------------------------------------------------
(* The types of the market.                                                *)

\* A request asks for what there is.
Asks(r) == \/ r.op = "buy" /\ r.on \in Keys
           \/ r.op = "create" /\ r.on \in Listings
           \/ r.op = "refund" /\ r.on \in Purchases /\ r.user \in {"buyer", "pseudonym"}

\* The types, in groups of what changes together.
Offers   == vendor \in {"ACTIVE", "ARCHIVED"} /\ listing \in [Listings -> {"NONE", "ACTIVE", "ARCHIVED"}]
Buying   == left \in BOOLEAN /\ purse \in [{"buyer", "pseudonym"} -> Nat] /\ \A r \in requests : Asks(r)
Ordering == order \in [Orders -> {"NONE", "OPEN", "CLOSED"}]
            /\ notice \in [Orders -> {"NONE", "PENDING", "SENDING", "SENT", "DELETED"}]
Telling  == /\ faults \in 0..MaxFaults
            /\ bot.at \in {"idle", "find", "send", "ack"} /\ bot.notice \in Orders \union {None}
MarketTypes == Typed /\ Offers /\ Buying /\ Ordering /\ Telling

LEMMA MarketTypesAre == MarketTypes => TypeOK
BY DEF MarketTypes, Typed, Offers, Buying, Ordering, Telling, TypeOK, Asks

\* What belongs to the vendor: offers come and go.
LEMMA OffersKept == ASSUME Offers, Buying, [Next]_vars PROVE Offers'
<1>1. ASSUME NEW r \in requests, CreateCommit(r) PROVE Offers'
  <2>1. r.on \in Listings BY <1>1 DEF CreateCommit, Buying, Asks
  <2> QED BY <1>1, <2>1 DEF CreateCommit, Offers, account
<1>2. ASSUME NEW l \in Listings, ArchiveListing(l) PROVE Offers' BY <1>2 DEF ArchiveListing, Offers, account
<1>3. CASE UNCHANGED listing /\ (UNCHANGED vendor \/ EndVendor) BY <1>3 DEF Offers, EndVendor
<1>4. \/ UNCHANGED listing /\ (UNCHANGED vendor \/ EndVendor)
      \/ \E r \in requests : CreateCommit(r)
      \/ \E l \in Listings : ArchiveListing(l)
  BY DEF Next, Request, CreateRead, BuyRead, RefundRead, BuyCommit, Book, RefundCommit, Refused, Outbox, Claim,
         Cleanup, Find, Post, Ack, Fails, KeepMarket, Deliver, Close, Payout, ArchiveVendor, RemoveVendor, EndVendor,
         Leave, account, vars
<1> QED BY <1>1, <1>2, <1>3, <1>4

\* A purse never holds less than nothing: a booking takes what is there.
LEMMA PurseKept == ASSUME Typed, Buying, [Next]_vars PROVE purse' \in [{"buyer", "pseudonym"} -> Nat]
<1>1. ASSUME NEW r \in requests, BuyCommit(r) PROVE purse' \in [{"buyer", "pseudonym"} -> Nat]
  <2>1. CASE purse.buyer >= Sum(Of(r.on)) /\ purse' = [purse EXCEPT !.buyer = @ - Sum(Of(r.on))]
    <3>1. Of(r.on) \in SUBSET Purchases BY DEF Of
    <3>2. Sum(Of(r.on)) \in Nat BY <3>1, SumNat
    <3> QED BY <2>1, <3>2 DEF Buying
  <2>2. CASE UNCHANGED purse BY <2>2 DEF Buying
  <2> QED BY <1>1, <2>1, <2>2 DEF BuyCommit, Book, Bookable, Refused, account
<1>2. ASSUME NEW r \in requests, RefundCommit(r) PROVE purse' \in [{"buyer", "pseudonym"} -> Nat]
  <2>1. r.on \in Purchases /\ r.user \in {"buyer", "pseudonym"} BY <1>2 DEF RefundCommit, Buying, Asks
  <2>2. Amount(r.on) \in Nat BY <2>1, AmountNat
  <2>3. UNCHANGED purse \/ purse' = [purse EXCEPT ![r.user] = @ + Amount(r.on)]
    BY <1>2 DEF RefundCommit, Refused, account
  <2> QED BY <2>1, <2>2, <2>3 DEF Buying
<1>3. CASE Leave BY <1>3 DEF Leave, Buying
<1>4. CASE UNCHANGED purse BY <1>4 DEF Buying
<1>5. \/ UNCHANGED purse \/ Leave
      \/ \E r \in requests : BuyCommit(r) \/ RefundCommit(r)
  BY DEF Next, Request, CreateRead, CreateCommit, BuyRead, RefundRead, Refused, Outbox, Claim,
         Cleanup, Find, Post, Ack, Fails, KeepMarket, Deliver, Close, ArchiveListing, Payout, ArchiveVendor,
         RemoveVendor, EndVendor, account, vars
<1> QED BY <1>1, <1>2, <1>3, <1>4, <1>5

\* Who has read an offer or a purchase asks for what there is.
LEMMA BuyingKept == ASSUME Typed, Buying, [Next]_vars PROVE Buying'
<1>1. ASSUME NEW q, Asks(q), Read(q) PROVE \A r \in requests' : Asks(r) BY <1>1 DEF Read, Buying
<1>2. ASSUME NEW l \in Listings, CreateRead(l) PROVE \A r \in requests' : Asks(r)
  <2>1. Asks([op |-> "create", on |-> l]) BY DEF Asks
  <2> QED BY <1>1, <1>2, <2>1 DEF CreateRead
<1>3. ASSUME NEW k \in Keys, BuyRead(k) PROVE \A r \in requests' : Asks(r)
  <2>1. Asks([op |-> "buy", on |-> k]) BY DEF Asks
  <2> QED BY <1>1, <1>3, <2>1 DEF BuyRead
<1>4. ASSUME NEW p \in Purchases, RefundRead(p) PROVE \A r \in requests' : Asks(r)
  <2>1. Asks([op |-> "refund", on |-> p, user |-> Owner]) BY DEF Asks, Owner
  <2> QED BY <1>1, <1>4, <2>1 DEF RefundRead
<1>5. ASSUME requests' \subseteq requests PROVE \A r \in requests' : Asks(r) BY <1>5 DEF Buying
<1>6. \/ requests' \subseteq requests
      \/ \E l \in Listings : CreateRead(l)
      \/ \E k \in Keys : BuyRead(k)
      \/ \E p \in Purchases : RefundRead(p)
  BY DEF Next, Request, CreateCommit, BuyCommit, RefundCommit, Done, Outbox, Claim, Cleanup, Find, Post, Ack,
         Fails, KeepMarket, Deliver, Close, ArchiveListing, Payout, ArchiveVendor, RemoveVendor, EndVendor, Leave,
         vars
<1>7. \A r \in requests' : Asks(r) BY <1>2, <1>3, <1>4, <1>5, <1>6
<1>8. left' \in BOOLEAN
  BY DEF Buying, Next, Request, CreateRead, CreateCommit, BuyRead, RefundRead, BuyCommit, Book, RefundCommit,
         Refused, Outbox, Claim, Cleanup, Find, Post, Ack, Fails, KeepMarket, Deliver, Close, ArchiveListing,
         Payout, ArchiveVendor, RemoveVendor, EndVendor, Leave, vars
<1> QED BY <1>7, <1>8, PurseKept DEF Buying, Asks

\* An order is opened and closed; its notice goes from state to state.
LEMMA OrderingKept == ASSUME Typed, Ordering, [Next]_vars PROVE Ordering'
<1>1. order' \in [Orders -> {"NONE", "OPEN", "CLOSED"}]
  BY DEF Ordering, Next, Request, CreateRead, CreateCommit, BuyRead, RefundRead, BuyCommit, Book, RefundCommit,
         Refused, Outbox, Claim, Cleanup, Find, Post, Ack, Fails, KeepMarket, Deliver, Close, ArchiveListing,
         Payout, ArchiveVendor, RemoveVendor, EndVendor, Leave, vars
<1>2. notice' \in [Orders -> {"NONE", "PENDING", "SENDING", "SENT", "DELETED"}]
  <2>1. CASE Outbox BY <2>1 DEF Ordering, Typed, Outbox, Claim, Cleanup, Find, Post, Ack, Fails
  <2>2. ASSUME NEW o \in Orders, Close(o) PROVE notice' \in [Orders -> {"NONE", "PENDING", "SENDING", "SENT", "DELETED"}]
    BY <2>2 DEF Close, ReadyNotice, Ordering
  <2>3. CASE UNCHANGED notice BY <2>3 DEF Ordering
  <2>4. UNCHANGED notice \/ Outbox \/ \E o \in Orders : Close(o)
    BY DEF Next, Request, CreateRead, CreateCommit, BuyRead, RefundRead, BuyCommit, Book, RefundCommit,
           Refused, Deliver, ArchiveListing, Payout, ArchiveVendor, RemoveVendor, EndVendor, Leave, vars
  <2> QED BY <2>1, <2>2, <2>3, <2>4
<1> QED BY <1>1, <1>2 DEF Ordering

\* The outbox goes from step to step.
LEMMA TellingKept == ASSUME Typed, Telling, MaxFaults \in Nat, [Next]_vars PROVE Telling'
<1>1. CASE Outbox
  BY <1>1 DEF Telling, Typed, Outbox, Claim, Cleanup, Find, Post, Ack, Fails, ToFree, outbox
<1>2. CASE UNCHANGED outbox BY <1>2 DEF outbox, Telling
<1>3. Outbox \/ UNCHANGED outbox
  BY DEF Next, Request, CreateCommit, CreateRead, BuyRead, RefundRead, BuyCommit, Book, RefundCommit, Refused,
         Deliver, Close, ArchiveListing, Payout, ArchiveVendor, RemoveVendor, EndVendor, Leave, vars
<1> QED BY <1>1, <1>2, <1>3

\* blackMarket.ts and what belongs to it: every variable of the market keeps its type; no
\* purse and no account falls below nothing.
THEOREM MarketTypeOK == ASSUME MaxFaults \in Nat PROVE Spec => []TypeOK
<1>1. Init => MarketTypes
  <2> SUFFICES ASSUME Init PROVE Offers /\ Buying /\ Ordering /\ Telling BY InitTyped DEF MarketTypes
  <2>1. purse = [buyer |-> Money, pseudonym |-> 0] /\ left = FALSE /\ requests = {} BY DEF Init
  <2>2. [buyer |-> Money, pseudonym |-> 0] \in [{"buyer", "pseudonym"} -> Nat] BY MarketAssumption
  <2>3. Buying BY <2>1, <2>2 DEF Buying
  <2> QED BY <2>3 DEF Init, Offers, Ordering, Telling
<1>2. MarketTypes /\ [Next]_vars => MarketTypes'
  BY TypedStep, OffersKept, BuyingKept, OrderingKept, TellingKept DEF MarketTypes
<1> QED BY <1>1, <1>2, MarketTypesAre, PTL DEF Spec

-----------------------------------------------------------------------------
(* The vendor's account implements Escrow.                                 *)

\* Escrow counts as Market does.
LEMMA EscrowSums == ASSUME NEW S \in SUBSET Purchases PROVE Escrow!Sum(S) = Sum(S)
<1>1. Escrow!Sum(S) = Total(Cost, S)
  BY DEF Escrow!Sum, Escrow!Value, Escrow!MapThenSumSet, Escrow!MapThenFoldSet, Iter, First, Rest, Total, Cost
<1> QED BY <1>1, SumIs

\* What is held are the open purchases.
LEMMA EscrowHolds == Escrow!Held = Pending
BY DEF Escrow!Held, Ends, Pending

\* Where purchases go, and what that is to the account.
LEMMA EscrowMoves ==
    ASSUME Typed, NEW S \in SUBSET Purchases
    PROVE  /\ Move(S, "NONE", "PENDING") => Escrow!Become(S, "none", "held")
           /\ Move(S, "PENDING", "DELIVERED") => Escrow!Become(S, "held", "met")
           /\ Move(S, "PENDING", "REFUNDED") => Escrow!Become(S, "held", "returned")
BY DEF Typed, Move, Escrow!Become, Ends

\* Every step of the market is one of the account, or none.
LEMMA EscrowStep ==
    ASSUME Typed, PendingCovered, ArchivedOwesNothing, [Next]_vars
    PROVE  [Escrow!Next]_(Escrow!vars)
<1> DEFINE gone == vendor = "ARCHIVED"
<1>0. Pending \in SUBSET Purchases /\ Sum(Pending) \in Nat /\ balance \in Nat /\ Sum(Pending) <= balance
  <2>1. Pending \in SUBSET Purchases BY DEF Pending
  <2> QED BY <2>1, SumNat DEF Typed, PendingCovered
<1>1. CASE Quiet BY <1>1 DEF Quiet, Escrow!vars, Ends
<1>2. CASE Opens
  <2>1. PICK S \in SUBSET Purchases : Move(S, "NONE", "PENDING") /\ balance' = balance + Sum(S) BY <1>2 DEF Opens
  <2>2. Escrow!Deposit(S) BY <1>2, <2>1, EscrowSums, EscrowMoves DEF Opens, Escrow!Deposit
  <2> QED BY <2>2 DEF Escrow!Next
<1>3. CASE Delivers
  <2>1. PICK S \in SUBSET Purchases : Move(S, "PENDING", "DELIVERED") BY <1>3 DEF Delivers
  <2>2. CASE S = {}
    <3>1. fulfilment' = fulfilment BY <2>1, <2>2 DEF Move, Typed
    <3> QED BY <1>3, <3>1 DEF Delivers, Escrow!vars, Ends
  <2>3. CASE S # {}
    <3>1. S \subseteq Pending BY <2>1 DEF Move, Pending
    <3>2. vendor # "ARCHIVED" BY <2>3, <3>1 DEF ArchivedOwesNothing
    <3>3. Pending \ S \in SUBSET Pending /\ Pending \ S \in SUBSET Purchases BY <1>0
    <3>4. Sum(Pending \ S) <= Sum(Pending) /\ Sum(Pending \ S) \in Nat BY <1>0, <3>3, SumMore
    <3>5. 0 + Escrow!Sum(Escrow!Held \ S) <= balance BY <1>0, <3>3, <3>4, EscrowSums, EscrowHolds
    <3>6. Escrow!Become(S, "held", "met") BY <2>1, EscrowMoves
    <3>7. balance' = balance - 0 /\ vendor' = vendor BY <1>0, <1>3 DEF Delivers
    <3>8. Escrow!Release(S, 0) BY <3>2, <3>5, <3>6, <3>7 DEF Escrow!Release
    <3>9. 0 \in 0..balance BY <1>0
    <3> QED BY <3>8, <3>9 DEF Escrow!Next
  <2> QED BY <2>2, <2>3
<1>4. CASE Returns
  <2>1. PICK p \in Purchases : /\ Move({p}, "PENDING", "REFUNDED")
                               /\ Amount(p) <= balance /\ balance' = balance - Amount(p)
    BY <1>4 DEF Returns
  <2>2. vendor # "ARCHIVED" BY <2>1 DEF Move, Pending, ArchivedOwesNothing
  <2>3. {p} \in SUBSET Purchases OBVIOUS
  <2>4. Escrow!Sum({p}) = Amount(p) BY <2>3, EscrowSums, SumOne
  <2>5. Escrow!Become({p}, "held", "returned") BY <2>1, <2>3, EscrowMoves
  <2>6. Escrow!Return({p}) BY <1>4, <2>1, <2>2, <2>4, <2>5 DEF Returns, Escrow!Return
  <2> QED BY <2>3, <2>6 DEF Escrow!Next
<1>5. CASE Pays
  <2>1. PICK a \in 1..Withdrawable : balance' = balance - a BY <1>5 DEF Pays
  <2>2. a \in Nat /\ a <= balance /\ Sum(Pending) <= balance - a BY WithdrawableKeeps
  <2>3. Escrow!Held \ {} = Pending BY EscrowHolds
  <2>4. a + Escrow!Sum(Escrow!Held \ {}) <= balance BY <1>0, <2>2, <2>3, EscrowSums
  <2>5. Escrow!Become({}, "held", "met") BY <1>5 DEF Pays, Escrow!Become, Ends
  <2>6. Escrow!Release({}, a) BY <1>5, <2>1, <2>4, <2>5 DEF Pays, Escrow!Release
  <2>7. a \in 0..balance BY <1>0, <2>2
  <2> QED BY <2>6, <2>7 DEF Escrow!Next
<1>6. CASE Goes
  <2>1. Escrow!End BY <1>6, EscrowHolds DEF Goes, Escrow!End, Ends
  <2> QED BY <2>1 DEF Escrow!Next
<1> QED BY <1>1, <1>2, <1>3, <1>4, <1>5, <1>6, PurchaseStep

\* blackMarket.ts, systemVirtualTransfers.ts: whatever is bought, delivered, refunded and
\* paid out at the same time, the vendor's account is an escrow of the buyers.
THEOREM EscrowImplementedHolds == Spec => EscrowImplemented
<1>1. Init => Escrow!Init BY DEF Init, Escrow!Init, Ends
<1>2. VendorSound => PendingCovered /\ ArchivedOwesNothing BY DEF VendorSound
<1> QED BY <1>1, <1>2, InitTyped, TypedStep, VendorSoundHolds, EscrowStep, PTL DEF Spec, EscrowImplemented, Escrow!Spec

-----------------------------------------------------------------------------
(* Rewards.                                                                *)

CONSTANTS Events, Users, Killer, Time, DayLength, Base, Cap, Cooldown, Batch, ListSize, Leavers, MaxSwitches

VARIABLES log, cursor, decision, paid, active, cron, leave, switches, failures

Kills == INSTANCE Rewards WITH status <- decision, faults <- failures

\* What the sum over a day is about.
Same(e) == {f \in Events : decision[f] = "PAID" /\ Killer[f] = Killer[e] /\ Kills!Day(f) = Kills!Day(e)}

\* What the proof needs of the types.
Amounts == decision \in [Events -> {"NONE", "PENDING", "PAID", "SKIPPED"}] /\ paid \in [Events -> Nat]

\* The steps that pay nobody: they may only take a payment out of sight.
Unpaid ==
    /\ decision' \in [Events -> {"NONE", "PENDING", "PAID", "SKIPPED"}] /\ paid' = paid
    /\ \A e \in Events : decision'[e] = "PAID" => decision[e] = "PAID"

\* One kill is paid, far enough from those paid before and below the cap.
Pay(e) ==
    /\ decision[e] = "PENDING" /\ decision' = [decision EXCEPT ![e] = "PAID"]
    /\ Kills!Due(e) > 0 /\ paid' = [paid EXCEPT ![e] = Kills!Due(e)]
    /\ \A f \in Events : (decision[f] = "PAID" /\ Killer[f] = Killer[e]) => ~Kills!Near(e, f)

\* What was paid on the day of a kill, as one of the sums above.
LEMMA PaidIs == ASSUME NEW e PROVE Kills!PaidThatDay(e) = Total(paid, Same(e))
BY DEF Kills!PaidThatDay, Kills!MapThenSumSet, Kills!MapThenFoldSet, Iter, First, Rest, Same, Total

\* The same after a step.
LEMMA PaidIsNext == ASSUME NEW e PROVE Kills!PaidThatDay(e)' = Total(paid', Same(e)')
BY DEF Kills!PaidThatDay, Kills!MapThenSumSet, Kills!MapThenFoldSet, Iter, First, Rest, Same, Total, Kills!Day

\* The instance counts as this module does.
LEMMA EventsFinite == ASSUME Kills!RewardAssumption PROVE IsFiniteSet(Events)
BY DEF Kills!RewardAssumption, Kills!IsFiniteSet, IsFiniteSet

\* A sum of rewards is a number.
LEMMA PaidNat == ASSUME Kills!RewardAssumption, Amounts, NEW e PROVE Total(paid, Same(e)) \in Nat
<1>1. Same(e) \in SUBSET Events BY DEF Same
<1> QED BY <1>1, EventsFinite, TotalNat DEF Amounts

\* What a kill is worth: a whole number, never more than what the cap leaves.
LEMMA DueFits ==
    ASSUME Kills!RewardAssumption, Amounts, NEW e
    PROVE  Kills!Due(e) \in Int /\ (Cap > 0 => Kills!Due(e) <= Cap - Total(paid, Same(e)))
<1>1. Base \in Nat /\ Cap \in Nat BY DEF Kills!RewardAssumption
<1>2. CASE Cap = 0 BY <1>1, <1>2 DEF Kills!Due
<1>3. CASE Cap # 0
  <2> DEFINE rest == Cap - Total(paid, Same(e))
  <2>1. rest \in Int BY <1>1, PaidNat
  <2>2. Kills!Due(e) = Kills!Min({Base, rest}) BY <1>3, PaidIs DEF Kills!Due
  <2> HIDE DEF rest
  <2>3. \E x \in {Base, rest} : \A y \in {Base, rest} : x <= y BY <1>1, <2>1
  <2>4. Kills!Min({Base, rest}) \in {Base, rest} /\ Kills!Min({Base, rest}) <= rest BY <2>3 DEF Kills!Min
  <2> QED BY <1>1, <2>1, <2>2, <2>4 DEF rest
<1> QED BY <1>2, <1>3

\* Every step pays nobody or one kill.
LEMMA RewardStep ==
    ASSUME Kills!RewardAssumption, Amounts, [Kills!Next]_(Kills!vars)
    PROVE  Unpaid \/ \E e \in Events : Pay(e)
<1>1. CASE UNCHANGED <<decision, paid>> BY <1>1 DEF Unpaid, Amounts
<1>2. ASSUME NEW u \in Users, Kills!LeaveEnds(u) PROVE Unpaid BY <1>2 DEF Kills!LeaveEnds, Unpaid, Amounts
<1>3. CASE Kills!Create
  <2> DEFINE e == Head(cron.todo)
             to == IF cron.user = None THEN "SKIPPED" ELSE "PENDING"
  <2>1. decision' = [decision EXCEPT ![e] = to] /\ paid' = paid /\ to \in {"SKIPPED", "PENDING"}
    BY <1>3 DEF Kills!Create
  <2> HIDE DEF e, to
  <2> QED BY <2>1 DEF Unpaid, Amounts
<1>4. CASE Kills!Finalize
  <2> DEFINE e == Head(cron.todo)
             refused == \/ \E f \in Events : decision[f] = "PAID" /\ Killer[f] = Killer[e] /\ Kills!Near(e, f)
                        \/ Kills!Due(e) <= 0
  <2>1. \/ UNCHANGED <<decision, paid>>
        \/ decision' = [decision EXCEPT ![e] = "SKIPPED"] /\ paid' = paid
        \/ /\ ~refused /\ decision[e] = "PENDING"
           /\ decision' = [decision EXCEPT ![e] = "PAID"] /\ paid' = [paid EXCEPT ![e] = Kills!Due(e)]
    BY <1>4 DEF Kills!Finalize, Kills!decisions
  <2> HIDE DEF e
  <2>2. CASE decision' = [decision EXCEPT ![e] = "SKIPPED"] /\ paid' = paid BY <2>2 DEF Unpaid, Amounts
  <2>3. CASE /\ ~refused /\ decision[e] = "PENDING"
             /\ decision' = [decision EXCEPT ![e] = "PAID"] /\ paid' = [paid EXCEPT ![e] = Kills!Due(e)]
    <3>1. CASE e \in Events
      <4>1. Kills!Due(e) > 0 BY <2>3, DueFits
      <4> QED BY <2>3, <3>1, <4>1 DEF Pay
    <3>2. CASE e \notin Events
      <4>1. decision' = decision /\ paid' = paid BY <2>3, <3>2 DEF Amounts
      <4> QED BY <4>1 DEF Unpaid, Amounts
    <3> QED BY <3>1, <3>2
  <2> QED BY <1>1, <2>1, <2>2, <2>3
<1>5. \/ UNCHANGED <<decision, paid>> \/ Kills!Create \/ Kills!Finalize
      \/ \E u \in Users : Kills!LeaveEnds(u)
  BY DEF Kills!Next, Kills!Run, Kills!Ingest, Kills!Switch, Kills!Leave, Kills!Start, Kills!Page, Kills!Resolve,
         Kills!Advance, Kills!List, Kills!Finish, Kills!Crash, Kills!decisions, Kills!vars
<1> QED BY <1>1, <1>2, <1>3, <1>4, <1>5

\* A payment keeps the amounts numbers.
LEMMA AmountsStep == ASSUME Kills!RewardAssumption, Amounts, [Kills!Next]_(Kills!vars) PROVE Amounts'
<1>1. ASSUME NEW e \in Events, Pay(e) PROVE Amounts'
  <2>1. Kills!Due(e) \in Nat BY <1>1, DueFits DEF Pay
  <2> QED BY <1>1, <2>1 DEF Pay, Amounts
<1> QED BY <1>1, RewardStep DEF Unpaid, Amounts

\* Two kills are as far from each other either way, and never less than nothing.
LEMMA BetweenNat ==
    ASSUME Kills!RewardAssumption, NEW e \in Events, NEW f \in Events
    PROVE  Kills!Between(e, f) \in Nat /\ Kills!Between(e, f) = Kills!Between(f, e)
<1>1. Time[e] \in Nat /\ Time[f] \in Nat BY DEF Kills!RewardAssumption
<1> QED BY <1>1 DEF Kills!Between

\* A step that pays nobody keeps the limits.
LEMMA UnpaidKeeps == ASSUME Kills!RewardAssumption, Amounts, Kills!LimitsKept, Unpaid PROVE Kills!LimitsKept'
<1> SUFFICES ASSUME NEW e \in Events, decision'[e] = "PAID"
             PROVE  /\ Cap > 0 => Kills!PaidThatDay(e)' <= Cap
                    /\ \A f \in Events \ {e} :
                          (decision'[f] = "PAID" /\ Killer[f] = Killer[e]) => Kills!Between(e, f) >= Cooldown
  BY DEF Kills!LimitsKept, Kills!Between
<1>1. decision[e] = "PAID" BY DEF Unpaid
<1>2. ASSUME Cap > 0 PROVE Kills!PaidThatDay(e)' <= Cap
  <2>1. Same(e)' \subseteq Same(e) BY DEF Same, Unpaid, Kills!Day
  <2>2. Same(e) \in SUBSET Events BY DEF Same
  <2>3. Total(paid, Same(e)') <= Total(paid, Same(e)) /\ Total(paid, Same(e)') \in Nat
    <3> DEFINE S == Same(e)
               T == Same(e)'
    <3>1. S \in SUBSET Events /\ T \in SUBSET S BY <2>1, <2>2
    <3> HIDE DEF S, T
    <3>2. Total(paid, T) <= Total(paid, S) /\ Total(paid, T) \in Nat
      BY <3>1, EventsFinite, TotalMore DEF Amounts
    <3> QED BY <3>2 DEF S, T
  <2>4. Total(paid, Same(e)) <= Cap BY <1>1, <1>2, PaidIs DEF Kills!LimitsKept
  <2>5. Kills!PaidThatDay(e)' = Total(paid', Same(e)') BY PaidIsNext
  <2>6. Total(paid, Same(e)) \in Nat /\ Cap \in Nat BY PaidNat DEF Kills!RewardAssumption
  <2> QED BY <2>3, <2>4, <2>5, <2>6 DEF Unpaid
<1> QED BY <1>1, <1>2 DEF Unpaid, Kills!LimitsKept

\* A payment keeps the limits.
LEMMA PayKeeps == ASSUME Kills!RewardAssumption, Amounts, Kills!LimitsKept, NEW x \in Events, Pay(x)
      PROVE Kills!LimitsKept'
<1> SUFFICES ASSUME NEW e \in Events, decision'[e] = "PAID"
             PROVE  /\ Cap > 0 => Kills!PaidThatDay(e)' <= Cap
                    /\ \A f \in Events \ {e} :
                          (decision'[f] = "PAID" /\ Killer[f] = Killer[e]) => Kills!Between(e, f) >= Cooldown
  BY DEF Kills!LimitsKept, Kills!Between
<1>0. /\ \A f \in Events : decision'[f] = IF f = x THEN "PAID" ELSE decision[f]
      /\ \A f \in Events : paid'[f] = IF f = x THEN Kills!Due(x) ELSE paid[f]
      /\ decision[x] = "PENDING"
  BY DEF Pay, Amounts
<1>t. paid' \in [Events -> Nat] /\ paid \in [Events -> Nat] /\ IsFiniteSet(Events) /\ Cap \in Nat
  <2>1. Kills!Due(x) \in Nat BY DueFits DEF Pay
  <2> QED BY <2>1, EventsFinite DEF Pay, Amounts, Kills!RewardAssumption
<1>1. ASSUME Cap > 0 PROVE Kills!PaidThatDay(e)' <= Cap
  <2>1. Kills!PaidThatDay(e)' = Total(paid', Same(e)') BY PaidIsNext
  <2>2. CASE Killer[x] = Killer[e] /\ Kills!Day(x) = Kills!Day(e)
    <3>1. Same(e)' = Same(x) \union {x} /\ x \notin Same(x) /\ Same(x) \in SUBSET Events
      BY <1>0, <2>2 DEF Same, Kills!Day
    <3> DEFINE S == Same(x)
    <3> HIDE DEF S
    <3>2. Same(e)' = S \union {x} /\ x \notin S /\ S \in SUBSET Events BY <3>1 DEF S
    <3>3. (S \union {x}) \ {x} = S /\ S \union {x} \in SUBSET Events /\ x \in S \union {x} BY <3>2
    <3>4. Total(paid', S \union {x}) = paid'[x] + Total(paid', S) BY <1>t, <3>3, TotalAdd
    <3>5. Total(paid', S) = Total(paid, S) BY <1>0, <1>t, <3>2, TotalSame
    <3>6. Kills!Due(x) \in Int /\ Kills!Due(x) <= Cap - Total(paid, S) BY <1>1, DueFits DEF S
    <3>7. Total(paid, S) \in Nat BY PaidNat DEF S
    <3>8. paid'[x] = Kills!Due(x) BY <1>0
    <3> QED BY <1>t, <2>1, <3>2, <3>4, <3>5, <3>6, <3>7, <3>8
  <2>3. CASE ~(Killer[x] = Killer[e] /\ Kills!Day(x) = Kills!Day(e))
    <3>1. Same(e)' = Same(e) /\ x \notin Same(e) /\ Same(e) \in SUBSET Events BY <1>0, <2>3 DEF Same, Kills!Day
    <3>2. \A f \in Same(e) : paid'[f] = paid[f] BY <1>0, <3>1
    <3>3. Total(paid', Same(e)) = Total(paid, Same(e))
      <4> DEFINE S == Same(e)
      <4>1. S \in SUBSET Events /\ \A f \in S : paid'[f] = paid[f] BY <3>1, <3>2
      <4> HIDE DEF S
      <4>2. Total(paid', S) = Total(paid, S) BY <1>t, <4>1, TotalSame
      <4> QED BY <4>2 DEF S
    <3>4. e # x BY <2>3
    <3>5. Total(paid, Same(e)) <= Cap BY <1>0, <1>1, <3>4, PaidIs DEF Kills!LimitsKept
    <3> QED BY <2>1, <3>1, <3>3, <3>5
  <2> QED BY <2>2, <2>3
<1>2. ASSUME NEW f \in Events \ {e}, decision'[f] = "PAID", Killer[f] = Killer[e]
      PROVE Kills!Between(e, f) >= Cooldown
  <2>0. Kills!Between(e, f) \in Nat /\ Kills!Between(e, f) = Kills!Between(f, e) /\ Cooldown \in Nat
    BY <1>2, BetweenNat DEF Kills!RewardAssumption
  <2>1. CASE e = x
    <3>1. decision[f] = "PAID" /\ ~Kills!Near(e, f) BY <1>0, <1>2, <2>1 DEF Pay
    <3> QED BY <2>0, <3>1 DEF Kills!Near
  <2>2. CASE f = x
    <3>1. decision[e] = "PAID" /\ ~Kills!Near(f, e) BY <1>0, <1>2, <2>2 DEF Pay
    <3> QED BY <2>0, <3>1 DEF Kills!Near
  <2>3. CASE e # x /\ f # x BY <1>0, <1>2, <2>3 DEF Kills!LimitsKept
  <2> QED BY <2>1, <2>2, <2>3
<1> QED BY <1>1, <1>2

\* LimitsKept, for any kills, users, cap and cooldown, any order of ingestion and any
\* crashes: what finalizePendingReward counts inside its transaction is all that was
\* booked for the user on the day.
THEOREM LimitsHold == Kills!RewardAssumption /\ Kills!Spec => []Kills!LimitsKept
<1> SUFFICES ASSUME Kills!RewardAssumption PROVE Kills!Spec => []Kills!LimitsKept OBVIOUS
<1>1. Kills!Init => Amounts /\ Kills!LimitsKept BY DEF Kills!Init, Amounts, Kills!LimitsKept
<1>2. Amounts /\ Kills!LimitsKept /\ [Kills!Next]_(Kills!vars) => (Amounts /\ Kills!LimitsKept)'
  <2> SUFFICES ASSUME Amounts, Kills!LimitsKept, [Kills!Next]_(Kills!vars) PROVE Amounts'
    /\ Kills!LimitsKept' OBVIOUS
  <2>1. Amounts' BY AmountsStep
  <2>2. Kills!LimitsKept' BY RewardStep, UnpaidKeeps, PayKeeps
  <2> QED BY <2>1, <2>2
<1> QED BY <1>1, <1>2, PTL DEF Kills!Spec

-----------------------------------------------------------------------------
(* The lottery.                                                            *)

CONSTANTS Players, Quitters, Tokens, Buyer, Stake, Limit, Minimum, Refunds, Settlers

VARIABLES status, ended, winner, final, announced, booked, pot, archived, wallet, refunded, paidTo, settler,
          leaving, errors

Round == INSTANCE Lottery WITH Users <- Players, Leavers <- Quitters, Purchases <- Tokens, Money <- Stake,
            Batch <- Refunds, purse <- wallet, leave <- leaving, faults <- errors

\* The instance counts as this module does.
LEMMA CountIs == ASSUME NEW S PROVE Round!Cardinality(S) = Cardinality(S)
BY DEF Round!Cardinality, Cardinality


\* The purchases not yet given back.
Unreturned == {k \in booked : Buyer[k] \notin refunded}

\* A settler that pays or refunds does so in the states that follow its draw.
SettlerSound(s) ==
    /\ Round!At(s, "pay") => /\ status \in {"DRAWING", "FINISHED"}
                             /\ \A x \in settler[s].to : x[1] = winner
    /\ Round!At(s, "refund") => /\ status \in {"REFUNDING", "REFUNDED"}
                                /\ \A x \in settler[s].to : x[1] \in Round!Entrants

\* What has been paid in each state of the round: the inductive part beside PotMatches.
RoundInv ==
    /\ status \in {"ACTIVE", "DRAWING", "REFUNDING", "FINISHED", "REFUNDED"}
    /\ IsFiniteSet(booked)
    /\ paidTo = IF status = "FINISHED" THEN {winner} ELSE {}
    /\ refunded # {} => status \in {"REFUNDING", "REFUNDED"}
    /\ status = "DRAWING" => final = pot /\ pot # 0
    /\ status = "REFUNDED" => Round!Entrants \subseteq refunded

\* A settler has a row.
SettlersAre == settler = [s \in Settlers |-> settler[s]]

RoundAll == SettlersAre /\ RoundInv /\ Round!PotMatches /\ \A s \in Settlers : SettlerSound(s)

-----------------------------------------------------------------------------
\* Purchases and what is left of them are finite.
LEMMA TicketsFinite ==
    ASSUME IsFiniteSet(booked)
    PROVE  /\ IsFiniteSet(Unreturned) /\ Cardinality(Unreturned) \in Nat
           /\ Cardinality(booked) \in Nat
           /\ \A u : IsFiniteSet({k \in booked : Buyer[k] = u}) /\ Round!Tickets(u) \in Nat
<1>1. Unreturned \in SUBSET booked BY DEF Unreturned
<1>2. ASSUME NEW u PROVE IsFiniteSet({k \in booked : Buyer[k] = u}) /\ Round!Tickets(u) \in Nat
  <2>1. {k \in booked : Buyer[k] = u} \in SUBSET booked OBVIOUS
  <2> QED BY <2>1, CountIs, FS_Subset, FS_CardinalityType DEF Round!Tickets
<1> QED BY <1>1, <1>2, FS_Subset, FS_CardinalityType

\* A participant has a purchase.
LEMMA EntrantBought ==
    ASSUME IsFiniteSet(booked), NEW u \in Round!Entrants
    PROVE  u \in Players /\ Round!Tickets(u) > 0 /\ Cardinality(booked) # 0
<1>1. u \in Players /\ Round!Tickets(u) > 0 BY DEF Round!Entrants
<1>2. {k \in booked : Buyer[k] = u} # {} BY <1>1, CountIs, FS_EmptySet DEF Round!Tickets
<1>3. booked # {} BY <1>2
<1> QED BY <1>1, <1>3, FS_EmptySet

\* A refund of all tickets of a user lowers what is left by exactly these.
LEMMA RefundOne ==
    ASSUME IsFiniteSet(booked), NEW u, u \notin refunded
    PROVE  Cardinality({k \in booked : Buyer[k] \notin refunded \union {u}})
              = Cardinality(Unreturned) - Round!Tickets(u)
<1> DEFINE Mine == {k \in booked : Buyer[k] = u}
           Others == {k \in booked : Buyer[k] \notin refunded \union {u}}
<1>1. IsFiniteSet(Mine) /\ IsFiniteSet(Others)
  <2>1. Mine \in SUBSET booked /\ Others \in SUBSET booked OBVIOUS
  <2> QED BY <2>1, FS_Subset
<1>2. Mine \union Others = Unreturned /\ Mine \intersect Others = {} BY DEF Unreturned
<1>3. Cardinality(Unreturned) = Cardinality(Mine) + Cardinality(Others) - Cardinality({})
  BY <1>1, <1>2, FS_Union
<1>4. Cardinality(Mine) \in Nat /\ Cardinality(Others) \in Nat BY <1>1, FS_CardinalityType
<1> HIDE DEF Mine, Others
<1>5. Cardinality(Others) = Cardinality(Unreturned) - Cardinality(Mine) BY <1>3, <1>4, FS_EmptySet
<1> QED BY <1>5, CountIs DEF Mine, Others, Round!Tickets

-----------------------------------------------------------------------------
\* The purchases, what was given back and the state stay: so do the facts about them.
LEMMA Still ==
    ASSUME RoundAll, UNCHANGED <<status, winner, final, booked, pot, refunded, paidTo>>
    PROVE  RoundInv' /\ Round!PotMatches' /\ Round!Entrants' = Round!Entrants
<1>1. Round!Entrants' = Round!Entrants BY DEF Round!Entrants, Round!Tickets
<1> QED BY <1>1 DEF RoundAll, RoundInv, Round!PotMatches, Round!Settled

\* A settler goes to a step in which it neither pays nor refunds.
LEMMA Elsewhere ==
    ASSUME RoundAll, UNCHANGED <<status, winner, booked>>, NEW s \in Settlers,
           NEW a \in {"idle", "prepare", "view", "announce", "mark", "archive"}, Round!Goto(s, a)
    PROVE  SettlersAre' /\ \A t \in Settlers : SettlerSound(t)'
<1>1. Round!Entrants' = Round!Entrants BY DEF Round!Entrants, Round!Tickets
<1>2. SettlersAre' BY DEF RoundAll, SettlersAre, Round!Goto
<1>3. ASSUME NEW t \in Settlers PROVE SettlerSound(t)'
  <2>1. CASE t = s BY <2>1, <1>2 DEF SettlerSound, Round!At, Round!Goto, RoundAll, SettlersAre
  <2>2. CASE t # s BY <2>2, <1>1 DEF SettlerSound, Round!At, Round!Goto, RoundAll, SettlersAre
  <2> QED BY <2>1, <2>2
<1> QED BY <1>2, <1>3

\* Nothing is sold, paid or refunded at the start.
LEMMA InitRound == Round!Init => RoundAll
<1> SUFFICES ASSUME Round!Init PROVE RoundAll OBVIOUS
<1>1. \A s \in Settlers : settler[s].at = "idle" BY DEF Round!Init, Round!Idle
<1>2. {k \in booked : Buyer[k] \notin refunded} = {} BY DEF Round!Init
<1>3. Round!PotMatches BY <1>2, CountIs, FS_EmptySet DEF Round!Init, Round!PotMatches, Round!Settled
<1>4. RoundInv BY FS_EmptySet DEF Round!Init, RoundInv
<1> QED BY <1>1, <1>3, <1>4 DEF Round!Init, RoundAll, SettlersAre, SettlerSound, Round!At

\* A ticket is sold only before the draw, when nothing has been given back.
LEMMA BuyStep ==
    ASSUME RoundAll, NEW k \in Tokens, Round!Buy(k)
    PROVE  RoundAll'
<1>1. status = "ACTIVE" /\ refunded = {} /\ paidTo = {} BY DEF Round!Buy, Round!Open, RoundAll, RoundInv
<1>2. pot = Cardinality(booked)
  <2>1. {j \in booked : Buyer[j] \notin refunded} = booked BY <1>1
  <2> QED BY <1>1, <2>1, CountIs DEF RoundAll, Round!PotMatches, Round!Settled
<1>3. IsFiniteSet(booked') /\ Cardinality(booked') = Cardinality(booked) + 1
  BY FS_AddElement DEF Round!Buy, RoundAll, RoundInv
<1>4. Round!PotMatches'
  <2>1. {j \in booked' : Buyer[j] \notin refunded'} = booked' BY <1>1 DEF Round!Buy
  <2> QED BY <1>1, <1>2, <1>3, <2>1, CountIs DEF Round!Buy, Round!round, Round!PotMatches, Round!Settled
<1>5. RoundInv' BY <1>1, <1>3 DEF Round!Buy, Round!round, RoundInv
<1>6. SettlersAre' /\ \A s \in Settlers : SettlerSound(s)' BY <1>1 DEF Round!Buy, Round!round, RoundAll,
      SettlersAre, SettlerSound, Round!At
<1> QED BY <1>4, <1>5, <1>6 DEF RoundAll

\* The draw fixes what is paid, or that all is refunded, while no settler pays.
LEMMA PrepareStep ==
    ASSUME RoundAll, NEW s \in Settlers, Round!Prepare(s)
    PROVE  RoundAll'
<1>1. CASE UNCHANGED <<status, winner, final>>
  <2>1. UNCHANGED <<booked, pot, refunded, paidTo>> BY DEF Round!Prepare, Round!money
  <2>2. Round!Goto(s, "view") \/ Round!Goto(s, "idle") BY <1>1 DEF Round!Prepare
  <2> QED BY <1>1, <2>1, <2>2, Still, Elsewhere DEF RoundAll
<1>2. CASE ~UNCHANGED <<status, winner, final>>
  <2>1. /\ status = "ACTIVE" /\ pot = Cardinality(booked) /\ Round!Goto(s, "view") /\ final' = pot
        /\ \/ status' = "REFUNDING"
           \/ status' = "DRAWING" /\ winner' \in Round!Entrants
        /\ UNCHANGED <<booked, pot, refunded, paidTo>>
    BY <1>2, CountIs DEF Round!Prepare, Round!Undrawn, Round!money
  <2>2. refunded = {} /\ paidTo = {} BY <2>1 DEF RoundAll, RoundInv
  <2>3. Round!PotMatches' BY <2>1 DEF RoundAll, Round!PotMatches, Round!Settled
  <2>4. RoundInv'
    <3>1. CASE status' = "REFUNDING" BY <2>1, <2>2, <3>1 DEF RoundAll, RoundInv
    <3>2. CASE status' = "DRAWING"
      <4>1. winner' \in Round!Entrants BY <2>1, <3>2
      <4>2. pot # 0 BY <2>1, <4>1, EntrantBought DEF RoundAll, RoundInv
      <4> QED BY <2>1, <2>2, <3>2, <4>2 DEF RoundAll, RoundInv
    <3> QED BY <2>1, <3>1, <3>2
  <2>5. ASSUME NEW t \in Settlers PROVE SettlerSound(t)'
    <3>1. ~Round!At(t, "pay") /\ ~Round!At(t, "refund") BY <2>1 DEF RoundAll, SettlerSound
    <3>2. settler'[t].at \in {settler[t].at, "view"} BY <2>1 DEF Round!Goto, RoundAll, SettlersAre
    <3> QED BY <3>1, <3>2 DEF SettlerSound, Round!At
  <2>6. SettlersAre' BY <2>1 DEF Round!Goto, RoundAll, SettlersAre
  <2> QED BY <2>3, <2>4, <2>5, <2>6 DEF RoundAll
<1> QED BY <1>1, <1>2

\* The round as it is read after the draw tells whom to pay or to refund.
LEMMA ViewStep ==
    ASSUME RoundAll, NEW s \in Settlers, Round!View(s)
    PROVE  RoundAll'
<1>1. UNCHANGED <<status, winner, final, booked, pot, refunded, paidTo>> BY DEF Round!View, Round!round, Round!money
<1>2. CASE Round!Goto(s, "idle") \/ Round!Goto(s, "announce") BY <1>1, <1>2, Still, Elsewhere DEF RoundAll
<1>3. CASE status = "DRAWING" /\ settler' = [settler EXCEPT ![s] = [at |-> "pay", to |-> {<<winner,
      Round!Named(winner)>>}]]
  <2>1. SettlersAre' BY <1>3 DEF RoundAll, SettlersAre
  <2>2. ASSUME NEW t \in Settlers PROVE SettlerSound(t)'
    <3>1. CASE t = s
      <4>1. settler'[t] = [at |-> "pay", to |-> {<<winner, Round!Named(winner)>>}] BY <1>3, <3>1 DEF RoundAll,
            SettlersAre
      <4> QED BY <1>1, <1>3, <4>1 DEF SettlerSound, Round!At
    <3>2. CASE t # s
      <4>1. settler'[t] = settler[t] BY <1>3, <3>2 DEF RoundAll, SettlersAre
      <4> QED BY <1>1, <4>1, Still DEF RoundAll, SettlerSound, Round!At
    <3> QED BY <3>1, <3>2
  <2> QED BY <1>1, <2>1, <2>2, Still DEF RoundAll
<1>4. ASSUME status = "REFUNDING", NEW b \in SUBSET Players, Round!Page(b),
             settler' = [settler EXCEPT ![s] = [at |-> "refund", to |-> {<<u, Round!Named(u)>> : u \in b}]]
      PROVE  RoundAll'
  <2>1. \A x \in settler'[s].to : x[1] \in Round!Entrants BY <1>4 DEF Round!Page, Round!Unrefunded, RoundAll,
        SettlersAre
  <2> QED BY <1>1, <1>4, <2>1, Still DEF RoundAll, SettlersAre, SettlerSound, Round!At
<1> QED BY <1>2, <1>3, <1>4 DEF Round!View

\* The winner is paid once, from the pot of the draw, whoever of the settlers comes first.
LEMMA PayStep ==
    ASSUME RoundAll, NEW s \in Settlers, Round!Pay(s)
    PROVE  RoundAll'
<1>1. UNCHANGED <<winner, final, booked, refunded>> BY DEF Round!Pay
<1>2. PICK x \in settler[s].to :
        /\ Round!Transfer(s, x[1], x[2], final, paidTo # {}, [at |-> "announce", to |-> {}], status = "DRAWING")
        /\ IF pot' # pot THEN status' = "FINISHED" /\ paidTo' = paidTo \union {x[1]}
           ELSE UNCHANGED <<status, paidTo>>
  BY DEF Round!Pay
<1>3. Round!Goto(s, "announce") \/ Round!Goto(s, "idle") BY <1>2 DEF Round!Transfer, Round!Goto
<1>4. status \in {"DRAWING", "FINISHED"} /\ x[1] = winner BY <1>2 DEF Round!Pay, RoundAll, SettlerSound
<1>5. CASE pot' = pot BY <1>1, <1>2, <1>3, <1>5, Still, Elsewhere DEF RoundAll
<1>6. CASE pot' # pot
  <2>1. status = "DRAWING" /\ paidTo = {} /\ pot' = pot - final BY <1>2, <1>6 DEF Round!Transfer, Round!Goto
  <2>2. final = pot /\ pot \in Nat BY <2>1, CountIs, TicketsFinite DEF RoundAll, RoundInv, Round!PotMatches,
        Round!Settled, Unreturned
  <2>3. pot' = 0 /\ status' = "FINISHED" /\ paidTo' = {winner} BY <1>2, <1>4, <1>6, <2>1, <2>2
  <2>4. refunded = {} BY <2>1 DEF RoundAll, RoundInv
  <2>5. RoundInv' /\ Round!PotMatches' BY <1>1, <2>3, <2>4 DEF RoundAll, RoundInv, Round!PotMatches, Round!Settled
  <2>6. ASSUME NEW t \in Settlers PROVE SettlerSound(t)'
    <3>1. ~Round!At(t, "refund") BY <2>1 DEF RoundAll, SettlerSound
    <3>2. CASE t = s BY <1>3, <3>2 DEF SettlerSound, Round!At, Round!Goto, RoundAll, SettlersAre
    <3>3. CASE t # s BY <1>1, <1>3, <2>3, <3>1, <3>3 DEF SettlerSound, Round!At, Round!Goto, RoundAll, SettlersAre
    <3> QED BY <3>2, <3>3
  <2>7. SettlersAre' BY <1>3 DEF Round!Goto, RoundAll, SettlersAre
  <2> QED BY <2>5, <2>6, <2>7 DEF RoundAll
<1> QED BY <1>5, <1>6

\* A participant is refunded once, all his tickets, although both settlers read him.
LEMMA GiveBackStep ==
    ASSUME RoundAll, NEW s \in Settlers, Round!Refund(s)
    PROVE  RoundAll'
<1>1. UNCHANGED <<status, winner, final, booked, paidTo>> BY DEF Round!Refund, Round!round
<1>2. PICK x \in settler[s].to :
        /\ Round!Transfer(s, x[1], x[2],
           Round!Tickets(x[1]), x[1] \in refunded, [at |-> "refund", to |-> settler[s].to \ {x}], TRUE)
        /\ refunded' = IF pot' # pot THEN refunded \union {x[1]} ELSE refunded
  BY DEF Round!Refund
<1>3. status \in {"REFUNDING", "REFUNDED"} /\ \A y \in settler[s].to : y[1] \in Round!Entrants
  BY DEF Round!Refund, RoundAll, SettlerSound
<1>4. Round!Entrants' = Round!Entrants BY <1>1 DEF Round!Entrants, Round!Tickets
<1>5. SettlersAre' /\ \A t \in Settlers : SettlerSound(t)'
  <2>1. Round!Goto(s, "idle") \/ settler' = [settler EXCEPT ![s] = [at |-> "refund", to |-> settler[s].to \ {x}]]
    BY <1>2 DEF Round!Transfer
  <2>2. CASE Round!Goto(s, "idle") BY <1>1, <2>2, Elsewhere
  <2>3. CASE settler' = [settler EXCEPT ![s] = [at |-> "refund", to |-> settler[s].to \ {x}]]
    BY <1>1, <1>3, <1>4, <2>3 DEF RoundAll, SettlersAre, SettlerSound, Round!At
  <2> QED BY <2>1, <2>2, <2>3
<1>6. RoundInv' /\ Round!PotMatches'
  <2>1. CASE pot' = pot BY <1>1, <1>2, <2>1, Still
  <2>2. CASE pot' # pot
    <3>1. x[1] \notin refunded /\ pot' = pot - Round!Tickets(x[1]) BY <1>2, <2>2 DEF Round!Transfer
    <3>2. status = "REFUNDING" BY <1>2, <1>3, <3>1 DEF RoundAll, RoundInv
    <3>3. refunded' = refunded \union {x[1]} BY <1>2, <2>2
    <3>4. RoundInv' BY <1>1, <3>2, <3>3 DEF RoundAll, RoundInv
    <3>5. IsFiniteSet(booked) /\ pot = Cardinality(Unreturned)
      BY <3>2, CountIs DEF RoundAll, RoundInv, Round!PotMatches, Round!Settled, Unreturned
    <3>6. pot' = Cardinality({k \in booked : Buyer[k] \notin refunded \union {x[1]}})
      BY <3>1, <3>5, RefundOne
    <3>7. Round!PotMatches' BY <1>1, <3>2, <3>3, <3>6, CountIs DEF Round!PotMatches, Round!Settled
    <3> QED BY <3>4, <3>7
  <2> QED BY <2>1, <2>2
<1> QED BY <1>5, <1>6 DEF RoundAll

\* The round is closed as refunded when nobody is left and the pot is empty.
LEMMA RefundsDoneStep ==
    ASSUME RoundAll, NEW s \in Settlers, Round!RefundsDone(s)
    PROVE  RoundAll'
<1>1. UNCHANGED <<winner, final, booked, pot, refunded, paidTo>> BY DEF Round!RefundsDone, Round!money
<1>2. Round!Entrants' = Round!Entrants BY <1>1 DEF Round!Entrants, Round!Tickets
<1>3. CASE status' = status
  <2>1. Round!Goto(s, "announce") \/ Round!Goto(s, "idle") BY DEF Round!RefundsDone
  <2> QED BY <1>1, <1>3, <2>1, Still, Elsewhere DEF RoundAll
<1>4. CASE status' # status
  <2>1. status = "REFUNDING" /\ status' = "REFUNDED" /\ Round!Unrefunded = {} /\ pot = 0
        /\ Round!Goto(s, "announce")
    BY <1>4 DEF Round!RefundsDone
  <2>2. RoundInv' BY <1>1, <1>2, <2>1 DEF RoundAll, RoundInv, Round!Unrefunded
  <2>3. Round!PotMatches' BY <1>1, <2>1 DEF Round!PotMatches, Round!Settled
  <2>4. ASSUME NEW t \in Settlers PROVE SettlerSound(t)'
    <3>1. ~Round!At(t, "pay") BY <2>1 DEF RoundAll, SettlerSound
    <3>2. CASE t = s BY <2>1, <3>2 DEF SettlerSound, Round!At, Round!Goto, RoundAll, SettlersAre
    <3>3. CASE t # s BY <1>1, <1>2, <2>1, <3>1, <3>3 DEF SettlerSound, Round!At, Round!Goto, RoundAll, SettlersAre
    <3> QED BY <3>2, <3>3
  <2>5. SettlersAre' BY <2>1 DEF Round!Goto, RoundAll, SettlersAre
  <2> QED BY <2>2, <2>3, <2>4, <2>5 DEF RoundAll
<1> QED BY <1>3, <1>4

\* Users who leave, failures and the announcement touch neither purchases nor pot.
LEMMA OtherStep ==
    ASSUME RoundAll,
           \/ Round!TimeIsUp \/ Round!Crash \/ UNCHANGED Round!vars
           \/ \E u \in Players : Round!LeaveCheck(u) \/ Round!LeaveCommit(u)
           \/ \E s \in Settlers : Round!Begin(s) \/ Round!Announce(s) \/ Round!Archive(s) \/ Round!Fails(s)
    PROVE  RoundAll'
<1>1. UNCHANGED <<status, winner, final, booked, pot, refunded, paidTo>>
  BY DEF Round!TimeIsUp, Round!Crash, Round!vars, Round!LeaveCheck, Round!LeaveCommit, Round!Begin, Round!Announce,
    Round!Archive, Round!Fails, Round!round, Round!money
<1>2. CASE \E s \in Settlers : Round!Begin(s) \/ Round!Announce(s) \/ Round!Archive(s) \/ Round!Fails(s)
  <2>1. PICK s \in Settlers : Round!Begin(s) \/ Round!Announce(s) \/ Round!Archive(s) \/ Round!Fails(s) BY <1>2
  <2>2. \E a \in {"idle", "prepare", "view", "announce", "mark", "archive"} : Round!Goto(s, a)
    BY <2>1 DEF Round!Begin, Round!Announce, Round!Archive, Round!Fails
  <2> QED BY <1>1, <2>2, Still, Elsewhere DEF RoundAll
<1>3. CASE Round!Crash
  <2>1. SettlersAre' /\ \A t \in Settlers : SettlerSound(t)' BY <1>3 DEF Round!Crash, Round!Idle, SettlersAre,
        SettlerSound, Round!At
  <2> QED BY <1>1, <2>1, Still DEF RoundAll
<1>4. CASE UNCHANGED settler BY <1>1, <1>4, Still DEF RoundAll, SettlersAre, SettlerSound, Round!At
<1> QED BY <1>2, <1>3, <1>4 DEF Round!TimeIsUp, Round!vars, Round!LeaveCheck, Round!LeaveCommit

\* Every step keeps the invariant.
LEMMA RoundStep == RoundAll /\ [Round!Next]_(Round!vars) => RoundAll'
BY BuyStep, PrepareStep, ViewStep, PayStep, GiveBackStep, RefundsDoneStep, OtherStep DEF Round!Next, Round!Settle

\* lottery.ts: the pot holds what was paid for tickets and not given back, and the
\* winner announced is the one paid, with the timer and the command settling at once,
\* failures, crashes, and users leaving in between.
THEOREM RoundSoundHolds == Round!Spec => []Round!RoundSound
<1>1. RoundAll => Round!RoundSound BY DEF RoundAll, RoundInv, Round!RoundSound, Round!WinnerPaid
<1> QED BY <1>1, InitRound, RoundStep,
  PTL DEF Round!Spec

\* What is sold are purchases, and the pot is archived or not.
Sold == booked \subseteq Tokens /\ archived \in BOOLEAN

\* So it is before any sale, and every step keeps it.
LEMMA SoldInit == Round!Init => Sold
BY DEF Round!Init, Sold

LEMMA SoldStep == Sold /\ [Round!Next]_(Round!vars) => Sold'
<1> SUFFICES ASSUME Sold, [Round!Next]_(Round!vars) PROVE Sold' OBVIOUS
<1>1. ASSUME NEW k \in Tokens, Round!Buy(k) PROVE Sold' BY <1>1 DEF Round!Buy, Sold
<1>2. ASSUME NEW s \in Settlers, Round!Archive(s) PROVE Sold' BY <1>2 DEF Round!Archive, Round!round, Sold
<1>3. \/ UNCHANGED <<booked, archived>>
      \/ (\E k \in Tokens : Round!Buy(k)) \/ \E s \in Settlers : Round!Archive(s)
  BY DEF Round!Next, Round!Settle, Round!TimeIsUp, Round!Crash, Round!vars, Round!LeaveCheck, Round!LeaveCommit,
         Round!Begin, Round!Prepare, Round!View, Round!Pay, Round!Refund, Round!RefundsDone, Round!Announce,
         Round!Fails, Round!round, Round!money
<1> QED BY <1>1, <1>2, <1>3 DEF Sold

-----------------------------------------------------------------------------
(* The types of a round.                                                   *)

Settling == [at : {"idle", "prepare", "view", "pay", "refund", "announce", "mark", "archive"},
             to : SUBSET (Players \X BOOLEAN)]

\* The types that do not follow from what is sold and paid, and that a draw has a winner.
RoundTypes ==
    /\ ended \in BOOLEAN /\ announced \in BOOLEAN /\ winner \in Players \union {None} /\ final \in Nat
    /\ wallet \in [Players -> Nat] /\ refunded \subseteq Players /\ paidTo \subseteq Players
    /\ settler \in [Settlers -> Settling]
    /\ leaving \in [Players -> {"here", "checked", "gone"}] /\ errors \in 0..MaxFaults
    /\ status = "DRAWING" => winner \in Players

\* The pot of a sound round holds a number.
LEMMA PotNat == ASSUME RoundAll PROVE pot \in Nat /\ \A u : Round!Tickets(u) \in Nat
<1>1. IsFiniteSet(booked) BY DEF RoundAll, RoundInv
<1>2. pot = IF Round!Settled THEN 0 ELSE Cardinality(Unreturned)
  BY CountIs DEF RoundAll, Round!PotMatches, Unreturned
<1> QED BY <1>1, <1>2, TicketsFinite

\* A settler that goes somewhere, with nobody to pay yet.
LEMMA GotoTyped ==
    ASSUME RoundTypes, NEW s \in Settlers,
           NEW a \in {"idle", "prepare", "view", "announce", "mark", "archive"}, Round!Goto(s, a)
    PROVE  settler' \in [Settlers -> Settling]
<1>1. [at |-> a, to |-> {}] \in Settling BY DEF Settling
<1> QED BY <1>1 DEF Round!Goto, RoundTypes

\* A transfer pays a user, or nobody.
LEMMA TransferTyped ==
    ASSUME RoundTypes, NEW s \in Settlers, NEW u \in Players, NEW named, NEW amount \in Nat, NEW done,
           NEW next \in Settling, NEW effect, Round!Transfer(s, u, named, amount, done, next, effect)
    PROVE  wallet' \in [Players -> Nat] /\ settler' \in [Settlers -> Settling]
<1>1. Round!Goto(s, "idle") \/ settler' = [settler EXCEPT ![s] = next] BY DEF Round!Transfer
<1>2. settler' \in [Settlers -> Settling] BY <1>1, GotoTyped DEF RoundTypes
<1>3. UNCHANGED wallet \/ wallet' = [wallet EXCEPT ![u] = @ + amount] BY DEF Round!Transfer
<1> QED BY <1>2, <1>3 DEF RoundTypes

\* What a settler does.
LEMMA SettleTyped ==
    ASSUME RoundTypes, RoundAll, NEW s \in Settlers, Round!Settle(s)
    PROVE  RoundTypes'
<1>1. CASE Round!Begin(s)
  <2>1. settler' \in [Settlers -> Settling] BY <1>1, GotoTyped DEF Round!Begin
  <2> QED BY <1>1, <2>1 DEF Round!Begin, RoundTypes, Round!money
<1>2. CASE Round!Prepare(s)
  <2>1. settler' \in [Settlers -> Settling] BY <1>2, GotoTyped DEF Round!Prepare
  <2>2. winner' \in Players \union {None} /\ final' \in Nat
    BY <1>2, PotNat DEF Round!Prepare, RoundTypes, Round!Entrants
  <2>3. status' = "DRAWING" => winner' \in Players BY <1>2 DEF Round!Prepare, RoundTypes, Round!Entrants
  <2> QED BY <1>2, <2>1, <2>2, <2>3 DEF Round!Prepare, RoundTypes, Round!money
<1>3. CASE Round!View(s)
  <2>1. CASE Round!Goto(s, "idle") \/ Round!Goto(s, "announce")
    <3>1. settler' \in [Settlers -> Settling] BY <2>1, GotoTyped
    <3> QED BY <1>3, <3>1 DEF Round!View, RoundTypes, Round!round, Round!money
  <2>2. CASE /\ status = "DRAWING"
             /\ settler' = [settler EXCEPT ![s] = [at |-> "pay", to |-> {<<winner, Round!Named(winner)>>}]]
    <3>1. winner \in Players BY <2>2 DEF RoundTypes
    <3>2. [at |-> "pay", to |-> {<<winner, Round!Named(winner)>>}] \in Settling
      <4>1. Round!Named(winner) \in BOOLEAN BY DEF Round!Named
      <4>2. <<winner, Round!Named(winner)>> \in Players \X BOOLEAN BY <3>1, <4>1
      <4> QED BY <4>2 DEF Settling
    <3>3. settler' \in [Settlers -> Settling] BY <2>2, <3>2 DEF RoundTypes
    <3> QED BY <1>3, <3>3 DEF Round!View, RoundTypes, Round!round, Round!money
  <2>3. ASSUME NEW b \in SUBSET Players,
               settler' = [settler EXCEPT ![s] = [at |-> "refund", to |-> {<<u, Round!Named(u)>> : u \in b}]]
        PROVE  RoundTypes'
    <3>1. [at |-> "refund", to |-> {<<u, Round!Named(u)>> : u \in b}] \in Settling
      <4>1. \A u \in b : Round!Named(u) \in BOOLEAN BY DEF Round!Named
      <4>2. {<<u, Round!Named(u)>> : u \in b} \in SUBSET (Players \X BOOLEAN) BY <4>1
      <4> QED BY <4>2 DEF Settling
    <3>2. settler' \in [Settlers -> Settling] BY <2>3, <3>1 DEF RoundTypes
    <3> QED BY <1>3, <3>2 DEF Round!View, RoundTypes, Round!round, Round!money
  <2> QED BY <1>3, <2>1, <2>2, <2>3 DEF Round!View
<1>4. CASE Round!Pay(s)
  <2>1. PICK x \in settler[s].to :
          /\ Round!Transfer(s, x[1], x[2], final, paidTo # {}, [at |-> "announce", to |-> {}], status = "DRAWING")
          /\ IF pot' # pot THEN status' = "FINISHED" /\ paidTo' = paidTo \union {x[1]}
             ELSE UNCHANGED <<status, paidTo>>
    BY <1>4 DEF Round!Pay
  <2>2. x[1] \in Players BY <2>1 DEF RoundTypes, Settling
  <2>3. [at |-> "announce", to |-> {}] \in Settling /\ final \in Nat BY DEF Settling, RoundTypes
  <2>4. wallet' \in [Players -> Nat] /\ settler' \in [Settlers -> Settling] BY <2>1, <2>2, <2>3, TransferTyped
  <2>5. paidTo' \subseteq Players BY <2>1, <2>2 DEF RoundTypes
  <2> QED BY <1>4, <2>4, <2>5 DEF Round!Pay, RoundTypes
<1>5. CASE Round!Refund(s)
  <2>1. PICK x \in settler[s].to :
          /\ Round!Transfer(s, x[1], x[2], Round!Tickets(x[1]), x[1] \in refunded,
                            [at |-> "refund", to |-> settler[s].to \ {x}], TRUE)
          /\ refunded' = IF pot' # pot THEN refunded \union {x[1]} ELSE refunded
    BY <1>5 DEF Round!Refund
  <2>2. x[1] \in Players /\ settler[s].to \in SUBSET (Players \X BOOLEAN) BY <2>1 DEF RoundTypes, Settling
  <2>3. [at |-> "refund", to |-> settler[s].to \ {x}] \in Settling BY <2>2 DEF Settling
  <2>4. Round!Tickets(x[1]) \in Nat BY PotNat
  <2>5. wallet' \in [Players -> Nat] /\ settler' \in [Settlers -> Settling]
    BY <2>1, <2>2, <2>3, <2>4, TransferTyped
  <2>6. refunded' \subseteq Players BY <2>1, <2>2 DEF RoundTypes
  <2> QED BY <1>5, <2>5, <2>6 DEF Round!Refund, RoundTypes, Round!round
<1>6. CASE Round!RefundsDone(s)
  <2>1. settler' \in [Settlers -> Settling] BY <1>6, GotoTyped DEF Round!RefundsDone
  <2> QED BY <1>6, <2>1 DEF Round!RefundsDone, RoundTypes, Round!money
<1>7. CASE Round!Announce(s)
  <2>1. settler' \in [Settlers -> Settling] BY <1>7, GotoTyped DEF Round!Announce
  <2> QED BY <1>7, <2>1 DEF Round!Announce, RoundTypes, Round!money
<1>8. CASE Round!Archive(s)
  <2>1. settler' \in [Settlers -> Settling] BY <1>8, GotoTyped DEF Round!Archive
  <2> QED BY <1>8, <2>1 DEF Round!Archive, RoundTypes, Round!round
<1> QED BY <1>1, <1>2, <1>3, <1>4, <1>5, <1>6, <1>7, <1>8 DEF Round!Settle

\* Every step keeps the types.
LEMMA RoundTypesKept ==
    ASSUME Round!RoundAssumption, MaxFaults \in Nat, RoundTypes, RoundAll, [Round!Next]_(Round!vars)
    PROVE  RoundTypes'
<1>1. ASSUME NEW k \in Tokens, Round!Buy(k) PROVE RoundTypes'
  <2>1. Buyer[k] \in Players BY DEF Round!RoundAssumption
  <2>2. wallet[Buyer[k]] - 1 \in Nat BY <1>1, <2>1 DEF Round!Buy, RoundTypes
  <2>3. wallet' \in [Players -> Nat] BY <1>1, <2>2 DEF Round!Buy, RoundTypes
  <2> QED BY <1>1, <2>3 DEF Round!Buy, RoundTypes, Round!round
<1>2. CASE Round!TimeIsUp BY <1>2 DEF Round!TimeIsUp, RoundTypes, Round!money
<1>3. ASSUME NEW u \in Players, Round!LeaveCheck(u) PROVE RoundTypes'
  BY <1>3 DEF Round!LeaveCheck, RoundTypes, Round!round, Round!money
<1>4. ASSUME NEW u \in Players, Round!LeaveCommit(u) PROVE RoundTypes'
  BY <1>4 DEF Round!LeaveCommit, RoundTypes, Round!round
<1>5. ASSUME NEW s \in Settlers, Round!Fails(s) PROVE RoundTypes'
  <2>1. settler' \in [Settlers -> Settling] BY <1>5, GotoTyped DEF Round!Fails
  <2> QED BY <1>5, <2>1 DEF Round!Fails, RoundTypes, Round!round, Round!money
<1>6. CASE Round!Crash
  <2>1. settler' \in [Settlers -> Settling] BY <1>6 DEF Round!Crash, Round!Idle, Settling
  <2>2. leaving' \in [Players -> {"here", "checked", "gone"}] BY <1>6 DEF Round!Crash, RoundTypes
  <2> QED BY <1>6, <2>1, <2>2 DEF Round!Crash, RoundTypes, Round!round, Round!money
<1>7. CASE UNCHANGED Round!vars BY <1>7 DEF Round!vars, RoundTypes, Round!round, Round!money
<1> QED BY <1>1, <1>2, <1>3, <1>4, <1>5, <1>6, <1>7, SettleTyped DEF Round!Next

\* lottery.ts: every variable of a round keeps its type: no purse and no pot falls below
\* nothing, and only users are paid or refunded.
THEOREM RoundTypeOK ==
    ASSUME Round!RoundAssumption, Stake \in Nat, MaxFaults \in Nat
    PROVE  Round!Spec => []Round!TypeOK
<1>1. Round!Init => RoundAll /\ Sold /\ RoundTypes
  <2> SUFFICES ASSUME Round!Init PROVE RoundTypes BY InitRound, SoldInit
  <2>1. settler \in [Settlers -> Settling] BY DEF Round!Init, Round!Idle, Settling
  <2>2. /\ status = "ACTIVE" /\ ended = FALSE /\ winner = None /\ final = 0 /\ announced = FALSE
        /\ refunded = {} /\ paidTo = {} /\ errors = 0
    BY DEF Round!Init
  <2>3. wallet \in [Players -> Nat] /\ leaving \in [Players -> {"here", "checked", "gone"}] BY DEF Round!Init
  <2>4. ended \in BOOLEAN /\ announced \in BOOLEAN BY <2>2
  <2>5. winner \in Players \union {None} /\ final \in Nat BY <2>2
  <2>6. refunded \subseteq Players /\ paidTo \subseteq Players BY <2>2
  <2>7. errors \in 0..MaxFaults /\ status # "DRAWING" BY <2>2
  <2> QED BY <2>1, <2>3, <2>4, <2>5, <2>6, <2>7 DEF RoundTypes
<1>2. RoundAll /\ Sold /\ RoundTypes /\ [Round!Next]_(Round!vars) => RoundAll' /\ Sold' /\ RoundTypes'
  BY RoundStep, SoldStep, RoundTypesKept
<1>3. RoundAll /\ Sold /\ RoundTypes => Round!TypeOK
  BY PotNat DEF RoundAll, RoundInv, Sold, RoundTypes, Settling, Round!TypeOK
<1> QED BY <1>1, <1>2, <1>3, PTL DEF Round!Spec

-----------------------------------------------------------------------------
(* The pot implements Escrow.                                              *)

\* A sum of ones is a number of elements.
LEMMA TotalCount ==
    ASSUME NEW D, IsFiniteSet(D), NEW w \in [D -> Nat], \A x \in D : w[x] = 1, NEW S \in SUBSET D
    PROVE  Total(w, S) = Cardinality(S)
<1> DEFINE Bad == {T \in SUBSET D : Total(w, T) # Cardinality(T)}
<1>0. Bad \subseteq SUBSET D OBVIOUS
<1>1. SUFFICES ASSUME Bad # {} PROVE FALSE OBVIOUS
<1>m. \E T \in Bad : \A U \in Bad : ~ (U \subseteq T /\ U # T)
  <2> HIDE DEF Bad
  <2> QED BY <1>0, <1>1, Minimal
<1>2. PICK T \in Bad : \A V \in Bad : ~ (V \subseteq T /\ V # T) BY <1>m
<1>3. T # {}
  <2>1. ASSUME T = {} PROVE FALSE
    <3>1. Total(w, {}) = 0 /\ Cardinality({}) = 0 BY TotalEmpty, FS_EmptySet
    <3> QED BY <1>2, <2>1, <3>1
  <2> QED BY <2>1
<1>4. First(T) \in T /\ Rest(T) = T \ {First(T)} /\ Rest(T) \notin Bad /\ Rest(T) \in SUBSET D
  BY <1>2, <1>3, FirstIn DEF Rest
<1>5. Total(w, T) = 1 + Total(w, Rest(T)) BY <1>2, <1>3, <1>4, TotalStep
<1>6. IsFiniteSet(T) BY <1>2, FS_Subset
<1>7. Cardinality(Rest(T)) = Cardinality(T) - 1 /\ Cardinality(T) \in Nat
  BY <1>4, <1>6, FS_RemoveElement, FS_CardinalityType
<1> QED BY <1>2, <1>4, <1>5, <1>7

\* What the stakes are worth, and what they sum up to.
Ones == [k \in Tokens |-> 1]

LEMMA StakesCount ==
    ASSUME Round!RoundAssumption, NEW S \in SUBSET Tokens
    PROVE  Round!Escrow!Sum(S) = Cardinality(S) /\ Cardinality(S) \in Nat
<1>1. Round!Escrow!Sum(S) = Total(Ones, S)
  BY DEF Round!Escrow!Sum, Round!Escrow!Value, Round!Escrow!MapThenSumSet, Round!Escrow!MapThenFoldSet,
         Iter, First, Rest, Total, Ones
<1>2. IsFiniteSet(Tokens) BY DEF Round!RoundAssumption, Round!IsFiniteSet, IsFiniteSet
<1>3. Ones \in [Tokens -> Nat] /\ \A k \in Tokens : Ones[k] = 1 BY DEF Ones
<1>4. IsFiniteSet(S) BY <1>2, FS_Subset
<1> QED BY <1>1, <1>2, <1>3, <1>4, TotalCount, FS_CardinalityType

\* What the account sees does not change.
LEMMA StakesStay ==
    ASSUME UNCHANGED <<booked, refunded, pot, archived>>, (status = "FINISHED") = (status' = "FINISHED")
    PROVE  UNCHANGED Round!Escrow!vars
BY DEF Round!Escrow!vars, Round!Stakes

\* A ticket sold is a stake.
LEMMA BuyDeposits ==
    ASSUME Round!RoundAssumption, RoundAll, Sold, NEW k \in Tokens, Round!Buy(k)
    PROVE  Round!Escrow!Next
<1>1. status = "ACTIVE" /\ refunded = {} /\ k \notin booked /\ ~archived
      /\ booked' = booked \union {k} /\ pot' = pot + 1 /\ UNCHANGED <<status, refunded, archived>>
  BY DEF Round!Buy, Round!Open, Round!round, RoundAll, RoundInv
<1>2. {k} \in SUBSET Tokens OBVIOUS
<1>3. Round!Escrow!Sum({k}) = 1 BY <1>2, StakesCount, FS_Singleton
<1>4. Round!Escrow!Become({k}, "none", "held") BY <1>1 DEF Round!Escrow!Become, Round!Stakes
<1>5. Round!Escrow!Deposit({k}) BY <1>1, <1>3, <1>4 DEF Round!Escrow!Deposit
<1> QED BY <1>2, <1>5 DEF Round!Escrow!Next

\* The pot as a number of stakes.
LEMMA PotCounts ==
    ASSUME RoundAll, status # "FINISHED", status # "REFUNDED"
    PROVE  pot = Cardinality(Unreturned) /\ pot \in Nat
BY CountIs, TicketsFinite DEF RoundAll, RoundInv, Round!PotMatches, Round!Settled, Unreturned

\* The winner's payment meets every stake.
LEMMA PayReleases ==
    ASSUME Round!RoundAssumption, RoundAll, NEW s \in Settlers, Round!Pay(s)
    PROVE  [Round!Escrow!Next]_(Round!Escrow!vars)
<1>1. UNCHANGED <<booked, refunded, archived, final>> BY DEF Round!Pay
<1>2. PICK x \in settler[s].to :
        /\ Round!Transfer(s, x[1], x[2], final, paidTo # {}, [at |-> "announce", to |-> {}], status = "DRAWING")
        /\ IF pot' # pot THEN status' = "FINISHED" /\ paidTo' = paidTo \union {x[1]}
           ELSE UNCHANGED <<status, paidTo>>
  BY DEF Round!Pay
<1>3. CASE pot' = pot BY <1>1, <1>2, <1>3, StakesStay
<1>4. CASE pot' # pot
  <2>1. status = "DRAWING" /\ pot' = pot - final /\ ~archived /\ status' = "FINISHED"
    BY <1>2, <1>4 DEF Round!Transfer
  <2>2. final = pot /\ pot \in Nat /\ refunded = {} BY <2>1, PotCounts DEF RoundAll, RoundInv
  <2> DEFINE H == Round!Escrow!Held
  <2>3. H \in SUBSET Tokens /\ H \ H = {} BY DEF Round!Escrow!Held
  <2>4. Round!Escrow!Sum(H \ H) = 0 BY <2>3, StakesCount, FS_EmptySet
  <2>5. Round!Escrow!Become(H, "held", "met")
    BY <1>1, <2>1, <2>2 DEF Round!Escrow!Become, Round!Escrow!Held, Round!Stakes
  <2>6. Round!Escrow!Release(H, final) BY <1>1, <2>1, <2>2, <2>4, <2>5 DEF Round!Escrow!Release
  <2>7. final \in 0..pot BY <2>2
  <2> HIDE DEF H
  <2> QED BY <2>3, <2>6, <2>7 DEF Round!Escrow!Next
<1> QED BY <1>3, <1>4

\* A refund returns all stakes of a user.
LEMMA RefundReturns ==
    ASSUME Round!RoundAssumption, RoundAll, Sold, NEW s \in Settlers, Round!Refund(s)
    PROVE  [Round!Escrow!Next]_(Round!Escrow!vars)
<1>1. UNCHANGED <<status, booked, archived>> BY DEF Round!Refund, Round!round
<1>2. PICK x \in settler[s].to :
        /\ Round!Transfer(s, x[1], x[2],
           Round!Tickets(x[1]), x[1] \in refunded, [at |-> "refund", to |-> settler[s].to \ {x}], TRUE)
        /\ refunded' = IF pot' # pot THEN refunded \union {x[1]} ELSE refunded
  BY DEF Round!Refund
<1>3. status \in {"REFUNDING", "REFUNDED"} /\ x[1] \in Round!Entrants BY DEF Round!Refund, RoundAll, SettlerSound
<1>4. CASE pot' = pot BY <1>1, <1>2, <1>4, StakesStay
<1>5. CASE pot' # pot
  <2> DEFINE Mine == {k \in booked : Buyer[k] = x[1]}
  <2>1. /\ x[1] \notin refunded /\ pot' = pot - Round!Tickets(x[1]) /\ ~(pot < Round!Tickets(x[1])) /\ ~archived
        /\ refunded' = refunded \union {x[1]}
    BY <1>2, <1>5 DEF Round!Transfer
  <2>2. status = "REFUNDING" BY <1>3, <2>1 DEF RoundAll, RoundInv
  <2>3. Mine \in SUBSET Tokens BY DEF Sold
  <2>4. Round!Escrow!Sum(Mine) = Round!Tickets(x[1]) /\ Round!Tickets(x[1]) \in Nat
    BY <2>3, StakesCount, CountIs DEF Round!Tickets
  <2>5. pot \in Nat BY <2>2, PotCounts
  <2>6. Round!Escrow!Become(Mine, "held", "returned")
    BY <1>1, <2>1, <2>2 DEF Round!Escrow!Become, Round!Stakes, Sold
  <2> HIDE DEF Mine
  <2>7. Round!Escrow!Return(Mine) BY <1>1, <2>1, <2>4, <2>5, <2>6 DEF Round!Escrow!Return
  <2> QED BY <2>3, <2>7 DEF Round!Escrow!Next
<1> QED BY <1>4, <1>5

\* The pot is archived when nobody has a claim any more.
LEMMA ArchiveEnds ==
    ASSUME Round!RoundAssumption, RoundAll, Sold, NEW s \in Settlers, Round!Archive(s)
    PROVE  [Round!Escrow!Next]_(Round!Escrow!vars)
<1>1. UNCHANGED <<status, booked, pot, refunded>> BY DEF Round!Archive, Round!round
<1>2. CASE archived' = archived BY <1>1, <1>2, StakesStay
<1>3. CASE archived' # archived
  <2>1. pot = 0 /\ archived' = TRUE BY <1>3 DEF Round!Archive, Sold
  <2>2. ASSUME status # "FINISHED", NEW k \in booked, Buyer[k] \notin refunded PROVE FALSE
    <3>1. CASE status = "REFUNDED"
      <4>1. k \in Tokens /\ Buyer[k] \in Players BY DEF Sold, Round!RoundAssumption
      <4>2. k \in {j \in booked : Buyer[j] = Buyer[k]} /\ IsFiniteSet({j \in booked : Buyer[j] = Buyer[k]})
        BY TicketsFinite DEF RoundAll, RoundInv
      <4>3. Round!Tickets(Buyer[k]) > 0
        <5> DEFINE Mine == {j \in booked : Buyer[j] = Buyer[k]}
        <5>1. Mine # {} /\ IsFiniteSet(Mine) BY <4>2
        <5>2. Round!Tickets(Buyer[k]) = Cardinality(Mine) BY CountIs DEF Round!Tickets
        <5> HIDE DEF Mine
        <5> QED BY <5>1, <5>2, FS_EmptySet, FS_CardinalityType
      <4> QED BY <2>2, <3>1, <4>1, <4>3 DEF RoundAll, RoundInv, Round!Entrants
    <3>2. CASE status # "REFUNDED"
      <4>1. Cardinality(Unreturned) = 0 BY <2>1, <2>2, <3>2, PotCounts
      <4>2. Unreturned = {} BY <4>1, TicketsFinite, FS_EmptySet DEF RoundAll, RoundInv
      <4> QED BY <2>2, <4>2 DEF Unreturned
    <3> QED BY <3>1, <3>2
  <2>3. Round!Escrow!Held = {} BY <2>2 DEF Round!Escrow!Held, Round!Stakes
  <2>4. Round!Stakes' = Round!Stakes BY <1>1 DEF Round!Stakes
  <2>5. Round!Escrow!End BY <1>1, <2>1, <2>3, <2>4 DEF Round!Escrow!End
  <2> QED BY <2>5 DEF Round!Escrow!Next
<1> QED BY <1>2, <1>3

\* Every other step is none of the account's.
LEMMA RoundRests ==
    ASSUME RoundAll,
           \/ Round!TimeIsUp \/ Round!Crash \/ UNCHANGED Round!vars
           \/ \E u \in Players : Round!LeaveCheck(u) \/ Round!LeaveCommit(u)
           \/ \E s \in Settlers : \/ Round!Begin(s) \/ Round!Announce(s) \/ Round!Fails(s) \/ Round!View(s)
                                  \/ Round!Prepare(s) \/ Round!RefundsDone(s)
    PROVE  UNCHANGED Round!Escrow!vars
<1>1. UNCHANGED <<booked, refunded, pot, archived>>
  BY DEF Round!TimeIsUp, Round!Crash, Round!vars, Round!LeaveCheck, Round!LeaveCommit, Round!Begin, Round!Announce,
         Round!Fails, Round!View, Round!Prepare, Round!RefundsDone, Round!round, Round!money
<1>2. (status = "FINISHED") = (status' = "FINISHED")
  <2>1. ASSUME NEW s \in Settlers, Round!Prepare(s) PROVE (status = "FINISHED") = (status' = "FINISHED")
    BY <2>1 DEF Round!Prepare, Round!Undrawn
  <2>2. ASSUME NEW s \in Settlers, Round!RefundsDone(s) PROVE (status = "FINISHED") = (status' = "FINISHED")
    BY <2>2 DEF Round!RefundsDone
  <2> QED BY <2>1, <2>2 DEF Round!TimeIsUp, Round!Crash, Round!vars, Round!LeaveCheck, Round!LeaveCommit,
             Round!Begin, Round!Announce, Round!Fails, Round!View, Round!round
<1> QED BY <1>1, <1>2, StakesStay

\* lottery.ts, systemVirtualTransfers.ts: with the timer and the command settling at once,
\* failures, crashes and leaves, the pot is an escrow of those who bought tickets.
THEOREM PotImplementsEscrow == ASSUME Round!RoundAssumption PROVE Round!Spec => Round!EscrowImplemented
<1>1. Round!Init => Round!Escrow!Init BY DEF Round!Init, Round!Escrow!Init, Round!Stakes
<1>2. ASSUME RoundAll, Sold, [Round!Next]_(Round!vars) PROVE [Round!Escrow!Next]_(Round!Escrow!vars)
  BY <1>2, BuyDeposits, PayReleases, RefundReturns, ArchiveEnds, RoundRests DEF Round!Next, Round!Settle
<1> QED BY <1>1, <1>2, InitRound, RoundStep, SoldInit, SoldStep,
  PTL DEF Round!Spec, Round!EscrowImplemented, Round!Escrow!Spec

-----------------------------------------------------------------------------
(* LinkRewards: an instance, who earns for the play time of an identity.   *)

CONSTANTS Ids, Tasks, Kinds, Bucket, MaxTime, MaxCommands, MaxLeaves, Slow

VARIABLES now, link, reward, cleanup, task, post, session, progress, buckets, verified, linked, spent

Link == INSTANCE LinkRewards WITH leave <- cleanup, cron <- post, paid <- buckets

Bonds == [status: {"NONE", "VERIFIED", "UNLINKED"}, id: Ids \union {None}, forced: Ids \union {None},
at: 0..MaxTime]
Earners == [here: BOOLEAN, id: Ids \union {None}, from: 0..MaxTime, off: BOOLEAN, eligible: BOOLEAN]
Handlers == [pc: {"idle", "persist", "hook", "activate", "grant", "unlink", "off", "clear"},
             kind: {"link", "force", "unlink", "forceUnlink"}, u: Users \union {None},
             id: Ids \union {None}, new: BOOLEAN, at: 0..MaxTime]
Sessions == [open: BOOLEAN, from: 1..MaxTime, to: 0..MaxTime, passed: BOOLEAN]
Exits == [open: BOOLEAN, done: 0..MaxTime]
Marks == [id: Ids, epoch: 0..MaxTime, n: 0..MaxTime]
Payments == [id: Ids, u: Users, epoch: 0..MaxTime, n: 1..MaxTime]
Counts == [commands: 0..MaxCommands, leaves: 0..MaxLeaves, faults: 0..MaxFaults]

\* What the rows may hold.
Bonded == link \in [Users -> Bonds] /\ \A u \in Users : (link[u].id # None) = (link[u].status = "VERIFIED")
Crons == /\ post.pc \in {"idle", "forced", "hooks", "states", "repair", "book"}
         /\ post.todo \subseteq Link!Job \union Link!Claim \union Ids
         /\ post.out \subseteq Link!Job /\ post.at \in 0..MaxTime
Books == progress \subseteq Marks /\ buckets \subseteq Payments

LinkTypes ==
    /\ now \in 1..MaxTime
    /\ Bonded
    /\ reward \in [Users -> Earners]
    /\ cleanup \in [Users -> Exits]
    /\ task \in [Tasks -> Handlers]
    /\ Crons
    /\ session \in [Ids -> Sessions]
    /\ Books
    /\ spent \in Counts

LEMMA LinkTypesAre == LinkTypes <=> Link!TypeOK
BY DEF LinkTypes, Link!TypeOK, Bonds, Bonded, Earners, Handlers, Sessions, Exits, Marks, Payments, Counts,
       Crons, Books

\* Among verifications: one of the user by then, one of the user as this identity.
By(seen, u, n) == \E v \in seen : v[1] = u /\ v[3] <= n
As(seen, u, g) == \E v \in seen : v[1] = u /\ v[2] = g
Known(u, n) == By(verified, u, n)
Once(u, g)  == As(verified, u, g)

\* A verification is never of the future, and a verified link is one of them.
Proven == /\ \A v \in verified : v[3] \in Nat /\ v[3] <= now
          /\ \A u \in Users : Link!Verified(u) => <<u, link[u].id, link[u].at>> \in verified

\* A command under way is that of a user, began at some time, and has linked
\* before it activates rewards.
Handled(k, time, seen) ==
    k.pc # "idle" => /\ k.u \in Users /\ k.at \in 1..time
                     /\ k.pc \in {"persist", "hook", "activate", "grant"} => k.id \in Ids
                     /\ k.pc = "hook" => By(seen, k.u, time)
                     /\ k.pc = "activate" => By(seen, k.u, k.at)
Tasked == \A t \in Tasks : Handled(task[t], now, verified)

\* And so has the cron.
Repaired == /\ post.pc = "forced" => /\ \A j \in post.todo \intersect Link!Job : j.at \in 1..now
                                     /\ \A j \in post.out : Known(j.u, now)
            /\ post.pc \in {"hooks", "repair"} => \A j \in post.todo \intersect Link!Job : Known(j.u, j.at)

\* Whoever earns has been verified as who they earn as, and by the cutoff as somebody.
Earns == \A u \in Users : reward[u].here => Once(u, reward[u].id) /\ Known(u, reward[u].from)
Paid  == \A b \in buckets : Once(b.u, b.id) /\ Known(b.u, b.epoch)

\* One progress for every identity and epoch, and nothing beyond it is paid.
Counted == /\ \A p, q \in progress : p.id = q.id /\ p.epoch = q.epoch => p = q
           /\ \A b \in buckets : \E p \in progress : p.id = b.id /\ p.epoch = b.epoch /\ b.n <= p.n

LinkInv == /\ LinkTypes /\ Proven /\ Tasked /\ Repaired /\ Earns /\ Paid
           /\ Counted /\ Link!BucketPaidOnce /\ Link!CleanupFinal

LEMMA LinkInit == ASSUME Link!LinkAssumption, Link!Init PROVE LinkInv
<1> USE DEF Link!LinkAssumption
<1>1. now \in 1..MaxTime /\ spent \in Counts
  BY DEF Link!Init, Counts
<1>2. Bonded /\ reward \in [Users -> Earners] /\ cleanup \in [Users -> Exits] /\ task \in [Tasks -> Handlers]
  BY DEF Link!Init, Bonded, Bonds, Earners, Exits, Handlers, Link!NoLink, Link!NoReward, Link!NoTask
<1>3. session \in [Ids -> Sessions] /\ Crons /\ Books
  BY DEF Link!Init, Sessions, Crons, Books, Link!NoCron
<1>4. LinkTypes
  BY <1>1, <1>2, <1>3 DEF LinkTypes
<1>5. Proven /\ Tasked /\ Repaired /\ Earns /\ Paid /\ Counted
  BY <1>4 DEF Link!Init, Proven, Tasked, Handled, Repaired, Earns, Paid, Counted, Link!Verified, Link!NoLink,
              Link!NoTask, Link!NoCron, Link!NoReward
<1>6. Link!BucketPaidOnce /\ Link!CleanupFinal
  BY DEF Link!Init, Link!BucketPaidOnce, As, Link!CleanupFinal, Link!Verified, Link!NoLink, Link!NoReward
<1> QED BY <1>4, <1>5, <1>6 DEF LinkInv

\* What was seen by some time has been seen later too.
LEMMA HandledLater ==
    ASSUME NEW k, NEW m \in Nat, NEW n \in Nat, m <= n, NEW seen, NEW more, seen \subseteq more,
           \A v \in seen : v[3] \in Nat, Handled(k, m, seen)
    PROVE  Handled(k, n, more)
BY DEF Handled, By

\* A command goes on: its record changes and the links do not.
LEMMA CommandMoves ==
    ASSUME LinkTypes, Tasked, NEW t \in Tasks, NEW k \in Handlers, task' = [task EXCEPT ![t] = k],
    Handled(k, now, verified),
           UNCHANGED <<now, verified>>
    PROVE  task' \in [Tasks -> Handlers] /\ Tasked'
<1>1. task' \in [Tasks -> Handlers] BY DEF LinkTypes
<1>2. \A s \in Tasks : task'[s] = IF s = t THEN k ELSE task[s] BY DEF LinkTypes
<1>3. \A s \in Tasks : Handled(task'[s], now, verified) BY <1>2 DEF Tasked
<1> QED BY <1>1, <1>3 DEF Tasked, Handled, Known, By

\* A step that leaves the links, the cron and the bookings alone.
LinkQuiet == UNCHANGED <<now, link, cleanup, post, session, progress, buckets, verified>>

LEMMA QuietKept ==
    ASSUME LinkInv, LinkQuiet, task' \in [Tasks -> Handlers], Tasked', spent' \in Counts, UNCHANGED reward
    PROVE  LinkInv'
<1>1. LinkTypes' BY DEF LinkInv, LinkQuiet, LinkTypes, Bonded, Crons, Books
<1>2. Proven' /\ Repaired' /\ Earns' /\ Paid' /\ Counted'
  BY DEF LinkInv, LinkQuiet, Proven, Repaired, Earns, Paid, Counted, Known, By, Once, As, Link!Verified
<1>3. Link!BucketPaidOnce' /\ Link!CleanupFinal'
  BY DEF LinkInv, LinkQuiet, Link!BucketPaidOnce, As, Link!CleanupFinal, Link!Verified
<1> QED BY <1>1, <1>2, <1>3 DEF LinkInv

-----------------------------------------------------------------------------

LEMMA SpendTyped ==
    ASSUME Link!LinkAssumption, LinkInv,
           Link!Spend("commands", MaxCommands) \/ Link!Spend("leaves", MaxLeaves)
           \/ Link!Spend("faults", MaxFaults)
    PROVE  spent' \in Counts
BY DEF Link!LinkAssumption, LinkInv, LinkTypes, Link!Spend, Counts

LEMMA NoTaskIdle == ASSUME Link!LinkAssumption PROVE Link!NoTask \in Handlers
/\ Handled(Link!NoTask, now, verified)
BY DEF Link!LinkAssumption, Link!NoTask, Handlers, Handled

LEMMA EndKept ==
    ASSUME Link!LinkAssumption, LinkInv, NEW t \in Tasks, Link!End(t), UNCHANGED <<now, verified>>
    PROVE  task' \in [Tasks -> Handlers] /\ Tasked'
BY NoTaskIdle, CommandMoves DEF Link!End, LinkInv

\* From one step of a command to another that needs nothing new.
LEMMA GotoKept ==
    ASSUME LinkInv, NEW t \in Tasks, NEW pc \in {"grant", "off", "clear"}, Link!Goto(t, pc),
           ~Link!At(t, "idle"), pc = "grant" => task[t].id \in Ids, UNCHANGED <<now, verified>>
    PROVE  task' \in [Tasks -> Handlers] /\ Tasked'
<1> DEFINE k == [task[t] EXCEPT !.pc = pc]
<1>1. task[t] \in Handlers /\ Handled(task[t], now, verified) BY DEF LinkInv, LinkTypes, Tasked
<1>2. k \in Handlers BY <1>1 DEF Handlers
<1>3. Handled(k, now, verified) BY <1>1 DEF Handled, Link!At, Handlers
<1>4. task' = [task EXCEPT ![t] = k] BY DEF Link!Goto, LinkInv, LinkTypes
<1> HIDE DEF k
<1> QED BY <1>2, <1>3, <1>4, CommandMoves DEF LinkInv

LEMMA BeginKept ==
    ASSUME Link!LinkAssumption, LinkInv, NEW t \in Tasks, NEW kind \in Kinds, NEW u \in Users,
           NEW g \in Ids \union {None}, Link!Begin(t, kind, u, g)
    PROVE  LinkInv'
<1> DEFINE k == [pc |-> IF g = None THEN "unlink" ELSE "persist", kind |-> kind,
                 u |-> u, id |-> g, new |-> FALSE, at |-> now]
<1>1. k \in Handlers BY DEF Handlers, LinkInv, LinkTypes, Link!LinkAssumption
<1>2. Handled(k, now, verified) BY DEF Handled, LinkInv, LinkTypes
<1>3. task' = [task EXCEPT ![t] = k] /\ LinkQuiet /\ UNCHANGED reward BY DEF Link!Begin, LinkQuiet
<1>4. spent' \in Counts BY SpendTyped DEF Link!Begin
<1> HIDE DEF k
<1>5. task' \in [Tasks -> Handlers] /\ Tasked' BY <1>1, <1>2, <1>3, CommandMoves DEF LinkInv, LinkQuiet
<1> QED BY <1>3, <1>4, <1>5, QuietKept

LEMMA HookKept == ASSUME Link!LinkAssumption, LinkInv, NEW t \in Tasks, Link!Hook(t) PROVE LinkInv'
<1>1. LinkQuiet /\ UNCHANGED <<reward, spent>> BY DEF Link!Hook, LinkQuiet
<1>2. spent' \in Counts BY <1>1 DEF LinkInv, LinkTypes
<1>3. task' \in [Tasks -> Handlers] /\ Tasked'
  <2>1. CASE cleanup[task[t].u].open BY <2>1, <1>1, EndKept DEF Link!Hook, LinkQuiet
  <2>2. CASE ~cleanup[task[t].u].open
    <3> DEFINE k == [task[t] EXCEPT !.pc = "activate", !.at = now]
    <3>1. task[t] \in Handlers /\ Handled(task[t], now, verified) /\ task[t].pc = "hook" /\ now \in 1..MaxTime
      BY DEF LinkInv, LinkTypes, Tasked, Link!Hook, Link!At
    <3>a. now \in 0..MaxTime BY <3>1 DEF Link!LinkAssumption
    <3>2. k \in Handlers BY <3>1, <3>a DEF Handlers
    <3>3. Handled(k, now, verified) BY <3>1 DEF Handled, Handlers
    <3>4. task' = [task EXCEPT ![t] = k] BY <2>2 DEF Link!Hook, LinkInv, LinkTypes
    <3> HIDE DEF k
    <3> QED BY <1>1, <3>2, <3>3, <3>4, CommandMoves DEF LinkInv, LinkQuiet
  <2> QED BY <2>1, <2>2
<1> QED BY <1>1, <1>2, <1>3, QuietKept

LEMMA DiesKept == ASSUME Link!LinkAssumption, LinkInv, NEW t \in Tasks, Link!Dies(t) PROVE LinkInv'
<1>1. LinkQuiet /\ UNCHANGED reward BY DEF Link!Dies, LinkQuiet
<1>2. spent' \in Counts BY SpendTyped DEF Link!Dies
<1>3. task' \in [Tasks -> Handlers] /\ Tasked' BY <1>1, EndKept DEF Link!Dies, LinkQuiet
<1> QED BY <1>1, <1>2, <1>3, QuietKept

-----------------------------------------------------------------------------
(* Steps that write a reward state.                                        *)

\* What is written keeps what it says, and goes to somebody who is linked.
LEMMA RewardKept ==
    ASSUME LinkInv, NEW u \in Users, NEW r \in Earners, reward' = [reward EXCEPT ![u] = r],
           r.here => link[u].status # "NONE" /\ Once(u, r.id) /\ Known(u, r.from),
           UNCHANGED <<now, link, cleanup, session, progress, buckets, verified>>,
           task' \in [Tasks -> Handlers], Tasked', Crons', Repaired', spent' \in Counts
    PROVE  LinkInv'
<1>1. reward' \in [Users -> Earners] BY DEF LinkInv, LinkTypes
<1>2. LinkTypes' BY <1>1 DEF LinkInv, LinkTypes, Bonded, Books
<1>3. Proven' /\ Paid' /\ Counted' /\ Link!BucketPaidOnce'
  BY DEF LinkInv, Proven, Paid, Counted, Known, By, Once, As, Link!Verified, Link!BucketPaidOnce
<1>4. \A v \in Users : reward'[v] = IF v = u THEN r ELSE reward[v] BY DEF LinkInv, LinkTypes
<1>5. Earns' BY <1>4 DEF LinkInv, Earns, Known, By, Once, As
<1>6. Link!CleanupFinal' BY <1>4 DEF LinkInv, Link!CleanupFinal, Link!Verified
<1> QED BY <1>2, <1>3, <1>5, <1>6 DEF LinkInv

\* activateLinkRewardState, where it does not throw.
LEMMA ActivatedKept ==
    ASSUME Link!LinkAssumption, LinkInv, NEW u \in Users, NEW g \in Ids, NEW new \in BOOLEAN,
    NEW at \in 0..MaxTime,
           Link!CanActivate(u, g), Known(u, at), reward' = Link!Activated(u, g, new, at)
    PROVE  \E r \in Earners : /\ reward' = [reward EXCEPT ![u] = r]
                              /\ r.here => link[u].status # "NONE" /\ Once(u, r.id) /\ Known(u, r.from)
<1> DEFINE old == reward[u]
           r == IF ~old.here THEN [here |-> TRUE, id |-> g, from |-> at, off |-> FALSE, eligible |-> TRUE]
                ELSE [old EXCEPT !.id = g, !.off = FALSE, !.from = IF new THEN at ELSE old.from]
<1>1. old \in Earners /\ (old.here => Known(u, old.from)) BY DEF LinkInv, LinkTypes, Earns
<1>2. Link!Verified(u) /\ link[u].id = g /\ <<u, g, link[u].at>> \in verified
  BY DEF Link!CanActivate, Link!Fresh, LinkInv, Proven
<1>3. Once(u, g) /\ link[u].status # "NONE" BY <1>2 DEF Once, As, Link!Verified
<1>4. reward' = [reward EXCEPT ![u] = r]
  <2>1. CASE ~old.here BY <2>1 DEF Link!Activated
  <2>2. CASE old.here /\ new BY <2>2 DEF Link!Activated
  <2>3. CASE old.here /\ ~new BY <1>1, <2>3 DEF Link!Activated, Earners
  <2> QED BY <2>1, <2>2, <2>3
<1>5. r \in Earners BY <1>1 DEF Earners
<1>6. r.id = g /\ (r.from = at \/ (old.here /\ r.from = old.from)) BY <1>1 DEF Earners
<1> HIDE DEF r, old
<1>7. Once(u, r.id) /\ Known(u, r.from) BY <1>1, <1>3, <1>6
<1> QED BY <1>3, <1>4, <1>5, <1>7

\* grantStartBalanceForLink and deactivateLinkRewardState change two flags.
LEMMA FlagsKept ==
    ASSUME LinkInv, NEW u \in Users, reward' = Link!Granted(u) \/ reward' = Link!Deactivated(u)
    PROVE  \E r \in Earners : /\ reward' = [reward EXCEPT ![u] = r]
                              /\ r.here => link[u].status # "NONE" /\ Once(u, r.id) /\ Known(u, r.from)
<1>1. reward \in [Users -> Earners] /\ reward[u] \in Earners BY DEF LinkInv, LinkTypes
<1>2. reward[u].here => link[u].status # "NONE" /\ Once(u, reward[u].id) /\ Known(u, reward[u].from)
  BY DEF LinkInv, Earns, Link!CleanupFinal
<1>3. CASE reward' = reward
  <2>1. reward' = [reward EXCEPT ![u] = reward[u]] BY <1>1, <1>3
  <2> QED BY <1>1, <1>2, <2>1
<1>4. CASE \E off, eligible \in BOOLEAN : reward' = [reward EXCEPT ![u] = [reward[u] EXCEPT !.off = off,
      !.eligible = eligible]]
  <2> PICK off \in BOOLEAN, eligible \in BOOLEAN :
           reward' = [reward EXCEPT ![u] = [reward[u] EXCEPT !.off = off, !.eligible = eligible]] BY <1>4
  <2> DEFINE r == [reward[u] EXCEPT !.off = off, !.eligible = eligible]
  <2>1. r \in Earners /\ r.here = reward[u].here /\ r.id = reward[u].id /\ r.from = reward[u].from
    BY <1>1 DEF Earners
  <2>2. reward' = [reward EXCEPT ![u] = r] OBVIOUS
  <2> HIDE DEF r
  <2> QED BY <1>2, <2>1, <2>2
<1>5. reward' = reward \/ \E off, eligible \in BOOLEAN :
          reward' = [reward EXCEPT ![u] = [reward[u] EXCEPT !.off = off, !.eligible = eligible]]
  <2>1. CASE reward' = Link!Granted(u) /\ ~cleanup[u].open
    <3> DEFINE eligible == reward[u].eligible /\ (reward[u].off \/ ~reward[u].here)
    <3>1. eligible \in BOOLEAN /\ reward[u].off \in BOOLEAN BY <1>1 DEF Earners
    <3>2. reward' = [reward EXCEPT ![u] = [reward[u] EXCEPT !.off = reward[u].off, !.eligible = eligible]]
      BY <2>1, <1>1 DEF Link!Granted, Earners
    <3> HIDE DEF eligible
    <3> QED BY <3>1, <3>2
  <2>2. CASE reward' = Link!Granted(u) /\ cleanup[u].open BY <2>2 DEF Link!Granted
  <2>3. CASE reward' = Link!Deactivated(u)
    <3> DEFINE off == reward[u].off \/ reward[u].here
    <3>1. off \in BOOLEAN /\ reward[u].eligible \in BOOLEAN BY <1>1 DEF Earners
    <3>2. reward' = [reward EXCEPT ![u] = [reward[u] EXCEPT !.off = off, !.eligible = reward[u].eligible]]
      BY <2>3, <1>1 DEF Link!Deactivated, Earners
    <3> HIDE DEF off
    <3> QED BY <3>1, <3>2
  <2> QED BY <2>1, <2>2, <2>3
<1> QED BY <1>3, <1>4, <1>5

LEMMA ActivateKept == ASSUME Link!LinkAssumption, LinkInv, NEW t \in Tasks, Link!Activate(t) PROVE LinkInv'
<1> DEFINE u == task[t].u
           g == task[t].id
<1>1. /\ task[t] \in Handlers /\ task[t].pc = "activate" /\ u \in Users /\ g \in Ids /\ Known(u, task[t].at)
      /\ task[t].new \in BOOLEAN /\ task[t].at \in 0..MaxTime
  BY DEF LinkInv, LinkTypes, Tasked, Handled, Handlers, Known, Link!Activate, Link!At
<1>2. UNCHANGED <<now, link, cleanup, post, session, progress, buckets, verified, spent>> BY DEF Link!Activate
<1>3. Crons' /\ Repaired' /\ spent' \in Counts
  BY <1>2 DEF LinkInv, LinkTypes, Crons, Repaired, Known, By
<1>4. CASE Link!CanActivate(u, g)
  <2>1. reward' = Link!Activated(u, g, task[t].new, task[t].at) /\ Link!Goto(t, "grant") BY <1>4 DEF Link!Activate
  <2>2. task' \in [Tasks -> Handlers] /\ Tasked' BY <1>1, <1>2, <2>1, GotoKept DEF Link!At
  <2> HIDE DEF u, g
  <2>3. PICK r \in Earners : /\ reward' = [reward EXCEPT ![u] = r]
                             /\ r.here => link[u].status # "NONE" /\ Once(u, r.id) /\ Known(u, r.from)
    BY <1>1, <1>4, <2>1, ActivatedKept
  <2> QED BY <1>1, <1>2, <1>3, <2>2, <2>3, RewardKept
<1>5. CASE ~Link!CanActivate(u, g)
  <2>1. Link!End(t) /\ UNCHANGED reward BY <1>5 DEF Link!Activate
  <2>2. task' \in [Tasks -> Handlers] /\ Tasked' BY <1>2, <2>1, EndKept
  <2> QED BY <1>2, <1>3, <2>1, <2>2, QuietKept DEF LinkQuiet
<1> QED BY <1>4, <1>5

\* grantStartBalanceForLink ends a command, deactivateLinkRewardState may be followed by another step.
LEMMA FlagsStep ==
    ASSUME Link!LinkAssumption, LinkInv, NEW t \in Tasks, Link!GrantStartBalance(t) \/ Link!DeactivateRewards(t)
    PROVE  LinkInv'
<1> DEFINE u == task[t].u
<1>1. task[t].pc # "idle" /\ u \in Users
  BY DEF LinkInv, Tasked, Handled, Link!GrantStartBalance, Link!DeactivateRewards, Link!At
<1>2. UNCHANGED <<now, link, cleanup, post, session, progress, buckets, verified, spent>>
  BY DEF Link!GrantStartBalance, Link!DeactivateRewards
<1>3. Crons' /\ Repaired' /\ spent' \in Counts
  BY <1>2 DEF LinkInv, LinkTypes, Crons, Repaired, Known, By
<1>4. Link!End(t) \/ Link!Goto(t, "clear") BY DEF Link!GrantStartBalance, Link!DeactivateRewards
<1>5. task' \in [Tasks -> Handlers] /\ Tasked' BY <1>1, <1>2, <1>4, EndKept, GotoKept DEF Link!At
<1>6. reward' = Link!Granted(u) \/ reward' = Link!Deactivated(u)
  BY DEF Link!GrantStartBalance, Link!DeactivateRewards
<1> HIDE DEF u
<1>7. PICK r \in Earners : /\ reward' = [reward EXCEPT ![u] = r]
                           /\ r.here => link[u].status # "NONE" /\ Once(u, r.id) /\ Known(u, r.from)
  BY <1>1, <1>6, FlagsKept
<1> QED BY <1>1, <1>2, <1>3, <1>5, <1>7, RewardKept

-----------------------------------------------------------------------------
(* Steps that write a link.                                                *)

\* A link that counts was verified and is younger than the last clean-up; no row goes.
LEMMA BondKept ==
    ASSUME LinkInv, Bonded', verified \subseteq verified', \A v \in verified' : v[3] \in Nat /\ v[3] <= now,
           \A u \in Users : /\ Link!Verified(u)' => /\ <<u, link'[u].id, link'[u].at>> \in verified'
                                                    /\ link'[u].at > cleanup[u].done
                            /\ link'[u].status = "NONE" => link[u].status = "NONE",
           UNCHANGED <<now, reward, cleanup, session, progress, buckets, spent>>,
           task' \in [Tasks -> Handlers], Tasked', Crons', Repaired'
    PROVE  LinkInv'
<1>1. LinkTypes' BY DEF LinkInv, LinkTypes, Books
<1>2. Proven' BY DEF Proven
<1>3. \A u, n : By(verified, u, n) => By(verified', u, n) BY DEF By
<1>4. \A u, g : As(verified, u, g) => As(verified', u, g) BY DEF As
<1>5. Earns' BY <1>3, <1>4 DEF LinkInv, Earns, Known, By, Once, As
<1>6. Paid' BY <1>3, <1>4 DEF LinkInv, Paid, Known, By, Once, As
<1>7. Counted' /\ Link!BucketPaidOnce' BY DEF LinkInv, Counted, Link!BucketPaidOnce, As
<1>8. Link!CleanupFinal' BY DEF LinkInv, Link!CleanupFinal
<1> QED BY <1>1, <1>2, <1>5, <1>6, <1>7, <1>8 DEF LinkInv

\* persistVerifiedLink and persistAdminForcedLink, for an attempt that is not fenced off.
LEMMA LinkedBonds ==
    ASSUME Link!LinkAssumption, LinkInv, NEW u \in Users, NEW g \in Ids, NEW name \in Ids \union {None},
           NEW at \in 1..now, ~Link!Fenced(u, at), Link!Linked(u, g, name, at)
    PROVE  /\ Bonded' /\ verified \subseteq verified' /\ \A v \in verified' : v[3] \in Nat /\ v[3] <= now
           /\ \E v \in verified' : v[1] = u /\ v[3] <= now
           /\ \A w \in Users : /\ Link!Verified(w)' => /\ <<w, link'[w].id, link'[w].at>> \in verified'
                                                       /\ link'[w].at > cleanup[w].done
                               /\ link'[w].status = "NONE" => link[w].status = "NONE"
<1>1. now \in 1..MaxTime /\ MaxTime \in Nat /\ at \in 0..MaxTime /\ g # None
  BY DEF LinkInv, LinkTypes, Link!LinkAssumption
<1>2. \A w \in Users : link[w] \in Bonds /\ cleanup[w] \in Exits BY DEF LinkInv, LinkTypes, Bonded
<1>3. CASE Link!Verified(u) /\ link[u].id = g
  <2>1. UNCHANGED <<link, verified>> BY <1>3 DEF Link!Linked
  <2>2. <<u, link[u].id, link[u].at>> \in verified BY <1>3 DEF LinkInv, Proven
  <2> QED BY <2>1, <2>2 DEF LinkInv, LinkTypes, Bonded, Proven, Link!CleanupFinal, Link!Verified
<1>4. CASE ~(Link!Verified(u) /\ link[u].id = g)
  <2> DEFINE b == [status |-> "VERIFIED", id |-> g, forced |-> name, at |-> at]
  <2>1. link' = [link EXCEPT ![u] = b] /\ verified' = verified \union {<<u, g, at>>} BY <1>4 DEF Link!Linked
  <2>2. b \in Bonds BY <1>1 DEF Bonds
  <2>3. \A w \in Users : link'[w] = IF w = u THEN b ELSE link[w] BY <2>1 DEF LinkInv, LinkTypes, Bonded
  <2>4. Bonded'
    <3>1. link' \in [Users -> Bonds] BY <2>1, <2>2 DEF LinkInv, LinkTypes, Bonded
    <3> QED BY <1>1, <2>3, <3>1 DEF LinkInv, LinkTypes, Bonded
  <2>5. \A v \in verified' : v[3] \in Nat /\ v[3] <= now BY <1>1, <2>1 DEF LinkInv, Proven
  <2>6. at > cleanup[u].done BY <1>1, <1>2 DEF Link!Fenced, Exits
  <2>7. \A w \in Users : /\ Link!Verified(w)' => /\ <<w, link'[w].id, link'[w].at>> \in verified'
                                                 /\ link'[w].at > cleanup[w].done
                         /\ link'[w].status = "NONE" => link[w].status = "NONE"
    BY <2>1, <2>3, <2>6 DEF LinkInv, Proven, Link!CleanupFinal, Link!Verified
  <2>8. <<u, g, at>> \in verified' /\ <<u, g, at>>[1] = u /\ <<u, g, at>>[3] <= now BY <1>1, <2>1
  <2> QED BY <2>1, <2>4, <2>5, <2>7, <2>8
<1> QED BY <1>3, <1>4

\* A command has linked.
LEMMA PersistKept == ASSUME Link!LinkAssumption, LinkInv, NEW t \in Tasks, Link!Persist(t) PROVE LinkInv'
<1> DEFINE u == task[t].u
           g == task[t].id
           at == task[t].at
           forced == task[t].kind = "force"
<1>1. /\ task[t] \in Handlers /\ task[t].pc = "persist" /\ u \in Users /\ g \in Ids /\ at \in 1..now
  BY DEF LinkInv, LinkTypes, Tasked, Handled, Link!Persist, Link!At
<1>2. UNCHANGED <<now, reward, cleanup, post, session, progress, buckets, spent>> BY DEF Link!Persist
<1>3. Crons' /\ spent' \in Counts BY <1>2 DEF LinkInv, LinkTypes, Crons
<1>4. CASE Link!End(t) /\ UNCHANGED <<link, verified>>
  <2>1. task' \in [Tasks -> Handlers] /\ Tasked' BY <1>2, <1>4, EndKept
  <2> QED BY <1>2, <1>3, <1>4, <2>1, QuietKept DEF LinkQuiet
<1>5. CASE /\ ~Link!Fenced(u, at)
           /\ Link!Linked(u, g, IF forced THEN g ELSE link[u].forced, at)
           /\ task' = [task EXCEPT ![t].pc = "hook", ![t].new = ~Link!Verified(u)]
  <2> DEFINE name == IF forced THEN g ELSE link[u].forced
             new == ~Link!Verified(u)
             k == [task[t] EXCEPT !.pc = "hook", !.new = new]
  <2>1. name \in Ids \union {None} BY <1>1 DEF LinkInv, LinkTypes, Bonded, Bonds
  <2>2. Link!Linked(u, g, name, at) BY <1>5
  <2>3. task' = [task EXCEPT ![t] = k] BY <1>5 DEF LinkInv, LinkTypes
  <2>4. new \in BOOLEAN BY DEF Link!Verified
  <2>5. k \in Handlers /\ k.pc = "hook" /\ k.u = u /\ k.id = g /\ k.at = at
    <3> HIDE DEF new
    <3> QED BY <1>1, <2>4 DEF Handlers
  <2> HIDE DEF name, k, u, g, at, new
  <2>6. /\ Bonded' /\ verified \subseteq verified' /\ \A v \in verified' : v[3] \in Nat /\ v[3] <= now
        /\ \E v \in verified' : v[1] = u /\ v[3] <= now
        /\ \A w \in Users : /\ Link!Verified(w)' => /\ <<w, link'[w].id, link'[w].at>> \in verified'
                                                    /\ link'[w].at > cleanup[w].done
                            /\ link'[w].status = "NONE" => link[w].status = "NONE"
    BY <1>1, <1>5, <2>1, <2>2, LinkedBonds DEF at, u
  <2>7. task' \in [Tasks -> Handlers] BY <2>3, <2>5 DEF LinkInv, LinkTypes
  <2>8. Tasked'
    <3>1. \A s \in Tasks : task'[s] = IF s = t THEN k ELSE task[s] BY <2>3 DEF LinkInv, LinkTypes
    <3>2. now \in Nat /\ \A v \in verified : v[3] \in Nat BY DEF LinkInv, LinkTypes, Proven
    <3>3. ASSUME NEW s \in Tasks, s # t PROVE Handled(task'[s], now', verified')
      BY <1>2, <2>6, <3>1, <3>2, <3>3, HandledLater DEF LinkInv, Tasked
    <3>4. Handled(task'[t], now', verified') BY <1>1, <1>2, <2>5, <2>6, <3>1 DEF Handled, By
    <3> QED BY <3>3, <3>4 DEF Tasked
  <2>9. Repaired' BY <1>2, <2>6 DEF LinkInv, Repaired, Known, By
  <2> QED BY <1>2, <1>3, <2>6, <2>7, <2>8, <2>9, BondKept
<1> QED BY <1>4, <1>5 DEF Link!Persist

\* unlinkUser and clearProvisionalForcedPlayerName take something away from a row.
LEMMA UnbindKept ==
    ASSUME Link!LinkAssumption, LinkInv, NEW t \in Tasks, Link!Unlink(t) \/ Link!ClearForcedName(t)
    PROVE  LinkInv'
<1> DEFINE u == task[t].u
<1>1. task[t].pc # "idle" /\ u \in Users
  BY DEF LinkInv, Tasked, Handled, Link!Unlink, Link!ClearForcedName, Link!At
<1>2. UNCHANGED <<now, reward, cleanup, post, session, progress, buckets, verified, spent>>
  BY DEF Link!Unlink, Link!ClearForcedName
<1>3. Crons' /\ Repaired' /\ spent' \in Counts
  BY <1>2 DEF LinkInv, LinkTypes, Crons, Repaired, Known
<1>4. Link!End(t) \/ Link!Goto(t, "clear") \/ Link!Goto(t, "off") BY DEF Link!Unlink, Link!ClearForcedName
<1>5. task' \in [Tasks -> Handlers] /\ Tasked' BY <1>1, <1>2, <1>4, EndKept, GotoKept DEF Link!At
<1>6. link \in [Users -> Bonds] /\ link[u] \in Bonds BY <1>1 DEF LinkInv, LinkTypes, Bonded
<1>7. \E b \in Bonds : /\ link' = [link EXCEPT ![u] = b]
                       /\ \/ b.status = "UNLINKED" /\ b.id = None
                          \/ b.status = link[u].status /\ b.id = link[u].id /\ b.at = link[u].at
  <2>1. CASE link' = link
    <3>1. link' = [link EXCEPT ![u] = link[u]] BY <1>6, <2>1
    <3> QED BY <1>6, <3>1
  <2>2. CASE link' = [link EXCEPT ![u].status = "UNLINKED", ![u].id = None]
    <3> DEFINE b == [link[u] EXCEPT !.status = "UNLINKED", !.id = None]
    <3>1. b \in Bonds /\ b.status = "UNLINKED" /\ b.id = None BY <1>6 DEF Bonds
    <3>2. link' = [link EXCEPT ![u] = b] BY <1>6, <2>2
    <3> QED BY <3>1, <3>2
  <2>3. CASE link' = [link EXCEPT ![u].forced = None]
    <3> DEFINE b == [link[u] EXCEPT !.forced = None]
    <3>1. b \in Bonds /\ b.status = link[u].status /\ b.id = link[u].id /\ b.at = link[u].at BY <1>6 DEF Bonds
    <3>2. link' = [link EXCEPT ![u] = b] BY <1>6, <2>3
    <3> QED BY <3>1, <3>2
  <2> QED BY <2>1, <2>2, <2>3 DEF Link!Unlink, Link!ClearForcedName
<1> HIDE DEF u
<1>8. PICK b \in Bonds : /\ link' = [link EXCEPT ![u] = b]
                         /\ \/ b.status = "UNLINKED" /\ b.id = None
                            \/ b.status = link[u].status /\ b.id = link[u].id /\ b.at = link[u].at
  BY <1>7
<1>9. \A w \in Users : link'[w] = IF w = u THEN b ELSE link[w] BY <1>6, <1>8
<1>10. Bonded'
  <2>1. link' \in [Users -> Bonds] BY <1>6, <1>8
  <2> QED BY <1>8, <1>9, <2>1 DEF LinkInv, LinkTypes, Bonded
<1>11. \A w \in Users : /\ Link!Verified(w)' => /\ <<w, link'[w].id, link'[w].at>> \in verified'
                                                /\ link'[w].at > cleanup[w].done
                        /\ link'[w].status = "NONE" => link[w].status = "NONE"
  BY <1>2, <1>8, <1>9 DEF LinkInv, Proven, Link!CleanupFinal, Link!Verified
<1>12. verified \subseteq verified' /\ \A v \in verified' : v[3] \in Nat /\ v[3] <= now
  BY <1>2 DEF LinkInv, Proven
<1> QED BY <1>2, <1>3, <1>5, <1>10, <1>11, <1>12, BondKept

LEMMA CommandKept == ASSUME Link!LinkAssumption, LinkInv, NEW t \in Tasks, Link!Command(t) PROVE LinkInv'
BY PersistKept, HookKept, ActivateKept, FlagsStep, UnbindKept DEF Link!Command

-----------------------------------------------------------------------------
(* The clean-up of a leave, the clock, and the sessions.                   *)

LEMMA LeaveBeginsKept == ASSUME Link!LinkAssumption, LinkInv, NEW u \in Users, Link!LeaveBegins(u) PROVE LinkInv'
<1>1. UNCHANGED <<now, link, reward, task, post, session, progress, buckets, verified>> BY DEF Link!LeaveBegins
<1>2. spent' \in Counts BY SpendTyped DEF Link!LeaveBegins
<1>3. cleanup \in [Users -> Exits] BY DEF LinkInv, LinkTypes
<1>4. cleanup' \in [Users -> Exits] /\ \A v \in Users : cleanup'[v].done = cleanup[v].done
  BY <1>3 DEF Link!LeaveBegins, Exits
<1>5. LinkTypes' BY <1>1, <1>2, <1>4 DEF LinkInv, LinkTypes, Bonded, Crons, Books
<1>6. Proven' /\ Tasked' /\ Repaired' /\ Earns' /\ Paid' /\ Counted' /\ Link!BucketPaidOnce'
  BY <1>1 DEF LinkInv, Proven, Tasked, Repaired, Earns, Paid, Counted, Known, Once, Link!Verified,
              Link!BucketPaidOnce
<1>7. Link!CleanupFinal' BY <1>1, <1>4 DEF LinkInv, Link!CleanupFinal, Link!Verified
<1> QED BY <1>5, <1>6, <1>7 DEF LinkInv

LEMMA LeaveCompletesKept == ASSUME Link!LinkAssumption, LinkInv, NEW u \in Users, Link!LeaveCompletes(u)
PROVE LinkInv'
<1>1. UNCHANGED <<now, task, post, session, progress, buckets, verified, spent>> BY DEF Link!LeaveCompletes
<1>2. /\ Link!NoLink \in Bonds /\ Link!NoLink.status = "NONE" /\ Link!NoLink.id = None
      /\ Link!NoReward \in Earners /\ ~Link!NoReward.here
  BY DEF Link!LinkAssumption, Link!NoLink, Link!NoReward, Bonds, Earners
<1>3. [open |-> FALSE, done |-> now] \in Exits BY DEF LinkInv, LinkTypes, Link!LinkAssumption, Exits
<1>4. \A v \in Users : /\ link'[v] = IF v = u THEN Link!NoLink ELSE link[v]
                       /\ reward'[v] = IF v = u THEN Link!NoReward ELSE reward[v]
                       /\ v # u => cleanup'[v] = cleanup[v]
  <2>1. link \in [Users -> Bonds] /\ reward \in [Users -> Earners] /\ cleanup \in [Users -> Exits]
    BY DEF LinkInv, LinkTypes, Bonded
  <2> QED BY <2>1 DEF Link!LeaveCompletes
<1>5. cleanup' \in [Users -> Exits] BY <1>3 DEF Link!LeaveCompletes, LinkInv, LinkTypes
<1>6. reward' \in [Users -> Earners] BY <1>2 DEF Link!LeaveCompletes, LinkInv, LinkTypes
<1>7. Bonded'
  <2>1. link' \in [Users -> Bonds] BY <1>2 DEF Link!LeaveCompletes, LinkInv, LinkTypes, Bonded
  <2> QED BY <1>2, <1>4, <2>1 DEF LinkInv, LinkTypes, Bonded
<1>8. LinkTypes' BY <1>1, <1>5, <1>6, <1>7 DEF LinkInv, LinkTypes, Crons, Books
<1>9. Tasked' /\ Repaired' /\ Paid' /\ Counted' /\ Link!BucketPaidOnce'
  BY <1>1 DEF LinkInv, Tasked, Repaired, Paid, Counted, Known, Once, Link!BucketPaidOnce
<1>10. Proven' BY <1>1, <1>2, <1>4 DEF LinkInv, Proven, Link!Verified
<1>11. Earns' BY <1>1, <1>2, <1>4 DEF LinkInv, Earns, Known, Once
<1>12. Link!CleanupFinal' BY <1>2, <1>4 DEF LinkInv, Link!CleanupFinal, Link!Verified
<1> QED BY <1>8, <1>9, <1>10, <1>11, <1>12 DEF LinkInv

LEMMA DisconnectKept == ASSUME Link!LinkAssumption, LinkInv, NEW g \in Ids, Link!Disconnect(g) PROVE LinkInv'
<1>1. UNCHANGED <<now, link, reward, cleanup, task, post, progress, buckets, verified, spent>>
  BY DEF Link!Disconnect
<1>2. session' \in [Ids -> Sessions]
  <2> DEFINE closed == [session[g] EXCEPT !.open = FALSE, !.to = now]
  <2>1. session[g] \in Sessions /\ now \in 0..MaxTime BY DEF LinkInv, LinkTypes, Link!LinkAssumption
  <2>2. closed \in Sessions BY <2>1 DEF Sessions
  <2>3. session' = [session EXCEPT ![g] = closed] BY DEF Link!Disconnect, LinkInv, LinkTypes
  <2> HIDE DEF closed
  <2> QED BY <2>2, <2>3 DEF LinkInv, LinkTypes
<1>3. LinkTypes' BY <1>1, <1>2 DEF LinkInv, LinkTypes, Bonded, Crons, Books
<1> QED BY <1>1, <1>3 DEF LinkInv, Proven, Tasked, Repaired, Earns, Paid, Counted, Known, Once, Link!Verified,
                          Link!BucketPaidOnce, Link!CleanupFinal

LEMMA TickKept == ASSUME Link!LinkAssumption, LinkInv, Link!Tick PROVE LinkInv'
<1>1. UNCHANGED <<link, reward, cleanup, task, post, session, progress, buckets, verified, spent>>
  BY DEF Link!Tick
<1>2. now \in Nat /\ now' \in 1..MaxTime /\ now' \in Nat /\ now <= now'
  BY DEF Link!Tick, LinkInv, LinkTypes, Link!LinkAssumption
<1>3. LinkTypes' BY <1>1, <1>2 DEF LinkInv, LinkTypes, Bonded, Crons, Books
<1>4. Proven' BY <1>1, <1>2 DEF LinkInv, Proven, Link!Verified
<1>5. Tasked' BY <1>1, <1>2, HandledLater DEF LinkInv, Tasked, Proven
<1>6. Repaired'
  <2>1. \A u : By(verified, u, now) => By(verified, u, now') BY <1>2 DEF By, LinkInv, Proven
  <2> QED BY <1>1, <1>2, <2>1 DEF LinkInv, Repaired, Known
<1>7. Earns' /\ Paid' /\ Counted' /\ Link!BucketPaidOnce' /\ Link!CleanupFinal'
  BY <1>1 DEF LinkInv, Earns, Paid, Counted, Known, Once, Link!Verified, Link!BucketPaidOnce, Link!CleanupFinal
<1> QED BY <1>3, <1>4, <1>5, <1>6, <1>7 DEF LinkInv

-----------------------------------------------------------------------------
(* The cron.                                                               *)

\* Steps that only move the cron.
LEMMA CronMoves ==
    ASSUME LinkInv, UNCHANGED <<now, link, reward, cleanup, task, progress, buckets, verified>>,
           session' \in [Ids -> Sessions], Crons', Repaired', spent' \in Counts
    PROVE  LinkInv'
<1>1. LinkTypes' BY DEF LinkInv, LinkTypes, Bonded, Books
<1>2. Proven' /\ Tasked' /\ Earns' /\ Paid' /\ Counted'
  BY DEF LinkInv, Proven, Tasked, Earns, Paid, Counted, Known, Once, Link!Verified
<1>3. Link!BucketPaidOnce' /\ Link!CleanupFinal'
  BY DEF LinkInv, Link!BucketPaidOnce, Link!CleanupFinal, Link!Verified
<1> QED BY <1>1, <1>2, <1>3 DEF LinkInv

LEMMA NoCronTyped ==
    ASSUME Link!LinkAssumption, post' = Link!NoCron, UNCHANGED <<now, verified>>
    PROVE  Crons' /\ Repaired'
BY DEF Link!LinkAssumption, Link!NoCron, Crons, Repaired

LEMMA CronStartKept == ASSUME Link!LinkAssumption, LinkInv, Link!CronStart PROVE LinkInv'
<1>1. UNCHANGED <<now, link, reward, cleanup, task, session, progress, buckets, verified, spent>>
  BY DEF Link!CronStart
<1>2. now \in 1..MaxTime /\ now \in 0..MaxTime /\ now \in 1..now BY DEF LinkInv, LinkTypes, Link!LinkAssumption
<1> DEFINE Forced == {[u |-> u, id |-> link[u].forced, new |-> FALSE, at |-> now, sub |-> "row"] :
                      u \in {v \in Users : Link!Verified(v) /\ link[v].forced # None}}
<1>3. post' = [pc |-> "forced", out |-> {}, at |-> now, todo |-> Forced] BY DEF Link!CronStart
<1>4. \A j \in Forced : j \in Link!Job /\ j.at = now
  <2>1. \A v \in Users : link[v].forced \in Ids \union {None} BY DEF LinkInv, LinkTypes, Bonded, Bonds
  <2>2. ASSUME NEW u \in Users, link[u].forced # None
        PROVE  [u |-> u, id |-> link[u].forced, new |-> FALSE, at |-> now, sub |-> "row"] \in Link!Job
    BY <1>2, <2>1, <2>2 DEF Link!Job
  <2> QED BY <2>2
<1> HIDE DEF Forced
<1>5. Crons' BY <1>2, <1>3, <1>4 DEF Crons
<1>6. Repaired' BY <1>1, <1>2, <1>3, <1>4 DEF Repaired
<1> QED BY <1>1, <1>5, <1>6, CronMoves DEF LinkInv, LinkTypes

\* A link is forced again: whoever is verified now has been verified.
LEMMA CronForceKept ==
    ASSUME Link!LinkAssumption, LinkInv, NEW j \in post.todo \intersect Link!Job, Link!CronForce(j)
    PROVE  LinkInv'
<1>1. UNCHANGED <<now, reward, cleanup, task, session, progress, buckets, spent>> BY DEF Link!CronForce
<1>2. /\ post.pc = "forced" /\ j.at \in 1..now /\ j.u \in Users /\ j.id \in Ids
      /\ \A i \in post.todo \intersect Link!Job : i.at \in 1..now
      /\ \A i \in post.out : By(verified, i.u, now)
  BY DEF LinkInv, Repaired, Link!CronForce, Link!Job, Known
<1>3. CASE ~Link!MayForce(j.u, j.id)
  <2>1. post' = [post EXCEPT !.pc = "forced", !.todo = post.todo \ {j}, !.out = post.out]
        /\ UNCHANGED <<link, verified>>
    BY <1>3 DEF Link!CronForce, Link!CronGoto
  <2>2. Crons' BY <2>1 DEF LinkInv, LinkTypes, Crons
  <2>3. Repaired' BY <1>1, <1>2, <2>1 DEF LinkInv, LinkTypes, Crons, Repaired, Known
  <2> QED BY <1>1, <2>1, <2>2, <2>3, CronMoves DEF LinkInv, LinkTypes
<1>4. CASE Link!MayForce(j.u, j.id)
  <2> DEFINE new == ~Link!Verified(j.u)
             i == [j EXCEPT !.new = new, !.sub = "hook"]
  <2>1. /\ Link!Linked(j.u, j.id, j.id, j.at) /\ ~Link!Fenced(j.u, j.at)
        /\ post' = [post EXCEPT !.pc = "forced", !.todo = post.todo \ {j}, !.out = post.out \union {i}]
    BY <1>4 DEF Link!CronForce, Link!CronGoto
  <2>2. new \in BOOLEAN BY DEF Link!Verified
  <2>3. i \in Link!Job /\ i.u = j.u
    <3> HIDE DEF new
    <3> QED BY <2>2 DEF Link!Job
  <2> HIDE DEF new, i
  <2>4. /\ Bonded' /\ verified \subseteq verified' /\ \A v \in verified' : v[3] \in Nat /\ v[3] <= now
        /\ \E v \in verified' : v[1] = j.u /\ v[3] <= now
        /\ \A w \in Users : /\ Link!Verified(w)' => /\ <<w, link'[w].id, link'[w].at>> \in verified'
                                                    /\ link'[w].at > cleanup[w].done
                            /\ link'[w].status = "NONE" => link[w].status = "NONE"
    BY <1>2, <2>1, LinkedBonds
  <2>5. post'.pc = "forced" /\ post'.todo = post.todo \ {j} /\ post'.out = post.out \union {i}
        /\ post'.at = post.at
    BY <2>1 DEF LinkInv, LinkTypes, Crons
  <2>6. Crons' BY <2>3, <2>5 DEF LinkInv, LinkTypes, Crons
  <2>7. Repaired'
    <3>1. \A k \in post'.todo \intersect Link!Job : k.at \in 1..now' BY <1>1, <1>2, <2>5
    <3>2. \A k \in post'.out : By(verified', k.u, now') BY <1>1, <1>2, <2>3, <2>4, <2>5 DEF By
    <3> QED BY <2>5, <3>1, <3>2 DEF Repaired, Known
  <2>8. Tasked'
    <3>1. now \in Nat /\ \A v \in verified : v[3] \in Nat BY DEF LinkInv, LinkTypes, Proven
    <3>2. ASSUME NEW t \in Tasks PROVE Handled(task'[t], now', verified')
      BY <1>1, <2>4, <3>1, HandledLater DEF LinkInv, Tasked
    <3> QED BY <3>2 DEF Tasked
  <2>9. task' \in [Tasks -> Handlers] BY <1>1 DEF LinkInv, LinkTypes
  <2> QED BY <1>1, <2>4, <2>6, <2>7, <2>8, <2>9, BondKept
<1> QED BY <1>3, <1>4

\* The forced links are done, failed or not; their hooks start now.
LEMMA CronForcedKept ==
    ASSUME Link!LinkAssumption, LinkInv, Link!CronForced \/ \E j \in post.todo : Link!CronForceFails(j)
    PROVE  LinkInv'
<1>1. UNCHANGED <<now, link, reward, cleanup, task, session, progress, buckets, verified, spent>>
  BY DEF Link!CronForced, Link!CronForceFails
<1>2. now \in 0..MaxTime /\ post.out \subseteq Link!Job /\ post.at \in 0..MaxTime
  BY DEF LinkInv, LinkTypes, Crons, Link!LinkAssumption
<1>3. CASE \E j \in post.todo : Link!CronForceFails(j)
  <2>1. post'.pc = "states" /\ post'.todo = {} /\ post'.out = {} /\ post'.at = post.at
    BY <1>3 DEF Link!CronForceFails, Link!CronGoto, LinkInv, LinkTypes, Crons
  <2>2. Crons' /\ Repaired' BY <1>2, <2>1 DEF Crons, Repaired
  <2> QED BY <1>1, <2>2, CronMoves DEF LinkInv, LinkTypes
<1>4. CASE Link!CronForced
  <2> DEFINE Hooks == {[j EXCEPT !.at = now] : j \in post.out}
  <2>1. post.pc = "forced" /\ post' = [post EXCEPT !.pc = "hooks", !.todo = Hooks, !.out = {}]
    BY <1>4 DEF Link!CronForced, Link!CronGoto
  <2>2. \A i \in Hooks : i \in Link!Job /\ By(verified, i.u, i.at)
    <3>1. ASSUME NEW j \in post.out PROVE [j EXCEPT !.at = now] \in Link!Job /\ By(verified, j.u, now)
      BY <1>2, <2>1 DEF LinkInv, Repaired, Known, Link!Job
    <3>2. ASSUME NEW j \in post.out PROVE [j EXCEPT !.at = now].u = j.u /\ [j EXCEPT !.at = now].at = now
      BY <1>2 DEF Link!Job
    <3> QED BY <3>1, <3>2
  <2> HIDE DEF Hooks
  <2>3. Crons' BY <1>2, <2>1, <2>2 DEF LinkInv, LinkTypes, Crons
  <2>4. Repaired' BY <1>1, <2>1, <2>2 DEF LinkInv, LinkTypes, Crons, Repaired, Known
  <2> QED BY <1>1, <2>3, <2>4, CronMoves DEF LinkInv, LinkTypes
<1> QED BY <1>3, <1>4

\* One hook of the cron: activation, then the start balance.
LEMMA CronHookKept ==
    ASSUME Link!LinkAssumption, LinkInv, NEW j \in post.todo \intersect Link!Job, Link!CronHook(j)
    PROVE  LinkInv'
<1>1. UNCHANGED <<now, link, cleanup, task, session, progress, buckets, verified, spent>> BY DEF Link!CronHook
<1>2. /\ post.pc \in {"hooks", "repair"} /\ By(verified, j.u, j.at) /\ j \in Link!Job
      /\ j.u \in Users /\ j.id \in Ids /\ j.new \in BOOLEAN /\ j.at \in 0..MaxTime
  BY DEF LinkInv, Repaired, Known, Link!CronHook, Link!Job
<1> DEFINE i == [j EXCEPT !.sub = "grant"]
<1>3. i \in Link!Job /\ i.u = j.u /\ i.at = j.at BY <1>2 DEF Link!Job
<1> HIDE DEF i
<1>4. /\ post'.pc = post.pc /\ post'.todo \subseteq (post.todo \ {j}) \union {i} /\ post'.out = {}
         /\ post'.at = post.at
  <2>1. \/ post' = [post EXCEPT !.pc = post.pc, !.todo = (post.todo \ {j}) \union {i}, !.out = {}]
        \/ post' = [post EXCEPT !.pc = post.pc, !.todo = post.todo \ {j}, !.out = {}]
    BY DEF Link!CronHook, Link!CronGoto, i
  <2>2. CASE post' = [post EXCEPT !.pc = post.pc, !.todo = (post.todo \ {j}) \union {i}, !.out = {}] BY <2>2
  <2>3. CASE post' = [post EXCEPT !.pc = post.pc, !.todo = post.todo \ {j}, !.out = {}] BY <2>3
  <2> QED BY <2>1, <2>2, <2>3
<1>5. Crons' BY <1>2, <1>3, <1>4 DEF LinkInv, LinkTypes, Crons
<1>6. Repaired' BY <1>1, <1>2, <1>3, <1>4 DEF LinkInv, Repaired, Known
<1>7. task' \in [Tasks -> Handlers] /\ Tasked' /\ spent' \in Counts BY <1>1 DEF LinkInv, LinkTypes, Tasked
<1>8. CASE UNCHANGED reward BY <1>1, <1>5, <1>6, <1>8, CronMoves DEF LinkInv, LinkTypes
<1>9. CASE \/ Link!CanActivate(j.u, j.id) /\ reward' = Link!Activated(j.u, j.id, j.new, j.at)
           \/ reward' = Link!Granted(j.u)
  <2>1. PICK r \in Earners : /\ reward' = [reward EXCEPT ![j.u] = r]
                             /\ r.here => link[j.u].status # "NONE" /\ Once(j.u, r.id) /\ Known(j.u, r.from)
    BY <1>2, <1>9, ActivatedKept, FlagsKept DEF Known
  <2> QED BY <1>1, <1>2, <1>5, <1>6, <1>7, <2>1, RewardKept
<1> QED BY <1>8, <1>9 DEF Link!CronHook

\* What follows the last hook: the reading of the states, or of the sessions.
LEMMA CronHookedKept == ASSUME Link!LinkAssumption, LinkInv, Link!CronHooked PROVE LinkInv'
<1>1. UNCHANGED <<now, link, reward, cleanup, task, session, progress, buckets, verified, spent>>
  BY DEF Link!CronHooked
<1>2. now \in 0..MaxTime BY DEF LinkInv, LinkTypes, Link!LinkAssumption
<1>3. CASE post' = [post EXCEPT !.pc = "states", !.todo = {}, !.out = {}]
  <2>1. Crons' BY <1>3 DEF LinkInv, LinkTypes, Crons
  <2>2. Repaired' BY <1>3 DEF Repaired
  <2> QED BY <1>1, <2>1, <2>2, CronMoves DEF LinkInv, LinkTypes
<1>4. CASE \E due \in SUBSET Ids : post' = [pc |-> "book", at |-> now, out |-> {}, todo |-> due]
  <2>1. Crons' BY <1>2, <1>4 DEF Crons
  <2>2. Repaired' BY <1>4 DEF Repaired
  <2> QED BY <1>1, <2>1, <2>2, CronMoves DEF LinkInv, LinkTypes
<1>5. {g \in Ids : session[g].open \/ ~session[g].passed} \in SUBSET Ids OBVIOUS
<1> QED BY <1>3, <1>4, <1>5 DEF Link!CronHooked, Link!CronGoto

\* The repair takes the cutoff from the link it repairs.
LEMMA CronStatesKept == ASSUME Link!LinkAssumption, LinkInv, Link!CronStates PROVE LinkInv'
<1>1. UNCHANGED <<now, link, reward, cleanup, task, session, progress, buckets, verified, spent>>
  BY DEF Link!CronStates
<1> DEFINE New(u) == reward[u].here /\ (reward[u].off \/ reward[u].id # link[u].id)
           Job(u) == [u |-> u, id |-> link[u].id, at |-> link[u].at, sub |-> "hook", new |-> New(u)]
           Jobs == {Job(u) : u \in {v \in Users : Link!NeedsRepair(v)}}
<1>2. post' = [post EXCEPT !.pc = "repair", !.todo = Jobs, !.out = {}] BY DEF Link!CronStates, Link!CronGoto
<1>3. ASSUME NEW u \in Users, Link!NeedsRepair(u) PROVE Job(u) \in Link!Job /\ By(verified, u, link[u].at)
  <2>1. link[u] \in Bonds /\ link[u].id \in Ids /\ link[u].at \in 0..MaxTime /\ reward[u] \in Earners
    BY <1>3 DEF Link!NeedsRepair, Link!Verified, LinkInv, LinkTypes, Bonded, Bonds
  <2>2. New(u) \in BOOLEAN BY <2>1 DEF Earners
  <2>3. Job(u) \in Link!Job
    <3> HIDE DEF New
    <3> QED BY <2>1, <2>2 DEF Link!Job
  <2>4. <<u, link[u].id, link[u].at>> \in verified BY <1>3 DEF Link!NeedsRepair, LinkInv, Proven
  <2>5. link[u].at <= link[u].at BY <2>1, Link!LinkAssumption DEF Link!LinkAssumption
  <2>6. By(verified, u, link[u].at) BY <2>4, <2>5 DEF By
  <2> QED BY <2>3, <2>6
<1>4. \A u \in Users : Job(u).u = u /\ Job(u).at = link[u].at OBVIOUS
<1> HIDE DEF Job
<1>5. \A j \in Jobs : j \in Link!Job /\ By(verified, j.u, j.at) BY <1>3, <1>4
<1> HIDE DEF Jobs
<1>6. Crons' BY <1>2, <1>5 DEF LinkInv, LinkTypes, Crons
<1>7. Repaired' BY <1>1, <1>2, <1>5 DEF LinkInv, LinkTypes, Crons, Repaired, Known
<1> QED BY <1>1, <1>6, <1>7, CronMoves DEF LinkInv, LinkTypes

LEMMA CronResolveKept == ASSUME Link!LinkAssumption, LinkInv, NEW g \in Ids, Link!CronResolve(g) PROVE LinkInv'
<1>1. UNCHANGED <<now, link, reward, cleanup, task, progress, buckets, verified, spent>> BY DEF Link!CronResolve
<1> DEFINE earners == {u \in Link!Owner(g) : reward[u].here /\ ~reward[u].off /\ reward[u].id = g}
           Claims == {[id |-> g, u |-> u, from |-> reward[u].from, to |-> post.at] : u \in earners}
<1>2. post.pc = "book" /\ post' = [post EXCEPT !.pc = "book", !.todo = (post.todo \ {g}) \union Claims,
      !.out = {}]
  BY DEF Link!CronResolve, Link!CronGoto
<1>3. \A c \in Claims : c \in Link!Claim
  <2>1. ASSUME NEW u \in Users PROVE [id |-> g, u |-> u, from |-> reward[u].from, to |-> post.at] \in Link!Claim
    BY DEF LinkInv, LinkTypes, Earners, Crons, Link!Claim
  <2>2. earners \subseteq Users BY DEF Link!Owner
  <2> HIDE DEF earners
  <2> QED BY <2>1, <2>2
<1> HIDE DEF Claims
<1>4. Crons' BY <1>2, <1>3 DEF LinkInv, LinkTypes, Crons
<1>5. Repaired' BY <1>2 DEF Repaired
<1>6. session' \in [Ids -> Sessions]
  <2> DEFINE passed == session[g].passed \/ ~session[g].open
             s == [session[g] EXCEPT !.passed = passed]
  <2>1. session[g] \in Sessions BY DEF LinkInv, LinkTypes
  <2>2. passed \in BOOLEAN BY <2>1 DEF Sessions
  <2>3. session' = [session EXCEPT ![g] = s] BY DEF Link!CronResolve, LinkInv, LinkTypes
  <2> HIDE DEF passed
  <2>4. s \in Sessions BY <2>1, <2>2 DEF Sessions
  <2> HIDE DEF s
  <2> QED BY <2>3, <2>4 DEF LinkInv, LinkTypes
<1> QED BY <1>1, <1>4, <1>5, <1>6, CronMoves DEF LinkInv, LinkTypes

LEMMA CronOverKept == ASSUME Link!LinkAssumption, LinkInv, Link!CronEnd \/ Link!CronDies PROVE LinkInv'
<1>1. UNCHANGED <<now, link, reward, cleanup, task, session, progress, buckets, verified>> /\ post' = Link!NoCron
  BY DEF Link!CronEnd, Link!CronDies
<1>2. spent' \in Counts BY SpendTyped DEF LinkInv, LinkTypes, Link!CronEnd, Link!CronDies
<1>3. Crons' /\ Repaired' BY <1>1, NoCronTyped
<1> QED BY <1>1, <1>2, <1>3, CronMoves DEF LinkInv, LinkTypes

-----------------------------------------------------------------------------
(* Booking.                                                                *)

\* A quotient is not greater than what was divided.
LEMMA Quotient == ASSUME NEW a \in Nat, NEW b \in Nat \ {0} PROVE a \div b \in 0..a
<1>1. a \div b \in Nat /\ b * (a \div b) <= a OBVIOUS
<1> QED BY <1>1

\* eligiblePlaytimeBuckets counts no more buckets than there are ticks.
LEMMA EligibleFits ==
    ASSUME Link!LinkAssumption, LinkInv, NEW g \in Ids, NEW from \in 0..MaxTime, NEW to \in 0..MaxTime
    PROVE  Link!Eligible(g, from, to) \in 0..MaxTime
<1> DEFINE end == IF session[g].open \/ session[g].to > to THEN to ELSE session[g].to
           start == Link!Start(g, from)
<1>1. MaxTime \in Nat /\ Bucket \in Nat \ {0} BY DEF Link!LinkAssumption
<1>2. session[g] \in Sessions BY DEF LinkInv, LinkTypes
<1>3. end \in 0..MaxTime BY <1>1, <1>2 DEF Sessions
<1>4. start \in 0..MaxTime BY <1>1, <1>2 DEF Sessions, Link!Start
<1>5. Link!Eligible(g, from, to) = IF end <= start THEN 0 ELSE (end - start) \div Bucket BY DEF Link!Eligible
<1> HIDE DEF end, start
<1>6. CASE end <= start BY <1>1, <1>5, <1>6
<1>7. CASE ~(end <= start)
  <2>1. end - start \in Nat /\ end - start <= MaxTime BY <1>1, <1>3, <1>4, <1>7
  <2>2. (end - start) \div Bucket \in 0..(end - start)
    <3> DEFINE d == end - start
    <3>1. d \in Nat BY <2>1
    <3> HIDE DEF d
    <3>2. d \div Bucket \in 0..d BY <1>1, <3>1, Quotient
    <3> QED BY <3>2 DEF d
  <2>3. Link!Eligible(g, from, to) = (end - start) \div Bucket BY <1>5, <1>7
  <2> DEFINE q == (end - start) \div Bucket
  <2>4. q \in 0..(end - start) BY <2>2
  <2>5. Link!Eligible(g, from, to) = q BY <2>3
  <2> HIDE DEF q
  <2>6. q \in 0..MaxTime BY <1>1, <2>1, <2>4
  <2> QED BY <2>5, <2>6
<1> QED BY <1>6, <1>7

\* What is read as the progress is the only one there is.
LEMMA DoneIs ==
    ASSUME Link!LinkAssumption, LinkInv, NEW g, NEW from
    PROVE  /\ Link!Done(g, from) \in 0..MaxTime
           /\ \A p \in progress : p.id = g /\ p.epoch = from => p.n = Link!Done(g, from)
<1> DEFINE mine == {q \in progress : q.id = g /\ q.epoch = from}
<1>1. Link!Done(g, from) = IF mine = {} THEN 0 ELSE (CHOOSE q \in mine : TRUE).n BY DEF Link!Done
<1>2. CASE mine = {} BY <1>1, <1>2 DEF Link!LinkAssumption
<1>3. CASE mine # {}
  <2>1. PICK q \in mine : q = (CHOOSE p \in mine : TRUE) BY <1>3
  <2>2. q \in progress /\ q.n \in 0..MaxTime BY <2>1 DEF LinkInv, LinkTypes, Books, Marks
  <2>3. \A p \in mine : p = q BY <2>1 DEF LinkInv, Counted
  <2>4. Link!Done(g, from) = q.n BY <1>1, <1>3, <2>1
  <2> QED BY <2>2, <2>3, <2>4
<1> QED BY <1>2, <1>3

\* processSession: what is paid lies beyond the progress, and belongs to the state's epoch.
LEMMA CronBookKept ==
    ASSUME Link!LinkAssumption, LinkInv, NEW c \in Link!Claim, Link!CronBook(c)
    PROVE  LinkInv'
<1> DEFINE n == Link!Eligible(c.id, c.from, c.to)
           done == Link!Done(c.id, c.from)
           fresh == {[id |-> c.id, u |-> c.u, epoch |-> c.from, n |-> i] : i \in (done + 1)..n}
           mark == [id |-> c.id, epoch |-> c.from, n |-> n]
           others == {p \in progress : ~(p.id = c.id /\ p.epoch = c.from)}
<1>1. UNCHANGED <<now, link, reward, cleanup, task, session, verified, spent>> BY DEF Link!CronBook
<1>2. c.id \in Ids /\ c.u \in Users /\ c.from \in 0..MaxTime /\ c.to \in 0..MaxTime BY DEF Link!Claim
<1>3. n \in 0..MaxTime /\ done \in 0..MaxTime /\ MaxTime \in Nat
  BY <1>2, EligibleFits, DoneIs DEF Link!LinkAssumption
<1>4. \A p \in progress : p.id = c.id /\ p.epoch = c.from => p.n = done BY DoneIs
<1>5. post.pc = "book" /\ post' = [post EXCEPT !.pc = "book", !.todo = post.todo \ {c}, !.out = {}]
  BY DEF Link!CronBook, Link!CronGoto
<1>6. Crons' /\ Repaired' BY <1>5 DEF LinkInv, LinkTypes, Crons, Repaired
<1>7. CASE UNCHANGED <<buckets, progress>> BY <1>1, <1>6, <1>7, CronMoves DEF LinkInv, LinkTypes
<1>8. CASE /\ n > done /\ reward[c.u].here /\ reward[c.u].id = c.id /\ reward[c.u].from = c.from
           /\ progress' = others \union {mark}
           /\ buckets' = buckets \/ buckets' = buckets \union fresh
  <2>1. \A b \in fresh : /\ b \in Payments /\ b.id = c.id /\ b.u = c.u /\ b.epoch = c.from
                         /\ b.n > done /\ b.n <= n
    <3>1. ASSUME NEW i \in (done + 1)..n PROVE i \in 1..MaxTime /\ i > done /\ i <= n BY <1>3
    <3> HIDE DEF n, done
    <3> QED BY <1>2, <3>1 DEF Payments
  <2>2. mark \in Marks /\ mark.id = c.id /\ mark.epoch = c.from /\ mark.n = n
    <3> HIDE DEF n
    <3> QED BY <1>2, <1>3 DEF Marks
  <2>3. \A a, b \in fresh : a.n = b.n => a = b BY DEF Payments
  <2> HIDE DEF n, done, fresh, mark
  <2>4. Books'
    <3>1. progress' \subseteq Marks BY <1>8, <2>2 DEF LinkInv, LinkTypes, Books
    <3>2. buckets' \subseteq Payments BY <1>8, <2>1 DEF LinkInv, LinkTypes, Books
    <3> QED BY <3>1, <3>2 DEF Books
  <2>5. LinkTypes' BY <1>1, <1>6, <2>4 DEF LinkInv, LinkTypes, Bonded
  <2>6. Proven' /\ Tasked' /\ Earns' /\ Link!CleanupFinal'
    BY <1>1 DEF LinkInv, Proven, Tasked, Earns, Known, Once, Link!Verified, Link!CleanupFinal
  <2>7. Paid'
    <3>1. Once(c.u, c.id) /\ Known(c.u, c.from) BY <1>2, <1>8 DEF LinkInv, Earns
    <3>2. \A b \in buckets' : b \in buckets \/ b \in fresh BY <1>8
    <3>3. \A b \in buckets' : As(verified, b.u, b.id) /\ By(verified, b.u, b.epoch)
      BY <2>1, <3>1, <3>2 DEF LinkInv, Paid, Known, Once
    <3> QED BY <1>1, <3>3 DEF Paid, Known, Once
  <2>8. \A b \in buckets : b.id = c.id /\ b.epoch = c.from => b.n <= done
    BY <1>4 DEF LinkInv, Counted
  <2>9. Counted'
    <3>1. \A p, q \in progress' : p.id = q.id /\ p.epoch = q.epoch => p = q
      BY <1>8, <2>2 DEF LinkInv, Counted
    <3>2. ASSUME NEW b \in buckets' PROVE \E p \in progress' : p.id = b.id /\ p.epoch = b.epoch /\ b.n <= p.n
      <4>1. CASE b \in fresh BY <1>8, <2>1, <2>2, <4>1
      <4>2. CASE b \in buckets /\ b.id = c.id /\ b.epoch = c.from
        <5>1. b.n \in Nat /\ b.n <= done BY <2>8, <4>2 DEF LinkInv, LinkTypes, Books, Payments
        <5>2. b.n <= n BY <1>3, <1>8, <5>1
        <5> QED BY <1>8, <2>2, <4>2, <5>2
      <4>3. CASE b \in buckets /\ ~(b.id = c.id /\ b.epoch = c.from)
        <5>1. PICK p \in progress : p.id = b.id /\ p.epoch = b.epoch /\ b.n <= p.n BY <4>3 DEF LinkInv, Counted
        <5>2. p \in progress' BY <1>8, <4>3, <5>1
        <5> QED BY <5>1, <5>2
      <4> QED BY <1>8, <4>1, <4>2, <4>3
    <3> QED BY <3>1, <3>2 DEF Counted
  <2>10. Link!BucketPaidOnce'
    <3>1. \A a \in buckets, b \in fresh : ~(a.id = b.id /\ a.epoch = b.epoch /\ a.n = b.n)
      <4> SUFFICES ASSUME NEW a \in buckets, NEW b \in fresh, a.id = b.id, a.epoch = b.epoch, a.n = b.n
          PROVE FALSE
        OBVIOUS
      <4>1. a.n <= done /\ b.n > done BY <2>1, <2>8
      <4>2. a.n \in Nat BY DEF LinkInv, LinkTypes, Books, Payments
      <4> QED BY <1>3, <4>1, <4>2
    <3>2. \A a, b \in buckets : a.id = b.id /\ a.epoch = b.epoch /\ a.n = b.n => a = b
      BY DEF LinkInv, Link!BucketPaidOnce
    <3>3. \A a, b \in buckets' : a.id = b.id /\ a.epoch = b.epoch /\ a.n = b.n => a = b BY <1>8, <2>3, <3>1, <3>2
    <3> QED BY <3>3 DEF Link!BucketPaidOnce
  <2> QED BY <1>6, <2>5, <2>6, <2>7, <2>9, <2>10 DEF LinkInv
<1> HIDE DEF n, done, fresh, mark, others
<1>9. \/ UNCHANGED <<buckets, progress>>
      \/ /\ n > done /\ reward[c.u].here /\ reward[c.u].id = c.id /\ reward[c.u].from = c.from
         /\ progress' = others \union {mark}
         /\ buckets' = buckets \/ buckets' = buckets \union fresh
  BY DEF Link!CronBook, n, done, fresh, mark, others
<1> QED BY <1>7, <1>8, <1>9

-----------------------------------------------------------------------------
LEMMA LinkStep == ASSUME Link!LinkAssumption PROVE LinkInv /\ [Link!Next]_Link!vars => LinkInv'
<1> SUFFICES ASSUME LinkInv, [Link!Next]_Link!vars PROVE LinkInv' OBVIOUS
<1>1. CASE \E t \in Tasks : \/ \E kind \in Kinds, u \in Users, g \in Ids \union {None} : Link!Begin(t, kind, u, g)
                            \/ Link!Command(t) \/ Link!Dies(t)
  BY <1>1, BeginKept, CommandKept, DiesKept
<1>2. CASE Link!Cron
  <2>1. CASE Link!CronStart \/ Link!CronForced \/ Link!CronHooked \/ Link!CronStates \/ Link!CronEnd
    BY <2>1, CronStartKept, CronForcedKept, CronHookedKept, CronStatesKept, CronOverKept
  <2>2. CASE \E j \in post.todo \intersect Link!Job : Link!CronForce(j) \/ Link!CronForceFails(j)
        \/ Link!CronHook(j)
    BY <2>2, CronForceKept, CronForcedKept, CronHookKept
  <2>3. CASE \E g \in Ids : Link!CronResolve(g) BY <2>3, CronResolveKept
  <2>4. CASE \E c \in post.todo \intersect Link!Claim : Link!CronBook(c) BY <2>4, CronBookKept
  <2> QED BY <1>2, <2>1, <2>2, <2>3, <2>4 DEF Link!Cron
<1>3. CASE Link!CronDies BY <1>3, CronOverKept
<1>4. CASE \E u \in Users : Link!LeaveBegins(u) \/ Link!LeaveCompletes(u)
  BY <1>4, LeaveBeginsKept, LeaveCompletesKept
<1>5. CASE (\E g \in Ids : Link!Disconnect(g)) \/ Link!Tick BY <1>5, DisconnectKept, TickKept
<1>6. CASE UNCHANGED Link!vars
  BY <1>6 DEF Link!vars, LinkInv, LinkTypes, Bonded, Crons, Books, Proven, Tasked, Repaired, Earns, Paid, Counted,
              Known, Once, Link!Verified, Link!BucketPaidOnce, Link!CleanupFinal
<1> QED BY <1>1, <1>2, <1>3, <1>4, <1>5, <1>6 DEF Link!Next

\* LinkRewards: the rows, the commands under way and the cron keep their shapes.
THEOREM LinkTypeOK == ASSUME Link!LinkAssumption PROVE Link!Spec => []Link!TypeOK
<1>1. LinkInv => Link!TypeOK BY LinkTypesAre DEF LinkInv
<1> QED BY <1>1, LinkInit, LinkStep, PTL DEF Link!Spec

\* linkService.ts, linkRewards.ts: what a clean-up has removed stays removed. No command and
\* no repair that began before it brings the link or the reward state back.
THEOREM CleanupFinalHolds == ASSUME Link!LinkAssumption PROVE Link!Spec => []Link!CleanupFinal
<1>1. LinkInv => Link!CleanupFinal BY DEF LinkInv
<1> QED BY <1>1, LinkInit, LinkStep, PTL DEF Link!Spec

\* playtimeBooking.ts: a bucket of one epoch is paid to one user, once, whatever dies and
\* whoever is verified as the player meanwhile.
THEOREM BucketPaidOnceHolds == ASSUME Link!LinkAssumption PROVE Link!Spec => []Link!BucketPaidOnce
<1>1. LinkInv => Link!BucketPaidOnce BY DEF LinkInv
<1> QED BY <1>1, LinkInit, LinkStep, PTL DEF Link!Spec

\* linkRewards.ts, playtimeBooking.ts: play time goes to who was verified as its player, and
\* none of it is older than the first time that user was verified.
THEOREM NeverBeforeFirstLinkHolds == ASSUME Link!LinkAssumption PROVE Link!Spec => []Link!NeverBeforeFirstLink
<1>1. ASSUME LinkInv PROVE Link!NeverBeforeFirstLink
  <2> SUFFICES ASSUME NEW b \in buckets
               PROVE  /\ \E v \in verified : v[1] = b.u /\ v[2] = b.id
                      /\ \E v \in verified : v[1] = b.u /\ \A i \in Link!Ticks(b) : v[3] <= i
    BY DEF Link!NeverBeforeFirstLink
  <2>1. /\ \E v \in verified : v[1] = b.u /\ v[2] = b.id
        /\ \E v \in verified : v[1] = b.u /\ v[3] <= b.epoch
    BY <1>1 DEF LinkInv, Paid, Known, Once, By, As
  <2>2. b.id \in Ids /\ b.epoch \in Nat /\ b.n \in Nat \ {0} /\ Bucket \in Nat
    BY <1>1 DEF LinkInv, LinkTypes, Books, Payments, Link!LinkAssumption
  <2>3. Link!Start(b.id, b.epoch) \in Nat /\ b.epoch <= Link!Start(b.id, b.epoch)
    BY <1>1, <2>2 DEF LinkInv, LinkTypes, Sessions, Link!Start
  <2>4. (b.n - 1) * Bucket \in Nat BY <2>2
  <2> DEFINE start == Link!Start(b.id, b.epoch)
             before == (b.n - 1) * Bucket
             after == b.n * Bucket
  <2>5. \A i \in Link!Ticks(b) : i \in Nat /\ b.epoch <= i
    <3>1. after \in Nat BY <2>2
    <3>2. Link!Ticks(b) = (start + before)..(start + after - 1) BY DEF Link!Ticks
    <3>3. start \in Nat /\ before \in Nat /\ b.epoch <= start BY <2>3, <2>4
    <3> HIDE DEF start, before, after
    <3> QED BY <2>2, <3>1, <3>2, <3>3
  <2>6. PICK v \in verified : v[1] = b.u /\ v[3] <= b.epoch BY <2>1
  <2>7. v[3] \in Nat BY <1>1 DEF LinkInv, Proven
  <2>8. \A i \in Link!Ticks(b) : v[3] <= i BY <2>2, <2>5, <2>6, <2>7
  <2> QED BY <2>1, <2>6, <2>8
<1> QED BY <1>1, LinkInit, LinkStep, PTL DEF Link!Spec

-----------------------------------------------------------------------------
(* Taking turns with an identity: one command at a time, none of which dies *)
(* or takes longer than a tick, and no forced links (InTurns).              *)

\* Who earns; a clean-up that leaves a repair nothing to do; where a command is; the
\* first tick after a bucket.
On(r)      == r.here /\ ~r.off
Cleaned(u) == cleanup[u].open \/ cleanup[u].done = now
In(t, pcs) == task[t].pc \in pcs
Until(b)   == Link!Start(b.id, b.epoch) + b.n * Bucket

\* Commands begin and end in one tick, and nobody has a forced name.
Prompt == /\ \A t \in Tasks : /\ task[t].kind \in {"link", "unlink"}
                              /\ ~In(t, {"idle"}) => task[t].at = now
          /\ \A u \in Users : link[u].forced = None
          /\ post.pc \in {"forced", "hooks"} => post.todo = {} /\ post.out = {}

\* An identity has one owner, who alone earns for it, but for the time an unlink takes.
OneOwner == \A u, v \in Users : Link!Verified(u) /\ Link!Verified(v) /\ link[u].id = link[v].id => u = v
Earning  == \A u \in Users : On(reward[u]) =>
                \/ Link!Verified(u) /\ reward[u].id = link[u].id
                \/ \E t \in Tasks : In(t, {"off"}) /\ task[t].u = u
Parting  == \A t \in Tasks : In(t, {"off"}) =>
                /\ ~Link!Verified(task[t].u)
                /\ On(reward[task[t].u]) => \A v \in Users : ~(Link!Verified(v) /\ link[v].id = reward[task[t].u].id)

\* A command that links has linked its identity, and what it does not switch on is on.
Joining == \A t \in Tasks :
    /\ In(t, {"hook", "activate", "grant"}) /\ Link!Verified(task[t].u) => link[task[t].u].id = task[t].id
    /\ (In(t, {"hook", "activate"}) /\ ~task[t].new) \/ In(t, {"grant"}) =>
          \/ cleanup[task[t].u].open \/ ~Link!Verified(task[t].u)
          \/ On(reward[task[t].u]) /\ reward[task[t].u].id = task[t].id

\* A link of this tick earns from this tick on; an older one needs no repair.
Young  == \A u \in Users : Link!Verified(u) /\ link[u].at = now /\ On(reward[u]) => reward[u].from = now
Served == \A u \in Users : Link!Verified(u) =>
              \/ cleanup[u].open
              \/ ~Link!NeedsRepair(u)
              \/ link[u].at = now /\ \E t \in Tasks : In(t, {"hook", "activate", "grant"}) /\ task[t].u = u

\* So the repair has only such links to switch on.
Hooks == post.pc = "repair" => \A j \in post.todo \intersect Link!Job : j.sub = "hook" =>
             /\ j.at = now \/ Cleaned(j.u)
             /\ ~j.new /\ reward[j.u].here => reward[j.u].from = now \/ Cleaned(j.u)

\* Nothing is paid before it was played, and an epoch begins after what was paid before.
Over  == /\ \A b \in buckets : Until(b) <= now
         /\ post.at <= now
         /\ post.pc = "book" => \A c \in post.todo \intersect Link!Claim : c.to <= now
Later == \A u \in Users : On(reward[u]) =>
             \A b \in buckets : b.id = reward[u].id => b.epoch = reward[u].from \/ Until(b) <= reward[u].from
Apart == \A b, c \in buckets : b.id = c.id => b.epoch = c.epoch \/ Until(b) <= c.epoch \/ Until(c) <= b.epoch

TurnRows == OneOwner /\ Young /\ Over /\ Later /\ Apart
TurnInv  == Prompt /\ Earning /\ Parting /\ Joining /\ Served /\ Hooks /\ TurnRows

LEMMA TurnInit == ASSUME Link!LinkAssumption, Link!Init PROVE TurnInv
<1> USE DEF Link!Init
<1>1. Prompt /\ Hooks /\ Over /\ Later /\ Apart
  BY DEF Prompt, In, Hooks, Over, Later, Apart, Link!NoTask, Link!NoLink, Link!NoCron
<1>2. OneOwner /\ Earning /\ Parting /\ Joining /\ Young /\ Served
  BY DEF OneOwner, Earning, Parting, Joining, Young, Served, On, In, Link!Verified, Link!NoTask, Link!NoLink,
         Link!NoReward
<1> QED BY <1>1, <1>2 DEF TurnInv, TurnRows

\* A reward state that earns earned the same before, or earns from now on.
Stays(u) ==
    /\ reward'[u].here => (reward[u].here /\ reward'[u].from = reward[u].from) \/ reward'[u].from = now
    /\ On(reward'[u]) => \/ On(reward[u]) /\ reward'[u].id = reward[u].id /\ reward'[u].from = reward[u].from
                         \/ reward'[u].from = now

\* A verified link was one before, or is new and of an identity nobody else has.
Keeps(u) ==
    Link!Verified(u)' => \/ Link!Verified(u) /\ link'[u].id = link[u].id /\ link'[u].at = link[u].at
                         \/ /\ ~On(reward'[u])
                            /\ \A v \in Users : Link!Verified(v)' /\ link'[v].id = link'[u].id => v = u

\* Sessions keep their beginnings.
SameStart == \A g \in Ids : session'[g].from = session[g].from

LEMMA UntilSame ==
    ASSUME LinkInv, SameStart, NEW b \in Payments
    PROVE  Until(b)' = Until(b)
<1>1. b.id \in Ids BY DEF Payments
<1>2. Link!Start(b.id, b.epoch)' = Link!Start(b.id, b.epoch) BY <1>1 DEF Link!Start, SameStart
<1> QED BY <1>2 DEF Until

\* As long as nothing is booked.
LEMMA RowsKept ==
    ASSUME LinkInv, TurnRows, UNCHANGED <<now, buckets>>, SameStart, \A u \in Users : Stays(u) /\ Keeps(u),
           post'.at <= now, post'.pc = "book" => \A c \in post'.todo \intersect Link!Claim : c.to <= now
    PROVE  TurnRows'
<1>1. \A b \in buckets : Until(b)' = Until(b) BY UntilSame DEF LinkInv, LinkTypes, Books
<1>2. OneOwner' BY DEF TurnRows, OneOwner, Keeps
<1>3. Young' BY DEF TurnRows, Young, Keeps, Stays
<1>4. \A b \in buckets : Until(b) <= now BY DEF TurnRows, Over
<1>5. Over'
  <2>1. \A b \in buckets' : Until(b)' <= now' BY <1>1, <1>4
  <2>2. post'.at <= now' /\ (post'.pc = "book" => \A c \in post'.todo \intersect Link!Claim' : c.to <= now')
    BY DEF Link!Claim
  <2> QED BY <2>1, <2>2 DEF Over
<1>6. Later'
  <2> SUFFICES ASSUME NEW u \in Users, On(reward'[u]), NEW b \in buckets, b.id = reward'[u].id
               PROVE  b.epoch = reward'[u].from \/ Until(b)' <= reward'[u].from
    BY DEF Later, On
  <2>1. CASE reward'[u].from = now BY <1>1, <1>4, <2>1
  <2>2. CASE On(reward[u]) /\ reward'[u].id = reward[u].id /\ reward'[u].from = reward[u].from
    BY <1>1, <2>2 DEF TurnRows, Later
  <2> QED BY <2>1, <2>2 DEF Stays
<1>7. Apart'
  <2> SUFFICES ASSUME NEW b \in buckets, NEW c \in buckets, b.id = c.id
               PROVE  b.epoch = c.epoch \/ Until(b)' <= c.epoch \/ Until(c)' <= b.epoch
    BY DEF Apart
  <2> QED BY <1>1 DEF TurnRows, Apart
<1> QED BY <1>2, <1>3, <1>5, <1>6, <1>7 DEF TurnRows

\* What the repair has to do is left to it.
LEMMA HooksKept ==
    ASSUME Hooks, UNCHANGED now, \A u \in Users : Stays(u) /\ (Cleaned(u) => Cleaned(u)'),
           post'.pc = "repair" => post.pc = "repair" /\ \A j \in post'.todo \intersect Link!Job :
                                      j.sub = "hook" => j \in post.todo
    PROVE  Hooks'
<1> SUFFICES ASSUME post'.pc = "repair", NEW j \in post'.todo \intersect Link!Job, j.sub = "hook"
             PROVE  /\ j.at = now \/ Cleaned(j.u)'
                    /\ ~j.new /\ reward'[j.u].here => reward'[j.u].from = now \/ Cleaned(j.u)'
  BY DEF Hooks, Link!Job
<1>1. j \in post.todo \intersect Link!Job /\ j.u \in Users /\ post.pc = "repair" BY DEF Link!Job
<1>2. /\ j.at = now \/ Cleaned(j.u)
      /\ ~j.new /\ reward[j.u].here => reward[j.u].from = now \/ Cleaned(j.u)
  BY <1>1 DEF Hooks
<1> QED BY <1>1, <1>2 DEF Stays

\* activateLinkRewardState switches the state of its user on, for the identity.
LEMMA ActivatedIs ==
    ASSUME LinkInv, NEW u \in Users, NEW g, NEW new \in BOOLEAN, NEW at, reward' = Link!Activated(u, g, new, at)
    PROVE  /\ \A v \in Users \ {u} : reward'[v] = reward[v]
           /\ On(reward'[u]) /\ reward'[u].id = g
           /\ reward'[u].from = IF reward[u].here /\ ~new THEN reward[u].from ELSE at
           /\ reward[u].here => reward'[u].eligible = reward[u].eligible
<1>1. reward \in [Users -> Earners] /\ reward[u] \in Earners BY DEF LinkInv, LinkTypes
<1>2. \A v \in Users \ {u} : reward'[v] = reward[v] BY <1>1 DEF Link!Activated
<1>3. CASE ~reward[u].here
  <2>1. reward'[u] = [here |-> TRUE, id |-> g, from |-> at, off |-> FALSE, eligible |-> TRUE]
    BY <1>1, <1>3 DEF Link!Activated
  <2>2. On(reward'[u]) /\ reward'[u].id = g /\ reward'[u].from = at BY <2>1 DEF On
  <2> QED BY <1>2, <1>3, <2>2
<1>4. CASE reward[u].here
  <2>1. reward'[u] = [reward[u] EXCEPT !.id = g, !.off = FALSE, !.from = IF new THEN at ELSE reward[u].from]
    BY <1>1, <1>4 DEF Link!Activated
  <2> QED BY <1>1, <1>2, <1>4, <2>1 DEF On, Earners
<1> QED BY <1>3, <1>4

\* grantStartBalanceForLink leaves a state that is on evaluated, deactivateLinkRewardState off.
LEMMA FlagsAre ==
    ASSUME LinkInv, NEW u \in Users
    PROVE  /\ reward' = Link!Granted(u) =>
                 \A v \in Users : /\ reward'[v].here = reward[v].here /\ reward'[v].off = reward[v].off
                                  /\ reward'[v].id = reward[v].id /\ reward'[v].from = reward[v].from
                                  /\ reward'[v].eligible => reward[v].eligible
                                  /\ v = u /\ On(reward[u]) /\ ~cleanup[u].open => ~reward'[v].eligible
           /\ reward' = Link!Deactivated(u) =>
                 \A v \in Users : /\ reward'[v].here = reward[v].here /\ reward'[v].from = reward[v].from
                                  /\ v # u => reward'[v] = reward[v]
                                  /\ v = u => ~On(reward'[v])
<1>1. reward \in [Users -> Earners] /\ reward[u] \in Earners BY DEF LinkInv, LinkTypes
<1>2. ASSUME reward' = Link!Granted(u), NEW v \in Users
      PROVE  /\ reward'[v].here = reward[v].here /\ reward'[v].off = reward[v].off
             /\ reward'[v].id = reward[v].id /\ reward'[v].from = reward[v].from
             /\ reward'[v].eligible => reward[v].eligible
             /\ v = u /\ On(reward[u]) /\ ~cleanup[u].open => ~reward'[v].eligible
  <2>1. CASE cleanup[u].open BY <1>2, <2>1 DEF Link!Granted
  <2>2. CASE ~cleanup[u].open
    <3> DEFINE eligible == reward[u].eligible /\ (reward[u].off \/ ~reward[u].here)
    <3>1. reward' = [reward EXCEPT ![u].eligible = eligible] BY <1>2, <2>2 DEF Link!Granted
    <3>2. (eligible => reward[u].eligible) /\ (On(reward[u]) => ~eligible) BY DEF On
    <3> HIDE DEF eligible
    <3> QED BY <1>1, <3>1, <3>2 DEF Earners
  <2> QED BY <2>1, <2>2
<1>3. ASSUME reward' = Link!Deactivated(u), NEW v \in Users
      PROVE  /\ reward'[v].here = reward[v].here /\ reward'[v].from = reward[v].from
             /\ v # u => reward'[v] = reward[v]
             /\ v = u => ~On(reward'[v])
  <2> DEFINE off == reward[u].off \/ reward[u].here
  <2>1. reward' = [reward EXCEPT ![u].off = off] BY <1>3 DEF Link!Deactivated
  <2>2. reward[u].here => off OBVIOUS
  <2> HIDE DEF off
  <2> QED BY <1>1, <2>1, <2>2 DEF Earners, On
<1> QED BY <1>2, <1>3

-----------------------------------------------------------------------------
(* The commands, one at a time.                                            *)

\* Steps of a command that leave the links and the reward states alone.
LEMMA TaskKept ==
    ASSUME LinkInv, TurnInv, NEW t \in Tasks, \A s \in Tasks : s = t, 
           UNCHANGED <<now, link, reward, cleanup, post, session, buckets>>,
           task'[t].kind \in {"link", "unlink"}, ~In(t, {"idle"})' => task'[t].at = now,
           ~In(t, {"off"}), ~In(t, {"off"})', Joining', Served'
    PROVE  TurnInv'
<1>1. \A u \in Users : Stays(u) /\ Keeps(u) /\ (Cleaned(u) => Cleaned(u)')
  BY DEF Stays, Keeps, Cleaned, Link!Verified
<1>2. TurnRows' BY <1>1, RowsKept DEF TurnInv, TurnRows, Over, SameStart
<1>3. Hooks' BY <1>1, HooksKept DEF TurnInv
<1>4. Prompt' BY DEF TurnInv, Prompt, In
<1>5. Earning' /\ Parting' BY DEF TurnInv, Earning, Parting, In, On, Link!Verified
<1> QED BY <1>2, <1>3, <1>4, <1>5 DEF TurnInv

LEMMA EndIs == ASSUME LinkInv, NEW t \in Tasks, Link!End(t)
               PROVE  task'[t].pc = "idle" /\ task'[t].kind = "link"
BY DEF LinkInv, LinkTypes, Link!End, Link!NoTask

LEMMA GotoIs == ASSUME LinkInv, NEW t \in Tasks, NEW pc, Link!Goto(t, pc)
                PROVE  /\ task'[t].pc = pc /\ task'[t].kind = task[t].kind /\ task'[t].u = task[t].u
                       /\ task'[t].id = task[t].id /\ task'[t].new = task[t].new /\ task'[t].at = task[t].at
BY DEF LinkInv, LinkTypes, Handlers, Link!Goto

LEMMA BeginTurns ==
    ASSUME Link!InTurns, LinkInv, TurnInv, NEW t \in Tasks, NEW kind \in Kinds, NEW u \in Users,
           NEW g \in Ids \union {None}, Link!Begin(t, kind, u, g)
    PROVE  TurnInv'
<1>1. \A s \in Tasks : s = t BY DEF Link!InTurns
<1>2. UNCHANGED <<now, link, reward, cleanup, post, session, buckets>> /\ task[t].pc = "idle"
  BY DEF Link!Begin, Link!At
<1>3. task'[t].kind \in {"link", "unlink"} /\ task'[t].at = now /\ task'[t].pc \in {"persist", "unlink"}
  BY DEF Link!Begin, LinkInv, LinkTypes, Link!InTurns
<1>4. Joining' BY <1>1, <1>3 DEF Joining, In
<1>5. Served' BY <1>1, <1>2 DEF TurnInv, Served, In, Link!Verified, Link!NeedsRepair
<1> QED BY <1>1, <1>2, <1>3, <1>4, <1>5, TaskKept DEF In

LEMMA HookTurns ==
    ASSUME Link!InTurns, LinkInv, TurnInv, NEW t \in Tasks, Link!Hook(t)
    PROVE  TurnInv'
<1>1. \A s \in Tasks : s = t BY DEF Link!InTurns
<1>2. UNCHANGED <<now, link, reward, cleanup, post, session, buckets>> /\ task[t].pc = "hook"
  BY DEF Link!Hook, Link!At
<1>3. CASE cleanup[task[t].u].open
  <2>1. task'[t].pc = "idle" /\ task'[t].kind = "link" BY <1>3, EndIs DEF Link!Hook
  <2>2. Joining' BY <1>1, <2>1 DEF Joining, In
  <2>3. Served' BY <1>1, <1>2, <1>3 DEF TurnInv, Served, In, Link!Verified, Link!NeedsRepair
  <2> QED BY <1>1, <1>2, <2>1, <2>2, <2>3, TaskKept DEF In
<1>4. CASE ~cleanup[task[t].u].open
  <2>1. task' = [task EXCEPT ![t].pc = "activate", ![t].at = now] BY <1>4 DEF Link!Hook
  <2>2. /\ task'[t].pc = "activate" /\ task'[t].at = now /\ task'[t].kind = task[t].kind
        /\ task'[t].u = task[t].u /\ task'[t].id = task[t].id /\ task'[t].new = task[t].new
    BY <2>1 DEF LinkInv, LinkTypes, Handlers
  <2>3. Joining' BY <1>1, <1>2, <2>2 DEF TurnInv, Joining, In, Link!Verified
  <2>4. Served' BY <1>1, <1>2, <2>2 DEF TurnInv, Served, In, Link!Verified, Link!NeedsRepair
  <2>5. task'[t].kind \in {"link", "unlink"} BY <2>2 DEF TurnInv, Prompt
  <2> QED BY <1>1, <1>2, <2>2, <2>3, <2>4, <2>5, TaskKept DEF In
<1> QED BY <1>3, <1>4

\* Steps of a command that write a reward state.
LEMMA RewardTurns ==
    ASSUME LinkInv, TurnInv, NEW t \in Tasks, \A s \in Tasks : s = t,
           UNCHANGED <<now, link, cleanup, post, session, buckets>>,
           task'[t].kind \in {"link", "unlink"}, ~In(t, {"idle"})' => task'[t].at = now, ~In(t, {"off"})',
           \A u \in Users : Stays(u), Earning', Joining', Served'
    PROVE  TurnInv'
<1>1. \A u \in Users : Keeps(u) /\ (Cleaned(u) => Cleaned(u)') BY DEF Keeps, Cleaned, Link!Verified
<1>2. TurnRows' BY <1>1, RowsKept DEF TurnInv, TurnRows, Over, SameStart
<1>3. Hooks' BY <1>1, HooksKept DEF TurnInv
<1>4. Prompt' BY DEF TurnInv, Prompt, In
<1>5. Parting' BY DEF Parting, In
<1> QED BY <1>2, <1>3, <1>4, <1>5 DEF TurnInv

\* A link command switches on what it has linked, or finds it on.
LEMMA ActivateTurns ==
    ASSUME Link!LinkAssumption, Link!InTurns, LinkInv, TurnInv, NEW t \in Tasks, Link!Activate(t)
    PROVE  TurnInv'
<1> DEFINE u == task[t].u
           g == task[t].id
<1>1. \A s \in Tasks : s = t BY DEF Link!InTurns
<1>2. /\ UNCHANGED <<now, link, cleanup, post, session, buckets>> /\ task[t].pc = "activate"
      /\ task[t].at = now /\ task[t].kind \in {"link", "unlink"} /\ u \in Users /\ task[t].new \in BOOLEAN
  BY DEF Link!Activate, Link!At, TurnInv, Prompt, In, LinkInv, LinkTypes, Handlers, Tasked, Handled
<1>3. Link!Verified(u) => link[u].id = g BY <1>2 DEF TurnInv, Joining, In
<1>4. CASE Link!CanActivate(u, g)
  <2>1. reward' = Link!Activated(u, g, task[t].new, task[t].at) /\ Link!Goto(t, "grant") BY <1>4 DEF Link!Activate
  <2>2. /\ task'[t].pc = "grant" /\ task'[t].kind = task[t].kind /\ task'[t].u = u /\ task'[t].id = g
        /\ task'[t].at = now
    BY <1>2, <2>1, GotoIs
  <2>3. Link!Verified(u) /\ link[u].id = g /\ ~cleanup[u].open BY <1>4 DEF Link!CanActivate, Link!Fresh
  <2> HIDE DEF u, g
  <2>4. /\ \A v \in Users \ {u} : reward'[v] = reward[v]
        /\ On(reward'[u]) /\ reward'[u].id = g
        /\ reward'[u].from = IF reward[u].here /\ ~task[t].new THEN reward[u].from ELSE now
        /\ reward[u].here => reward'[u].eligible = reward[u].eligible
    BY <1>2, <2>1, ActivatedIs
  <2>5. ~task[t].new => On(reward[u]) /\ reward[u].id = g BY <1>2, <2>3 DEF TurnInv, Joining, In, u, g
  <2>6. \A v \in Users : Stays(v) BY <2>4, <2>5 DEF Stays, On
  <2>7. Earning' BY <1>1, <1>2, <2>3, <2>4 DEF TurnInv, Earning, In, Link!Verified
  <2>8. Joining' BY <1>1, <1>2, <2>2, <2>3, <2>4 DEF Joining, In
  <2>9. Served' BY <1>1, <1>2, <2>2, <2>3, <2>4 DEF TurnInv, Served, In, Link!Verified, Link!NeedsRepair, On, u
  <2> QED BY <1>1, <1>2, <2>2, <2>6, <2>7, <2>8, <2>9, RewardTurns DEF In
<1>5. CASE ~Link!CanActivate(u, g)
  <2>1. Link!End(t) /\ UNCHANGED reward BY <1>5 DEF Link!Activate
  <2>2. task'[t].pc = "idle" /\ task'[t].kind = "link" BY <2>1, EndIs
  <2>3. Link!Verified(u) => cleanup[u].open
    BY <1>2, <1>3, <1>5 DEF Link!CanActivate, Link!Fresh, LinkInv, Link!CleanupFinal
  <2>4. Joining' BY <1>1, <2>2 DEF Joining, In
  <2>5. Served' BY <1>1, <1>2, <2>1, <2>3 DEF TurnInv, Served, In, Link!Verified, Link!NeedsRepair
  <2> QED BY <1>1, <1>2, <2>1, <2>2, <2>4, <2>5, TaskKept DEF In
<1> QED BY <1>4, <1>5

\* The grant that ends a link command leaves nothing to repair.
LEMMA GrantTurns ==
    ASSUME Link!InTurns, LinkInv, TurnInv, NEW t \in Tasks, Link!GrantStartBalance(t)
    PROVE  TurnInv'
<1> DEFINE u == task[t].u
<1>1. \A s \in Tasks : s = t BY DEF Link!InTurns
<1>2. /\ UNCHANGED <<now, link, cleanup, post, session, buckets>> /\ task[t].pc = "grant" /\ u \in Users
      /\ reward' = Link!Granted(u) /\ Link!End(t)
  BY DEF Link!GrantStartBalance, Link!At, LinkInv, Tasked, Handled
<1>3. task'[t].pc = "idle" /\ task'[t].kind = "link" BY <1>2, EndIs
<1>4. Link!Verified(u) => cleanup[u].open \/ (On(reward[u]) /\ reward[u].id = link[u].id)
  BY <1>2 DEF TurnInv, Joining, In
<1> HIDE DEF u
<1>5. \A v \in Users : /\ reward'[v].here = reward[v].here /\ reward'[v].off = reward[v].off
                       /\ reward'[v].id = reward[v].id /\ reward'[v].from = reward[v].from
                       /\ reward'[v].eligible => reward[v].eligible
                       /\ v = u /\ On(reward[u]) /\ ~cleanup[u].open => ~reward'[v].eligible
  BY <1>2, FlagsAre
<1>6. \A v \in Users : Stays(v) BY <1>5 DEF Stays, On
<1>7. Earning' BY <1>1, <1>2, <1>5 DEF TurnInv, Earning, In, Link!Verified, On
<1>8. Joining' BY <1>1, <1>3 DEF Joining, In
<1>9. Served'
  <2> SUFFICES ASSUME NEW v \in Users, Link!Verified(v), ~cleanup[v].open
               PROVE  ~Link!NeedsRepair(v)'
    BY <1>2 DEF Served, Link!Verified
  <2>1. CASE v = u BY <1>2, <1>4, <1>5, <2>1 DEF Link!NeedsRepair, Link!Verified, On
  <2>2. CASE v # u
    <3>1. ~Link!NeedsRepair(v) BY <1>1, <2>2 DEF TurnInv, Served, In, u
    <3> QED BY <1>2, <1>5, <3>1 DEF Link!NeedsRepair, Link!Verified
  <2> QED BY <2>1, <2>2
<1> QED BY <1>1, <1>2, <1>3, <1>6, <1>7, <1>8, <1>9, RewardTurns DEF In

\* The second transaction of an unlink: its user earns no more.
LEMMA DeactivateTurns ==
    ASSUME Link!InTurns, LinkInv, TurnInv, NEW t \in Tasks, Link!DeactivateRewards(t)
    PROVE  TurnInv'
<1> DEFINE u == task[t].u
<1>1. \A s \in Tasks : s = t BY DEF Link!InTurns
<1>2. /\ UNCHANGED <<now, link, cleanup, post, session, buckets>> /\ task[t].pc = "off" /\ u \in Users
      /\ reward' = Link!Deactivated(u) /\ (Link!End(t) \/ Link!Goto(t, "clear"))
      /\ task[t].at = now /\ task[t].kind \in {"link", "unlink"}
  BY DEF Link!DeactivateRewards, Link!At, LinkInv, Tasked, Handled, TurnInv, Prompt, In
<1>3. /\ task'[t].pc \in {"idle", "clear"} /\ task'[t].kind \in {"link", "unlink"}
      /\ task'[t].pc # "idle" => task'[t].at = now
  BY <1>2, EndIs, GotoIs
<1>4. ~Link!Verified(u) BY <1>2 DEF TurnInv, Parting, In
<1> HIDE DEF u
<1>5. \A v \in Users : /\ reward'[v].here = reward[v].here /\ reward'[v].from = reward[v].from
                       /\ v # u => reward'[v] = reward[v]
                       /\ v = u => ~On(reward'[v])
  BY <1>2, FlagsAre
<1>6. \A v \in Users : Stays(v) BY <1>5 DEF Stays, On
<1>7. Earning' BY <1>1, <1>2, <1>5 DEF TurnInv, Earning, In, Link!Verified, On, u
<1>8. Joining' BY <1>1, <1>3 DEF Joining, In
<1>9. Served'
  <2> SUFFICES ASSUME NEW v \in Users, Link!Verified(v), ~cleanup[v].open
               PROVE  ~Link!NeedsRepair(v)'
    BY <1>2 DEF Served, Link!Verified
  <2>1. v # u BY <1>4
  <2>2. ~Link!NeedsRepair(v) BY <1>1, <1>2 DEF TurnInv, Served, In
  <2> QED BY <1>2, <1>5, <2>1, <2>2 DEF Link!NeedsRepair, Link!Verified
<1> QED BY <1>1, <1>2, <1>3, <1>6, <1>7, <1>8, <1>9, RewardTurns DEF In

\* Steps of a command that write a link.
LEMMA LinkTurns ==
    ASSUME LinkInv, TurnInv, NEW t \in Tasks, \A s \in Tasks : s = t,
           UNCHANGED <<now, reward, cleanup, post, session, buckets>>,
           task'[t].kind \in {"link", "unlink"}, ~In(t, {"idle"})' => task'[t].at = now,
           \A u \in Users : Keeps(u) /\ link'[u].forced = None, Earning', Parting', Joining', Served'
    PROVE  TurnInv'
<1>1. \A u \in Users : Stays(u) /\ (Cleaned(u) => Cleaned(u)') BY DEF Stays, Cleaned
<1>2. TurnRows' BY <1>1, RowsKept DEF TurnInv, TurnRows, Over, SameStart
<1>3. Hooks' BY <1>1, HooksKept DEF TurnInv
<1>4. Prompt' BY DEF TurnInv, Prompt, In
<1> QED BY <1>2, <1>3, <1>4 DEF TurnInv

\* persistVerifiedLink: a user who was not linked earned nothing, one who was needs no repair.
LEMMA PersistTurns ==
    ASSUME Link!LinkAssumption, Link!InTurns, LinkInv, TurnInv, NEW t \in Tasks, Link!Persist(t)
    PROVE  TurnInv'
<1> DEFINE u == task[t].u
           g == task[t].id
<1>1. \A s \in Tasks : s = t BY DEF Link!InTurns
<1>2. /\ UNCHANGED <<now, reward, cleanup, post, session, buckets>> /\ task[t].pc = "persist"
      /\ task[t].at = now /\ task[t].kind \in {"link", "unlink"} /\ u \in Users /\ g \in Ids
  BY DEF Link!Persist, Link!At, TurnInv, Prompt, In, LinkInv, Tasked, Handled
<1>3. link \in [Users -> Bonds] BY DEF LinkInv, LinkTypes, Bonded
<1>4. CASE Link!End(t) /\ UNCHANGED <<link, verified>>
  <2>1. task'[t].pc = "idle" /\ task'[t].kind = "link" BY <1>4, EndIs
  <2>2. Joining' BY <1>1, <2>1 DEF Joining, In
  <2>3. Served' BY <1>1, <1>2, <1>4 DEF TurnInv, Served, In, Link!Verified, Link!NeedsRepair
  <2> QED BY <1>1, <1>2, <1>4, <2>1, <2>2, <2>3, TaskKept DEF In
<1>5. CASE /\ ~Link!Fenced(u, now) /\ Link!MayLink(u, g) /\ Link!Linked(u, g, None, now)
           /\ task' = [task EXCEPT ![t].pc = "hook", ![t].new = ~Link!Verified(u)]
  <2> DEFINE new == ~Link!Verified(u)
  <2>1. /\ task'[t].pc = "hook" /\ task'[t].at = now /\ task'[t].kind = task[t].kind
        /\ task'[t].u = u /\ task'[t].id = g /\ (task'[t].new <=> new)
    <3>1. task' = [task EXCEPT ![t].pc = "hook", ![t].new = new] BY <1>5
    <3> HIDE DEF new
    <3> QED BY <1>2, <3>1 DEF LinkInv, LinkTypes, Handlers
  <2> HIDE DEF u, g
  <2>2. ~cleanup[u].open BY <1>5 DEF Link!Fenced
  <2>3. CASE Link!Verified(u)
    <3>1. link[u].id = g /\ UNCHANGED link BY <1>5, <2>3 DEF Link!MayLink, Link!Linked
    <3>2. ~Link!NeedsRepair(u) BY <1>1, <1>2, <2>2, <2>3 DEF TurnInv, Served, In, u
    <3>3. On(reward[u]) /\ reward[u].id = g BY <2>3, <3>1, <3>2 DEF Link!NeedsRepair, On
    <3>4. Joining' BY <1>1, <1>2, <2>1, <2>3, <3>1, <3>3 DEF Joining, In
    <3>5. Served' BY <1>1, <1>2, <3>1 DEF TurnInv, Served, In, Link!Verified, Link!NeedsRepair
    <3> QED BY <1>1, <1>2, <2>1, <3>1, <3>4, <3>5, TaskKept DEF In
  <2>4. CASE ~Link!Verified(u)
    <3>1. link' = [link EXCEPT ![u] = [status |-> "VERIFIED", id |-> g, forced |-> None, at |-> now]]
      BY <1>5, <2>4 DEF Link!Linked
    <3>2. /\ link'[u].status = "VERIFIED" /\ link'[u].id = g /\ link'[u].forced = None /\ link'[u].at = now
          /\ \A v \in Users \ {u} : link'[v] = link[v]
      BY <1>2, <1>3, <3>1
    <3>3. ~On(reward[u]) BY <1>1, <1>2, <2>4 DEF TurnInv, Earning, In
    <3>4. \A v \in Users \ {u} : ~(Link!Verified(v) /\ link[v].id = g)
      BY <1>5 DEF Link!MayLink, Link!Owner
    <3>5. \A v \in Users : Keeps(v) BY <1>2, <3>2, <3>3, <3>4 DEF Keeps, Link!Verified
    <3>6. \A v \in Users : link'[v].forced = None BY <3>2 DEF TurnInv, Prompt
    <3>7. Earning' BY <1>1, <1>2, <3>2, <3>3 DEF TurnInv, Earning, In, Link!Verified
    <3>8. Parting' BY <1>1, <2>1 DEF Parting, In
    <3>9. Joining' BY <1>1, <2>1, <2>4, <3>2 DEF Joining, In
    <3>10. Served' BY <1>1, <1>2, <2>1, <3>2 DEF TurnInv, Served, In, Link!Verified, Link!NeedsRepair
    <3> QED BY <1>1, <1>2, <2>1, <3>5, <3>6, <3>7, <3>8, <3>9, <3>10, LinkTurns DEF In
  <2> QED BY <2>3, <2>4
<1>6. task[t].kind # "force" /\ link[u].forced = None BY <1>2 DEF TurnInv, Prompt
<1>7. \/ Link!End(t) /\ UNCHANGED <<link, verified>>
      \/ /\ ~Link!Fenced(u, task[t].at) /\ Link!MayLink(u, g) /\ Link!Linked(u, g, link[u].forced, task[t].at)
         /\ task' = [task EXCEPT ![t].pc = "hook", ![t].new = ~Link!Verified(u)]
  BY <1>6 DEF Link!Persist
<1> HIDE DEF u, g
<1> QED BY <1>2, <1>4, <1>5, <1>6, <1>7

\* unlinkUser: until the next transaction the identity has no owner.
LEMMA UnlinkTurns ==
    ASSUME Link!InTurns, LinkInv, TurnInv, NEW t \in Tasks, Link!Unlink(t)
    PROVE  TurnInv'
<1> DEFINE u == task[t].u
<1>1. \A s \in Tasks : s = t BY DEF Link!InTurns
<1>2. /\ UNCHANGED <<now, reward, cleanup, post, session, buckets>> /\ task[t].pc = "unlink"
      /\ task[t].at = now /\ task[t].kind \in {"link", "unlink"} /\ u \in Users
  BY DEF Link!Unlink, Link!At, TurnInv, Prompt, In, LinkInv, Tasked, Handled
<1>3. link \in [Users -> Bonds] BY DEF LinkInv, LinkTypes, Bonded
<1>4. CASE ~Link!Verified(u)
  <2>1. Link!End(t) /\ UNCHANGED link BY <1>2, <1>4 DEF Link!Unlink
  <2>2. task'[t].pc = "idle" /\ task'[t].kind = "link" BY <2>1, EndIs
  <2>3. Joining' BY <1>1, <2>2 DEF Joining, In
  <2>4. Served' BY <1>1, <1>2, <2>1 DEF TurnInv, Served, In, Link!Verified, Link!NeedsRepair
  <2> QED BY <1>1, <1>2, <2>1, <2>2, <2>3, <2>4, TaskKept DEF In
<1>5. CASE Link!Verified(u)
  <2>1. link' = [link EXCEPT ![u].status = "UNLINKED", ![u].id = None] /\ Link!Goto(t, "off")
    BY <1>2, <1>5 DEF Link!Unlink
  <2>2. task'[t].pc = "off" /\ task'[t].kind = task[t].kind /\ task'[t].u = u /\ task'[t].at = now
    BY <1>2, <2>1, GotoIs
  <2> HIDE DEF u
  <2>3. /\ link'[u].status = "UNLINKED" /\ link'[u].forced = link[u].forced
        /\ \A v \in Users \ {u} : link'[v] = link[v]
    BY <1>2, <1>3, <2>1 DEF Bonds
  <2>4. \A v \in Users : Keeps(v) /\ link'[v].forced = None
    BY <2>3 DEF Keeps, Link!Verified, TurnInv, Prompt
  <2>5. On(reward[u]) => reward[u].id = link[u].id BY <1>1, <1>2 DEF TurnInv, Earning, In
  <2>6. \A v \in Users \ {u} : ~(Link!Verified(v) /\ link[v].id = link[u].id)
    BY <1>2, <1>5 DEF TurnInv, TurnRows, OneOwner
  <2>7. Earning' BY <1>1, <1>2, <2>2, <2>3 DEF TurnInv, Earning, In, Link!Verified
  <2>8. Parting' BY <1>1, <1>2, <2>2, <2>3, <2>5, <2>6 DEF Parting, In, Link!Verified
  <2>9. Joining' BY <1>1, <2>2 DEF Joining, In
  <2>10. Served' BY <1>1, <1>2, <2>3 DEF TurnInv, Served, In, Link!Verified, Link!NeedsRepair
  <2> QED BY <1>1, <1>2, <2>2, <2>4, <2>7, <2>8, <2>9, <2>10, LinkTurns DEF In
<1> QED BY <1>4, <1>5

\* clearProvisionalForcedPlayerName: nobody has a forced name.
LEMMA ClearTurns ==
    ASSUME Link!InTurns, LinkInv, TurnInv, NEW t \in Tasks, Link!ClearForcedName(t)
    PROVE  TurnInv'
<1> DEFINE u == task[t].u
<1>1. \A s \in Tasks : s = t BY DEF Link!InTurns
<1>2. /\ UNCHANGED <<now, reward, cleanup, post, session, buckets>> /\ task[t].pc = "clear"
      /\ task[t].kind \in {"link", "unlink"} /\ u \in Users
  BY DEF Link!ClearForcedName, Link!At, TurnInv, Prompt, In, LinkInv, Tasked, Handled
<1>3. Link!End(t) BY <1>2 DEF Link!ClearForcedName
<1>4. link' = link
  <2>1. link \in [Users -> Bonds] /\ link[u].forced = None
    BY <1>2 DEF LinkInv, LinkTypes, Bonded, TurnInv, Prompt
  <2>2. link' = [link EXCEPT ![u].forced = None] BY DEF Link!ClearForcedName
  <2>3. [link[u] EXCEPT !.forced = None] = link[u] BY <1>2, <2>1 DEF Bonds
  <2> HIDE DEF u
  <2> QED BY <1>2, <2>1, <2>2, <2>3
<1>5. task'[t].pc = "idle" /\ task'[t].kind = "link" BY <1>3, EndIs
<1>6. Joining' BY <1>1, <1>5 DEF Joining, In
<1>7. Served' BY <1>1, <1>2, <1>4 DEF TurnInv, Served, In, Link!Verified, Link!NeedsRepair
<1> QED BY <1>1, <1>2, <1>4, <1>5, <1>6, <1>7, TaskKept DEF In

-----------------------------------------------------------------------------
(* Leaves, sessions and the clock in turns.                                *)

LEMMA LeaveBeginsTurns ==
    ASSUME LinkInv, TurnInv, NEW u \in Users, Link!LeaveBegins(u)
    PROVE  TurnInv'
<1>1. UNCHANGED <<now, link, reward, task, post, session, buckets>> BY DEF Link!LeaveBegins
<1>2. \A v \in Users : cleanup'[v].done = cleanup[v].done /\ (cleanup[v].open => cleanup'[v].open)
  BY DEF Link!LeaveBegins, LinkInv, LinkTypes, Exits
<1>3. \A v \in Users : Stays(v) /\ Keeps(v) /\ (Cleaned(v) => Cleaned(v)')
  BY <1>1, <1>2 DEF Stays, Keeps, Cleaned, Link!Verified
<1>4. TurnRows' BY <1>1, <1>3, RowsKept DEF TurnInv, TurnRows, Over, SameStart
<1>5. Hooks' BY <1>1, <1>3, HooksKept DEF TurnInv
<1>6. Prompt' /\ Earning' /\ Parting' BY <1>1 DEF TurnInv, Prompt, Earning, Parting, In, On, Link!Verified
<1>7. Joining'
  <2>1. \A t \in Tasks : task[t].pc # "idle" => task[t].u \in Users BY DEF LinkInv, Tasked, Handled
  <2> QED BY <1>1, <1>2, <2>1 DEF TurnInv, Joining, In, On, Link!Verified
<1>8. Served' BY <1>1, <1>2 DEF TurnInv, Served, In, Link!Verified, Link!NeedsRepair
<1> QED BY <1>4, <1>5, <1>6, <1>7, <1>8 DEF TurnInv

\* The clean-up that ends takes link and reward state with it.
LEMMA LeaveCompletesTurns ==
    ASSUME LinkInv, TurnInv, NEW u \in Users, Link!LeaveCompletes(u)
    PROVE  TurnInv'
<1>1. UNCHANGED <<now, task, post, session, buckets>> BY DEF Link!LeaveCompletes
<1>2. /\ link'[u].status = "NONE" /\ link'[u].forced = None
      /\ \A v \in Users \ {u} : link'[v] = link[v]
  BY DEF Link!LeaveCompletes, LinkInv, LinkTypes, Bonded, Link!NoLink
<1>3. ~reward'[u].here /\ \A v \in Users \ {u} : reward'[v] = reward[v]
  BY DEF Link!LeaveCompletes, LinkInv, LinkTypes, Link!NoReward
<1>4. cleanup'[u].done = now /\ \A v \in Users \ {u} : cleanup'[v] = cleanup[v]
  BY DEF Link!LeaveCompletes, LinkInv, LinkTypes
<1>5. \A v \in Users : Stays(v) /\ Keeps(v) /\ (Cleaned(v) => Cleaned(v)')
  BY <1>1, <1>2, <1>3, <1>4 DEF Stays, Keeps, Cleaned, Link!Verified, On
<1>6. TurnRows' BY <1>1, <1>5, RowsKept DEF TurnInv, TurnRows, Over, SameStart
<1>7. Hooks' BY <1>1, <1>5, HooksKept DEF TurnInv
<1>8. Prompt' BY <1>1, <1>2 DEF TurnInv, Prompt, In
<1>9. Earning' BY <1>1, <1>2, <1>3 DEF TurnInv, Earning, In, On, Link!Verified
<1>10. \A t \in Tasks : task[t].pc # "idle" => task[t].u \in Users BY DEF LinkInv, Tasked, Handled
<1>11. Parting' BY <1>1, <1>2, <1>3, <1>10 DEF TurnInv, Parting, In, On, Link!Verified
<1>12. Joining' BY <1>1, <1>2, <1>3, <1>4, <1>10 DEF TurnInv, Joining, In, On, Link!Verified
<1>13. Served' BY <1>1, <1>2, <1>3, <1>4 DEF TurnInv, Served, In, Link!Verified, Link!NeedsRepair
<1> QED BY <1>6, <1>7, <1>8, <1>9, <1>11, <1>12, <1>13 DEF TurnInv

\* Steps of which the rules only know where the cron is.
LEMMA CronTurns ==
    ASSUME LinkInv, TurnInv, UNCHANGED <<now, link, reward, cleanup, task, buckets>>, SameStart,
           post'.pc \in {"forced", "hooks"} => post'.todo = {} /\ post'.out = {},
           post'.pc # "repair" \/ post' = post, post'.at <= now,
           post'.pc = "book" => \A c \in post'.todo \intersect Link!Claim : c.to <= now
    PROVE  TurnInv'
<1>1. \A v \in Users : Stays(v) /\ Keeps(v) /\ (Cleaned(v) => Cleaned(v)')
  BY DEF Stays, Keeps, Cleaned, Link!Verified
<1>2. TurnRows' BY <1>1, RowsKept DEF TurnInv
<1>3. Hooks' BY <1>1, HooksKept DEF TurnInv
<1>4. Prompt' BY DEF TurnInv, Prompt, In
<1>5. Earning' /\ Parting' BY DEF TurnInv, Earning, Parting, In, On, Link!Verified
<1>6. Joining' BY DEF TurnInv, Joining, In, On, Link!Verified
<1>7. Served' BY DEF TurnInv, Served, In, Link!Verified, Link!NeedsRepair
<1> QED BY <1>2, <1>3, <1>4, <1>5, <1>6, <1>7 DEF TurnInv

LEMMA DisconnectTurns ==
    ASSUME LinkInv, TurnInv, NEW g \in Ids, Link!Disconnect(g)
    PROVE  TurnInv'
<1>1. SameStart BY DEF SameStart, Link!Disconnect, LinkInv, LinkTypes, Sessions
<1>2. UNCHANGED <<now, link, reward, cleanup, task, post, buckets>> BY DEF Link!Disconnect
<1>3. /\ post.pc \in {"forced", "hooks"} => post.todo = {} /\ post.out = {}
      /\ post.at <= now /\ (post.pc = "book" => \A c \in post.todo \intersect Link!Claim : c.to <= now)
  BY DEF TurnInv, Prompt, TurnRows, Over
<1> QED BY <1>1, <1>2, <1>3, CronTurns

\* When a tick passes nothing is under way, so every link earns or is about to end.
LEMMA TickTurns ==
    ASSUME Link!LinkAssumption, Link!InTurns, LinkInv, TurnInv, Link!Tick
    PROVE  TurnInv'
<1>1. UNCHANGED <<link, reward, cleanup, task, post, session, buckets>> /\ now' = now + 1 /\ now \in Nat
  BY DEF Link!Tick, LinkInv, LinkTypes, Link!LinkAssumption
<1>2. post.pc = "idle" /\ \A t \in Tasks : task[t].pc = "idle" BY DEF Link!Tick, Link!Busy, Link!At, Link!InTurns
<1>3. \A u \in Users : Link!Verified(u) => link[u].at \in Nat /\ link[u].at <= now
  BY DEF LinkInv, Proven
<1>4. Prompt' /\ Earning' /\ Parting' /\ Joining' /\ Hooks'
  BY <1>1, <1>2 DEF TurnInv, Prompt, Earning, Parting, Joining, Hooks, In, On, Link!Verified
<1>5. Served' BY <1>1, <1>2 DEF TurnInv, Served, In, Link!Verified, Link!NeedsRepair
<1>6. OneOwner' BY <1>1 DEF TurnInv, TurnRows, OneOwner, Link!Verified
<1>7. Young' BY <1>1, <1>3 DEF Young, Link!Verified
<1>8. \A b \in buckets : Until(b)' = Until(b)
  BY <1>1, UntilSame DEF SameStart, LinkInv, LinkTypes, Books
<1>9. Over'
  <2>1. \A b \in buckets : Until(b) \in Nat
    <3> SUFFICES ASSUME NEW b \in buckets PROVE Until(b) \in Nat OBVIOUS
    <3>1. b.id \in Ids /\ b.epoch \in Nat /\ b.n \in Nat /\ Bucket \in Nat
      BY DEF LinkInv, LinkTypes, Books, Payments, Link!LinkAssumption
    <3>2. Link!Start(b.id, b.epoch) \in Nat BY <3>1 DEF LinkInv, LinkTypes, Sessions, Link!Start
    <3>3. b.n * Bucket \in Nat BY <3>1
    <3> QED BY <3>2, <3>3 DEF Until
  <2>2. post.at \in Nat BY DEF LinkInv, LinkTypes, Crons, Link!LinkAssumption
  <2>3. \A b \in buckets : Until(b) <= now + 1 BY <1>1, <2>1 DEF TurnInv, TurnRows, Over
  <2>4. post.at <= now + 1 BY <1>1, <2>2 DEF TurnInv, TurnRows, Over
  <2> QED BY <1>1, <1>2, <1>8, <2>3, <2>4 DEF Over
<1>10. Later' BY <1>1, <1>8 DEF TurnInv, TurnRows, Later, On
<1>11. Apart' BY <1>1, <1>8 DEF TurnInv, TurnRows, Apart
<1> QED BY <1>4, <1>5, <1>6, <1>7, <1>9, <1>10, <1>11 DEF TurnInv, TurnRows

-----------------------------------------------------------------------------
(* The cron between the commands.                                          *)

LEMMA CronStartTurns == ASSUME LinkInv, TurnInv, Link!CronStart PROVE TurnInv'
<1>1. UNCHANGED <<now, link, reward, cleanup, task, session, buckets>> BY DEF Link!CronStart
<1>2. {v \in Users : Link!Verified(v) /\ link[v].forced # None} = {} BY DEF TurnInv, Prompt
<1>3. post'.pc = "forced" /\ post'.todo = {} /\ post'.out = {} /\ post'.at = now BY <1>2 DEF Link!CronStart
<1>4. now <= now BY DEF LinkInv, LinkTypes
<1> QED BY <1>1, <1>3, <1>4, CronTurns DEF SameStart

\* The cron moves on with what is left to do.
LEMMA CronGotoIs ==
    ASSUME LinkInv, TurnInv, NEW pc, NEW todo, NEW done, Link!CronGoto(pc, todo, done)
    PROVE  post'.pc = pc /\ post'.todo = todo /\ post'.out = done /\ post'.at = post.at /\ post'.at <= now
<1>1. post.at <= now BY DEF TurnInv, TurnRows, Over
<1> QED BY <1>1 DEF Link!CronGoto

LEMMA CronForcedTurns == ASSUME LinkInv, TurnInv, Link!CronForced PROVE TurnInv'
<1>1. UNCHANGED <<now, link, reward, cleanup, task, session, buckets>> BY DEF Link!CronForced
<1>2. post.out = {} BY DEF Link!CronForced, TurnInv, Prompt
<1>3. {[j EXCEPT !.at = now] : j \in post.out} = {} BY <1>2
<1>4. post'.pc = "hooks" /\ post'.todo = {} /\ post'.out = {} /\ post'.at <= now
  BY <1>3, CronGotoIs DEF Link!CronForced
<1> QED BY <1>1, <1>4, CronTurns DEF SameStart

LEMMA CronHookedTurns == ASSUME Link!InTurns, LinkInv, TurnInv, Link!CronHooked PROVE TurnInv'
<1>1. UNCHANGED <<now, link, reward, cleanup, task, session, buckets>> BY DEF Link!CronHooked
<1>2. CASE Link!CronGoto("states", {}, {})
  <2>1. post'.pc = "states" /\ post'.at <= now BY <1>2, CronGotoIs
  <2> QED BY <1>1, <2>1, CronTurns DEF SameStart
<1>3. CASE \E due \in SUBSET Ids : post' = [pc |-> "book", at |-> now, out |-> {}, todo |-> due]
  <2>1. post'.pc = "book" /\ post'.at <= now /\ post'.todo \intersect Link!Claim = {}
    BY <1>3 DEF Link!InTurns, LinkInv, LinkTypes
  <2> QED BY <1>1, <2>1, CronTurns DEF SameStart
<1>4. {g \in Ids : session[g].open \/ ~session[g].passed} \in SUBSET Ids OBVIOUS
<1> QED BY <1>2, <1>3, <1>4 DEF Link!CronHooked

LEMMA CronResolveTurns == ASSUME LinkInv, TurnInv, NEW g \in Ids, Link!CronResolve(g) PROVE TurnInv'
<1> DEFINE earners == {u \in Link!Owner(g) : reward[u].here /\ ~reward[u].off /\ reward[u].id = g}
           Claims == {[id |-> g, u |-> u, from |-> reward[u].from, to |-> post.at] : u \in earners}
<1>1. UNCHANGED <<now, link, reward, cleanup, task, buckets>> BY DEF Link!CronResolve
<1>2. SameStart BY DEF SameStart, Link!CronResolve, LinkInv, LinkTypes, Sessions
<1>3. post.pc = "book" /\ Link!CronGoto("book", (post.todo \ {g}) \union Claims, {}) BY DEF Link!CronResolve
<1>4. \A c \in Claims : c.to = post.at
  <2> HIDE DEF earners
  <2> QED OBVIOUS
<1> HIDE DEF Claims
<1>5. post'.pc = "book" /\ post'.todo = (post.todo \ {g}) \union Claims /\ post'.at <= now
  BY <1>3, CronGotoIs
<1>6. \A c \in post'.todo \intersect Link!Claim : c.to <= now
  BY <1>3, <1>4, <1>5 DEF TurnInv, TurnRows, Over
<1> QED BY <1>1, <1>2, <1>5, <1>6, CronTurns

LEMMA CronEndTurns == ASSUME Link!LinkAssumption, LinkInv, TurnInv, Link!CronEnd PROVE TurnInv'
<1>1. UNCHANGED <<now, link, reward, cleanup, task, session, buckets>> BY DEF Link!CronEnd
<1>2. post'.pc = "idle" /\ post'.at = 0 BY DEF Link!CronEnd, Link!NoCron
<1>3. 0 <= now BY DEF LinkInv, LinkTypes, Link!LinkAssumption
<1> QED BY <1>1, <1>2, <1>3, CronTurns DEF SameStart

\* reconcileVerifiedLinkEconomyEffects finds links of this tick, or of users who leave.
LEMMA CronStatesTurns == ASSUME Link!LinkAssumption, LinkInv, TurnInv, Link!CronStates PROVE TurnInv'
<1>1. UNCHANGED <<now, link, reward, cleanup, task, session, buckets>> BY DEF Link!CronStates
<1> DEFINE New(u) == reward[u].here /\ (reward[u].off \/ reward[u].id # link[u].id)
           Repair(u) == [u |-> u, id |-> link[u].id, at |-> link[u].at, sub |-> "hook", new |-> New(u)]
           Jobs == {Repair(u) : u \in {v \in Users : Link!NeedsRepair(v)}}
<1>2. Link!CronGoto("repair", Jobs, {}) BY DEF Link!CronStates
<1>3. \A u \in Users : Repair(u).u = u /\ Repair(u).at = link[u].at /\ (Repair(u).new <=> New(u)) OBVIOUS
<1>4. \A v \in Users : Stays(v) /\ Keeps(v) BY <1>1 DEF Stays, Keeps, Link!Verified
<1>5. ASSUME NEW u \in Users, Link!NeedsRepair(u)
      PROVE  /\ link[u].at = now \/ Cleaned(u)
             /\ ~New(u) /\ reward[u].here => reward[u].from = now \/ Cleaned(u)
  <2>1. Link!Verified(u) BY <1>5 DEF Link!NeedsRepair
  <2>2. cleanup[u].open \/ link[u].at = now BY <1>5, <2>1 DEF TurnInv, Served
  <2>3. ~New(u) /\ reward[u].here => On(reward[u]) BY DEF On
  <2> QED BY <2>1, <2>2, <2>3 DEF TurnInv, TurnRows, Young, Cleaned
<1> HIDE DEF New, Repair
<1>6. \A j \in Jobs : /\ j.at = now \/ Cleaned(j.u)
                      /\ ~j.new /\ reward[j.u].here => reward[j.u].from = now \/ Cleaned(j.u)
  BY <1>3, <1>5
<1> HIDE DEF Jobs
<1>7. post'.pc = "repair" /\ post'.todo = Jobs /\ post'.at <= now BY <1>2, CronGotoIs
<1>8. TurnRows' BY <1>1, <1>4, <1>7, RowsKept DEF TurnInv, SameStart
<1>9. Hooks' BY <1>1, <1>6, <1>7 DEF Hooks, Cleaned, Link!Job
<1>10. Prompt' BY <1>1, <1>7 DEF TurnInv, Prompt, In
<1>11. Earning' /\ Parting' BY <1>1 DEF TurnInv, Earning, Parting, In, On, Link!Verified
<1>12. Joining' /\ Served'
  BY <1>1 DEF TurnInv, Joining, Served, In, On, Link!Verified, Link!NeedsRepair
<1> QED BY <1>8, <1>9, <1>10, <1>11, <1>12 DEF TurnInv

\* A hook of the repair switches on what has earned since now, and its grant evaluates it.
LEMMA CronHookTurns ==
    ASSUME Link!LinkAssumption, Link!InTurns, LinkInv, TurnInv, NEW j \in post.todo \intersect Link!Job,
           Link!CronHook(j)
    PROVE  TurnInv'
<1> DEFINE u == j.u
           i == [j EXCEPT !.sub = "grant"]
<1>1. UNCHANGED <<now, link, cleanup, task, session, buckets>> BY DEF Link!CronHook
<1>2. post.pc = "repair" /\ u \in Users /\ j.new \in BOOLEAN
  BY DEF TurnInv, Prompt, Link!CronHook, Link!Job
<1>3. i.sub = "grant" BY DEF Link!Job
<1>4. post'.pc = "repair" /\ post'.todo \subseteq (post.todo \ {j}) \union {i} /\ post'.at <= now
  <2> HIDE DEF i
  <2>1. \/ Link!CronGoto("repair", (post.todo \ {j}) \union {i}, {})
        \/ Link!CronGoto("repair", post.todo \ {j}, {})
    BY <1>2 DEF Link!CronHook, i
  <2> QED BY <2>1, CronGotoIs
<1> HIDE DEF i
<1>5. \A s, t \in Tasks : s = t BY DEF Link!InTurns
<1>6. \A t \in Tasks : task[t].pc # "idle" => task[t].u \in Users BY DEF LinkInv, Tasked, Handled
<1>7. ASSUME \A v \in Users : Stays(v), Earning', Parting', Joining', Served' PROVE TurnInv'
  <2>1. \A v \in Users : Keeps(v) /\ (Cleaned(v) => Cleaned(v)') BY <1>1 DEF Keeps, Cleaned, Link!Verified
  <2>2. TurnRows' BY <1>1, <1>4, <1>7, <2>1, RowsKept DEF TurnInv, SameStart
  <2>3. \A h \in post'.todo \intersect Link!Job : h.sub = "hook" => h \in post.todo BY <1>3, <1>4
  <2>4. Hooks' BY <1>1, <1>2, <1>4, <1>7, <2>1, <2>3, HooksKept DEF TurnInv
  <2>5. Prompt' BY <1>1, <1>4 DEF TurnInv, Prompt, In
  <2> QED BY <1>7, <2>2, <2>4, <2>5 DEF TurnInv
<1>8. CASE j.sub = "hook" /\ Link!CanActivate(u, j.id) /\ reward' = Link!Activated(u, j.id, j.new, j.at)
  <2>1. Link!Verified(u) /\ link[u].id = j.id /\ ~cleanup[u].open /\ link[u].at > cleanup[u].done
    BY <1>8 DEF Link!CanActivate, Link!Fresh
  <2>2. ~Cleaned(u)
    <3>1. \A v \in Users : Link!Verified(v) => link[v].at \in Nat /\ link[v].at <= now
      BY DEF LinkInv, Proven
    <3>2. now \in Nat /\ cleanup[u].done \in Nat BY <1>2 DEF LinkInv, LinkTypes, Exits, Link!LinkAssumption
    <3> QED BY <1>2, <2>1, <3>1, <3>2 DEF Cleaned
  <2>3. j.at = now /\ (~j.new /\ reward[u].here => reward[u].from = now)
    BY <1>2, <1>8, <2>2 DEF TurnInv, Hooks
  <2> HIDE DEF u
  <2>4. /\ \A v \in Users \ {u} : reward'[v] = reward[v]
        /\ On(reward'[u]) /\ reward'[u].id = j.id
        /\ reward'[u].from = IF reward[u].here /\ ~j.new THEN reward[u].from ELSE j.at
        /\ reward[u].here => reward'[u].eligible = reward[u].eligible
    BY <1>2, <1>8, ActivatedIs
  <2>5. reward'[u].from = now BY <2>3, <2>4
  <2>6. \A v \in Users : Stays(v) BY <2>4, <2>5 DEF Stays
  <2>7. Earning' BY <1>1, <2>1, <2>4 DEF TurnInv, Earning, In, Link!Verified
  <2>8. Parting' BY <1>1, <1>6, <2>1, <2>4 DEF TurnInv, Parting, In, Link!Verified
  <2>9. Joining' BY <1>1, <1>6, <2>1, <2>4 DEF TurnInv, Joining, In, Link!Verified
  <2>10. Served' BY <1>1, <2>1, <2>4 DEF TurnInv, Served, In, Link!Verified, Link!NeedsRepair, On
  <2> QED BY <1>7, <2>6, <2>7, <2>8, <2>9, <2>10
<1>9. CASE UNCHANGED reward
  <2>1. \A v \in Users : Stays(v) BY <1>9 DEF Stays
  <2>2. Earning' /\ Parting' BY <1>1, <1>9 DEF TurnInv, Earning, Parting, In, On, Link!Verified
  <2>3. Joining' /\ Served'
    BY <1>1, <1>9 DEF TurnInv, Joining, Served, In, On, Link!Verified, Link!NeedsRepair
  <2> QED BY <1>7, <2>1, <2>2, <2>3
<1>10. CASE reward' = Link!Granted(u)
  <2>1. \A v \in Users : /\ reward'[v].here = reward[v].here /\ reward'[v].off = reward[v].off
                         /\ reward'[v].id = reward[v].id /\ reward'[v].from = reward[v].from
                         /\ reward'[v].eligible => reward[v].eligible
    BY <1>2, <1>10, FlagsAre
  <2>2. \A v \in Users : Stays(v) BY <2>1 DEF Stays, On
  <2>3. Earning' BY <1>1, <2>1 DEF TurnInv, Earning, In, On, Link!Verified
  <2>4. Parting' BY <1>1, <1>6, <2>1 DEF TurnInv, Parting, In, On, Link!Verified
  <2>5. Joining' BY <1>1, <1>6, <2>1 DEF TurnInv, Joining, In, On, Link!Verified
  <2>6. Served' BY <1>1, <2>1 DEF TurnInv, Served, In, Link!Verified, Link!NeedsRepair
  <2> QED BY <1>7, <2>2, <2>3, <2>4, <2>5, <2>6
<1>11. \/ j.sub = "hook" /\ Link!CanActivate(u, j.id) /\ reward' = Link!Activated(u, j.id, j.new, j.at)
       \/ UNCHANGED reward
       \/ reward' = Link!Granted(u)
  BY DEF Link!CronHook
<1> QED BY <1>8, <1>9, <1>10, <1>11

-----------------------------------------------------------------------------
(* Booking in turns.                                                       *)

\* One user earns for an identity.
LEMMA OneEarns ==
    ASSUME Link!InTurns, TurnInv, NEW u \in Users, NEW v \in Users, On(reward[u]), On(reward[v]),
           reward[u].id = reward[v].id
    PROVE  u = v
BY DEF Link!InTurns, TurnInv, Earning, Parting, TurnRows, OneOwner, In

LEMMA TimesLe == ASSUME NEW a \in Nat, NEW b \in Nat, NEW c \in Nat, a <= b PROVE a * c <= b * c
OBVIOUS

\* eligiblePlaytimeBuckets counts no bucket that is not over.
LEMMA EligibleOver ==
    ASSUME Link!LinkAssumption, LinkInv, NEW g \in Ids, NEW from \in 0..MaxTime, NEW to \in 0..MaxTime,
           NEW n \in Nat \ {0}, n <= Link!Eligible(g, from, to)
    PROVE  Link!Start(g, from) + n * Bucket <= to
<1> DEFINE end == IF session[g].open \/ session[g].to > to THEN to ELSE session[g].to
           start == Link!Start(g, from)
           q == (end - start) \div Bucket
<1>1. MaxTime \in Nat /\ Bucket \in Nat \ {0} BY DEF Link!LinkAssumption
<1>2. session[g] \in Sessions BY DEF LinkInv, LinkTypes
<1>3. end \in Nat /\ end <= to BY <1>1, <1>2 DEF Sessions
<1>4. start \in Nat BY <1>1, <1>2 DEF Sessions, Link!Start
<1>5. Link!Eligible(g, from, to) = IF end <= start THEN 0 ELSE q BY DEF Link!Eligible
<1>6. ~(end <= start) /\ n <= q
  <2> HIDE DEF end, start, q
  <2>1. CASE end <= start BY <1>5, <2>1
  <2>2. CASE ~(end <= start) BY <1>5, <2>2
  <2> QED BY <2>1, <2>2
<1>7. q \in Nat /\ q * Bucket <= end - start
  <2> DEFINE d == end - start
  <2> HIDE DEF end, start
  <2>1. d \in Nat BY <1>3, <1>4, <1>6
  <2> HIDE DEF d
  <2>2. d \div Bucket \in Nat /\ Bucket * (d \div Bucket) <= d BY <1>1, <2>1
  <2>3. (d \div Bucket) * Bucket = Bucket * (d \div Bucket) BY <1>1, <2>2
  <2> QED BY <2>2, <2>3 DEF d
<1> HIDE DEF q
<1>8. n * Bucket <= q * Bucket BY <1>1, <1>6, <1>7, TimesLe
<1>9. n * Bucket \in Nat /\ q * Bucket \in Nat BY <1>1, <1>7
<1> DEFINE ticks == n * Bucket
           all == q * Bucket
<1> HIDE DEF end, start, ticks, all
<1>10. ticks \in Nat /\ all \in Nat /\ ticks <= all /\ all <= end - start BY <1>7, <1>8, <1>9 DEF ticks, all
<1>11. start + ticks <= to BY <1>3, <1>4, <1>10
<1> QED BY <1>11 DEF ticks, start

\* processSession: what is booked is over, and of the epoch of the only one who earns.
LEMMA CronBookTurns ==
    ASSUME Link!LinkAssumption, Link!InTurns, LinkInv, TurnInv, NEW c \in post.todo \intersect Link!Claim,
           Link!CronBook(c), LinkInv'
    PROVE  TurnInv'
<1> DEFINE n == Link!Eligible(c.id, c.from, c.to)
           done == Link!Done(c.id, c.from)
           fresh == {[id |-> c.id, u |-> c.u, epoch |-> c.from, n |-> i] : i \in (done + 1)..n}
<1>1. UNCHANGED <<now, link, reward, cleanup, task, session>> /\ post.pc = "book" BY DEF Link!CronBook
<1>2. c.id \in Ids /\ c.u \in Users /\ c.from \in 0..MaxTime /\ c.to \in 0..MaxTime BY DEF Link!Claim
<1>3. Link!CronGoto("book", post.todo \ {c}, {}) BY DEF Link!CronBook
<1>4. post'.pc = "book" /\ post'.todo = post.todo \ {c} /\ post'.at <= now BY <1>3, CronGotoIs
<1>5. c.to <= now /\ \A d \in post'.todo \intersect Link!Claim : d.to <= now
  BY <1>1, <1>4 DEF TurnInv, TurnRows, Over
<1>6. CASE UNCHANGED buckets BY <1>1, <1>4, <1>5, <1>6, CronTurns DEF SameStart
<1>7. CASE /\ On(reward[c.u]) /\ reward[c.u].id = c.id /\ reward[c.u].from = c.from
           /\ buckets' = buckets \union fresh
  <2>1. ASSUME NEW b \in fresh PROVE b.id = c.id /\ b.epoch = c.from /\ Until(b) <= now
    <3>1. PICK i \in (done + 1)..n : b = [id |-> c.id, u |-> c.u, epoch |-> c.from, n |-> i] BY <2>1
    <3>2. done \in Nat /\ n \in Nat
      BY <1>2, EligibleFits, DoneIs DEF Link!LinkAssumption
    <3>3. i \in Nat \ {0} /\ i <= n BY <3>1, <3>2
    <3>4. Link!Start(c.id, c.from) + i * Bucket <= c.to BY <1>2, <3>3, EligibleOver
    <3> DEFINE over == Link!Start(c.id, c.from) + i * Bucket
    <3>5. over \in Nat
      <4>1. Link!Start(c.id, c.from) \in Nat
        BY <1>2 DEF LinkInv, LinkTypes, Sessions, Link!Start, Link!LinkAssumption
      <4>2. i * Bucket \in Nat BY <3>3 DEF Link!LinkAssumption
      <4> QED BY <4>1, <4>2
    <3>6. Until(b) = over BY <3>1 DEF Until
    <3> HIDE DEF over
    <3>7. over <= c.to BY <3>4 DEF over
    <3>8. c.to \in Nat /\ now \in Nat BY <1>2 DEF LinkInv, LinkTypes, Link!LinkAssumption
    <3> QED BY <1>5, <3>1, <3>5, <3>6, <3>7, <3>8
  <2> HIDE DEF fresh
  <2>2. \A b \in buckets' : Until(b)' = Until(b)
    <3>1. buckets' \subseteq Payments BY DEF LinkInv, LinkTypes, Books
    <3> QED BY <1>1, <3>1, UntilSame DEF SameStart
  <2>3. Over'
    <3>1. \A b \in buckets' : Until(b) <= now BY <1>7, <2>1 DEF TurnInv, TurnRows, Over
    <3>2. \A b \in buckets' : Until(b)' <= now' BY <1>1, <2>2, <3>1
    <3>3. post'.at <= now' /\ \A d \in post'.todo \intersect Link!Claim' : d.to <= now'
      BY <1>1, <1>4, <1>5 DEF Link!Claim
    <3> QED BY <3>2, <3>3 DEF Over
  <2>4. Later'
    <3> SUFFICES ASSUME NEW u \in Users, On(reward[u]), NEW b \in buckets', b.id = reward[u].id
                 PROVE  b.epoch = reward[u].from \/ Until(b) <= reward[u].from
      BY <1>1, <2>2 DEF Later, On
    <3>1. CASE b \in buckets BY <3>1 DEF TurnInv, TurnRows, Later
    <3>2. CASE b \in fresh
      <4>1. u = c.u BY <1>2, <1>7, <2>1, <3>2, OneEarns
      <4> QED BY <1>7, <2>1, <3>2, <4>1
    <3> QED BY <1>7, <3>1, <3>2
  <2>5. Apart'
    <3>1. \A a, b \in buckets' : a.id = b.id => a.epoch = b.epoch \/ Until(a) <= b.epoch \/ Until(b) <= a.epoch
      <4> SUFFICES ASSUME NEW a \in buckets', NEW b \in buckets', a.id = b.id
                   PROVE  a.epoch = b.epoch \/ Until(a) <= b.epoch \/ Until(b) <= a.epoch
        OBVIOUS
      <4>1. CASE a \in buckets /\ b \in buckets BY <4>1 DEF TurnInv, TurnRows, Apart
      <4>2. CASE a \in fresh /\ b \in fresh BY <2>1, <4>2
      <4>3. CASE a \in buckets /\ b \in fresh BY <1>2, <1>7, <2>1, <4>3 DEF TurnInv, TurnRows, Later
      <4>4. CASE a \in fresh /\ b \in buckets BY <1>2, <1>7, <2>1, <4>4 DEF TurnInv, TurnRows, Later
      <4> QED BY <1>7, <4>1, <4>2, <4>3, <4>4
    <3> QED BY <2>2, <3>1 DEF Apart
  <2>6. OneOwner' /\ Young'
    BY <1>1 DEF TurnInv, TurnRows, OneOwner, Young, On, Link!Verified
  <2>7. Prompt' /\ Hooks' BY <1>1, <1>4 DEF TurnInv, Prompt, Hooks, In
  <2>8. Earning' /\ Parting' BY <1>1 DEF TurnInv, Earning, Parting, In, On, Link!Verified
  <2>9. Joining' /\ Served'
    BY <1>1 DEF TurnInv, Joining, Served, In, On, Link!Verified, Link!NeedsRepair
  <2> QED BY <2>3, <2>4, <2>5, <2>6, <2>7, <2>8, <2>9 DEF TurnInv, TurnRows
<1>8. \/ UNCHANGED buckets
      \/ /\ On(reward[c.u]) /\ reward[c.u].id = c.id /\ reward[c.u].from = c.from
         /\ buckets' = buckets \union fresh
  <2> HIDE DEF fresh, n, done
  <2> QED BY DEF Link!CronBook, On, fresh, n, done
<1> QED BY <1>6, <1>7, <1>8

LEMMA TurnStep ==
    ASSUME Link!LinkAssumption, Link!InTurns
    PROVE  LinkInv /\ TurnInv /\ [Link!Next]_Link!vars => TurnInv'
<1> SUFFICES ASSUME LinkInv, TurnInv, [Link!Next]_Link!vars PROVE TurnInv' OBVIOUS
<1>1. CASE \E t \in Tasks : \/ \E kind \in Kinds, u \in Users, g \in Ids \union {None} : Link!Begin(t, kind, u, g)
                            \/ Link!Command(t)
  BY <1>1, BeginTurns, PersistTurns, HookTurns, ActivateTurns, GrantTurns, UnlinkTurns, DeactivateTurns,
     ClearTurns
     DEF Link!Command
<1>2. ~Link!CronDies /\ \A t \in Tasks : ~Link!Dies(t)
  <2>1. ~(spent["faults"] < MaxFaults) BY DEF LinkInv, LinkTypes, Counts, Link!InTurns
  <2> QED BY <2>1 DEF Link!CronDies, Link!Dies, Link!Spend
<1>3. CASE Link!Cron
  <2>1. CASE Link!CronStart \/ Link!CronForced \/ Link!CronHooked \/ Link!CronStates \/ Link!CronEnd
    BY <2>1, CronStartTurns, CronForcedTurns, CronHookedTurns, CronStatesTurns, CronEndTurns
  <2>2. CASE \E j \in post.todo \intersect Link!Job : Link!CronForce(j) \/ Link!CronForceFails(j)
        \/ Link!CronHook(j)
    <3>1. \A j \in post.todo : post.pc # "forced" BY DEF TurnInv, Prompt
    <3> QED BY <2>2, <3>1, CronHookTurns DEF Link!CronForce, Link!CronForceFails
  <2>3. CASE \E g \in Ids : Link!CronResolve(g) BY <2>3, CronResolveTurns
  <2>4. CASE \E c \in post.todo \intersect Link!Claim : Link!CronBook(c) BY <2>4, CronBookTurns, CronBookKept
  <2> QED BY <1>3, <2>1, <2>2, <2>3, <2>4 DEF Link!Cron
<1>4. CASE \E u \in Users : Link!LeaveBegins(u) \/ Link!LeaveCompletes(u)
  BY <1>4, LeaveBeginsTurns, LeaveCompletesTurns
<1>5. CASE (\E g \in Ids : Link!Disconnect(g)) \/ Link!Tick BY <1>5, DisconnectTurns, TickTurns
<1>6. CASE UNCHANGED Link!vars
  <2>1. UNCHANGED <<now, link, reward, cleanup, task, session, buckets, post>> BY <1>6 DEF Link!vars
  <2>2. /\ post.pc \in {"forced", "hooks"} => post.todo = {} /\ post.out = {}
        /\ post.at <= now /\ (post.pc = "book" => \A c \in post.todo \intersect Link!Claim : c.to <= now)
    BY DEF TurnInv, Prompt, TurnRows, Over
  <2> QED BY <2>1, <2>2, CronTurns DEF SameStart
<1> QED BY <1>1, <1>2, <1>3, <1>4, <1>5, <1>6 DEF Link!Next

\* Buckets of one epoch that are not the same have no tick in common, nor have buckets of
\* epochs that follow each other.
LEMMA TicksApart ==
    ASSUME Link!LinkAssumption, LinkInv, Apart, NEW b \in buckets, NEW c \in buckets, b.id = c.id, b # c
    PROVE  Link!Ticks(b) \intersect Link!Ticks(c) = {}
<1> DEFINE from(x) == Link!Start(x.id, x.epoch)
           head(x) == (x.n - 1) * Bucket
           tail(x) == x.n * Bucket
<1>1. ASSUME NEW x \in buckets
      PROVE  /\ x.id \in Ids /\ x.epoch \in Nat /\ x.n \in Nat \ {0} /\ Bucket \in Nat \ {0}
             /\ from(x) \in Nat /\ x.epoch <= from(x) /\ head(x) \in Nat /\ tail(x) \in Nat
  <2>1. x.id \in Ids /\ x.epoch \in Nat /\ x.n \in Nat \ {0} /\ Bucket \in Nat \ {0}
    BY DEF LinkInv, LinkTypes, Books, Payments, Link!LinkAssumption
  <2>2. from(x) \in Nat /\ x.epoch <= from(x) BY <2>1 DEF LinkInv, LinkTypes, Sessions, Link!Start
  <2>3. head(x) \in Nat /\ tail(x) \in Nat BY <2>1
  <2> QED BY <2>1, <2>2, <2>3
<1>2. \A x \in buckets : Link!Ticks(x) = (from(x) + head(x))..(from(x) + tail(x) - 1) BY DEF Link!Ticks
<1>3. \A x \in buckets : Until(x) = from(x) + tail(x) BY DEF Until
<1>4. ASSUME NEW x \in buckets, NEW y \in buckets, Until(x) <= y.epoch
      PROVE  Link!Ticks(x) \intersect Link!Ticks(y) = {}
  <2>1. /\ from(x) \in Nat /\ head(x) \in Nat /\ tail(x) \in Nat
        /\ y.epoch \in Nat /\ y.epoch <= from(y) /\ from(y) \in Nat /\ head(y) \in Nat /\ tail(y) \in Nat
    BY <1>1
  <2>2. from(x) + tail(x) <= from(y)
    <3>1. from(x) + tail(x) <= y.epoch BY <1>3, <1>4
    <3> HIDE DEF from, head, tail
    <3> QED BY <2>1, <3>1
  <2>3. /\ Link!Ticks(x) = (from(x) + head(x))..(from(x) + tail(x) - 1)
        /\ Link!Ticks(y) = (from(y) + head(y))..(from(y) + tail(y) - 1)
    BY <1>2
  <2> HIDE DEF from, head, tail
  <2>4. ASSUME NEW i \in Link!Ticks(x), i \in Link!Ticks(y) PROVE FALSE
    <3>1. i \in Int /\ i <= from(x) + tail(x) - 1 BY <2>1, <2>3
    <3>2. from(y) + head(y) <= i BY <2>1, <2>3, <2>4
    <3>3. from(y) <= i BY <2>1, <3>1, <3>2
    <3> QED BY <2>1, <2>2, <3>1, <3>3
  <2> QED BY <2>4
<1>5. ASSUME NEW x \in buckets, NEW y \in buckets, x.id = y.id, x.epoch = y.epoch, x.n < y.n
      PROVE  Link!Ticks(x) \intersect Link!Ticks(y) = {}
  <2>1. x.n \in Nat /\ y.n - 1 \in Nat /\ x.n <= y.n - 1 /\ Bucket \in Nat BY <1>1, <1>5
  <2>2. tail(x) <= head(y) BY <2>1, TimesLe
  <2>3. from(x) = from(y) BY <1>5
  <2>4. /\ from(x) \in Nat /\ head(x) \in Nat /\ tail(x) \in Nat /\ head(y) \in Nat /\ tail(y) \in Nat
    BY <1>1
  <2>5. /\ Link!Ticks(x) = (from(x) + head(x))..(from(x) + tail(x) - 1)
        /\ Link!Ticks(y) = (from(y) + head(y))..(from(y) + tail(y) - 1)
    BY <1>2
  <2> HIDE DEF from, head, tail
  <2>6. ASSUME NEW i \in Link!Ticks(x), i \in Link!Ticks(y) PROVE FALSE BY <2>2, <2>3, <2>4, <2>5, <2>6
  <2> QED BY <2>6
<1>6. CASE b.epoch = c.epoch
  <2>1. b.n # c.n BY <1>6 DEF LinkInv, Link!BucketPaidOnce
  <2>2. b.n \in Nat /\ c.n \in Nat BY <1>1
  <2>3. b.n < c.n \/ c.n < b.n BY <2>1, <2>2
  <2> QED BY <1>5, <1>6, <2>3
<1>7. CASE b.epoch # c.epoch BY <1>4, <1>7 DEF Apart
<1> QED BY <1>6, <1>7

\* linking.ts, linkRewards.ts, playtimeBooking.ts: where every command comes to its end
\* before the next one, no tick of a session is paid twice: not to one user in two epochs,
\* not to two users who take turns with an identity, whatever leaves are cleaned up and
\* wherever the cron is meanwhile.
THEOREM TimePaidOnceHolds == ASSUME Link!LinkAssumption, Link!InTurns PROVE Link!Spec => []Link!TimePaidOnce
<1>1. ASSUME LinkInv, TurnInv PROVE Link!TimePaidOnce
  BY <1>1, TicksApart DEF TurnInv, TurnRows, Link!TimePaidOnce
<1>2. LinkInv /\ TurnInv => Link!TimePaidOnce BY <1>1
<1>3. Link!Init => LinkInv /\ TurnInv BY LinkInit, TurnInit
<1>4. LinkInv /\ TurnInv /\ [Link!Next]_Link!vars => (LinkInv /\ TurnInv)' BY LinkStep, TurnStep
<1> QED BY <1>2, <1>3, <1>4, PTL DEF Link!Spec
=============================================================================
