------------------------- MODULE GraphVersions_proofs -------------------------
(***************************************************************************)
(* Proofs about the versions of a class's graph (GraphVersions) and the     *)
(* documents they name (GraphDocument): that what is in force is the first  *)
(* version and the applied proposals on top of it, that what a version says *)
(* of its contracts is true of the work its document orders, and that the   *)
(* diff of two documents in force makes the second of the first.            *)
(*                                                                         *)
(* The versions: a version is written once and its parent never moves, so   *)
(* the way back from a version is the same for ever (Traced); a proposal is *)
(* applied on top of what is in force and reverted from the top, so the     *)
(* versions it added are on the way back from the pointer for as long as it *)
(* is applied.  Both need that a hash is written once (Written).            *)
(*                                                                         *)
(* The documents: the fixpoint, what is kept of a list and what operations  *)
(* make of a document are recursive functions.  What they are after one step *)
(* more is proved from what a recursive function is (Unrolled), and the rest *)
(* one element, one round or one node of a way at a time, down to the least *)
(* number (CountUp, SequencesGrow).                                         *)
(***************************************************************************)
EXTENDS GraphVersions, FiniteSetTheorems, SequenceTheorems, WellFoundedInduction, TLAPS

-----------------------------------------------------------------------------
(* Every nonempty set of numbers has a least one. *)
LEMMA LeastNatural ==
  ASSUME NEW T, T \subseteq Nat, T # {}
  PROVE  \E x \in T : \A y \in T : x <= y
<1> DEFINE R == OpToRel(<, Nat)
<1>1. IsWellFoundedOn(R, Nat)
  BY NatLessThanWellFounded
<1>2. R = {ss \in Nat \X Nat : ss[1] < ss[2]}
  BY DEF OpToRel
<1>4. \A x, y \in Nat : <<y, x>> \in R <=> y < x
  BY <1>2
<1> HIDE DEF R
<1>3. \E x \in T : \A y \in T : <<y, x>> \notin R
  BY <1>1, WFMin
<1>5. PICK x \in T : \A y \in T : <<y, x>> \notin R
  BY <1>3
<1>6. ASSUME NEW y \in T PROVE x <= y
  <2>1. x \in Nat /\ y \in Nat
    OBVIOUS
  <2>2. ~(y < x)
    BY <1>4, <1>5, <2>1
  <2> QED
    BY <2>1, <2>2
<1> QED
  BY <1>6

(* A set that holds 0 and, with a number, the next one holds them all. *)
LEMMA CountUp ==
  ASSUME NEW N \in Nat, NEW T, 0 \in T,
         \A k \in 0..N : k # N /\ k \in T => k + 1 \in T
  PROVE  \A k \in 0..N : k \in T
<1> DEFINE M == {k \in 0..N : k \notin T}
<1>1. CASE M = {}
  BY <1>1
<1>2. CASE M # {}
  <2>1. M \subseteq Nat
    OBVIOUS
  <2>2. PICK k \in M : \A y \in M : k <= y
    BY <1>2, <2>1, LeastNatural
  <2>3. k \in 0..N /\ k \notin T /\ k # 0
    OBVIOUS
  <2>4. k - 1 \in 0..N /\ k - 1 # N /\ (k - 1) + 1 = k
    BY <2>3
  <2>5. k - 1 \in T
    BY <2>2, <2>4
  <2> QED
    BY <2>3, <2>4, <2>5
<1> QED
  BY <1>1, <1>2

\* A function over 0..N that starts at base and goes on by G.
Unrolls(f, N, S, base, G) ==
    /\ f \in [0..N -> S]
    /\ \A k \in 0..N : f[k] = IF k = 0 THEN base ELSE G[k][f[k - 1]]

Steps(N, S) == [0..N -> [S -> S]]

(* A first value and a step that stays among the values define a function. *)
LEMMA Unrolled ==
  ASSUME NEW N \in Nat, NEW S, NEW base \in S, NEW G \in Steps(N, S)
  PROVE  \E f : Unrolls(f, N, S, base, G)
<1>0. G \in [0..N -> [S -> S]]
  BY DEF Steps
<1> DEFINE Runs(f, m) ==
             /\ f \in [0..m -> S]
             /\ \A k \in 0..m : f[k] = IF k = 0 THEN base ELSE G[k][f[k - 1]]
           T == {m \in 0..N : \E f : Runs(f, m)}
<1>1. 0 \in T
  <2> DEFINE g == [k \in {0} |-> base]
  <2>1. 0..0 = {0} /\ 0 \in 0..N
    OBVIOUS
  <2>2. g \in [{0} -> S] /\ g[0] = base
    OBVIOUS
  <2> HIDE DEF g
  <2>3. Runs(g, 0)
    BY <2>1, <2>2
  <2> QED
    BY <2>1, <2>3
<1>2. ASSUME NEW m \in 0..N, m # N, m \in T PROVE m + 1 \in T
  <2>1. PICK f : Runs(f, m)
    BY <1>2
  <2>2. m + 1 \in 0..N /\ m \in Nat
    BY <1>2
  <2>3. f[m] \in S
    BY <2>1, <2>2
  <2>4. G[m + 1][f[m]] \in S
    BY <1>0, <2>2, <2>3
  <2> DEFINE g == [k \in 0..(m + 1) |-> IF k = m + 1 THEN G[m + 1][f[m]] ELSE f[k]]
  <2>5. g \in [0..(m + 1) -> S]
    BY <2>1, <2>2, <2>4
  <2>6. ASSUME NEW k \in 0..(m + 1)
        PROVE  g[k] = IF k = 0 THEN base ELSE G[k][g[k - 1]]
    <3>1. CASE k = m + 1
      <4>1. k # 0 /\ k - 1 = m /\ m \in 0..(m + 1) /\ m # m + 1
        BY <2>2, <3>1
      <4> QED
        BY <3>1, <4>1
    <3>2. CASE k # m + 1
      <4>1. k \in 0..m /\ (k # 0 => k - 1 \in 0..(m + 1) /\ k - 1 # m + 1)
        BY <2>2, <3>2
      <4> QED
        BY <2>1, <3>2, <4>1
    <3> QED
      BY <3>1, <3>2
  <2> HIDE DEF g
  <2>7. Runs(g, m + 1)
    BY <2>5, <2>6
  <2> QED
    BY <2>2, <2>7
<1> HIDE DEF T
<1>3. N \in T
  <2>1. N \in 0..N
    OBVIOUS
  <2>2. \A k \in 0..N : k \in T
    BY <1>1, <1>2, CountUp
  <2> QED
    BY <2>1, <2>2
<1> QED
  BY <1>3 DEF T, Unrolls

-----------------------------------------------------------------------------
(* Sequences, one element more at a time. *)

LEMMA SequencesGrow ==
  ASSUME NEW T, NEW P, <<>> \in P,
         \A s \in Seq(T) : \A x \in T : s \in P => Append(s, x) \in P
  PROVE  \A s \in Seq(T) : s \in P
<1> SUFFICES ASSUME NEW s \in Seq(T) PROVE s \in P
  OBVIOUS
<1> DEFINE N == Len(s)
           first(k) == [i \in 1..k |-> s[i]]
           M == {k \in 0..N : first(k) \in P}
<1>0. N \in Nat
  OBVIOUS
<1>1. 0 \in M
  <2>1. first(0) = <<>> /\ 0 \in 0..N
    OBVIOUS
  <2> QED
    BY <2>1
<1>2. ASSUME NEW k \in 0..N, k # N, k \in M PROVE k + 1 \in M
  <2>1. k \in Nat /\ k + 1 \in 1..N /\ k + 1 \in 0..N
    BY <1>0, <1>2
  <2>2. \A i \in 1..(k + 1) : s[i] \in T
    BY <2>1
  <2>3. first(k) \in Seq(T) /\ s[k + 1] \in T
    BY <2>1
  <2>4. Append(first(k), s[k + 1]) = first(k + 1)
    BY <2>1, <2>2
  <2> HIDE DEF first
  <2>5. first(k) \in P
    BY <1>2
  <2> QED
    BY <2>1, <2>3, <2>4, <2>5
<1> HIDE DEF M
<1>3. N \in M
  <2>1. N \in 0..N
    BY <1>0
  <2> QED
    BY <1>0, <1>1, <1>2, <2>1, CountUp
<1> QED
  <2>1. first(N) = s
    OBVIOUS
  <2> QED
    BY <1>3, <2>1 DEF M

LEMMA AppendIs ==
  ASSUME NEW T, NEW s \in Seq(T), NEW x \in T
  PROVE  /\ Append(s, x) \in Seq(T) /\ Len(Append(s, x)) = Len(s) + 1 /\ Len(s) \in Nat
         /\ \A i \in 1..Len(s) : Append(s, x)[i] = s[i]
         /\ Append(s, x)[Len(s) + 1] = x
         /\ ToSet(Append(s, x)) = ToSet(s) \cup {x}
<1>1. /\ Append(s, x) \in Seq(T) /\ Len(Append(s, x)) = Len(s) + 1 /\ Len(s) \in Nat
      /\ \A i \in 1..Len(s) : Append(s, x)[i] = s[i]
      /\ Append(s, x)[Len(s) + 1] = x
      /\ DOMAIN s = 1..Len(s) /\ DOMAIN Append(s, x) = 1..(Len(s) + 1)
  OBVIOUS
<1>2. \A i : i \in 1..(Len(s) + 1) <=> i \in 1..Len(s) \/ i = Len(s) + 1
  BY <1>1
<1>3. ToSet(Append(s, x)) = ToSet(s) \cup {x}
  BY <1>1, <1>2, Zenon DEF ToSet
<1> QED
  BY <1>1, <1>3

\* A function that keeps, of the first k elements of s, those of S.
Keeps(f, s, S, T) ==
  /\ f \in [0..Len(s) -> Seq(T)]
  /\ f[0] = <<>>
  /\ \A k \in 1..Len(s) : f[k] = IF s[k] \in S THEN Append(f[k - 1], s[k]) ELSE f[k - 1]

LEMMA KeptUnrolls ==
  ASSUME NEW T, NEW s \in Seq(T), NEW S
  PROVE  \E f : Keeps(f, s, S, T) /\ Kept(s, S) = f[Len(s)]
<1> DEFINE N == Len(s)
           V == Seq(T)
           More(v, k) == IF s[k] \in S THEN Append(v, s[k]) ELSE v
           G == [k \in 0..N |-> [v \in V |-> IF k = 0 THEN v ELSE More(v, k)]]
           base == <<>>
           Eq(f) == f = [k \in 0..N |-> IF k = 0 THEN <<>> ELSE
                           IF s[k] \in S THEN Append(f[k - 1], s[k]) ELSE f[k - 1]]
           kept == CHOOSE f : Eq(f)
<1>0. N \in Nat /\ base \in V /\ N \in 0..N /\ 0 \in 0..N
  OBVIOUS
<1>1. Kept(s, S) = kept[N]
  BY DEF Kept
<1>2. G \in Steps(N, V)
  <2>1. \A k \in 1..N : s[k] \in T
    OBVIOUS
  <2>2. \A k \in 0..N : k # 0 => k \in 1..N
    BY <1>0
  <2>3. \A k \in 0..N : \A v \in V : k # 0 => More(v, k) \in V
    BY <2>1, <2>2
  <2> HIDE DEF More, V
  <2> QED
    BY <2>3 DEF Steps
<1>3. PICK f : Unrolls(f, N, V, base, G)
  <2> HIDE DEF G, base, V
  <2> QED
    BY <1>0, <1>2, Unrolled
<1>4. f \in [0..N -> V] /\ \A k \in 0..N : f[k] = IF k = 0 THEN base ELSE G[k][f[k - 1]]
  BY <1>3, Zenon DEF Unrolls
<1>5. ASSUME NEW k \in 0..N, k # 0 PROVE f[k] = More(f[k - 1], k)
  <2>1. k - 1 \in 0..N
    BY <1>0, <1>5
  <2>2. f[k - 1] \in V
    BY <1>4, <2>1
  <2>3. f[k] = G[k][f[k - 1]]
    BY <1>4, <1>5
  <2> HIDE DEF More, V
  <2> QED
    BY <1>5, <2>2, <2>3
<1>6. f[0] = <<>>
  BY <1>0, <1>4
<1> HIDE DEF V, G, base, N
<1>7. Eq(f)
  <2>1. f = [k \in 0..N |-> f[k]]
    BY <1>4
  <2>2. \A k \in 0..N : f[k] = IF k = 0 THEN <<>> ELSE
                           IF s[k] \in S THEN Append(f[k - 1], s[k]) ELSE f[k - 1]
    BY <1>5, <1>6
  <2> QED
    BY <2>1, <2>2, Zenon
<1>8. Eq(kept)
  <2> HIDE DEF Eq
  <2> QED
    BY <1>7
<1> HIDE DEF kept
<1>9. \A k \in 0..N : kept[k] = f[k]
  <2> DEFINE M == {k \in 0..N : kept[k] = f[k]}
  <2>1. 0 \in M
    BY <1>0, <1>6, <1>8
  <2>2. ASSUME NEW k \in 0..N, k # N, k \in M PROVE k + 1 \in M
    <3>1. k + 1 \in 0..N /\ k + 1 # 0 /\ (k + 1) - 1 = k /\ kept[k] = f[k]
      BY <1>0, <2>2
    <3>2. kept[k + 1] = More(kept[k], k + 1)
      BY <1>8, <3>1
    <3>3. f[k + 1] = More(f[k], k + 1)
      BY <1>5, <3>1
    <3> QED
      BY <3>1, <3>2, <3>3
  <2> HIDE DEF M
  <2>3. \A k \in 0..N : k \in M
    BY <1>0, <2>1, <2>2, CountUp
  <2> QED
    BY <2>3 DEF M
<1>10. \A k \in 1..N : k \in 0..N /\ k # 0
  BY <1>0
<1>11. Keeps(f, s, S, T)
  BY <1>4, <1>5, <1>6, <1>10 DEF Keeps, N, V
<1> QED
  BY <1>0, <1>1, <1>9, <1>11 DEF N

LEMMA KeptOfNone == ASSUME NEW S PROVE Kept(<<>>, S) = <<>>
<1> DEFINE s == <<>>
<1>1. s \in Seq({0}) /\ Len(s) = 0
  OBVIOUS
<1> HIDE DEF s
<1>2. PICK f : Keeps(f, s, S, {0}) /\ Kept(s, S) = f[Len(s)]
  BY <1>1, KeptUnrolls
<1> QED
  BY <1>1, <1>2 DEF Keeps, s

LEMMA KeptStays ==
  ASSUME NEW T, NEW s \in Seq(T), NEW S
  PROVE  Kept(s, S) \in Seq(T)
<1>1. PICK f : Keeps(f, s, S, T) /\ Kept(s, S) = f[Len(s)]
  BY KeptUnrolls
<1>2. Len(s) \in 0..Len(s)
  OBVIOUS
<1> QED
  BY <1>1, <1>2 DEF Keeps

LEMMA KeptGrows ==
  ASSUME NEW T, NEW s \in Seq(T), NEW x \in T, NEW S
  PROVE  /\ x \in S => Kept(Append(s, x), S) = Append(Kept(s, S), x)
         /\ x \notin S => Kept(Append(s, x), S) = Kept(s, S)
<1> DEFINE n == Len(s)
           t == Append(s, x)
<1>1. /\ t \in Seq(T) /\ Len(t) = n + 1 /\ n \in Nat
      /\ \A i \in 1..n : t[i] = s[i]
      /\ t[n + 1] = x
  BY AppendIs
<1>2. PICK f : Keeps(f, s, S, T) /\ Kept(s, S) = f[n]
  BY KeptUnrolls
<1> HIDE DEF n, t
<1>3. PICK g : Keeps(g, t, S, T) /\ Kept(t, S) = g[n + 1]
  BY <1>1, KeptUnrolls
<1>4. \A k \in 0..n : f[k] = g[k]
  <2> DEFINE M == {k \in 0..n : f[k] = g[k]}
  <2>1. 0 \in M
    BY <1>1, <1>2, <1>3 DEF Keeps
  <2>2. ASSUME NEW k \in 0..n, k # n, k \in M PROVE k + 1 \in M
    <3>1. k + 1 \in 0..n /\ k + 1 \in 1..n /\ k + 1 \in 1..(n + 1) /\ (k + 1) - 1 = k /\ f[k] = g[k]
      BY <1>1, <2>2
    <3>2. f[k + 1] = IF s[k + 1] \in S THEN Append(f[k], s[k + 1]) ELSE f[k]
      BY <1>2, <3>1 DEF Keeps, n
    <3>3. g[k + 1] = IF t[k + 1] \in S THEN Append(g[k], t[k + 1]) ELSE g[k]
      BY <1>1, <1>3, <3>1 DEF Keeps
    <3> QED
      BY <1>1, <3>1, <3>2, <3>3
  <2> HIDE DEF M
  <2>3. \A k \in 0..n : k \in M
    BY <1>1, <2>1, <2>2, CountUp
  <2> QED
    BY <2>3 DEF M
<1>5. n \in 0..n /\ n + 1 \in 1..(n + 1) /\ (n + 1) - 1 = n
  BY <1>1
<1>6. g[n + 1] = IF t[n + 1] \in S THEN Append(g[n], t[n + 1]) ELSE g[n]
  BY <1>1, <1>3, <1>5 DEF Keeps
<1> QED
  BY <1>1, <1>2, <1>3, <1>4, <1>5, <1>6 DEF t

(* What is kept are the elements of the set. *)
LEMMA KeptIs ==
  ASSUME NEW T, NEW s \in Seq(T), NEW S
  PROVE  Kept(s, S) \in Seq(T) /\ ToSet(Kept(s, S)) = ToSet(s) \cap S
<1> DEFINE P == {t \in Seq(T) : ToSet(Kept(t, S)) = ToSet(t) \cap S}
<1>1. <<>> \in P
  <2>1. ToSet(<<>>) = {} /\ <<>> \in Seq(T)
    BY DEF ToSet
  <2> QED
    BY <2>1, KeptOfNone
<1>2. ASSUME NEW t \in Seq(T), NEW x \in T, t \in P PROVE Append(t, x) \in P
  <2>1. /\ ToSet(Kept(t, S)) = ToSet(t) \cap S /\ Kept(t, S) \in Seq(T)
        /\ x \in S => Kept(Append(t, x), S) = Append(Kept(t, S), x)
        /\ x \notin S => Kept(Append(t, x), S) = Kept(t, S)
    BY <1>2, KeptGrows, KeptStays
  <2>2. /\ ToSet(Append(t, x)) = ToSet(t) \cup {x} /\ Append(t, x) \in Seq(T)
        /\ ToSet(Append(Kept(t, S), x)) = ToSet(Kept(t, S)) \cup {x}
    BY <2>1, AppendIs
  <2> QED
    BY <2>1, <2>2
<1> HIDE DEF P
<1>3. s \in P
  BY <1>1, <1>2, SequencesGrow
<1>4. Kept(s, S) \in Seq(T)
  BY KeptStays
<1> QED
  BY <1>3, <1>4 DEF P

(* Two sets that hold the same elements of the sequence keep the same. *)
LEMMA KeptSame ==
  ASSUME NEW T, NEW s \in Seq(T), NEW S, NEW R, \A x \in T : x \in S <=> x \in R
  PROVE  Kept(s, S) = Kept(s, R)
<1> DEFINE P == {t \in Seq(T) : Kept(t, S) = Kept(t, R)}
<1>1. <<>> \in P
  BY KeptOfNone
<1>2. ASSUME NEW t \in Seq(T), NEW x \in T, t \in P PROVE Append(t, x) \in P
  <2>1. /\ x \in S => Kept(Append(t, x), S) = Append(Kept(t, S), x)
        /\ x \notin S => Kept(Append(t, x), S) = Kept(t, S)
    BY KeptGrows
  <2>2. /\ x \in R => Kept(Append(t, x), R) = Append(Kept(t, R), x)
        /\ x \notin R => Kept(Append(t, x), R) = Kept(t, R)
    BY KeptGrows
  <2>3. Append(t, x) \in Seq(T)
    BY AppendIs
  <2> QED
    BY <1>2, <2>1, <2>2, <2>3
<1> HIDE DEF P
<1>3. s \in P
  BY <1>1, <1>2, SequencesGrow
<1> QED
  BY <1>3 DEF P

(* A set that holds none of them keeps none. *)
LEMMA KeptNone ==
  ASSUME NEW T, NEW s \in Seq(T), NEW S, \A x \in T : x \notin S
  PROVE  Kept(s, S) = <<>>
<1> DEFINE P == {t \in Seq(T) : Kept(t, S) = <<>>}
<1>1. <<>> \in P
  BY KeptOfNone
<1>2. ASSUME NEW t \in Seq(T), NEW x \in T, t \in P PROVE Append(t, x) \in P
  <2>1. /\ x \in S => Kept(Append(t, x), S) = Append(Kept(t, S), x)
        /\ x \notin S => Kept(Append(t, x), S) = Kept(t, S)
    BY KeptGrows
  <2>2. Append(t, x) \in Seq(T)
    BY AppendIs
  <2> QED
    BY <1>2, <2>1, <2>2
<1> HIDE DEF P
<1>3. s \in P
  BY <1>1, <1>2, SequencesGrow
<1> QED
  BY <1>3 DEF P

(* What is kept of what was kept. *)
LEMMA KeptTwice ==
  ASSUME NEW T, NEW s \in Seq(T), NEW S, NEW R
  PROVE  Kept(Kept(s, S), R) = Kept(s, S \cap R)
<1> DEFINE P == {t \in Seq(T) : Kept(Kept(t, S), R) = Kept(t, S \cap R)}
<1>1. <<>> \in P
  BY KeptOfNone
<1>2. ASSUME NEW t \in Seq(T), NEW x \in T, t \in P PROVE Append(t, x) \in P
  <2>1. Kept(t, S) \in Seq(T) /\ Append(t, x) \in Seq(T)
    BY KeptIs, AppendIs
  <2>2. Kept(Append(Kept(t, S), x), R) =
          IF x \in R THEN Append(Kept(Kept(t, S), R), x) ELSE Kept(Kept(t, S), R)
    BY <2>1, KeptGrows
  <2>3. /\ x \in S => Kept(Append(t, x), S) = Append(Kept(t, S), x)
        /\ x \notin S => Kept(Append(t, x), S) = Kept(t, S)
    BY KeptGrows
  <2>4. /\ x \in S \cap R => Kept(Append(t, x), S \cap R) = Append(Kept(t, S \cap R), x)
        /\ x \notin S \cap R => Kept(Append(t, x), S \cap R) = Kept(t, S \cap R)
    BY KeptGrows
  <2> QED
    BY <1>2, <2>1, <2>2, <2>3, <2>4
<1> HIDE DEF P
<1>3. s \in P
  BY <1>1, <1>2, SequencesGrow
<1> QED
  BY <1>3 DEF P

(* What is kept of two sequences, one after the other. *)
LEMMA KeptOfBoth ==
  ASSUME NEW T, NEW r \in Seq(T), NEW s \in Seq(T), NEW S
  PROVE  Kept(r \o s, S) = Kept(r, S) \o Kept(s, S)
<1> DEFINE P == {t \in Seq(T) : Kept(r \o t, S) = Kept(r, S) \o Kept(t, S)}
<1>0. Kept(r, S) \in Seq(T)
  BY KeptIs
<1>1. <<>> \in P
  <2>1. r \o <<>> = r /\ <<>> \in Seq(T) /\ Kept(r, S) \o <<>> = Kept(r, S)
    BY <1>0
  <2> QED
    BY <2>1, KeptOfNone
<1>2. ASSUME NEW t \in Seq(T), NEW x \in T, t \in P PROVE Append(t, x) \in P
  <2>1. Kept(t, S) \in Seq(T) /\ r \o t \in Seq(T) /\ Append(t, x) \in Seq(T)
    BY KeptIs, AppendIs
  <2>2. /\ r \o Append(t, x) = Append(r \o t, x)
        /\ Kept(r, S) \o Append(Kept(t, S), x) = Append(Kept(r, S) \o Kept(t, S), x)
    BY <1>0, <2>1
  <2>3. /\ x \in S => Kept(Append(r \o t, x), S) = Append(Kept(r \o t, S), x)
        /\ x \notin S => Kept(Append(r \o t, x), S) = Kept(r \o t, S)
    <3> DEFINE u == r \o t
    <3>1. u \in Seq(T)
      BY <2>1
    <3> HIDE DEF u
    <3>2. /\ x \in S => Kept(Append(u, x), S) = Append(Kept(u, S), x)
          /\ x \notin S => Kept(Append(u, x), S) = Kept(u, S)
      BY <3>1, KeptGrows
    <3> QED
      BY <3>2 DEF u
  <2>4. /\ x \in S => Kept(Append(t, x), S) = Append(Kept(t, S), x)
        /\ x \notin S => Kept(Append(t, x), S) = Kept(t, S)
    BY KeptGrows
  <2>5. Kept(r \o t, S) = Kept(r, S) \o Kept(t, S)
    BY <1>2
  <2> QED
    BY <2>1, <2>2, <2>3, <2>4, <2>5
<1> HIDE DEF P
<1>3. s \in P
  BY <1>1, <1>2, SequencesGrow
<1> QED
  BY <1>3 DEF P

-----------------------------------------------------------------------------
(* Applying one operation more. *)

\* made takes k to what the first k operations make of d.
Makes(made, d, ops) ==
  made = [k \in 0..Len(ops) |->
            IF k = 0 THEN {d}
            ELSE {Changed(m, ops[k]) : m \in {m \in made[k - 1] : Applicable(m, ops[k])}}]

LEMMA AppliedUnrolls ==
  ASSUME NEW d, NEW ops, Len(ops) \in Nat
  PROVE  \E made : Makes(made, d, ops) /\ Applied(d, ops) = made[Len(ops)]
<1> DEFINE N == Len(ops)
           Further(M, k) == {Changed(m, ops[k]) : m \in {m \in M : Applicable(m, ops[k])}}
           Runs(f, n) == f = [k \in 0..n |-> IF k = 0 THEN {d} ELSE Further(f[k - 1], k)]
           T == {n \in 0..N : \E f : Runs(f, n)}
<1>1. 0 \in T
  <2> DEFINE f == [k \in 0..0 |-> {d}]
  <2>1. 0 \in 0..N /\ \A k \in 0..0 : k = 0
    OBVIOUS
  <2>2. Runs(f, 0)
    BY <2>1, Zenon
  <2> HIDE DEF f, Runs
  <2> QED
    BY <2>1, <2>2
<1>2. ASSUME NEW n \in 0..N, n # N, n \in T PROVE n + 1 \in T
  <2>1. PICK f : Runs(f, n)
    BY <1>2
  <2>2. n + 1 \in 0..N /\ n \in Nat /\ n + 1 # 0 /\ (n + 1) - 1 = n
    BY <1>2
  <2> DEFINE g == [k \in 0..(n + 1) |-> IF k = n + 1 THEN Further(f[n], k) ELSE f[k]]
  <2>3. g[n] = f[n]
    BY <2>2
  <2> HIDE DEF Further
  <2>4. ASSUME NEW k \in 0..(n + 1)
        PROVE  g[k] = IF k = 0 THEN {d} ELSE Further(g[k - 1], k)
    <3>1. CASE k = n + 1
      BY <2>2, <2>3, <3>1
    <3>2. CASE k # n + 1
      <4>1. k \in 0..n /\ (k # 0 => k - 1 \in 0..(n + 1) /\ k - 1 # n + 1)
        BY <2>2, <3>2
      <4>2. g[k] = f[k] /\ (k # 0 => g[k - 1] = f[k - 1])
        BY <3>2, <4>1
      <4> HIDE DEF g
      <4> QED
        BY <2>1, <4>1, <4>2
    <3> QED
      BY <3>1, <3>2
  <2>5. g = [k \in 0..(n + 1) |-> g[k]]
    OBVIOUS
  <2> HIDE DEF g
  <2>6. Runs(g, n + 1)
    BY <2>4, <2>5, Zenon
  <2> HIDE DEF Runs
  <2> QED
    BY <2>2, <2>6
<1> HIDE DEF T
<1>3. N \in T
  <2>1. N \in 0..N
    OBVIOUS
  <2> QED
    BY <1>1, <1>2, <2>1, CountUp
<1> DEFINE made == CHOOSE f : Runs(f, N)
<1>4. Applied(d, ops) = made[N]
  BY DEF Applied
<1>5. \E f : Runs(f, N)
  BY <1>3 DEF T
<1>6. Runs(made, N)
  <2> HIDE DEF Runs
  <2> QED
    BY <1>5
<1> HIDE DEF made
<1> QED
  BY <1>4, <1>6 DEF Makes

LEMMA AppliedOfNone == ASSUME NEW d PROVE Applied(d, <<>>) = {d}
<1>1. PICK ops : ops = <<>> /\ Len(ops) = 0
  OBVIOUS
<1>2. PICK made : Makes(made, d, ops) /\ Applied(d, ops) = made[0]
  BY <1>1, AppliedUnrolls
<1>3. 0 \in 0..Len(ops)
  BY <1>1
<1> QED
  BY <1>1, <1>2, <1>3 DEF Makes

\* x is what op makes of what the operations make of d.
OneMore(d, ops, op, x) == \E m \in Applied(d, ops) : Applicable(m, op) /\ x = Changed(m, op)

LEMMA AppliedGrows ==
  ASSUME NEW d, NEW T, NEW ops \in Seq(T), NEW op \in T
  PROVE  \A x : x \in Applied(d, Append(ops, op)) <=> OneMore(d, ops, op, x)
<1> DEFINE n == Len(ops)
           more == Append(ops, op)
<1>1. /\ Len(more) = n + 1 /\ n \in Nat
      /\ \A i \in 1..n : more[i] = ops[i]
      /\ more[n + 1] = op
  BY AppendIs
<1> HIDE DEF more, n
<1>2. PICK f : Makes(f, d, ops) /\ Applied(d, ops) = f[n]
  BY <1>1, AppliedUnrolls DEF n
<1>3. PICK g : Makes(g, d, more) /\ Applied(d, more) = g[n + 1]
  <2>1. Len(more) \in Nat
    BY <1>1
  <2> QED
    BY <1>1, <2>1, AppliedUnrolls
<1>4. \A k \in 0..n : f[k] = g[k]
  <2> DEFINE M == {k \in 0..n : f[k] = g[k]}
  <2>1. 0 \in M
    <3>1. 0 \in 0..n /\ 0 \in 0..(n + 1)
      BY <1>1
    <3>2. f[0] = {d} /\ g[0] = {d}
      BY <1>1, <1>2, <1>3, <3>1, Zenon DEF Makes, n
    <3> QED
      BY <3>1, <3>2
  <2>2. ASSUME NEW k \in 0..n, k # n, k \in M PROVE k + 1 \in M
    <3>1. /\ k + 1 \in 0..n /\ k + 1 \in 1..n /\ k + 1 \in 0..(n + 1) /\ (k + 1) - 1 = k
          /\ f[k] = g[k] /\ k + 1 # 0
      BY <1>1, <2>2
    <3>2. f[k + 1] = {Changed(m, ops[k + 1]) :
                        m \in {m \in f[k] : Applicable(m, ops[k + 1])}}
      BY <1>2, <3>1 DEF Makes, n
    <3>3. g[k + 1] = {Changed(m, more[k + 1]) :
                        m \in {m \in g[k] : Applicable(m, more[k + 1])}}
      BY <1>1, <1>3, <3>1 DEF Makes
    <3>4. more[k + 1] = ops[k + 1]
      BY <1>1, <3>1
    <3> QED
      BY <3>1, <3>2, <3>3, <3>4
  <2> HIDE DEF M
  <2>3. \A k \in 0..n : k \in M
    BY <1>1, <2>1, <2>2, CountUp
  <2> QED
    BY <2>3 DEF M
<1>5. n \in 0..n /\ n + 1 \in 0..(n + 1) /\ (n + 1) - 1 = n /\ n + 1 # 0
  BY <1>1
<1>6. g[n + 1] = {Changed(m, more[n + 1]) : m \in {m \in g[n] : Applicable(m, more[n + 1])}}
  BY <1>1, <1>3, <1>5 DEF Makes
<1> QED
  BY <1>1, <1>2, <1>3, <1>4, <1>5, <1>6 DEF more, OneMore

-----------------------------------------------------------------------------
(* What operations make of a document is a document. *)

LEMMA ItsElements ==
  ASSUME NEW T, NEW s \in Seq(T)
  PROVE  s \in Seq(ToSet(s)) /\ ToSet(s) \subseteq T /\ DOMAIN s = 1..Len(s) /\ Len(s) \in Nat
<1>1. DOMAIN s = 1..Len(s) /\ Len(s) \in Nat /\ \A i \in 1..Len(s) : s[i] \in T
  OBVIOUS
<1>2. \A i \in 1..Len(s) : s[i] \in ToSet(s)
  BY <1>1 DEF ToSet
<1>3. ToSet(s) \subseteq T
  BY <1>1 DEF ToSet
<1>4. s = [i \in 1..Len(s) |-> s[i]]
  OBVIOUS
<1>5. s \in Seq(ToSet(s))
  BY <1>1, <1>2, <1>4
<1> QED
  BY <1>1, <1>3, <1>5

LEMMA ListedOf ==
  ASSUME NEW N, NEW E, NEW nodes \in Seq(N), NEW edges \in Seq(E),
         \A n \in N : IsNode(n), \A e \in E : IsEdge(e)
  PROVE  Listed([nodes |-> nodes, edges |-> edges])
<1>1. nodes \in Seq(ToSet(nodes)) /\ ToSet(nodes) \subseteq N
  BY ItsElements
<1>2. edges \in Seq(ToSet(edges)) /\ ToSet(edges) \subseteq E
  BY ItsElements
<1> QED
  BY <1>1, <1>2 DEF Listed

\* A record of an edge's ends or of an edge asks for an edge like this.
Asked(wanted, e) == /\ e.from = wanted.from /\ e.to = wanted.to
                    /\ wanted.condition \in {AnyCondition, e.condition}

LEMMA EdgeNamedIs ==
  ASSUME NEW d, Listed(d), NEW wanted
  PROVE  /\ EdgeNamed(d, wanted) # 0 =>
              /\ EdgeNamed(d, wanted) \in 1..Len(d.edges)
              /\ Asked(wanted, d.edges[EdgeNamed(d, wanted)])
         /\ \A i \in 1..Len(d.edges) :
              /\ Asked(wanted, d.edges[i]) => EdgeNamed(d, wanted) # 0
              /\ /\ Asked(wanted, d.edges[i])
                 /\ \A j \in 1..(i - 1) : ~Asked(wanted, d.edges[j])
                 => EdgeNamed(d, wanted) = i
<1> DEFINE I == {i \in 1..Len(d.edges) : Asked(wanted, d.edges[i])}
           least == CHOOSE x \in I : \A y \in I : x <= y
<1>1. EdgeNamed(d, wanted) = IF I # {} THEN least ELSE 0
  BY DEF EdgeNamed, SelectInSeq, Min, Asked
<1>2. Len(d.edges) \in Nat /\ I \subseteq Nat /\ 0 \notin I
  BY DEF Listed
<1>3. CASE I = {}
  BY <1>1, <1>3
<1>4. CASE I # {}
  <2>1. \E x \in I : \A y \in I : x <= y
    <3> HIDE DEF I
    <3> QED
      BY <1>2, <1>4, LeastNatural
  <2>2. least \in I /\ \A y \in I : least <= y
    <3> HIDE DEF I
    <3> QED
      BY <2>1
  <2>3. EdgeNamed(d, wanted) = least /\ least # 0
    BY <1>1, <1>2, <1>4, <2>2
  <2> HIDE DEF least
  <2>4. ASSUME NEW i \in 1..Len(d.edges), Asked(wanted, d.edges[i]),
               \A j \in 1..(i - 1) : ~Asked(wanted, d.edges[j])
        PROVE  least = i
    <3>1. i \in I /\ least <= i /\ i \in Nat /\ least \in Nat /\ 1 <= least
      BY <1>2, <2>2, <2>4
    <3>2. ~(least < i)
      <4>1. least < i => least \in 1..(i - 1)
        BY <3>1
      <4> QED
        BY <2>2, <2>4, <4>1
    <3> QED
      BY <3>1, <3>2
  <2> QED
    BY <2>2, <2>3, <2>4
<1> QED
  BY <1>3, <1>4

LEMMA RemovedIs ==
  ASSUME NEW T, NEW s \in Seq(T), NEW i \in 1..Len(s)
  PROVE  RemoveAt(s, i) \in Seq(T)
<1>1. SubSeq(s, 1, i - 1) \in Seq(T)
  OBVIOUS
<1>2. SubSeq(s, i + 1, Len(s)) \in Seq(T)
  OBVIOUS
<1> QED
  BY <1>1, <1>2 DEF RemoveAt

LEMMA ChangedIsListed ==
  ASSUME NEW d, Listed(d), NEW op, Applicable(d, op),
         op.type = "add_node" => IsNode(op.node),
         op.type = "add_edge" => IsEdge(op.edge)
  PROVE  Listed(Changed(d, op))
<1> DEFINE N == ToSet(d.nodes)
           E == ToSet(d.edges)
<1>1. /\ d = [nodes |-> d.nodes, edges |-> d.edges]
      /\ d.nodes \in Seq(N) /\ \A n \in N : IsNode(n)
      /\ d.edges \in Seq(E) /\ \A e \in E : IsEdge(e)
  BY DEF Listed
<1>2. \A nodes : [d EXCEPT !.nodes = nodes] = [nodes |-> nodes, edges |-> d.edges]
  BY <1>1
<1>3. \A edges : [d EXCEPT !.edges = edges] = [nodes |-> d.nodes, edges |-> edges]
  BY <1>1
<1> HIDE DEF N, E
<1>4. CASE op.type = "add_node"
  <2> DEFINE nodes == Append(d.nodes, op.node)
             M == N \cup {op.node}
  <2>1. nodes \in Seq(M) /\ \A n \in M : IsNode(n)
    BY <1>1, <1>4
  <2>2. Changed(d, op) = [nodes |-> nodes, edges |-> d.edges]
    BY <1>2, <1>4 DEF Changed
  <2> HIDE DEF nodes, M
  <2> QED
    BY <1>1, <2>1, <2>2, ListedOf
<1>5. CASE op.type = "remove_node"
  <2> DEFINE nodes == Kept(d.nodes, {n \in ToSet(d.nodes) : n.id # op.node_id})
  <2>1. nodes \in Seq(N)
    BY <1>1, KeptIs
  <2>2. Changed(d, op) = [nodes |-> nodes, edges |-> d.edges]
    BY <1>2, <1>5 DEF Changed
  <2> HIDE DEF nodes
  <2> QED
    BY <1>1, <2>1, <2>2, ListedOf
<1>6. CASE op.type = "add_edge"
  <2> DEFINE edges == Append(d.edges, op.edge)
             M == E \cup {op.edge}
  <2>1. edges \in Seq(M) /\ \A e \in M : IsEdge(e)
    BY <1>1, <1>6
  <2>2. Changed(d, op) = [nodes |-> d.nodes, edges |-> edges]
    BY <1>3, <1>6 DEF Changed
  <2> HIDE DEF edges, M
  <2> QED
    BY <1>1, <2>1, <2>2, ListedOf
<1>7. CASE op.type = "remove_edge"
  <2> DEFINE edges == RemoveAt(d.edges, EdgeNamed(d, op.edge))
  <2>1. EdgeNamed(d, op.edge) \in 1..Len(d.edges)
    BY <1>7, EdgeNamedIs DEF Applicable
  <2>2. edges \in Seq(E)
    BY <1>1, <2>1, RemovedIs
  <2>3. Changed(d, op) = [nodes |-> d.nodes, edges |-> edges]
    BY <1>3, <1>7 DEF Changed
  <2> HIDE DEF edges
  <2> QED
    BY <1>1, <2>2, <2>3, ListedOf
<1>8. CASE op.type \notin {"add_node", "remove_node", "add_edge", "remove_edge"}
  <2> DEFINE new(n) == [n EXCEPT !.skill_ref = op.to]
             nodes == [i \in DOMAIN d.nodes |->
                         IF d.nodes[i].id = op.node_id THEN new(d.nodes[i]) ELSE d.nodes[i]]
             M == N \cup {new(n) : n \in N}
  <2>1. DOMAIN d.nodes = 1..Len(d.nodes) /\ Len(d.nodes) \in Nat
        /\ \A i \in 1..Len(d.nodes) : d.nodes[i] \in N
    BY <1>1
  <2>2. \A n \in N : IsNode(new(n))
    <3>1. \A n \in N : n = Node(n.id, n.node_type, n.skill_ref)
      BY <1>1 DEF IsNode
    <3>2. \A n \in N : new(n) = Node(n.id, n.node_type, op.to)
      BY <3>1 DEF Node
    <3>3. \A a, b, c : IsNode(Node(a, b, c))
      BY DEF IsNode, Node
    <3> QED
      BY <3>2, <3>3
  <2>3. Changed(d, op) = [nodes |-> nodes, edges |-> d.edges]
    BY <1>2, <1>8 DEF Changed
  <2> HIDE DEF new
  <2>4. nodes \in Seq(M)
    BY <2>1
  <2>5. \A n \in M : IsNode(n)
    BY <1>1, <2>2
  <2> HIDE DEF nodes, M
  <2> QED
    BY <1>1, <2>3, <2>4, <2>5, ListedOf
<1> QED
  BY <1>4, <1>5, <1>6, <1>7, <1>8

LEMMA AppliedIsListed ==
  ASSUME NEW d, Listed(d), NEW ops, ListedOperations(ops)
  PROVE  \A m \in Applied(d, ops) : Listed(m)
<1> DEFINE T == ToSet(ops)
           P == {t \in Seq(T) : \A r \in Applied(d, t) : Listed(r)}
<1>0. /\ ops \in Seq(T)
      /\ \A op \in T : /\ op.type = "add_node" => IsNode(op.node)
                       /\ op.type = "add_edge" => IsEdge(op.edge)
  BY DEF ListedOperations
<1> HIDE DEF T
<1>1. <<>> \in P
  BY AppliedOfNone
<1>2. ASSUME NEW t \in Seq(T), NEW op \in T, t \in P PROVE Append(t, op) \in P
  <2>1. \A x \in Applied(d, Append(t, op)) : OneMore(d, t, op, x)
    BY AppliedGrows
  <2>2. ASSUME NEW r \in Applied(d, t), Applicable(r, op) PROVE Listed(Changed(r, op))
    <3>1. Listed(r)
      BY <1>2
    <3> QED
      BY <1>0, <2>2, <3>1, ChangedIsListed
  <2>3. Append(t, op) \in Seq(T)
    BY AppendIs
  <2> QED
    BY <2>1, <2>2, <2>3 DEF OneMore
<1> HIDE DEF P
<1>3. ops \in P
  BY <1>0, <1>1, <1>2, SequencesGrow
<1> QED
  BY <1>3 DEF P

(* A diff is a list of operations that adds nodes and edges of the wanted document. *)
LEMMA DiffIsListed ==
  ASSUME NEW d, Listed(d), NEW e, Listed(e)
  PROVE  ListedOperations(DiffGraphs(d, e))
<1> DEFINE gone  == Kept(d.nodes, {n \in ToSet(d.nodes) : Leaves(d, e, n.id)})
           come  == Kept(e.nodes, {n \in ToSet(e.nodes) : Leaves(e, d, n.id)})
           moved == Kept(e.nodes, {n \in ToSet(e.nodes) : Moves(d, e, n.id)})
           cut   == Kept(d.edges, {x \in ToSet(d.edges) : Differs(d, e, x)})
           laid  == Kept(e.edges, {x \in ToSet(e.edges) : Differs(d, e, x)})
           removes == [i \in DOMAIN gone |-> RemoveNode(gone[i].id)]
           adds    == [i \in DOMAIN come |-> AddNode(come[i])]
           changes == [i \in DOMAIN moved |-> ChangeSkill(moved[i].id, moved[i].skill_ref)]
           cuts    == [i \in DOMAIN cut |-> RemoveEdge([cut[i] EXCEPT !.condition = AnyCondition])]
           lays    == [i \in DOMAIN laid |-> AddEdge(laid[i])]
           U == ToSet(removes) \cup ToSet(adds) \cup ToSet(changes) \cup ToSet(cuts) \cup ToSet(lays)
<1>1. DiffGraphs(d, e) = removes \o adds \o changes \o cuts \o lays
  BY Zenon DEF DiffGraphs
<1>2. /\ gone \in Seq(ToSet(d.nodes)) /\ come \in Seq(ToSet(e.nodes))
      /\ moved \in Seq(ToSet(e.nodes)) /\ cut \in Seq(ToSet(d.edges))
      /\ laid \in Seq(ToSet(e.edges))
  <2> HIDE DEF gone, come, moved, cut, laid
  <2>1. gone \in Seq(ToSet(d.nodes))
    BY KeptIs DEF Listed, gone
  <2>2. come \in Seq(ToSet(e.nodes))
    BY KeptIs DEF Listed, come
  <2>3. moved \in Seq(ToSet(e.nodes))
    BY KeptIs DEF Listed, moved
  <2>4. cut \in Seq(ToSet(d.edges))
    BY KeptIs DEF Listed, cut
  <2>5. laid \in Seq(ToSet(e.edges))
    BY KeptIs DEF Listed, laid
  <2> QED
    BY <2>1, <2>2, <2>3, <2>4, <2>5
<1>3. /\ \A n \in ToSet(e.nodes) : IsNode(n)
      /\ \A x \in ToSet(e.edges) : IsEdge(x)
  BY DEF Listed
<1> HIDE DEF gone, come, moved, cut, laid
<1>4. removes \in Seq(ToSet(removes)) /\ \A op \in ToSet(removes) : op.type = "remove_node"
  <2>1. DOMAIN gone = 1..Len(gone) /\ Len(gone) \in Nat
    BY <1>2
  <2> QED
    BY <2>1 DEF ToSet, RemoveNode
<1>5. adds \in Seq(ToSet(adds)) /\ \A op \in ToSet(adds) : op.type = "add_node" /\ IsNode(op.node)
  <2>1. DOMAIN come = 1..Len(come) /\ Len(come) \in Nat /\ \A i \in 1..Len(come) : IsNode(come[i])
    BY <1>2, <1>3
  <2> QED
    BY <2>1 DEF ToSet, AddNode
<1>6. changes \in Seq(ToSet(changes)) /\ \A op \in ToSet(changes) : op.type = "change_node_field"
  <2>1. DOMAIN moved = 1..Len(moved) /\ Len(moved) \in Nat
    BY <1>2
  <2> QED
    BY <2>1 DEF ToSet, ChangeSkill
<1>7. cuts \in Seq(ToSet(cuts)) /\ \A op \in ToSet(cuts) : op.type = "remove_edge"
  <2>1. DOMAIN cut = 1..Len(cut) /\ Len(cut) \in Nat
    BY <1>2
  <2> QED
    BY <2>1 DEF ToSet, RemoveEdge
<1>8. lays \in Seq(ToSet(lays)) /\ \A op \in ToSet(lays) : op.type = "add_edge" /\ IsEdge(op.edge)
  <2>1. DOMAIN laid = 1..Len(laid) /\ Len(laid) \in Nat /\ \A i \in 1..Len(laid) : IsEdge(laid[i])
    BY <1>2, <1>3
  <2> QED
    BY <2>1 DEF ToSet, AddEdge
<1>9. /\ removes \in Seq(U) /\ adds \in Seq(U) /\ changes \in Seq(U)
      /\ cuts \in Seq(U) /\ lays \in Seq(U)
  <2> HIDE DEF removes, adds, changes, cuts, lays
  <2>1. \A A, B : A \subseteq B => Seq(A) \subseteq Seq(B)
    OBVIOUS
  <2> QED
    BY <1>4, <1>5, <1>6, <1>7, <1>8, <2>1
<1>10. \A op \in U : /\ op.type = "add_node" => IsNode(op.node)
                     /\ op.type = "add_edge" => IsEdge(op.edge)
  <2> HIDE DEF removes, adds, changes, cuts, lays
  <2> QED
    BY <1>4, <1>5, <1>6, <1>7, <1>8
<1> HIDE DEF removes, adds, changes, cuts, lays, U
<1>11. DiffGraphs(d, e) \in Seq(U)
  BY <1>1, <1>9
<1> QED
  BY <1>10, <1>11, ItsElements DEF ListedOperations

-----------------------------------------------------------------------------
(* Documents. *)

Good(d) == Listed(d) /\ Valid(d)

LEMMA NodesAre ==
  ASSUME NEW d, Listed(d)
  PROVE  /\ Len(d.nodes) \in Nat /\ DOMAIN d.nodes = 1..Len(d.nodes)
         /\ IsFiniteSet(Ids(d))
<1> DEFINE n == Len(d.nodes)
           f == [i \in 1..n |-> d.nodes[i].id]
<1>1. n \in Nat /\ DOMAIN d.nodes = 1..n
  BY DEF Listed
<1>2. Ids(d) = {f[i] : i \in 1..n}
  BY <1>1 DEF Ids, ToSet
<1>3. f \in Surjection(1..n, Ids(d))
  BY <1>2 DEF Surjection
<1>4. IsFiniteSet(1..n)
  BY <1>1, FS_Interval
<1> QED
  BY <1>1, <1>3, <1>4, FS_Surjection

(* An id of a document that may be written names one of its nodes. *)
LEMMA NodeOfIs ==
  ASSUME NEW d, Good(d), NEW id \in Ids(d)
  PROVE  /\ NodeOf(d, id) \in ToSet(d.nodes) /\ NodeOf(d, id).id = id
         /\ NodeOf(d, id).skill_ref \in Pins(d)
<1>1. /\ \A i, j \in DOMAIN d.nodes : d.nodes[i].id = d.nodes[j].id => i = j
      /\ DOMAIN d.nodes = 1..Len(d.nodes) /\ Len(d.nodes) \in Nat
  BY NodesAre DEF Good, Valid, WellFormed
<1>2. PICK i \in DOMAIN d.nodes : d.nodes[i].id = id
  BY DEF Ids, ToSet
<1>3. \A j \in 1..(i - 1) : d.nodes[j].id # id
  <2>1. ASSUME NEW j \in 1..(i - 1) PROVE d.nodes[j].id # id
    <3>1. j \in DOMAIN d.nodes /\ j # i
      BY <1>1, <2>1
    <3> QED
      BY <1>1, <1>2, <3>1
  <2> QED
    BY <2>1
<1> DEFINE k == CHOOSE m \in DOMAIN d.nodes : /\ d.nodes[m].id = id
                                             /\ \A j \in 1..(m - 1) : d.nodes[j].id # id
<1>4. k \in DOMAIN d.nodes /\ d.nodes[k].id = id
  BY <1>2, <1>3
<1>5. NodeOf(d, id) = d.nodes[k]
  BY DEF NodeOf
<1> HIDE DEF k
<1> QED
  BY <1>4, <1>5 DEF ToSet, Pins

LEMMA ArrowsAre ==
  ASSUME NEW d, Good(d)
  PROVE  /\ Initial \in Ids(d)
         /\ \A arrow \in Outgoing(d) : arrow[1] \in Ids(d) /\ arrow[2] \in Ids(d)
         /\ \A m, id : m \in Predecessors(d, id) <=> <<m, id>> \in Outgoing(d)
<1>1. \A e \in ToSet(d.edges) : e.from \in Ids(d) /\ e.to \in Ids(d)
  BY DEF Good, Valid, WellFormed
<1>2. Initial \in Ids(d)
  BY DEF Good, Valid, WellFormed
<1>3. \A arrow \in Outgoing(d) : arrow[1] \in Ids(d) /\ arrow[2] \in Ids(d)
  BY <1>1 DEF Outgoing
<1>4. \A m, id : m \in Predecessors(d, id) <=> <<m, id>> \in Outgoing(d)
  BY DEF Outgoing, Predecessors
<1> QED
  BY <1>2, <1>3, <1>4

-----------------------------------------------------------------------------
(* Ways. *)

\* A way of n nodes from the initial one to id, none twice.
Way(d, w, n, id) ==
  /\ n \in Nat /\ n >= 1
  /\ w \in [1..n -> Ids(d)]
  /\ w[1] = Initial /\ w[n] = id
  /\ \A i, j \in 1..n : w[i] = w[j] => i = j
  /\ \A i \in 1..(n - 1) : <<w[i], w[i + 1]>> \in Outgoing(d)

LEMMA WaysAre ==
  ASSUME NEW d, NEW id, NEW w \in WaysTo(d, id)
  PROVE  /\ Way(d, w, Len(w), id)
         /\ Len(w) \in 1..Cardinality(Ids(d))
<1>1. PICK n \in 1..Cardinality(Ids(d)) : w \in [1..n -> Ids(d)]
  BY DEF WaysTo
<1>2. n \in Nat /\ n >= 1
  BY <1>1
<1>3. w \in Seq(Ids(d)) /\ Len(w) = n /\ DOMAIN w = 1..n
  BY <1>1, <1>2
<1> QED
  BY <1>1, <1>2, <1>3 DEF WaysTo, Way

LEMMA AWayIs ==
  ASSUME NEW d, Listed(d), NEW w, NEW n, NEW id, Way(d, w, n, id)
  PROVE  w \in WaysTo(d, id) /\ Len(w) = n
<1>1. w \in [1..n -> Ids(d)] /\ n \in Nat /\ n >= 1
  BY DEF Way
<1>2. w \in Seq(Ids(d)) /\ Len(w) = n /\ DOMAIN w = 1..n
  BY <1>1
<1>3. n <= Cardinality(Ids(d))
  <2>1. w \in Injection(1..n, Ids(d))
    BY <1>1 DEF Way, Injection, IsInjective
  <2>2. IsFiniteSet(Ids(d))
    BY NodesAre
  <2>3. Cardinality(1..n) = n
    BY <1>1, FS_Interval
  <2> QED
    BY <2>1, <2>2, <2>3, FS_Injection
<1>4. n \in 1..Cardinality(Ids(d))
  BY <1>1, <1>3, NodesAre, FS_CardinalityType
<1> QED
  BY <1>1, <1>2, <1>4 DEF WaysTo, Way

LEMMA LongerWay ==
  ASSUME NEW d, NEW w, NEW n, NEW m, Way(d, w, n, m), NEW x \in Ids(d),
         <<m, x>> \in Outgoing(d), \A i \in 1..n : w[i] # x
  PROVE  \E v : /\ Way(d, v, n + 1, x)
                /\ \A i \in 1..n : v[i] = w[i]
                /\ v[n + 1] = x
<1> DEFINE v == [i \in 1..(n + 1) |-> IF i = n + 1 THEN x ELSE w[i]]
<1>1. n \in Nat /\ n >= 1 /\ w \in [1..n -> Ids(d)] /\ w[n] = m /\ w[1] = Initial
  BY DEF Way
<1>2. \A i \in 1..(n + 1) : i = n + 1 \/ (i \in 1..n /\ i # n + 1)
  BY <1>1
<1>3. \A i \in 1..n : i \in 1..(n + 1) /\ i # n + 1
  BY <1>1
<1>4. v \in [1..(n + 1) -> Ids(d)] /\ v[n + 1] = x
  BY <1>1, <1>2
<1>5. \A i \in 1..n : v[i] = w[i]
  BY <1>3
<1> HIDE DEF v
<1>6. v[1] = Initial
  BY <1>1, <1>5
<1>7. ASSUME NEW i \in 1..(n + 1), NEW j \in 1..(n + 1), v[i] = v[j] PROVE i = j
  BY <1>2, <1>4, <1>5, <1>7 DEF Way
<1>8. ASSUME NEW i \in 1..((n + 1) - 1) PROVE <<v[i], v[i + 1]>> \in Outgoing(d)
  <2>1. CASE i = n
    BY <1>1, <1>4, <1>5, <2>1
  <2>2. CASE i # n
    <3>1. i \in 1..(n - 1) /\ i \in 1..n /\ i + 1 \in 1..n
      BY <1>1, <2>2
    <3> QED
      BY <1>5, <3>1 DEF Way
  <2> QED
    BY <2>1, <2>2
<1>9. Way(d, v, n + 1, x)
  BY <1>1, <1>4, <1>6, <1>7, <1>8 DEF Way
<1> QED
  BY <1>4, <1>5, <1>9

(* Sets that grow outward from the initial node along arrows out of Q: whatever
   they come to is at the end of a way that stays in Q until then. *)
LEMMA Outward ==
  ASSUME NEW d, Good(d), NEW N \in Nat, NEW M \in [0..N -> SUBSET Ids(d)], NEW Q,
         M[0] \subseteq {Initial},
         \A k \in 0..N : k # N =>
           /\ M[k] \subseteq M[k + 1]
           /\ \A x \in M[k + 1] \ M[k] : \E m \in M[k] \cap Q : <<m, x>> \in Outgoing(d)
  PROVE  \A k \in 0..N : \A x \in M[k] :
           \E w, n : Way(d, w, n, x) /\ \A i \in 1..(n - 1) : w[i] \in Q
<1> DEFINE Inside(k, w, n) == /\ \A i \in 1..(n - 1) : w[i] \in Q
                              /\ \A i \in 1..n : w[i] \in M[k]
           T == {k \in 0..N : \A x \in M[k] : \E w, n : Way(d, w, n, x) /\ Inside(k, w, n)}
<1>1. 0 \in T
  <2>1. ASSUME NEW x \in M[0] PROVE \E w, n : Way(d, w, n, x) /\ Inside(0, w, n)
    <3> DEFINE w == [i \in {1} |-> x]
    <3>1. 1..1 = {1} /\ 1..(1 - 1) = {} /\ x = Initial /\ x \in Ids(d)
      BY <2>1, ArrowsAre
    <3>2. w \in [{1} -> Ids(d)] /\ w[1] = x
      BY <3>1
    <3> HIDE DEF w
    <3>3. Way(d, w, 1, x)
      BY <3>1, <3>2 DEF Way
    <3>4. Inside(0, w, 1)
      BY <2>1, <3>1, <3>2
    <3> QED
      BY <3>3, <3>4
  <2> QED
    BY <2>1
<1>2. ASSUME NEW k \in 0..N, k # N, k \in T PROVE k + 1 \in T
  <2>1. k + 1 \in 0..N /\ M[k] \subseteq M[k + 1]
    BY <1>2
  <2>2. ASSUME NEW x \in M[k + 1] PROVE \E w, n : Way(d, w, n, x) /\ Inside(k + 1, w, n)
    <3>1. CASE x \in M[k]
      <4>1. PICK w, n : Way(d, w, n, x) /\ Inside(k, w, n)
        BY <1>2, <3>1
      <4>2. Inside(k + 1, w, n)
        BY <2>1, <4>1
      <4> QED
        BY <4>1, <4>2
    <3>2. CASE x \notin M[k]
      <4>1. PICK m \in M[k] \cap Q : <<m, x>> \in Outgoing(d)
        BY <1>2, <2>2, <3>2
      <4>2. PICK w, n : Way(d, w, n, m) /\ Inside(k, w, n)
        BY <1>2, <4>1
      <4>3. x \in Ids(d) /\ \A i \in 1..n : w[i] # x
        BY <2>1, <2>2, <3>2, <4>2
      <4>4. PICK v : /\ Way(d, v, n + 1, x)
                     /\ \A i \in 1..n : v[i] = w[i]
                     /\ v[n + 1] = x
        BY <4>1, <4>2, <4>3, LongerWay
      <4>5. n \in Nat /\ w[n] = m
        BY <4>2 DEF Way
      <4>6. ASSUME NEW i \in 1..((n + 1) - 1) PROVE v[i] \in Q
        <5>1. CASE i = n
          BY <4>1, <4>4, <4>5, <4>6, <5>1
        <5>2. CASE i # n
          <6>1. i \in 1..(n - 1) /\ i \in 1..n
            BY <4>5, <5>2
          <6> QED
            BY <4>2, <4>4, <6>1
        <5> QED
          BY <5>1, <5>2
      <4>7. ASSUME NEW i \in 1..(n + 1) PROVE v[i] \in M[k + 1]
        <5>1. CASE i = n + 1
          BY <2>2, <4>4, <5>1
        <5>2. CASE i # n + 1
          <6>1. i \in 1..n
            BY <4>5, <5>2
          <6> QED
            BY <2>1, <4>2, <4>4, <6>1
        <5> QED
          BY <5>1, <5>2
      <4> QED
        BY <4>4, <4>6, <4>7
    <3> QED
      BY <3>1, <3>2
  <2> HIDE DEF Inside
  <2> QED
    BY <2>1, <2>2
<1>3. \A k \in 0..N : k \in T
  <2> HIDE DEF T
  <2> QED
    BY <1>1, <1>2, CountUp
<1> QED
  BY <1>3

-----------------------------------------------------------------------------
(* What the arrows lead to from the initial node. *)

LEMMA WavesAre ==
  ASSUME NEW d, Good(d), NEW n \in Nat
  PROVE  \E M \in [0..n -> SUBSET Ids(d)] :
            /\ M[0] = {Initial}
            /\ \A k \in 0..n : k # n =>
                 M[k + 1] = M[k] \cup {arrow[2] : arrow \in {a \in Outgoing(d) : a[1] \in M[k]}}
            /\ Traverse({Initial}, Outgoing(d), n) = M[n]
<1> DEFINE S == SUBSET Ids(d)
           Further(v) == v \cup {arrow[2] : arrow \in {a \in Outgoing(d) : a[1] \in v}}
           G == [k \in 0..n |-> [v \in S |-> Further(v)]]
           Eq(f) == f = [k \in 0..n |-> IF k = 0 THEN {Initial} ELSE Further(f[k - 1])]
           wave == CHOOSE f : Eq(f)
<1>1. Traverse({Initial}, Outgoing(d), n) = wave[n]
  BY DEF Traverse
<1>2. {Initial} \in S /\ \A v \in S : Further(v) \in S
  BY ArrowsAre
<1> HIDE DEF S, Further
<1>3. PICK f : Unrolls(f, n, S, {Initial}, G)
  <2>1. G \in Steps(n, S)
    BY <1>2 DEF Steps
  <2> DEFINE base == {Initial}
  <2>2. base \in S
    BY <1>2
  <2> HIDE DEF G, base
  <2>3. \E f : Unrolls(f, n, S, base, G)
    BY <2>1, <2>2, Unrolled
  <2> QED
    BY <2>3 DEF base
<1>4. f \in [0..n -> S] /\ 0 \in 0..n /\ f[0] = {Initial}
  <2>1. 0 \in 0..n
    OBVIOUS
  <2> HIDE DEF G
  <2>2. f \in [0..n -> S] /\ \A k \in 0..n : k = 0 => f[k] = {Initial}
    BY <1>3 DEF Unrolls
  <2> QED
    BY <2>1, <2>2
<1>5. ASSUME NEW k \in 0..n, k # 0 PROVE f[k] = Further(f[k - 1])
  <2>1. k - 1 \in 0..n
    BY <1>5
  <2>2. f[k - 1] \in S
    BY <1>4, <2>1
  <2>3. f[k] = G[k][f[k - 1]]
    BY <1>3, <1>5 DEF Unrolls
  <2> QED
    BY <1>5, <2>2, <2>3
<1>6. Eq(f)
  BY <1>4, <1>5
<1>7. Eq(wave)
  <2> HIDE DEF Eq
  <2> QED
    BY <1>6
<1> HIDE DEF wave, G
<1>8. \A k \in 0..n : wave[k] = f[k]
  <2> DEFINE T == {k \in 0..n : wave[k] = f[k]}
  <2>1. 0 \in T
    BY <1>4, <1>7
  <2>2. ASSUME NEW k \in 0..n, k # n, k \in T PROVE k + 1 \in T
    <3>1. k + 1 \in 0..n /\ k + 1 # 0 /\ (k + 1) - 1 = k /\ wave[k] = f[k]
      BY <2>2
    <3>2. wave[k + 1] = Further(wave[k]) /\ f[k + 1] = Further(f[k])
      BY <1>5, <1>7, <3>1
    <3> QED
      BY <3>1, <3>2
  <2> HIDE DEF T
  <2>3. \A k \in 0..n : k \in T
    BY <2>1, <2>2, CountUp
  <2> QED
    BY <2>3 DEF T
<1>9. \A k \in 0..n : k # n => f[k + 1] = Further(f[k])
  <2>1. ASSUME NEW k \in 0..n, k # n PROVE f[k + 1] = Further(f[k])
    <3>1. k + 1 \in 0..n /\ k + 1 # 0 /\ (k + 1) - 1 = k
      BY <2>1
    <3> QED
      BY <1>5, <3>1
  <2> QED
    BY <2>1
<1>10. Traverse({Initial}, Outgoing(d), n) = f[n]
  BY <1>1, <1>8
<1> QED
  BY <1>4, <1>9, <1>10 DEF S, Further

(* A document that may be written has a way to each of its nodes, and so every
   node but the initial one has another before it. *)
LEMMA EveryNodeHasAWay ==
  ASSUME NEW d, Good(d), NEW x \in Ids(d)
  PROVE  \E w, n : Way(d, w, n, x)
<1> DEFINE N == Cardinality(Ids(d))
<1>1. N \in Nat
  BY NodesAre, FS_CardinalityType DEF Good
<1> HIDE DEF N
<1>2. PICK M \in [0..N -> SUBSET Ids(d)] :
         /\ M[0] = {Initial}
         /\ \A k \in 0..N : k # N =>
              M[k + 1] = M[k] \cup {arrow[2] : arrow \in {a \in Outgoing(d) : a[1] \in M[k]}}
         /\ Traverse({Initial}, Outgoing(d), N) = M[N]
  BY <1>1, WavesAre
<1>3. ASSUME NEW k \in 0..N, k # N
      PROVE  /\ M[k] \subseteq M[k + 1]
             /\ \A y \in M[k + 1] \ M[k] : \E m \in M[k] \cap Ids(d) : <<m, y>> \in Outgoing(d)
  <2>1. M[k + 1] = M[k] \cup {arrow[2] : arrow \in {a \in Outgoing(d) : a[1] \in M[k]}}
    BY <1>2, <1>3
  <2>2. ASSUME NEW y \in M[k + 1] \ M[k]
        PROVE  \E m \in M[k] \cap Ids(d) : <<m, y>> \in Outgoing(d)
    <3>1. PICK a \in Outgoing(d) : a[1] \in M[k] /\ a[2] = y
      BY <2>1
    <3>2. a = <<a[1], a[2]>>
      BY DEF Outgoing
    <3>3. a[1] \in Ids(d)
      BY ArrowsAre
    <3> QED
      BY <3>1, <3>2, <3>3
  <2> QED
    BY <2>1, <2>2
<1>4. \A k \in 0..N : \A y \in M[k] :
        \E w, n : Way(d, w, n, y) /\ \A i \in 1..(n - 1) : w[i] \in Ids(d)
  <2> DEFINE Q == Ids(d)
  <2>1. /\ M[0] \subseteq {Initial}
        /\ \A k \in 0..N : k # N =>
             /\ M[k] \subseteq M[k + 1]
             /\ \A y \in M[k + 1] \ M[k] : \E m \in M[k] \cap Q : <<m, y>> \in Outgoing(d)
    BY <1>2, <1>3
  <2> HIDE DEF Q
  <2>2. \A k \in 0..N : \A y \in M[k] :
          \E w, n : Way(d, w, n, y) /\ \A i \in 1..(n - 1) : w[i] \in Q
    BY <1>1, <2>1, Outward
  <2> QED
    BY <2>2 DEF Q
<1>5. x \in M[N] /\ N \in 0..N
  BY <1>1, <1>2 DEF Good, Valid, Sound, N
<1> QED
  BY <1>4, <1>5

LEMMA NobodyBeforeTheFirst ==
  ASSUME NEW d, Good(d), NEW x \in Ids(d), x # Initial
  PROVE  Predecessors(d, x) # {}
<1>1. PICK w, n : Way(d, w, n, x)
  BY EveryNodeHasAWay
<1>2. n # 1 /\ n \in Nat /\ n >= 1
  BY <1>1 DEF Way
<1>3. n - 1 \in 1..(n - 1) /\ (n - 1) + 1 = n
  BY <1>2
<1>4. <<w[n - 1], x>> \in Outgoing(d)
  BY <1>1, <1>3 DEF Way
<1> QED
  BY <1>4, ArrowsAre

-----------------------------------------------------------------------------
(* The rounds of the fixpoint. *)

Universe(d) == Given \cup UNION {ProducedAt(d, id) : id \in Ids(d)}
Rounds(d) == Cardinality(Ids(d)) * Cardinality(Path)

IsRound(d, f) ==
  /\ f \in [0..Rounds(d) -> [Ids(d) -> SUBSET Path]]
  /\ \A k \in 0..Rounds(d) : \A id \in Ids(d) :
       f[k][id] = IF id = Initial THEN Given
                  ELSE IF k = 0 THEN Universe(d) ELSE Meet(d, f[k - 1], id)

LEMMA RoundsAreMany ==
  ASSUME NEW d, Listed(d)
  PROVE  /\ Rounds(d) \in Nat
         /\ Path # {} => Rounds(d) >= Cardinality(Ids(d))
<1>1. Cardinality(Ids(d)) \in Nat /\ Cardinality(Path) \in Nat
  BY NodesAre, FS_CardinalityType, DocumentAssumption
<1>2. Path # {} => Cardinality(Path) >= 1
  BY <1>1, FS_EmptySet, DocumentAssumption
<1> DEFINE a == Cardinality(Ids(d))  b == Cardinality(Path)
<1>3. a \in Nat /\ b \in Nat /\ (Path # {} => b >= 1)
  BY <1>1, <1>2
<1>4. Rounds(d) = a * b
  BY DEF Rounds
<1> HIDE DEF a, b
<1>5. a * b \in Nat /\ (b >= 1 => a * b >= a)
  <2>1. CASE b = 0
    BY <1>3, <2>1
  <2>2. CASE b # 0
    <3>1. b - 1 \in Nat /\ a * (b - 1) \in Nat /\ a * b = a + a * (b - 1)
      BY <1>3, <2>2
    <3> QED
      BY <1>3, <3>1
  <2> QED
    BY <2>1, <2>2
<1> QED
  BY <1>3, <1>4, <1>5 DEF a

LEMMA WhatIsProduced ==
  ASSUME NEW d, Good(d), Pins(d) \subseteq Skill
  PROVE  /\ \A id \in Ids(d) : ProducedAt(d, id) \subseteq Path
         /\ \A id \in Ids(d) : Requires[NodeOf(d, id).skill_ref] \subseteq Path
         /\ Universe(d) \subseteq Path
<1>1. ASSUME NEW id \in Ids(d)
      PROVE  ProducedAt(d, id) \subseteq Path /\ Requires[NodeOf(d, id).skill_ref] \subseteq Path
  <2>1. NodeOf(d, id).skill_ref \in Skill
    BY NodeOfIs
  <2> QED
    BY <2>1, DocumentAssumption DEF ProducedAt
<1>2. Universe(d) \subseteq Path
  BY <1>1, DocumentAssumption DEF Universe
<1> QED
  BY <1>1, <1>2

LEMMA RoundsExist ==
  ASSUME NEW d, Good(d), Pins(d) \subseteq Skill
  PROVE  \E f : IsRound(d, f) /\ Available(d) = f[Rounds(d)]
<1> DEFINE N == Rounds(d)
           S == [Ids(d) -> SUBSET Path]
           Next1(v) == [id \in Ids(d) |-> IF id = Initial THEN Given ELSE Meet(d, v, id)]
           first == [id \in Ids(d) |-> IF id = Initial THEN Given ELSE Universe(d)]
           G == [k \in 0..N |-> [v \in S |-> Next1(v)]]
           Eq(f) == f = [k \in 0..N |-> [id \in Ids(d) |->
                           IF id = Initial THEN Given
                           ELSE IF k = 0 THEN Universe(d) ELSE Meet(d, f[k - 1], id)]]
           round == CHOOSE f : Eq(f)
<1>0. N \in Nat
  BY RoundsAreMany DEF Good
<1>1. Available(d) = round[N]
  BY DEF Available, Universe, Rounds
<1>2. first \in S
  BY WhatIsProduced, DocumentAssumption
<1>3. \A v : Next1(v) \in S
  <2>1. \A v, id : Meet(d, v, id) \subseteq Path
    BY DocumentAssumption DEF Meet
  <2> QED
    BY <2>1, DocumentAssumption
<1> HIDE DEF N
<1>4. PICK f : Unrolls(f, N, S, first, G)
  <2>1. G \in Steps(N, S)
    BY <1>3 DEF Steps
  <2> HIDE DEF G, first, S
  <2> QED
    BY <1>0, <1>2, <2>1, Unrolled
<1>5. f \in [0..N -> S] /\ 0 \in 0..N /\ f[0] = first
  <2>1. 0 \in 0..N
    BY <1>0
  <2> HIDE DEF G, first, S
  <2>2. f \in [0..N -> S] /\ \A k \in 0..N : k = 0 => f[k] = first
    BY <1>4 DEF Unrolls
  <2> QED
    BY <2>1, <2>2
<1>6. ASSUME NEW k \in 0..N, k # 0 PROVE f[k] = Next1(f[k - 1])
  <2>1. k - 1 \in 0..N
    BY <1>0, <1>6
  <2>2. f[k - 1] \in S
    BY <1>5, <2>1
  <2>3. f[k] = G[k][f[k - 1]]
    BY <1>4, <1>6 DEF Unrolls
  <2> HIDE DEF Next1, S
  <2> QED
    BY <1>6, <2>2, <2>3
<1>7. ASSUME NEW k \in 0..N
      PROVE  f[k] = [id \in Ids(d) |-> IF id = Initial THEN Given
                        ELSE IF k = 0 THEN Universe(d) ELSE Meet(d, f[k - 1], id)]
  <2>1. CASE k = 0
    BY <1>5, <2>1
  <2>2. CASE k # 0
    BY <1>6, <2>2
  <2> QED
    BY <2>1, <2>2
<1>8. Eq(f)
  <2>1. f = [k \in 0..N |-> f[k]]
    BY <1>5
  <2> QED
    BY <1>7, <2>1, Zenon
<1>9. Eq(round)
  <2> HIDE DEF Eq
  <2> QED
    BY <1>8
<1> HIDE DEF round, G
<1>10. \A k \in 0..N : round[k] = f[k]
  <2> DEFINE T == {k \in 0..N : round[k] = f[k]}
  <2>1. 0 \in T
    <3>1. round[0] = first
      BY <1>5, <1>9
    <3> QED
      BY <1>5, <3>1
  <2>2. ASSUME NEW k \in 0..N, k # N, k \in T PROVE k + 1 \in T
    <3>1. k + 1 \in 0..N /\ k + 1 # 0 /\ (k + 1) - 1 = k /\ round[k] = f[k]
      BY <1>0, <2>2
    <3>2. round[k + 1] = Next1(round[k])
      BY <1>9, <3>1
    <3>3. f[k + 1] = Next1(f[k])
      BY <1>6, <3>1
    <3> HIDE DEF Next1
    <3> QED
      BY <3>1, <3>2, <3>3
  <2> HIDE DEF T
  <2>3. \A k \in 0..N : k \in T
    BY <1>0, <2>1, <2>2, CountUp
  <2> QED
    BY <2>3 DEF T
<1>11. IsRound(d, f)
  <2>1. \A k \in 0..N : \A id \in Ids(d) :
           f[k][id] = IF id = Initial THEN Given
                      ELSE IF k = 0 THEN Universe(d) ELSE Meet(d, f[k - 1], id)
    BY <1>7
  <2> QED
    BY <1>5, <2>1 DEF IsRound, N
<1>12. Available(d) = f[N]
  BY <1>0, <1>1, <1>10
<1> QED
  BY <1>11, <1>12 DEF N

(* Nothing is ever taken from what every node can count on. *)
LEMMA GivenAlways ==
  ASSUME NEW d, NEW f, IsRound(d, f), NEW k \in 0..Rounds(d), NEW id \in Ids(d)
  PROVE  Given \subseteq f[k][id]
<1>1. f[k][id] = IF id = Initial THEN Given
                 ELSE IF k = 0 THEN Universe(d) ELSE Meet(d, f[k - 1], id)
  BY Zenon DEF IsRound
<1>2. Given \subseteq Universe(d) /\ \A g : Given \subseteq Meet(d, g, id)
  BY Zenon DEF Universe, Meet
<1> QED
  BY <1>1, <1>2, Zenon

(* A path missing on a way is missing from the rounds that come after it. *)
LEMMA MissingAlong ==
  ASSUME NEW d, Good(d), NEW f, IsRound(d, f), NEW path, path \notin Given,
         NEW w, NEW n, NEW x, Way(d, w, n, x), Rounds(d) \in Nat,
         \A i \in 1..(n - 1) : path \notin ProducedAt(d, w[i])
  PROVE  \A k \in 0..Rounds(d) : k >= n - 1 => path \notin f[k][x]
<1> DEFINE N == Rounds(d)
           T == {i \in 0..(n - 1) : \A k \in 0..N : k >= i => path \notin f[k][w[i + 1]]}
<1>0. n \in Nat /\ n - 1 \in Nat /\ w \in [1..n -> Ids(d)] /\ w[1] = Initial /\ w[n] = x /\ N \in Nat
  BY DEF Way
<1> HIDE DEF N
<1>1. 0 \in T
  <2>1. \A k \in 0..N : f[k][Initial] = Given
    BY ArrowsAre DEF IsRound, N
  <2> QED
    BY <1>0, <2>1
<1>2. ASSUME NEW i \in 0..(n - 1), i # n - 1, i \in T PROVE i + 1 \in T
  <2>1. /\ i + 1 \in 0..(n - 1) /\ i + 1 \in 1..(n - 1) /\ i + 1 \in 1..n
        /\ i + 2 \in 1..n /\ (i + 1) + 1 = i + 2 /\ i \in Nat /\ i + 1 # i + 2 /\ 1 \in 1..n
    BY <1>0, <1>2
  <2> DEFINE m == w[i + 1]  y == w[i + 2]
  <2>2. m \in Ids(d) /\ y \in Ids(d)
    BY <1>0, <2>1
  <2>3. <<m, y>> \in Outgoing(d) /\ path \notin ProducedAt(d, m)
    BY <2>1 DEF Way
  <2>4. m \in Predecessors(d, y)
    BY <2>3, ArrowsAre
  <2>5. ASSUME NEW k \in 0..N, k >= i + 1 PROVE path \notin f[k][y]
    <3>1. k - 1 \in 0..N /\ k - 1 >= i /\ k # 0
      BY <1>0, <2>1, <2>5
    <3>2. path \notin f[k - 1][m]
      BY <1>2, <3>1
    <3>3. path \notin Meet(d, f[k - 1], y)
      BY <2>3, <2>4, <3>2 DEF Meet
    <3>4. f[k][y] = IF y = Initial THEN Given ELSE Meet(d, f[k - 1], y)
      BY <2>2, <3>1 DEF IsRound, N
    <3> QED
      BY <3>3, <3>4
  <2> HIDE DEF m
  <2> QED
    BY <2>1, <2>5
<1>3. \A i \in 0..(n - 1) : i \in T
  <2> DEFINE r == n - 1
  <2>1. r \in Nat /\ \A i \in 0..r : i # r /\ i \in T => i + 1 \in T
    BY <1>0, <1>2
  <2> HIDE DEF r, T
  <2>2. \A i \in 0..r : i \in T
    BY <1>1, <2>1, CountUp
  <2> QED
    BY <2>2 DEF r
<1>4. n - 1 \in T /\ (n - 1) + 1 = n
  <2>1. n - 1 \in 0..(n - 1) /\ (n - 1) + 1 = n
    BY <1>0
  <2> HIDE DEF T
  <2> QED
    BY <1>3, <2>1
<1> QED
  BY <1>0, <1>4 DEF N

(* A path some round misses is missing on a way. *)
LEMMA MissingSomewhere ==
  ASSUME NEW d, Good(d), NEW f, IsRound(d, f), NEW path \in Path, path \notin Given,
         Rounds(d) \in Nat, NEW x \in Ids(d), path \notin f[Rounds(d)][x]
  PROVE  \E w, n : /\ Way(d, w, n, x)
                   /\ \A i \in 1..(n - 1) : path \notin ProducedAt(d, w[i])
<1> DEFINE N == Rounds(d)
           Q == {id \in Ids(d) : path \notin ProducedAt(d, id)}
           M == [k \in 0..N |-> {id \in Ids(d) : \E r \in 0..k : path \notin f[r][id]}]
<1>0. N \in Nat /\ N \in 0..N
  OBVIOUS
<1>1. CASE path \notin Universe(d)
  <2>1. PICK w, n : Way(d, w, n, x)
    BY EveryNodeHasAWay
  <2>2. \A i \in 1..(n - 1) : i \in 1..n
    BY <2>1 DEF Way
  <2>3. \A i \in 1..(n - 1) : path \notin ProducedAt(d, w[i])
    BY <1>1, <2>1, <2>2 DEF Way, Universe
  <2> QED
    BY <2>1, <2>3
<1>2. CASE path \in Universe(d)
  <2>1. M \in [0..N -> SUBSET Ids(d)]
    OBVIOUS
  <2>2. M[0] \subseteq {Initial}
    <3>1. 0 \in 0..N /\ \A r \in 0..0 : r = 0
      BY <1>0
    <3>2. \A id \in Ids(d) : id # Initial => f[0][id] = Universe(d)
      BY <3>1 DEF IsRound
    <3> QED
      BY <1>2, <3>1, <3>2
  <2>3. ASSUME NEW k \in 0..N, k # N
        PROVE  /\ M[k] \subseteq M[k + 1]
               /\ \A y \in M[k + 1] \ M[k] : \E m \in M[k] \cap Q : <<m, y>> \in Outgoing(d)
    <3>1. k + 1 \in 0..N /\ k \in Nat /\ \A r \in 0..k : r \in 0..(k + 1)
      BY <1>0, <2>3
    <3>2. \A r \in 0..(k + 1) : r = k + 1 \/ r \in 0..k
      BY <3>1
    <3>3. M[k] \subseteq M[k + 1]
      BY <3>1
    <3>4. ASSUME NEW y \in M[k + 1] \ M[k]
          PROVE  \E m \in M[k] \cap Q : <<m, y>> \in Outgoing(d)
      <4>1. y \in Ids(d) /\ path \notin f[k + 1][y] /\ \A r \in 0..k : path \in f[r][y]
        BY <3>1, <3>2
      <4>2. y # Initial
        <5>1. 0 \in 0..k /\ 0 \in 0..N
          BY <3>1
        <5>2. path \in f[0][y]
          BY <4>1, <5>1
        <5> QED
          BY <4>1, <5>1, <5>2 DEF IsRound
      <4>3. path \notin Meet(d, f[k], y)
        <5>1. k + 1 # 0 /\ (k + 1) - 1 = k
          BY <3>1
        <5>2. f[k + 1][y] = Meet(d, f[(k + 1) - 1], y)
          BY <3>1, <4>1, <4>2, <5>1 DEF IsRound
        <5> QED
          BY <4>1, <5>1, <5>2
      <4>4. PICK m \in Predecessors(d, y) : path \notin f[k][m] \cup ProducedAt(d, m)
        BY <4>1, <4>2, <4>3, NobodyBeforeTheFirst DEF Meet
      <4>5. <<m, y>> \in Outgoing(d) /\ m \in Ids(d)
        BY <4>4, ArrowsAre
      <4>6. k \in 0..k
        BY <3>1
      <4>7. m \in M[k]
        BY <4>4, <4>5, <4>6
      <4> QED
        BY <4>4, <4>5, <4>7
    <3> QED
      BY <3>3, <3>4
  <2>4. x \in M[N]
    BY <1>0
  <2> HIDE DEF M, N, Q
  <2>5. \A k \in 0..N : \A y \in M[k] :
          \E w, n : Way(d, w, n, y) /\ \A i \in 1..(n - 1) : w[i] \in Q
    BY <1>0, <2>1, <2>2, <2>3, Outward
  <2>6. PICK w, n : Way(d, w, n, x) /\ \A i \in 1..(n - 1) : w[i] \in Q
    BY <1>0, <2>4, <2>5
  <2> QED
    BY <2>6 DEF Q
<1> QED
  BY <1>1, <1>2

(* What the fixpoint makes available to a node is what every way to it supplies. *)
LEMMA AvailableIsSupplied ==
  ASSUME NEW d, Good(d), Pins(d) \subseteq Skill, NEW id \in Ids(d)
  PROVE  Requires[NodeOf(d, id).skill_ref] \subseteq Available(d)[id] <=> AlwaysSupplied(d, id)
<1> DEFINE needs == Requires[NodeOf(d, id).skill_ref]
           N == Rounds(d)
<1>0. Listed(d) /\ N \in Nat /\ needs \subseteq Path
  BY RoundsAreMany, WhatIsProduced DEF Good
<1>1. PICK f : IsRound(d, f) /\ Available(d) = f[N]
  BY RoundsExist
<1> HIDE DEF needs
<1>2. ASSUME needs \subseteq Available(d)[id], NEW w \in WaysTo(d, id), NEW path \in needs
      PROVE  path \in Given \cup UNION {ProducedAt(d, w[i]) : i \in 1..(Len(w) - 1)}
  <2>1. SUFFICES ASSUME path \notin Given, \A i \in 1..(Len(w) - 1) : path \notin ProducedAt(d, w[i])
                 PROVE  FALSE
    OBVIOUS
  <2>2. Way(d, w, Len(w), id) /\ Len(w) \in 1..Cardinality(Ids(d))
    BY WaysAre
  <2>3. Cardinality(Ids(d)) \in Nat /\ N >= Cardinality(Ids(d))
    BY <1>0, RoundsAreMany, NodesAre, FS_CardinalityType
  <2>4. N \in 0..N /\ N >= Len(w) - 1
    BY <1>0, <2>2, <2>3
  <2>5. path \notin f[N][id]
    BY <1>0, <1>1, <2>1, <2>2, <2>4, MissingAlong
  <2> QED
    BY <1>1, <1>2, <2>5
<1>3. ASSUME AlwaysSupplied(d, id), NEW path \in needs PROVE path \in Available(d)[id]
  <2>1. SUFFICES ASSUME path \notin f[N][id] PROVE FALSE
    BY <1>1
  <2>2. path \in Path /\ path \notin Given
    <3>1. N \in 0..N
      BY <1>0
    <3> QED
      BY <1>0, <1>1, <2>1, <3>1, GivenAlways
  <2>3. PICK w, n : /\ Way(d, w, n, id)
                    /\ \A i \in 1..(n - 1) : path \notin ProducedAt(d, w[i])
    BY <1>0, <1>1, <2>1, <2>2, MissingSomewhere
  <2>4. w \in WaysTo(d, id) /\ Len(w) = n
    BY <1>0, <2>3, AWayIs
  <2>5. path \in Given \cup UNION {ProducedAt(d, w[i]) : i \in 1..(Len(w) - 1)}
    BY <1>3, <2>4 DEF AlwaysSupplied, needs
  <2> QED
    BY <2>2, <2>3, <2>4, <2>5
<1>4. needs \subseteq Available(d)[id] => AlwaysSupplied(d, id)
  BY <1>2 DEF AlwaysSupplied, needs
<1> QED
  BY <1>3, <1>4 DEF needs

(* And so the verdict is the one every way into every node supports. *)
LEMMA VerdictIsTrue ==
  ASSUME NEW d, Good(d), NEW known \in SUBSET Skill
  PROVE  /\ ~(Pins(d) \subseteq known) => ClassifyContracts(d, known) = "unchecked"
         /\ Pins(d) \subseteq known =>
              ClassifyContracts(d, known) = IF \A id \in Ids(d) : AlwaysSupplied(d, id)
                                            THEN "checked" ELSE "failed"
<1>1. CASE ~(Pins(d) \subseteq known)
  BY <1>1 DEF ClassifyContracts
<1>2. CASE Pins(d) \subseteq known
  <2>1. Pins(d) \subseteq Skill
    BY <1>2
  <2>2. \A id \in Ids(d) :
          Requires[NodeOf(d, id).skill_ref] \subseteq Available(d)[id] <=> AlwaysSupplied(d, id)
    BY <2>1, AvailableIsSupplied
  <2>3. UnproducedInput(d) = {} <=>
          \A id \in Ids(d) : Requires[NodeOf(d, id).skill_ref] \subseteq Available(d)[id]
    BY DEF UnproducedInput
  <2>4. UnproducedInput(d) = {} <=> \A id \in Ids(d) : AlwaysSupplied(d, id)
    BY <2>2, <2>3
  <2> QED
    BY <1>2, <2>4 DEF ClassifyContracts
<1> QED
  BY <1>1, <1>2

-----------------------------------------------------------------------------
(* What a diff makes of the document it was made from. *)

Removes(g) == [i \in DOMAIN g |-> RemoveNode(g[i].id)]
Adds(g)    == [i \in DOMAIN g |-> AddNode(g[i])]
Changes(g) == [i \in DOMAIN g |-> ChangeSkill(g[i].id, g[i].skill_ref)]
Cuts(g)    == [i \in DOMAIN g |-> RemoveEdge([g[i] EXCEPT !.condition = AnyCondition])]
Lays(g)    == [i \in DOMAIN g |-> AddEdge(g[i])]

Unique(g) == \A i, j \in DOMAIN g : g[i].id = g[j].id => i = j

LEMMA NoOperations ==
  /\ Removes(<<>>) = <<>> /\ Adds(<<>>) = <<>> /\ Changes(<<>>) = <<>>
  /\ Cuts(<<>>) = <<>> /\ Lays(<<>>) = <<>>
BY DEF Removes, Adds, Changes, Cuts, Lays

LEMMA OperationsAre ==
  ASSUME NEW T, NEW g \in Seq(T)
  PROVE  /\ Removes(g) \in Seq({RemoveNode(n.id) : n \in T})
         /\ Adds(g) \in Seq({AddNode(n) : n \in T})
         /\ Changes(g) \in Seq({ChangeSkill(n.id, n.skill_ref) : n \in T})
         /\ Cuts(g) \in Seq({RemoveEdge([n EXCEPT !.condition = AnyCondition]) : n \in T})
         /\ Lays(g) \in Seq({AddEdge(n) : n \in T})
<1>1. DOMAIN g = 1..Len(g) /\ Len(g) \in Nat /\ \A i \in 1..Len(g) : g[i] \in T
  OBVIOUS
<1>2. Removes(g) \in Seq({RemoveNode(n.id) : n \in T})
  BY <1>1 DEF Removes
<1>3. Adds(g) \in Seq({AddNode(n) : n \in T})
  BY <1>1 DEF Adds
<1>4. Changes(g) \in Seq({ChangeSkill(n.id, n.skill_ref) : n \in T})
  BY <1>1 DEF Changes
<1>5. Cuts(g) \in Seq({RemoveEdge([n EXCEPT !.condition = AnyCondition]) : n \in T})
  <2> DEFINE cut(n) == RemoveEdge([n EXCEPT !.condition = AnyCondition])
  <2>1. Cuts(g) = [i \in DOMAIN g |-> cut(g[i])]
    BY DEF Cuts
  <2> HIDE DEF cut
  <2>2. Cuts(g) \in Seq({cut(n) : n \in T})
    BY <1>1, <2>1
  <2> QED
    BY <2>2 DEF cut
<1>6. Lays(g) \in Seq({AddEdge(n) : n \in T})
  BY <1>1 DEF Lays
<1> QED
  BY <1>2, <1>3, <1>4, <1>5, <1>6

LEMMA OneOperation ==
  ASSUME NEW T, NEW g \in Seq(T), NEW x \in T
  PROVE  /\ Removes(Append(g, x)) = Append(Removes(g), RemoveNode(x.id))
         /\ Adds(Append(g, x)) = Append(Adds(g), AddNode(x))
         /\ Changes(Append(g, x)) = Append(Changes(g), ChangeSkill(x.id, x.skill_ref))
         /\ Cuts(Append(g, x)) = Append(Cuts(g), RemoveEdge([x EXCEPT !.condition = AnyCondition]))
         /\ Lays(Append(g, x)) = Append(Lays(g), AddEdge(x))
<1>1. /\ DOMAIN g = 1..Len(g) /\ Len(g) \in Nat /\ \A i \in 1..Len(g) : g[i] \in T
      /\ DOMAIN Append(g, x) = 1..(Len(g) + 1)
      /\ \A i \in 1..Len(g) : Append(g, x)[i] = g[i]
      /\ Append(g, x)[Len(g) + 1] = x
  BY AppendIs
<1>2. Removes(Append(g, x)) = Append(Removes(g), RemoveNode(x.id))
  BY <1>1 DEF Removes
<1>3. Adds(Append(g, x)) = Append(Adds(g), AddNode(x))
  BY <1>1 DEF Adds
<1>4. Changes(Append(g, x)) = Append(Changes(g), ChangeSkill(x.id, x.skill_ref))
  BY <1>1 DEF Changes
<1>5. Cuts(Append(g, x)) = Append(Cuts(g), RemoveEdge([x EXCEPT !.condition = AnyCondition]))
  BY <1>1 DEF Cuts
<1>6. Lays(Append(g, x)) = Append(Lays(g), AddEdge(x))
  BY <1>1 DEF Lays
<1> QED
  BY <1>2, <1>3, <1>4, <1>5, <1>6

LEMMA OneChange ==
  ASSUME NEW T, NEW g \in Seq(T), NEW x \in T
  PROVE  Changes(Append(g, x)) = Append(Changes(g), ChangeSkill(x.id, x.skill_ref))
BY OneOperation

(* What more operations make of what some made. *)
LEMMA AppliedBoth ==
  ASSUME NEW d, NEW T, NEW s \in Seq(T), NEW t \in Seq(T), NEW m \in Applied(d, s)
  PROVE  \A r \in Applied(m, t) : r \in Applied(d, s \o t)
<1> DEFINE P == {u \in Seq(T) : \A r \in Applied(m, u) : r \in Applied(d, s \o u)}
<1>1. <<>> \in P
  <2>1. s \o <<>> = s /\ <<>> \in Seq(T)
    OBVIOUS
  <2> QED
    BY <2>1, AppliedOfNone
<1>2. ASSUME NEW u \in Seq(T), NEW x \in T, u \in P PROVE Append(u, x) \in P
  <2>1. /\ s \o Append(u, x) = Append(s \o u, x) /\ s \o u \in Seq(T)
        /\ Append(u, x) \in Seq(T)
    OBVIOUS
  <2>2. ASSUME NEW r \in Applied(m, Append(u, x)) PROVE r \in Applied(d, s \o Append(u, x))
    <3>1. OneMore(m, u, x, r)
      BY AppliedGrows
    <3>2. \A y \in Applied(m, u) : y \in Applied(d, s \o u)
      BY <1>2
    <3> HIDE DEF P
    <3>3. OneMore(d, s \o u, x, r)
      BY <3>1, <3>2 DEF OneMore
    <3>4. PICK v \in Seq(T) : v = s \o u
      BY <2>1
    <3>5. r \in Applied(d, Append(v, x))
      BY <3>3, <3>4, AppliedGrows
    <3> QED
      BY <2>1, <3>4, <3>5
  <2> QED
    BY <2>1, <2>2
<1> HIDE DEF P
<1>3. t \in P
  BY <1>1, <1>2, SequencesGrow
<1> QED
  BY <1>3 DEF P

LEMMA UniqueGrows ==
  ASSUME NEW T, NEW g \in Seq(T), NEW x \in T
  PROVE  Unique(Append(g, x)) <=> Unique(g) /\ \A n \in ToSet(g) : n.id # x.id
<1>1. /\ DOMAIN g = 1..Len(g) /\ Len(g) \in Nat
      /\ DOMAIN Append(g, x) = 1..(Len(g) + 1)
      /\ \A i \in 1..Len(g) : Append(g, x)[i] = g[i]
      /\ Append(g, x)[Len(g) + 1] = x
  BY AppendIs
<1>2. \A i : i \in 1..(Len(g) + 1) <=> i \in 1..Len(g) \/ i = Len(g) + 1
  BY <1>1
<1>3. Len(g) + 1 \notin 1..Len(g)
  BY <1>1
<1> DEFINE h == Append(g, x)
<1> HIDE DEF h
<1>4. ASSUME Unique(h) PROVE Unique(g) /\ \A n \in ToSet(g) : n.id # x.id
  BY <1>1, <1>2, <1>3, <1>4 DEF Unique, ToSet, h
<1>5. ASSUME Unique(g), \A n \in ToSet(g) : n.id # x.id PROVE Unique(h)
  <2>1. \A i \in 1..Len(g) : h[i].id # x.id
    BY <1>1, <1>5 DEF ToSet, h
  <2>2. ASSUME NEW i \in 1..(Len(g) + 1), NEW j \in 1..(Len(g) + 1), h[i].id = h[j].id PROVE i = j
    <3>1. CASE i \in 1..Len(g) /\ j \in 1..Len(g)
      BY <1>1, <1>5, <2>2, <3>1 DEF Unique, h
    <3>2. CASE i = Len(g) + 1 \/ j = Len(g) + 1
      BY <1>1, <1>2, <2>1, <2>2, <3>2 DEF h
    <3> QED
      BY <1>2, <3>1, <3>2
  <2> QED
    BY <1>1, <2>2 DEF Unique, h
<1> QED
  BY <1>4, <1>5 DEF h

LEMMA KeptIsUnique ==
  ASSUME NEW T, NEW s \in Seq(T), NEW S, Unique(s)
  PROVE  Unique(Kept(s, S))
<1> DEFINE P == {t \in Seq(T) : Unique(t) => Unique(Kept(t, S))}
<1>1. <<>> \in P
  BY KeptOfNone DEF Unique
<1>2. ASSUME NEW t \in Seq(T), NEW x \in T, t \in P PROVE Append(t, x) \in P
  <2>1. Append(t, x) \in Seq(T) /\ Kept(t, S) \in Seq(T) /\ ToSet(Kept(t, S)) \subseteq ToSet(t)
    BY AppendIs, KeptIs
  <2>2. SUFFICES ASSUME Unique(Append(t, x)) PROVE Unique(Kept(Append(t, x), S))
    BY <2>1
  <2>3. Unique(t) /\ \A n \in ToSet(t) : n.id # x.id
    BY <2>2, UniqueGrows
  <2>4. Unique(Kept(t, S))
    BY <1>2, <2>3
  <2>5. Unique(Append(Kept(t, S), x))
    BY <2>1, <2>3, <2>4, UniqueGrows
  <2> HIDE DEF P
  <2>6. /\ x \in S => Kept(Append(t, x), S) = Append(Kept(t, S), x)
        /\ x \notin S => Kept(Append(t, x), S) = Kept(t, S)
    BY KeptGrows
  <2> QED
    BY <2>4, <2>5, <2>6
<1> HIDE DEF P
<1>3. s \in P
  BY <1>1, <1>2, SequencesGrow
<1> QED
  BY <1>3 DEF P

(* Nodes taken away. *)
LEMMA RemovesLand ==
  ASSUME NEW d, Listed(d), NEW g \in Seq(ToSet(d.nodes)), Unique(g)
  PROVE  \E m \in Applied(d, Removes(g)) :
           /\ Listed(m) /\ m.edges = d.edges
           /\ ToSet(m.nodes) = {n \in ToSet(d.nodes) : \A k \in ToSet(g) : k.id # n.id}
<1> DEFINE T == ToSet(d.nodes)
           Left(m, t) == /\ Listed(m) /\ m.edges = d.edges
                         /\ ToSet(m.nodes) = {n \in T : \A k \in ToSet(t) : k.id # n.id}
           P == {t \in Seq(T) : Unique(t) => \E m \in Applied(d, Removes(t)) : Left(m, t)}
<1> HIDE DEF T
<1>1. <<>> \in P
  <2>1. Applied(d, Removes(<<>>)) = {d}
    BY NoOperations, AppliedOfNone
  <2>2. ToSet(<<>>) = {}
    BY DEF ToSet
  <2>3. Left(d, <<>>)
    BY <2>2 DEF T
  <2> QED
    BY <2>1, <2>3
<1>2. ASSUME NEW t \in Seq(T), NEW x \in T, t \in P PROVE Append(t, x) \in P
  <2>1. Append(t, x) \in Seq(T) /\ ToSet(Append(t, x)) = ToSet(t) \cup {x}
    BY AppendIs
  <2>2. SUFFICES ASSUME Unique(Append(t, x))
                 PROVE  \E m \in Applied(d, Removes(Append(t, x))) : Left(m, Append(t, x))
    BY <2>1
  <2>3. Unique(t) /\ \A n \in ToSet(t) : n.id # x.id
    BY <2>2, UniqueGrows
  <2>4. PICK m \in Applied(d, Removes(t)) : Left(m, t)
    BY <1>2, <2>3
  <2> HIDE DEF P
  <2> DEFINE op == RemoveNode(x.id)
             r == Changed(m, op)
  <2>5. op.type = "remove_node" /\ op.node_id = x.id
    BY DEF RemoveNode
  <2>6. /\ Removes(Append(t, x)) = Append(Removes(t), op)
        /\ Removes(t) \in Seq({RemoveNode(n.id) : n \in T}) /\ op \in {RemoveNode(n.id) : n \in T}
    BY OneOperation, OperationsAre
  <2> HIDE DEF op
  <2>7. x \in ToSet(m.nodes)
    BY <2>3, <2>4
  <2>8. Applicable(m, op)
    BY <2>5, <2>7 DEF Applicable, Ids
  <2>9. m.nodes \in Seq(ToSet(m.nodes)) /\ m = [nodes |-> m.nodes, edges |-> m.edges]
    BY <2>4 DEF Listed
  <2>10. r = [m EXCEPT !.nodes = Kept(m.nodes, {n \in ToSet(m.nodes) : n.id # x.id})]
    BY <2>5 DEF Changed
  <2>11. Listed(r)
    BY <2>4, <2>5, <2>8, ChangedIsListed
  <2> HIDE DEF r
  <2>12. /\ r.edges = m.edges
         /\ r.nodes = Kept(m.nodes, {n \in ToSet(m.nodes) : n.id # x.id})
    BY <2>9, <2>10
  <2>13. ToSet(r.nodes) = {n \in ToSet(m.nodes) : n.id # x.id}
    BY <2>9, <2>12, KeptIs
  <2>14. Left(r, Append(t, x))
    BY <2>1, <2>4, <2>11, <2>12, <2>13
  <2>15. r \in Applied(d, Append(Removes(t), op))
    <3>1. OneMore(d, Removes(t), op, r)
      BY <2>8 DEF OneMore, r
    <3> QED
      BY <2>6, <3>1, AppliedGrows
  <2> QED
    BY <2>6, <2>14, <2>15
<1> HIDE DEF P
<1>3. g \in P
  BY <1>1, <1>2, SequencesGrow DEF T
<1> QED
  BY <1>3 DEF P, T

(* Nodes added. *)
LEMMA AddsLand ==
  ASSUME NEW d, Listed(d), NEW T, NEW g \in Seq(T), \A n \in T : IsNode(n), Unique(g),
         \A n \in ToSet(g) : n.id \notin Ids(d)
  PROVE  \E m \in Applied(d, Adds(g)) :
           Listed(m) /\ m.edges = d.edges /\ ToSet(m.nodes) = ToSet(d.nodes) \cup ToSet(g)
<1> DEFINE Grown(m, t) == /\ Listed(m) /\ m.edges = d.edges
                          /\ ToSet(m.nodes) = ToSet(d.nodes) \cup ToSet(t)
           P == {t \in Seq(T) : Unique(t) /\ (\A n \in ToSet(t) : n.id \notin Ids(d)) =>
                                  \E m \in Applied(d, Adds(t)) : Grown(m, t)}
<1>1. <<>> \in P
  <2>1. Applied(d, Adds(<<>>)) = {d}
    BY NoOperations, AppliedOfNone
  <2>2. ToSet(<<>>) = {}
    BY DEF ToSet
  <2>3. Grown(d, <<>>)
    BY <2>2
  <2> QED
    BY <2>1, <2>3
<1>2. ASSUME NEW t \in Seq(T), NEW x \in T, t \in P PROVE Append(t, x) \in P
  <2>1. Append(t, x) \in Seq(T) /\ ToSet(Append(t, x)) = ToSet(t) \cup {x}
    BY AppendIs
  <2>2. SUFFICES ASSUME Unique(Append(t, x)), \A n \in ToSet(Append(t, x)) : n.id \notin Ids(d)
                 PROVE  \E m \in Applied(d, Adds(Append(t, x))) : Grown(m, Append(t, x))
    BY <2>1
  <2>3. /\ Unique(t) /\ \A n \in ToSet(t) : n.id # x.id
        /\ x.id \notin Ids(d) /\ \A n \in ToSet(t) : n.id \notin Ids(d)
    BY <2>1, <2>2, UniqueGrows
  <2>4. PICK m \in Applied(d, Adds(t)) : Grown(m, t)
    BY <1>2, <2>3
  <2> HIDE DEF P
  <2> DEFINE op == AddNode(x)
             r == Changed(m, op)
  <2>5. op.type = "add_node" /\ op.node = x
    BY DEF AddNode
  <2>6. /\ Adds(Append(t, x)) = Append(Adds(t), op)
        /\ Adds(t) \in Seq({AddNode(n) : n \in T}) /\ op \in {AddNode(n) : n \in T}
    BY OneOperation, OperationsAre
  <2> HIDE DEF op
  <2>7. x.id \notin Ids(m)
    BY <2>3, <2>4 DEF Ids
  <2>8. Applicable(m, op)
    BY <2>5, <2>7 DEF Applicable
  <2>9. m.nodes \in Seq(ToSet(m.nodes)) /\ m = [nodes |-> m.nodes, edges |-> m.edges]
    BY <2>4 DEF Listed
  <2>10. r = [m EXCEPT !.nodes = Append(m.nodes, x)]
    BY <2>5 DEF Changed
  <2>11. Listed(r)
    BY <2>4, <2>5, <2>8, ChangedIsListed
  <2> HIDE DEF r
  <2>12. r.edges = m.edges /\ r.nodes = Append(m.nodes, x)
    BY <2>9, <2>10
  <2>13. ToSet(r.nodes) = ToSet(m.nodes) \cup {x}
    <3> DEFINE M == ToSet(m.nodes) \cup {x}
    <3>1. m.nodes \in Seq(M) /\ x \in M
      BY <2>9
    <3> HIDE DEF M
    <3> QED
      BY <2>12, <3>1, AppendIs
  <2>14. Grown(r, Append(t, x))
    BY <2>1, <2>4, <2>11, <2>12, <2>13
  <2>15. r \in Applied(d, Append(Adds(t), op))
    <3>1. OneMore(d, Adds(t), op, r)
      BY <2>8 DEF OneMore, r
    <3> QED
      BY <2>6, <3>1, AppliedGrows
  <2> QED
    BY <2>6, <2>14, <2>15
<1> HIDE DEF P
<1>3. g \in P
  BY <1>1, <1>2, SequencesGrow
<1> QED
  BY <1>3 DEF P

(* Pins moved: each of these nodes takes the place of the one of its id. *)
LEMMA ChangesLand ==
  ASSUME NEW d, Listed(d), NEW T, NEW g \in Seq(T), \A n \in T : IsNode(n), Unique(g),
         \A n, k \in ToSet(d.nodes) : n.id = k.id => n = k,
         \A k \in ToSet(g) : \E n \in ToSet(d.nodes) : n.id = k.id /\ n.node_type = k.node_type
  PROVE  \E m \in Applied(d, Changes(g)) :
           /\ Listed(m) /\ m.edges = d.edges
           /\ ToSet(m.nodes) = {n \in ToSet(d.nodes) : \A k \in ToSet(g) : k.id # n.id} \cup ToSet(g)
<1> DEFINE N == ToSet(d.nodes)
           Has(t) == \A k \in ToSet(t) : \E n \in N : n.id = k.id /\ n.node_type = k.node_type
           Moved(m, t) == /\ Listed(m) /\ m.edges = d.edges
                          /\ ToSet(m.nodes) = {n \in N : \A k \in ToSet(t) : k.id # n.id} \cup ToSet(t)
           P == {t \in Seq(T) : Unique(t) /\ Has(t) => \E m \in Applied(d, Changes(t)) : Moved(m, t)}
<1>0. /\ \A n \in N : IsNode(n)
      /\ \A n, k \in N : n.id = k.id => n = k
  BY DEF Listed
<1> HIDE DEF N
<1>1. <<>> \in P
  <2>1. Applied(d, Changes(<<>>)) = {d}
    BY NoOperations, AppliedOfNone
  <2>2. ToSet(<<>>) = {}
    BY DEF ToSet
  <2>3. Moved(d, <<>>)
    BY <2>2 DEF N
  <2> QED
    BY <2>1, <2>3
<1>2. ASSUME NEW t \in Seq(T), NEW x \in T, t \in P PROVE Append(t, x) \in P
  <2>1. Append(t, x) \in Seq(T) /\ ToSet(Append(t, x)) = ToSet(t) \cup {x}
    BY AppendIs
  <2>2. SUFFICES ASSUME Unique(Append(t, x)), Has(Append(t, x))
                 PROVE  \E m \in Applied(d, Changes(Append(t, x))) : Moved(m, Append(t, x))
    BY <2>1
  <2>3. Unique(t) /\ (\A n \in ToSet(t) : n.id # x.id) /\ Has(t)
    BY <2>1, <2>2, UniqueGrows
  <2>4. PICK m \in Applied(d, Changes(t)) : Moved(m, t)
    BY <1>2, <2>3
  <2>5. PICK n0 \in N : n0.id = x.id /\ n0.node_type = x.node_type
    BY <2>1, <2>2
  <2> HIDE DEF P, Has
  <2> DEFINE op == ChangeSkill(x.id, x.skill_ref)
             r == Changed(m, op)
  <2>6. op.type = "change_node_field" /\ op.node_id = x.id /\ op.to = x.skill_ref
    BY DEF ChangeSkill
  <2>7. /\ Changes(Append(t, x)) = Append(Changes(t), op)
        /\ Changes(t) \in Seq({ChangeSkill(n.id, n.skill_ref) : n \in T})
        /\ op \in {ChangeSkill(n.id, n.skill_ref) : n \in T}
    <3>1. Changes(Append(t, x)) = Append(Changes(t), op)
      <4> HIDE DEF r, Moved, N
      <4> QED
        BY OneChange
    <3>2. Changes(t) \in Seq({ChangeSkill(n.id, n.skill_ref) : n \in T})
      BY OperationsAre
    <3>3. op \in {ChangeSkill(n.id, n.skill_ref) : n \in T}
      OBVIOUS
    <3> QED
      BY <3>1, <3>2, <3>3
  <2> HIDE DEF op
  <2>8. n0 \in ToSet(m.nodes)
    BY <2>3, <2>4, <2>5
  <2>9. Applicable(m, op)
    BY <2>5, <2>6, <2>8 DEF Applicable, Ids
  <2>10. /\ DOMAIN m.nodes = 1..Len(m.nodes) /\ m = [nodes |-> m.nodes, edges |-> m.edges]
    BY <2>4, ItsElements DEF Listed
  <2>11. r = [m EXCEPT !.nodes =
                [i \in DOMAIN m.nodes |-> IF m.nodes[i].id = x.id
                                          THEN [m.nodes[i] EXCEPT !.skill_ref = x.skill_ref]
                                          ELSE m.nodes[i]]]
    BY <2>6 DEF Changed
  <2>12. Listed(r)
    BY <2>4, <2>6, <2>9, ChangedIsListed
  <2> HIDE DEF r
  <2>13. /\ r.edges = m.edges
         /\ r.nodes = [i \in DOMAIN m.nodes |-> IF m.nodes[i].id = x.id
                                          THEN [m.nodes[i] EXCEPT !.skill_ref = x.skill_ref]
                                          ELSE m.nodes[i]]
    BY <2>10, <2>11
  <2>14. ASSUME NEW n \in ToSet(m.nodes), n.id = x.id
         PROVE  [n EXCEPT !.skill_ref = x.skill_ref] = x
    <3>1. n \in N
      BY <2>3, <2>4, <2>14
    <3>2. n = n0
      BY <1>0, <2>5, <2>14, <3>1
    <3>3. n = Node(n.id, n.node_type, n.skill_ref) /\ x = Node(x.id, x.node_type, x.skill_ref)
      BY <1>0, <3>1 DEF IsNode
    <3> QED
      BY <2>5, <3>2, <3>3 DEF Node
  <2>15. \A i \in DOMAIN m.nodes : r.nodes[i] = IF m.nodes[i].id = x.id THEN x ELSE m.nodes[i]
    <3>1. \A i \in DOMAIN m.nodes : m.nodes[i] \in ToSet(m.nodes)
      BY DEF ToSet
    <3> QED
      BY <2>13, <2>14, <3>1
  <2>16. ToSet(r.nodes) = {n \in ToSet(m.nodes) : n.id # x.id} \cup {x}
    <3>1. DOMAIN r.nodes = DOMAIN m.nodes
      BY <2>13
    <3>2. \E i \in DOMAIN m.nodes : m.nodes[i].id = x.id
      BY <2>5, <2>8 DEF ToSet
    <3> QED
      BY <2>15, <3>1, <3>2 DEF ToSet
  <2>17. ToSet(r.nodes) = {n \in N : \A k \in ToSet(Append(t, x)) : k.id # n.id} \cup ToSet(Append(t, x))
    BY <2>1, <2>3, <2>4, <2>16
  <2>18. Moved(r, Append(t, x))
    BY <2>4, <2>12, <2>13, <2>17
  <2>19. r \in Applied(d, Append(Changes(t), op))
    <3>1. OneMore(d, Changes(t), op, r)
      BY <2>9 DEF OneMore, r
    <3> QED
      BY <2>7, <3>1, AppliedGrows
  <2> QED
    BY <2>7, <2>18, <2>19
<1> HIDE DEF P
<1>3. g \in P
  BY <1>1, <1>2, SequencesGrow
<1> QED
  BY <1>3 DEF P, N

(* Whole groups of edges taken away, one edge at a time and the first of its
   group each time. *)
LEMMA CutsLand ==
  ASSUME NEW d, Listed(d), NEW S, S \subseteq ToSet(d.edges),
         \A x \in S : \A y \in ToSet(d.edges) : x.from = y.from /\ x.to = y.to => y \in S
  PROVE  \E m \in Applied(d, Cuts(Kept(d.edges, S))) :
           /\ Listed(m) /\ m.nodes = d.nodes
           /\ m.edges = Kept(d.edges, ToSet(d.edges) \ S)
<1> DEFINE E == ToSet(d.edges)
           Left(m, t, rest) == /\ Listed(m) /\ m.nodes = d.nodes
                               /\ m.edges = Kept(t, E \ S) \o rest
           P == {t \in Seq(E) : \A rest \in Seq(E) : d.edges = t \o rest =>
                                  \E m \in Applied(d, Cuts(Kept(t, S))) : Left(m, t, rest)}
<1>0. d.edges \in Seq(E) /\ \A x \in E : IsEdge(x)
  BY DEF Listed
<1> HIDE DEF E
<1>1. <<>> \in P
  <2>1. Applied(d, Cuts(Kept(<<>>, S))) = {d}
    BY KeptOfNone, NoOperations, AppliedOfNone
  <2>2. ASSUME NEW rest \in Seq(E), d.edges = <<>> \o rest PROVE Left(d, <<>>, rest)
    <3>1. <<>> \o rest = rest
      OBVIOUS
    <3> QED
      BY <2>2, <3>1, KeptOfNone
  <2>3. <<>> \in Seq(E)
    OBVIOUS
  <2> HIDE DEF Left
  <2> QED
    BY <2>1, <2>2, <2>3
<1>2. ASSUME NEW t \in Seq(E), NEW x \in E, t \in P PROVE Append(t, x) \in P
  <2>1. Append(t, x) \in Seq(E)
    BY AppendIs
  <2>2. SUFFICES ASSUME NEW rest \in Seq(E), d.edges = Append(t, x) \o rest
                 PROVE  \E m \in Applied(d, Cuts(Kept(Append(t, x), S))) : Left(m, Append(t, x), rest)
    BY <2>1
  <2> DEFINE kept == Kept(t, E \ S)
             later == <<x>> \o rest
  <2>3. later \in Seq(E) /\ d.edges = t \o later
    BY <2>2
  <2>4. PICK m \in Applied(d, Cuts(Kept(t, S))) : Left(m, t, later)
    BY <1>2, <2>3
  <2> HIDE DEF P
  <2>5. kept \in Seq(E) /\ ToSet(kept) = ToSet(t) \cap (E \ S) /\ Kept(t, S) \in Seq(E)
    BY KeptIs
  <2>6. CASE x \notin S
    <3>1. Kept(Append(t, x), S) = Kept(t, S)
      BY <2>6, KeptGrows
    <3>2. x \in E \ S
      BY <2>6
    <3>3. Kept(Append(t, x), E \ S) = Append(kept, x)
      BY <3>2, KeptGrows
    <3>4. Append(kept, x) \o rest = kept \o later
      BY <2>5
    <3> QED
      BY <2>4, <3>1, <3>3, <3>4
  <2>7. CASE x \in S
    <3> DEFINE g == Kept(t, S)
               op == RemoveEdge([x EXCEPT !.condition = AnyCondition])
               r == Changed(m, op)
               k == Len(kept)
    <3>1. Kept(Append(t, x), S) = Append(g, x)
      BY <2>7, KeptGrows
    <3>2. x \notin E \ S
      BY <2>7
    <3>3. Kept(Append(t, x), E \ S) = kept
      BY <3>2, KeptGrows
    <3>4. x = Edge(x.from, x.to, x.condition)
      BY <1>0 DEF IsEdge
    <3>5. /\ op.type = "remove_edge" /\ op.edge.from = x.from /\ op.edge.to = x.to
          /\ op.edge.condition = AnyCondition
      BY <3>4 DEF RemoveEdge, Edge
    <3>6. /\ Cuts(Append(g, x)) = Append(Cuts(g), op)
          /\ Cuts(g) \in Seq({RemoveEdge([n EXCEPT !.condition = AnyCondition]) : n \in E})
      <4>1. g \in Seq(E)
        BY <2>5
      <4> HIDE DEF g
      <4>2. Cuts(Append(g, x)) = Append(Cuts(g), op)
        BY <4>1, OneOperation
      <4>3. Cuts(g) \in Seq({RemoveEdge([n EXCEPT !.condition = AnyCondition]) : n \in E})
        BY <4>1, OperationsAre
      <4> QED
        BY <4>2, <4>3
    <3>7. op \in {RemoveEdge([n EXCEPT !.condition = AnyCondition]) : n \in E}
      OBVIOUS
    <3> HIDE DEF op
    <3>8. /\ Len(m.edges) = k + 1 + Len(rest) /\ k \in Nat /\ Len(rest) \in Nat
          /\ \A j \in 1..k : m.edges[j] = kept[j]
          /\ m.edges[k + 1] = x
          /\ \A j \in 1..Len(rest) : m.edges[k + 1 + j] = rest[j]
          /\ m.edges \in Seq(E)
      <4>1. m.edges = kept \o later
        BY <2>4
      <4>2. Len(later) = 1 + Len(rest) /\ later[1] = x
            /\ \A j \in 1..Len(rest) : later[1 + j] = rest[j]
        OBVIOUS
      <4> HIDE DEF later, kept
      <4>3. /\ m.edges \in Seq(E) /\ Len(m.edges) = k + Len(later)
            /\ \A j \in 1..k : m.edges[j] = kept[j]
            /\ \A j \in 1..Len(later) : m.edges[k + j] = later[j]
        BY <2>3, <2>5, <4>1
      <4>4. k \in Nat /\ Len(rest) \in Nat
        BY <2>5
      <4> HIDE DEF k
      <4>5. m.edges[k + 1] = x /\ Len(m.edges) = k + 1 + Len(rest)
        BY <4>2, <4>3, <4>4
      <4>6. ASSUME NEW j \in 1..Len(rest) PROVE m.edges[k + 1 + j] = rest[j]
        <5>1. 1 + j \in 1..Len(later) /\ k + (1 + j) = k + 1 + j
          BY <4>2, <4>4
        <5>2. m.edges[k + (1 + j)] = later[1 + j]
          BY <4>3, <5>1
        <5> QED
          BY <4>2, <5>1, <5>2
      <4> QED
        BY <4>3, <4>4, <4>5, <4>6
    <3>9. \A j \in 1..k : ~Asked(op.edge, m.edges[j])
      <4>1. ASSUME NEW j \in 1..k PROVE ~(kept[j].from = x.from /\ kept[j].to = x.to)
        <5>1. kept[j] \in ToSet(kept)
          <6> HIDE DEF kept
          <6> QED
            BY <2>5 DEF ToSet
        <5>2. kept[j] \in E \ S
          BY <2>5, <5>1
        <5> QED
          BY <2>7, <5>2 DEF E
      <4> QED
        BY <3>5, <3>8, <4>1 DEF Asked
    <3>10. Asked(op.edge, m.edges[k + 1])
      BY <3>5, <3>8 DEF Asked
    <3> HIDE DEF kept, k, later
    <3>11. EdgeNamed(m, op.edge) = k + 1
      <4>1. k + 1 \in 1..Len(m.edges) /\ (k + 1) - 1 = k
        BY <3>8
      <4> QED
        BY <2>4, <3>9, <3>10, <4>1, EdgeNamedIs
    <3>12. Applicable(m, op)
      BY <3>5, <3>8, <3>11 DEF Applicable
    <3>13. m = [nodes |-> m.nodes, edges |-> m.edges]
      BY <2>4 DEF Listed
    <3>14. r = [m EXCEPT !.edges = RemoveAt(m.edges, k + 1)]
      BY <3>5, <3>11 DEF Changed
    <3>15. Listed(r)
      BY <2>4, <3>5, <3>12, ChangedIsListed
    <3>16. r \in Applied(d, Append(Cuts(g), op))
      <4>1. OneMore(d, Cuts(g), op, r)
        BY <2>4, <3>12 DEF OneMore
      <4> HIDE DEF r, g
      <4> QED
        BY <3>6, <3>7, <4>1, AppliedGrows
    <3> HIDE DEF r
    <3>17. r.nodes = m.nodes /\ r.edges = RemoveAt(m.edges, k + 1)
      BY <3>13, <3>14
    <3>18. RemoveAt(m.edges, k + 1) = kept \o rest
      <4>1. SubSeq(m.edges, 1, (k + 1) - 1) = kept
        BY <2>5, <3>8 DEF k
      <4>2. SubSeq(m.edges, (k + 1) + 1, Len(m.edges)) = rest
        BY <3>8
      <4> QED
        BY <4>1, <4>2 DEF RemoveAt
    <3>19. Left(r, Append(t, x), rest)
      BY <2>4, <3>3, <3>15, <3>17, <3>18
    <3> QED
      BY <3>1, <3>6, <3>16, <3>19
  <2> QED
    BY <2>6, <2>7
<1> HIDE DEF P
<1>3. d.edges \in P
  BY <1>0, <1>1, <1>2, SequencesGrow
<1>4. <<>> \in Seq(E) /\ d.edges = d.edges \o <<>> /\ Kept(d.edges, E \ S) \o <<>> = Kept(d.edges, E \ S)
  BY <1>0, KeptIs
<1>5. \E m \in Applied(d, Cuts(Kept(d.edges, S))) : Left(m, d.edges, <<>>)
  BY <1>3, <1>4 DEF P
<1> QED
  BY <1>4, <1>5 DEF E

(* Edges laid. *)
LEMMA LaysLand ==
  ASSUME NEW d, Listed(d), NEW T, NEW g \in Seq(T), \A x \in T : IsEdge(x)
  PROVE  \E m \in Applied(d, Lays(g)) :
           Listed(m) /\ m.nodes = d.nodes /\ m.edges = d.edges \o g
<1> DEFINE Longer(m, t) == Listed(m) /\ m.nodes = d.nodes /\ m.edges = d.edges \o t
           P == {t \in Seq(T) : \E m \in Applied(d, Lays(t)) : Longer(m, t)}
           M == ToSet(d.edges) \cup T
<1>0. d.edges \in Seq(M) /\ T \subseteq M /\ \A t \in Seq(T) : t \in Seq(M)
  BY DEF Listed
<1> HIDE DEF M
<1>1. <<>> \in P
  <2>1. Applied(d, Lays(<<>>)) = {d}
    BY NoOperations, AppliedOfNone
  <2>2. d.edges \o <<>> = d.edges /\ <<>> \in Seq(T)
    BY <1>0
  <2> QED
    BY <2>1, <2>2
<1>2. ASSUME NEW t \in Seq(T), NEW x \in T, t \in P PROVE Append(t, x) \in P
  <2>1. PICK m \in Applied(d, Lays(t)) : Longer(m, t)
    BY <1>2
  <2> HIDE DEF P
  <2> DEFINE op == AddEdge(x)
             r == Changed(m, op)
  <2>2. op.type = "add_edge" /\ op.edge = x
    BY DEF AddEdge
  <2>3. Lays(Append(t, x)) = Append(Lays(t), op)
    BY OneOperation
  <2>4. Lays(t) \in Seq({AddEdge(n) : n \in T}) /\ op \in {AddEdge(n) : n \in T}
    BY OperationsAre
  <2> HIDE DEF op
  <2>5. Applicable(m, op)
    BY <2>2 DEF Applicable
  <2>6. m = [nodes |-> m.nodes, edges |-> m.edges]
    BY <2>1 DEF Listed
  <2>7. r = [m EXCEPT !.edges = Append(m.edges, x)]
    BY <2>2 DEF Changed
  <2>8. Listed(r)
    BY <2>1, <2>2, <2>5, ChangedIsListed
  <2>9. r \in Applied(d, Append(Lays(t), op))
    <3>1. OneMore(d, Lays(t), op, r)
      BY <2>5 DEF OneMore
    <3> HIDE DEF r
    <3> QED
      BY <2>4, <3>1, AppliedGrows
  <2> HIDE DEF r
  <2>10. r.nodes = m.nodes /\ r.edges = Append(m.edges, x)
    BY <2>6, <2>7
  <2>11. Append(d.edges \o t, x) = d.edges \o Append(t, x)
    <3>1. t \in Seq(M) /\ x \in M
      BY <1>0
    <3>2. PICK u \in Seq(M) : u = d.edges
      BY <1>0
    <3>3. Append(u \o t, x) = u \o Append(t, x)
      BY <3>1, SMTT(60)
    <3> QED
      BY <3>2, <3>3
  <2>12. Append(t, x) \in Seq(T)
    BY AppendIs
  <2>13. Longer(r, Append(t, x))
    BY <2>1, <2>8, <2>10, <2>11
  <2> QED
    BY <2>3, <2>9, <2>12, <2>13 DEF P
<1> HIDE DEF P
<1>3. g \in P
  BY <1>1, <1>2, SequencesGrow
<1> QED
  BY <1>3 DEF P

-----------------------------------------------------------------------------
(* The diff of two documents, part by part. *)

Gone(d, e)  == Kept(d.nodes, {n \in ToSet(d.nodes) : Leaves(d, e, n.id)})
Come(d, e)  == Kept(e.nodes, {n \in ToSet(e.nodes) : Leaves(e, d, n.id)})
Moving(d, e) == Kept(e.nodes, {n \in ToSet(e.nodes) : Moves(d, e, n.id)})
Apart(d, e) == {x \in ToSet(d.edges) : Differs(d, e, x)}
Laid(d, e)  == {x \in ToSet(e.edges) : Differs(d, e, x)}

LEMMA DiffIs ==
  ASSUME NEW d, NEW e
  PROVE  DiffGraphs(d, e) =
           Removes(Gone(d, e)) \o Adds(Come(d, e)) \o Changes(Moving(d, e))
             \o Cuts(Kept(d.edges, Apart(d, e))) \o Lays(Kept(e.edges, Laid(d, e)))
BY Zenon DEF DiffGraphs, Removes, Adds, Changes, Cuts, Lays, Gone, Come, Moving, Apart, Laid

(* Of a document that may be written, an id is one node's. *)
LEMMA IdsAreUnique ==
  ASSUME NEW d, Good(d)
  PROVE  /\ Unique(d.nodes)
         /\ \A n, k \in ToSet(d.nodes) : n.id = k.id => n = k
         /\ \A n \in ToSet(d.nodes) : IsNode(n) /\ n.id \in Ids(d) /\ NodeOf(d, n.id) = n
<1>1. Unique(d.nodes) /\ \A n \in ToSet(d.nodes) : IsNode(n) /\ n.id \in Ids(d)
  BY DEF Good, Valid, WellFormed, Unique, Listed, Ids
<1>2. ASSUME NEW n \in ToSet(d.nodes), NEW k \in ToSet(d.nodes), n.id = k.id PROVE n = k
  <2>1. PICK i \in DOMAIN d.nodes : n = d.nodes[i]
    BY DEF ToSet
  <2>2. PICK j \in DOMAIN d.nodes : k = d.nodes[j]
    BY DEF ToSet
  <2> QED
    BY <1>1, <1>2, <2>1, <2>2 DEF Unique
<1>3. ASSUME NEW n \in ToSet(d.nodes) PROVE NodeOf(d, n.id) = n
  <2>1. NodeOf(d, n.id) \in ToSet(d.nodes) /\ NodeOf(d, n.id).id = n.id
    BY <1>1, NodeOfIs
  <2> QED
    BY <1>2, <2>1
<1> QED
  BY <1>1, <1>2, <1>3

(* Two nodes of one id, one type and one pin are one. *)
LEMMA SameNode ==
  ASSUME NEW n, NEW k, IsNode(n), IsNode(k),
         n.id = k.id, n.node_type = k.node_type, n.skill_ref = k.skill_ref
  PROVE  n = k
BY DEF IsNode, Node

(* What becomes of a node of both documents, or of one. *)
LEMMA NodesMeet ==
  ASSUME NEW d, NEW e, Good(d), Good(e)
  PROVE  \A id :
           /\ Leaves(d, e, id) /\ id \in Ids(e) => Leaves(e, d, id)
           /\ Leaves(e, d, id) /\ id \in Ids(d) => Leaves(d, e, id)
           /\ Moves(d, e, id) => ~Leaves(e, d, id) /\ (id \in Ids(e) => ~Leaves(d, e, id))
BY DEF Leaves, Swapped, Moves

\* m has the edges of d that stay, then those of e that are laid.
Joins(d, e, m) ==
  m.edges = Kept(d.edges, ToSet(d.edges) \ Apart(d, e)) \o Kept(e.edges, Laid(d, e))

(* Between two ends, the edges kept of one document and those laid from the
   other are the other's. *)
LEMMA EdgesMeet ==
  ASSUME NEW d, NEW e, NEW m, Listed(d), Listed(e), Listed(m), NEW from, NEW to,
         Joins(d, e, m)
  PROVE  Between(m, from, to) = Between(e, from, to)
<1> DEFINE D == ToSet(d.edges)
           E == ToSet(e.edges)
           U == D \cup E
           Q == {x \in U : x.from = from /\ x.to = to}
           A == Kept(d.edges, D \ Apart(d, e))
           B == Kept(e.edges, Laid(d, e))
           between(g) == {x \in ToSet(g.edges) : x.from = from /\ x.to = to}
<1>1. d.edges \in Seq(D) /\ e.edges \in Seq(E) /\ d.edges \in Seq(U) /\ e.edges \in Seq(U)
  BY DEF Listed
<1>2. \A g : Between(g, from, to) = Kept(g.edges, between(g))
  BY DEF Between
<1>3. \A x : Differs(d, e, x) <=> Between(d, x.from, x.to) # Between(e, x.from, x.to)
  BY DEF Differs
<1>4. /\ \A x \in D : x \in D \ Apart(d, e) <=> ~Differs(d, e, x)
      /\ \A x \in E : x \in Laid(d, e) <=> Differs(d, e, x)
  BY DEF Apart, Laid
<1>5. /\ \A x \in D : x \in Q <=> x \in between(d)
      /\ \A x \in E : x \in Q <=> x \in between(e)
      /\ \A x \in U : x \in Q <=> x.from = from /\ x.to = to
  OBVIOUS
<1>6. m.edges \in Seq(U) /\ A \in Seq(U) /\ B \in Seq(U) /\ m.edges = A \o B
  <2> HIDE DEF U
  <2>1. A \in Seq(U) /\ B \in Seq(U)
    BY <1>1, KeptIs
  <2> HIDE DEF A, B
  <2> QED
    BY <2>1 DEF A, B, Joins
<1>7. Between(m, from, to) = Kept(m.edges, Q)
  <2>1. m.edges \in Seq(ToSet(m.edges)) /\ ToSet(m.edges) \subseteq U
    <3> HIDE DEF U
    <3> QED
      BY <1>6, ItsElements
  <2>2. \A x \in ToSet(m.edges) : x \in between(m) <=> x \in Q
    BY <2>1
  <2>3. ASSUME NEW T, NEW s \in Seq(T), NEW R, \A x \in T : x \in R <=> x \in Q
        PROVE  Kept(s, R) = Kept(s, Q)
    <3> HIDE DEF Q
    <3> QED
      BY <2>3, KeptSame
  <2> HIDE DEF Q, between, A, B, U
  <2>4. Kept(m.edges, between(m)) = Kept(m.edges, Q)
    BY <2>1, <2>2, <2>3
  <2> QED
    BY <1>2, <2>4
<1>8. Kept(m.edges, Q) = Kept(A, Q) \o Kept(B, Q)
  <2> HIDE DEF A, B, Q, U
  <2>1. A \in Seq(U) /\ B \in Seq(U)
    BY <1>6
  <2>2. Kept(A \o B, Q) = Kept(A, Q) \o Kept(B, Q)
    BY <2>1, KeptOfBoth
  <2> QED
    BY <1>6, <2>2
<1> DEFINE left == (D \ Apart(d, e)) \cap Q
           new == Laid(d, e) \cap Q
<1>9. Kept(A, Q) = Kept(d.edges, left) /\ Kept(B, Q) = Kept(e.edges, new)
  <2> HIDE DEF Q, D, E, U
  <2> QED
    BY <1>1, KeptTwice
<1>10. CASE Between(d, from, to) = Between(e, from, to)
  <2>1. \A x \in D : x \in left <=> x \in between(d)
    BY <1>3, <1>4, <1>5, <1>10
  <2>2. \A x \in E : x \notin new
    BY <1>3, <1>4, <1>5, <1>10
  <2> HIDE DEF left, new, D, E, between
  <2>3. Kept(d.edges, left) = Between(d, from, to)
    BY <1>1, <1>2, <2>1, KeptSame
  <2>4. Kept(e.edges, new) = <<>>
    BY <1>1, <2>2, KeptNone
  <2>5. Between(d, from, to) \in Seq(D)
    BY <1>1, <1>2, KeptIs
  <2>6. Between(d, from, to) \o <<>> = Between(d, from, to)
    BY <2>5
  <2> QED
    BY <1>7, <1>8, <1>9, <1>10, <2>3, <2>4, <2>6
<1>11. CASE Between(d, from, to) # Between(e, from, to)
  <2>1. \A x \in D : x \notin left
    BY <1>3, <1>4, <1>5, <1>11
  <2>2. \A x \in E : x \in new <=> x \in between(e)
    BY <1>3, <1>4, <1>5, <1>11
  <2> HIDE DEF left, new, D, E, between
  <2>3. Kept(d.edges, left) = <<>>
    BY <1>1, <2>1, KeptNone
  <2>4. Kept(e.edges, new) = Between(e, from, to)
    BY <1>1, <1>2, <2>2, KeptSame
  <2>5. Between(e, from, to) \in Seq(E)
    BY <1>1, <1>2, KeptIs
  <2>6. <<>> \o Between(e, from, to) = Between(e, from, to)
    BY <2>5
  <2> QED
    BY <1>7, <1>8, <1>9, <2>3, <2>4, <2>6
<1> QED
  BY <1>10, <1>11

(* The nodes taken away and those added. *)
LEMMA NodesChange ==
  ASSUME NEW d, NEW e, Good(d), Good(e)
  PROVE  \E m \in Applied(d, Removes(Gone(d, e))) : \E r \in Applied(m, Adds(Come(d, e))) :
           /\ Listed(m) /\ Listed(r) /\ r.edges = d.edges
           /\ ToSet(r.nodes) = {n \in ToSet(d.nodes) : ~Leaves(d, e, n.id)}
                                 \cup {n \in ToSet(e.nodes) : Leaves(e, d, n.id)}
<1> DEFINE D == ToSet(d.nodes)
           E == ToSet(e.nodes)
           gone == Gone(d, e)
           come == Come(d, e)
           stay == {n \in D : ~Leaves(d, e, n.id)}
           new  == {n \in E : Leaves(e, d, n.id)}
<1>1. /\ Listed(d) /\ Listed(e) /\ d.nodes \in Seq(D) /\ e.nodes \in Seq(E)
      /\ Unique(d.nodes) /\ Unique(e.nodes)
      /\ \A n \in E : IsNode(n) /\ n.id \in Ids(e)
      /\ \A n \in D : n.id \in Ids(d)
  BY IdsAreUnique DEF Good, Listed
<1>2. gone \in Seq(D) /\ ToSet(gone) = {n \in D : Leaves(d, e, n.id)} /\ Unique(gone)
  <2> DEFINE L == {n \in D : Leaves(d, e, n.id)}
  <2>1. gone = Kept(d.nodes, L)
    BY DEF Gone
  <2>2. L \subseteq D
    OBVIOUS
  <2> HIDE DEF L, gone
  <2>3. gone \in Seq(D) /\ ToSet(gone) = D \cap L /\ Unique(gone)
    BY <1>1, <2>1, KeptIs, KeptIsUnique
  <2> QED
    BY <2>2, <2>3 DEF L
<1>3. come \in Seq(E) /\ ToSet(come) = new /\ Unique(come)
  <2>1. come = Kept(e.nodes, new)
    BY DEF Come
  <2>2. new \subseteq E
    OBVIOUS
  <2> HIDE DEF new, come
  <2>3. come \in Seq(E) /\ ToSet(come) = E \cap new /\ Unique(come)
    BY <1>1, <2>1, KeptIs, KeptIsUnique
  <2> QED
    BY <2>2, <2>3
<1> HIDE DEF gone, come
<1>4. PICK m \in Applied(d, Removes(gone)) :
        /\ Listed(m) /\ m.edges = d.edges
        /\ ToSet(m.nodes) = {n \in D : \A k \in ToSet(gone) : k.id # n.id}
  <2>1. gone \in Seq(ToSet(d.nodes)) /\ Unique(gone) /\ Listed(d)
    BY <1>1, <1>2
  <2> HIDE DEF D, E, stay, new
  <2>2. \E m \in Applied(d, Removes(gone)) :
          /\ Listed(m) /\ m.edges = d.edges
          /\ ToSet(m.nodes) = {n \in ToSet(d.nodes) : \A k \in ToSet(gone) : k.id # n.id}
    BY <2>1, RemovesLand
  <2> QED
    BY <2>2 DEF D
<1>5. ToSet(m.nodes) = stay
  BY <1>2, <1>4
<1>6. \A n \in ToSet(come) : n.id \notin Ids(m)
  <2>1. ASSUME NEW n \in ToSet(come), NEW k \in ToSet(m.nodes), n.id = k.id PROVE FALSE
    <3>1. Leaves(e, d, n.id) /\ n.id \in Ids(d) /\ ~Leaves(d, e, n.id)
      BY <1>1, <1>3, <1>5, <2>1
    <3> QED
      BY <3>1, NodesMeet
  <2> QED
    BY <2>1 DEF Ids
<1>7. PICK r \in Applied(m, Adds(come)) :
        Listed(r) /\ r.edges = m.edges /\ ToSet(r.nodes) = ToSet(m.nodes) \cup ToSet(come)
  BY <1>1, <1>3, <1>4, <1>6, AddsLand
<1> QED
  BY <1>3, <1>4, <1>5, <1>7 DEF gone, come

(* Then the pins: the nodes are the other document's. *)
LEMMA PinsChange ==
  ASSUME NEW d, NEW e, Good(d), Good(e), NEW m, Listed(m), m.edges = d.edges,
         ToSet(m.nodes) = {n \in ToSet(d.nodes) : ~Leaves(d, e, n.id)}
                            \cup {n \in ToSet(e.nodes) : Leaves(e, d, n.id)}
  PROVE  \E r \in Applied(m, Changes(Moving(d, e))) :
           Listed(r) /\ r.edges = d.edges /\ ToSet(r.nodes) = ToSet(e.nodes)
<1> DEFINE D == ToSet(d.nodes)
           E == ToSet(e.nodes)
           M == ToSet(m.nodes)
           moving == Moving(d, e)
           pins == {n \in E : Moves(d, e, n.id)}
<1>1. /\ e.nodes \in Seq(E) /\ Unique(e.nodes)
      /\ \A n, k \in D : n.id = k.id => n = k
      /\ \A n, k \in E : n.id = k.id => n = k
      /\ \A n \in D : IsNode(n) /\ n.id \in Ids(d) /\ NodeOf(d, n.id) = n
      /\ \A n \in E : IsNode(n) /\ n.id \in Ids(e) /\ NodeOf(e, n.id) = n
      /\ \A id \in Ids(d) : NodeOf(d, id) \in D /\ NodeOf(d, id).id = id
      /\ \A id \in Ids(e) : NodeOf(e, id) \in E /\ NodeOf(e, id).id = id
  BY IdsAreUnique, NodeOfIs DEF Good, Listed
<1>2. moving \in Seq(E) /\ ToSet(moving) = pins /\ Unique(moving)
  <2>1. moving = Kept(e.nodes, pins)
    BY DEF Moving
  <2>2. pins \subseteq E
    OBVIOUS
  <2> HIDE DEF pins, moving
  <2>3. moving \in Seq(E) /\ ToSet(moving) = E \cap pins /\ Unique(moving)
    BY <1>1, <2>1, KeptIs, KeptIsUnique
  <2> QED
    BY <2>2, <2>3
<1> HIDE DEF moving
<1>3. \A n \in M : \/ n \in D /\ ~Leaves(d, e, n.id)
                   \/ n \in E /\ Leaves(e, d, n.id)
  OBVIOUS
<1>4. /\ \A n \in D : ~Leaves(d, e, n.id) => n \in M
      /\ \A n \in E : Leaves(e, d, n.id) => n \in M
  OBVIOUS
<1> HIDE DEF M
<1>5. ASSUME NEW n \in M, NEW k \in M, n.id = k.id PROVE n = k
  <2>1. CASE n \in D /\ k \in D
    BY <1>1, <1>5, <2>1
  <2>2. CASE n \in E /\ k \in E
    BY <1>1, <1>5, <2>2
  <2>3. ASSUME NEW a \in D, NEW b \in E, ~Leaves(d, e, a.id), Leaves(e, d, b.id), a.id = b.id
        PROVE  FALSE
    <3>1. a.id \in Ids(d)
      BY <1>1
    <3> QED
      BY <2>3, <3>1, NodesMeet
  <2> QED
    BY <1>3, <1>5, <2>1, <2>2, <2>3
\* The node a pin moves for is there, and of its type.
<1>6. ASSUME NEW k \in pins PROVE \E n \in M : n.id = k.id /\ n.node_type = k.node_type
  <2> DEFINE n == NodeOf(d, k.id)
  <2>1. k \in E /\ k.id \in Ids(d) /\ k.id \in Ids(e) /\ ~Swapped(d, e, k.id)
    BY <1>1 DEF Moves
  <2>2. n \in D /\ n.id = k.id /\ NodeOf(e, k.id) = k
    BY <1>1, <2>1
  <2>3. n.node_type = k.node_type
    BY <2>1, <2>2 DEF Swapped
  <2>4. ~Leaves(d, e, k.id)
    BY <2>1 DEF Leaves
  <2> HIDE DEF n
  <2> QED
    BY <1>4, <2>2, <2>3, <2>4
<1>7. PICK r \in Applied(m, Changes(moving)) :
        /\ Listed(r) /\ r.edges = m.edges
        /\ ToSet(r.nodes) = {n \in M : \A k \in ToSet(moving) : k.id # n.id} \cup ToSet(moving)
  <2>1. \A k \in ToSet(moving) : \E n \in M : n.id = k.id /\ n.node_type = k.node_type
    BY <1>2, <1>6
  <2> QED
    BY <1>1, <1>2, <1>5, <2>1, ChangesLand DEF M
\* A node of both documents, of one type and one pin, is one node.
<1>8. ASSUME NEW n \in D, NEW k \in E, n.id = k.id, ~Leaves(d, e, n.id), ~Moves(d, e, n.id)
      PROVE  n = k
  <2>1. n.id \in Ids(d) /\ n.id \in Ids(e) /\ NodeOf(d, n.id) = n /\ NodeOf(e, n.id) = k
    BY <1>1, <1>8
  <2>2. ~Swapped(d, e, n.id)
    BY <1>8 DEF Leaves
  <2>3. n.node_type = k.node_type
    BY <2>1, <2>2 DEF Swapped
  <2>4. n.skill_ref = k.skill_ref
    BY <1>8, <2>1, <2>2 DEF Moves
  <2> QED
    BY <1>1, <1>8, <2>3, <2>4, SameNode
<1>9. ASSUME NEW n \in M, \A k \in pins : k.id # n.id PROVE n \in E
  <2>1. CASE n \in E
    BY <2>1
  <2>2. CASE n \in D /\ ~Leaves(d, e, n.id)
    <3>1. n.id \in Ids(e)
      BY <2>2 DEF Leaves
    <3>2. PICK k \in E : k.id = n.id
      BY <1>1, <3>1
    <3>3. ~Moves(d, e, n.id)
      BY <1>9, <3>2
    <3> QED
      BY <1>8, <2>2, <3>2, <3>3
  <2> QED
    BY <1>3, <2>1, <2>2
<1>10. ASSUME NEW k \in E, k \notin pins PROVE k \in M /\ \A p \in pins : p.id # k.id
  <2>1. \A p \in pins : p.id # k.id
    BY <1>1, <1>10
  <2>2. k \in M
    <3>1. CASE Leaves(e, d, k.id)
      BY <1>4, <3>1
    <3>2. CASE ~Leaves(e, d, k.id)
      <4>1. k.id \in Ids(d) /\ k.id \in Ids(e)
        BY <1>1, <3>2 DEF Leaves
      <4>2. PICK n \in D : n.id = k.id
        BY <1>1, <4>1
      <4>3. ~Leaves(d, e, n.id)
        BY <3>2, <4>1, <4>2, NodesMeet
      <4>4. ~Moves(d, e, n.id)
        BY <1>10, <4>2
      <4> QED
        BY <1>4, <1>8, <4>2, <4>3, <4>4
    <3> QED
      BY <3>1, <3>2
  <2> QED
    BY <2>1, <2>2
<1>11. {n \in M : \A k \in pins : k.id # n.id} \cup pins = E
  BY <1>9, <1>10
<1> QED
  BY <1>2, <1>7, <1>11 DEF moving

LEMMA PartsAreListed ==
  ASSUME NEW d, NEW e, Listed(d), Listed(e)
  PROVE  \E T : /\ Removes(Gone(d, e)) \in Seq(T) /\ Adds(Come(d, e)) \in Seq(T)
                /\ Changes(Moving(d, e)) \in Seq(T)
                /\ Cuts(Kept(d.edges, Apart(d, e))) \in Seq(T)
                /\ Lays(Kept(e.edges, Laid(d, e))) \in Seq(T)
<1> DEFINE A == {RemoveNode(n.id) : n \in ToSet(d.nodes)}
           B == {AddNode(n) : n \in ToSet(e.nodes)}
           C == {ChangeSkill(n.id, n.skill_ref) : n \in ToSet(e.nodes)}
           D == {RemoveEdge([n EXCEPT !.condition = AnyCondition]) : n \in ToSet(d.edges)}
           E == {AddEdge(n) : n \in ToSet(e.edges)}
           T == A \cup B \cup C \cup D \cup E
<1>1. /\ d.nodes \in Seq(ToSet(d.nodes)) /\ e.nodes \in Seq(ToSet(e.nodes))
      /\ d.edges \in Seq(ToSet(d.edges)) /\ e.edges \in Seq(ToSet(e.edges))
  BY DEF Listed
<1>2. Removes(Gone(d, e)) \in Seq(A)
  <2>1. Gone(d, e) \in Seq(ToSet(d.nodes))
    BY <1>1, KeptIs DEF Gone
  <2> QED
    BY <2>1, OperationsAre
<1>3. Adds(Come(d, e)) \in Seq(B)
  <2>1. Come(d, e) \in Seq(ToSet(e.nodes))
    BY <1>1, KeptIs DEF Come
  <2> QED
    BY <2>1, OperationsAre
<1>4. Changes(Moving(d, e)) \in Seq(C)
  <2>1. Moving(d, e) \in Seq(ToSet(e.nodes))
    BY <1>1, KeptIs DEF Moving
  <2> QED
    BY <2>1, OperationsAre
<1>5. Cuts(Kept(d.edges, Apart(d, e))) \in Seq(D)
  <2>1. PICK g \in Seq(ToSet(d.edges)) : g = Kept(d.edges, Apart(d, e))
    BY <1>1, KeptIs
  <2>2. Cuts(g) \in Seq(D)
    BY OperationsAre
  <2> QED
    BY <2>1, <2>2
<1>6. Lays(Kept(e.edges, Laid(d, e))) \in Seq(E)
  <2>1. PICK g \in Seq(ToSet(e.edges)) : g = Kept(e.edges, Laid(d, e))
    BY <1>1, KeptIs
  <2>2. Lays(g) \in Seq(E)
    BY OperationsAre
  <2> QED
    BY <2>1, <2>2
<1>7. \A X \in SUBSET T : Seq(X) \subseteq Seq(T)
  <2> HIDE DEF T
  <2> QED
    OBVIOUS
<1>8. A \in SUBSET T /\ B \in SUBSET T /\ C \in SUBSET T /\ D \in SUBSET T /\ E \in SUBSET T
  <2> HIDE DEF A, B, C, D, E
  <2> QED
    OBVIOUS
<1> HIDE DEF A, B, C, D, E, T
<1> QED
  BY <1>2, <1>3, <1>4, <1>5, <1>6, <1>7, <1>8

(* The diff of two documents that may be written applies to the first and makes
   the second of it. *)
LEMMA DiffDoes ==
  ASSUME NEW d, NEW e, Good(d), Good(e)
  PROVE  \E m \in Applied(d, DiffGraphs(d, e)) : Agree(m, e)
<1> DEFINE removes == Removes(Gone(d, e))
           adds == Adds(Come(d, e))
           changes == Changes(Moving(d, e))
           cuts == Cuts(Kept(d.edges, Apart(d, e)))
           lays == Lays(Kept(e.edges, Laid(d, e)))
<1>0. Listed(d) /\ Listed(e)
  BY DEF Good
<1>1. PICK a \in Applied(d, removes) : \E r \in Applied(a, adds) :
        /\ Listed(a) /\ Listed(r) /\ r.edges = d.edges
        /\ ToSet(r.nodes) = {n \in ToSet(d.nodes) : ~Leaves(d, e, n.id)}
                              \cup {n \in ToSet(e.nodes) : Leaves(e, d, n.id)}
  BY NodesChange
<1>2. PICK b \in Applied(a, adds) :
        /\ Listed(b) /\ b.edges = d.edges
        /\ ToSet(b.nodes) = {n \in ToSet(d.nodes) : ~Leaves(d, e, n.id)}
                              \cup {n \in ToSet(e.nodes) : Leaves(e, d, n.id)}
  BY <1>1
<1>3. PICK c \in Applied(b, changes) :
        Listed(c) /\ c.edges = d.edges /\ ToSet(c.nodes) = ToSet(e.nodes)
  BY <1>2, PinsChange
<1>4. PICK f \in Applied(c, cuts) :
        /\ Listed(f) /\ f.nodes = c.nodes
        /\ f.edges = Kept(d.edges, ToSet(d.edges) \ Apart(d, e))
  <2> DEFINE S == Apart(d, e)
  <2>1. S \subseteq ToSet(c.edges)
    BY <1>3 DEF Apart
  <2>2. \A x \in S : \A y \in ToSet(c.edges) : x.from = y.from /\ x.to = y.to => y \in S
    BY <1>3 DEF Apart, Differs
  <2>3. cuts = Cuts(Kept(c.edges, S))
    BY <1>3
  <2> HIDE DEF S, cuts
  <2>4. \E f \in Applied(c, cuts) :
          /\ Listed(f) /\ f.nodes = c.nodes
          /\ f.edges = Kept(c.edges, ToSet(c.edges) \ S)
    BY <1>3, <2>1, <2>2, <2>3, CutsLand
  <2> QED
    BY <1>3, <2>4 DEF S
<1>5. PICK m \in Applied(f, lays) :
        /\ Listed(m) /\ m.nodes = f.nodes /\ m.edges = f.edges \o Kept(e.edges, Laid(d, e))
  <2> DEFINE g == Kept(e.edges, Laid(d, e))
             T == ToSet(e.edges)
  <2>1. e.edges \in Seq(T) /\ \A x \in T : IsEdge(x)
    BY <1>0 DEF Listed
  <2> HIDE DEF T
  <2>2. g \in Seq(T) /\ lays = Lays(g)
    BY <2>1, KeptIs
  <2> HIDE DEF g, lays
  <2>3. \E m \in Applied(f, lays) : Listed(m) /\ m.nodes = f.nodes /\ m.edges = f.edges \o g
    BY <1>4, <2>1, <2>2, LaysLand
  <2> QED
    BY <2>3 DEF g
<1>6. ToSet(m.nodes) = ToSet(e.nodes)
  BY <1>3, <1>4, <1>5
<1>7. \A from, to : Between(m, from, to) = Between(e, from, to)
  <2>1. Joins(d, e, m)
    BY <1>4, <1>5 DEF Joins
  <2>2. Listed(m)
    BY <1>5
  <2> QED
    BY <1>0, <2>1, <2>2, EdgesMeet
<1>8. Agree(m, e)
  BY <1>6, <1>7 DEF Agree
<1>9. m \in Applied(d, removes \o adds \o changes \o cuts \o lays)
  <2>1. PICK T : /\ removes \in Seq(T) /\ adds \in Seq(T) /\ changes \in Seq(T)
                 /\ cuts \in Seq(T) /\ lays \in Seq(T)
    BY <1>0, PartsAreListed
  <2> HIDE DEF removes, adds, changes, cuts, lays
  <2>2. b \in Applied(d, removes \o adds) /\ removes \o adds \in Seq(T)
    BY <1>1, <1>2, <2>1, AppliedBoth
  <2>3. PICK s \in Seq(T) : s = removes \o adds
    BY <2>2
  <2>4. c \in Applied(d, s \o changes) /\ s \o changes \in Seq(T)
    <3>1. b \in Applied(d, s) /\ changes \in Seq(T)
      BY <2>1, <2>2, <2>3
    <3>2. \A r \in Applied(b, changes) : r \in Applied(d, s \o changes)
      BY <3>1, AppliedBoth
    <3> QED
      BY <1>3, <3>1, <3>2
  <2>5. PICK t \in Seq(T) : t = s \o changes
    BY <2>4
  <2>6. f \in Applied(d, t \o cuts) /\ t \o cuts \in Seq(T)
    <3>1. c \in Applied(d, t) /\ cuts \in Seq(T)
      BY <2>1, <2>4, <2>5
    <3>2. \A r \in Applied(c, cuts) : r \in Applied(d, t \o cuts)
      BY <3>1, AppliedBoth
    <3> QED
      BY <1>4, <3>1, <3>2
  <2>7. PICK u \in Seq(T) : u = t \o cuts
    BY <2>6
  <2>8. m \in Applied(d, u \o lays)
    BY <1>5, <2>1, <2>6, <2>7, AppliedBoth
  <2> QED
    BY <2>3, <2>5, <2>7, <2>8
<1>10. DiffGraphs(d, e) = removes \o adds \o changes \o cuts \o lays
  BY DiffIs
<1> QED
  BY <1>8, <1>9, <1>10

-----------------------------------------------------------------------------
(* No hash is the sign for none. *)
NoVersionIsNone == \A type, origin, d : VersionId(type, origin, d) # NoVersion

(* A version is a hash over a document and its lineage block, and every lineage
   that has one has a version in force. *)
Versions ==
  /\ DOMAIN version = Project
  /\ \A p \in Project : \A v \in Known(p) :
       /\ v = VersionId(v.lineage_type, v.origin, v.document)
       /\ DOMAIN version[p][v] = {"graph", "parent", "contracts"}
       /\ version[p][v].graph \in Lineage
       /\ version[p][v].graph = Base <=> v.lineage_type = "base"
       /\ version[p][v].parent \in Known(p) \cup {NoVersion}
       /\ version[p][v].contracts \in ContractsState
       /\ Born(p, version[p][v].graph)

Pointers ==
  /\ DOMAIN pointer = Project
  /\ \A p \in Project :
       /\ DOMAIN pointer[p] = Lineage
       /\ \A l \in Lineage : Born(p, l) => /\ pointer[p][l] \in Known(p)
                                           /\ version[p][pointer[p][l]].graph = l
                                           /\ Born(p, Base)

(* A proposal changes a version of its lineage, and an applied one wrote one. *)
Fits(row) ==
  /\ DOMAIN row = {"project", "graph", "target", "operations", "keyed", "status",
                   "applied", "reviewed"}
  /\ row.project \in Project /\ row.graph \in Lineage
  /\ row.target \in Known(row.project)
  /\ version[row.project][row.target].graph = row.graph
  /\ row.status \in {"applied", "reverted"} <=> row.applied # NoVersion
  /\ row.applied # NoVersion =>
       /\ row.applied \in Known(row.project)
       /\ version[row.project][row.applied].parent = row.target
       /\ version[row.project][row.applied].graph = row.graph

Proposals ==
  /\ Len(proposal) \in Nat /\ proposal = [k \in 1 .. Len(proposal) |-> proposal[k]]
  /\ \A k \in 1 .. Len(proposal) : Fits(proposal[k])

(* No two proposals wrote one version. *)
OwnVersions ==
  \A k, m \in 1 .. Len(proposal) :
    /\ proposal[k].applied # NoVersion /\ proposal[k].applied = proposal[m].applied
    /\ proposal[k].project = proposal[m].project
    => k = m

(* What is written is kept: the version, its lineage and the one it came from. *)
VersionsStay ==
  \A p \in Project : \A v \in DOMAIN version[p] :
    /\ v \in DOMAIN version'[p]
    /\ version'[p][v].graph = version[p][v].graph
    /\ version'[p][v].parent = version[p][v].parent

Written ==
  /\ registry \in [Project -> SUBSET Skill]
  /\ Versions /\ Pointers /\ Proposals /\ OwnVersions

-----------------------------------------------------------------------------
(* The way back. *)

Parent(id) == version[Default][id].parent

Onto(l, id) == Parent(id) \in Known(Default) /\ version[Default][Parent(id)].graph = l

(* f takes a version of the default project to those its lineage l came through. *)
WayBack(l, f) ==
  f = [id \in Known(Default) |-> {id} \cup IF Onto(l, id) THEN f[Parent(id)] ELSE {}]

AppliedTo(l) ==
  {k \in 1 .. Len(proposal) : /\ proposal[k].project = Default
                              /\ proposal[k].graph = l
                              /\ proposal[k].status = "applied"}

Leads(l, f) ==
  /\ \A id \in Known(Default) : /\ f[id] \subseteq Known(Default) /\ IsFiniteSet(f[id])
                                /\ Onto(l, id) => id \notin f[Parent(id)]
  /\ Born(Default, l) =>
       /\ Cardinality(f[pointer[Default][l]]) = 1 + Cardinality(AppliedTo(l))
       /\ \A k \in AppliedTo(l) : proposal[k].applied \in f[pointer[Default][l]]

(* There is one, it does not go round, and what leads to the version in force is
   the first one and the applied proposals. *)
Traced(l) ==
  /\ \E f : WayBack(l, f)
  /\ \A f : WayBack(l, f) => Leads(l, f)

(* What a version says of its contracts. *)
ContractsAreClassified ==
  \A id \in Known(Default) :
    version[Default][id].contracts = ClassifyContracts(id.document, registry[Default])

-----------------------------------------------------------------------------
(* Rows. *)

LEMMA ProposalsAre ==
  ASSUME Written
  PROVE  /\ Len(proposal) \in Nat /\ DOMAIN proposal = 1 .. Len(proposal)
         /\ \A k \in 1 .. Len(proposal) : Fits(proposal[k])
BY DEF Written, Proposals

LEMMA AVersionIs ==
  ASSUME NEW type, NEW origin, NEW d
  PROVE  /\ VersionId(type, origin, d).lineage_type = type
         /\ VersionId(type, origin, d).origin = origin
         /\ VersionId(type, origin, d).document = d
BY DEF VersionId

LEMMA ARowIs ==
  ASSUME NEW graph, NEW parent, NEW contracts
  PROVE  /\ DOMAIN VersionRow(graph, parent, contracts) = {"graph", "parent", "contracts"}
         /\ VersionRow(graph, parent, contracts).graph = graph
         /\ VersionRow(graph, parent, contracts).parent = parent
         /\ VersionRow(graph, parent, contracts).contracts = contracts
BY DEF VersionRow

LEMMA ClassIs ==
  ASSUME NEW d, NEW known PROVE ClassifyContracts(d, known) \in ContractsState
BY DEF ClassifyContracts, ContractsState

(* insertVersion and movePointer write one version of one project. *)
LEMMA WriteIs ==
  ASSUME Written, NEW p \in Project, NEW l \in Lineage, NEW id, NEW parent, NEW contracts,
         WriteVersion(p, l, id, parent, contracts)
  PROVE  /\ DOMAIN version' = Project /\ DOMAIN pointer' = Project
         /\ DOMAIN version'[p] = DOMAIN version[p] \cup {id}
         /\ version'[p][id] = VersionRow(l, parent, contracts)
         /\ \A v \in DOMAIN version[p] : v # id => version'[p][v] = version[p][v]
         /\ DOMAIN pointer'[p] = Lineage /\ pointer'[p][l] = id
         /\ \A m \in Lineage : m # l => pointer'[p][m] = pointer[p][m]
         /\ \A q \in Project : q # p => version'[q] = version[q] /\ pointer'[q] = pointer[q]
<1>1. /\ DOMAIN version = Project /\ DOMAIN pointer = Project /\ DOMAIN pointer[p] = Lineage
  BY DEF Written, Versions, Pointers
<1> DEFINE rows == [v \in DOMAIN version[p] \cup {id} |->
                      IF v = id THEN VersionRow(l, parent, contracts) ELSE version[p][v]]
<1>2. version' = [version EXCEPT ![p] = rows] /\ pointer' = [pointer EXCEPT ![p][l] = id]
  BY DEF WriteVersion, Known
<1>3. /\ DOMAIN rows = DOMAIN version[p] \cup {id} /\ rows[id] = VersionRow(l, parent, contracts)
      /\ \A v \in DOMAIN version[p] : v # id => rows[v] = version[p][v]
  OBVIOUS
<1> HIDE DEF rows
<1>4. version'[p] = rows /\ \A q \in Project : q # p => version'[q] = version[q]
  BY <1>1, <1>2
<1>5. /\ DOMAIN pointer'[p] = Lineage /\ pointer'[p][l] = id
      /\ \A m \in Lineage : m # l => pointer'[p][m] = pointer[p][m]
      /\ \A q \in Project : q # p => pointer'[q] = pointer[q]
  BY <1>1, <1>2
<1> QED
  BY <1>1, <1>2, <1>3, <1>4, <1>5

(* A version that was not there. *)
LEMMA WriteKeeps ==
  ASSUME Written, NoVersionIsNone, NEW p \in Project, NEW l \in Lineage, NEW id,
         NEW parent \in DOMAIN version[p] \cup {NoVersion}, NEW contracts \in ContractsState,
         WriteVersion(p, l, id, parent, contracts), id \notin DOMAIN version[p],
         id = VersionId(id.lineage_type, id.origin, id.document),
         l = Base <=> id.lineage_type = "base",
         l = Base \/ Born(p, Base)
  PROVE  Versions' /\ Pointers' /\ VersionsStay
<1>1. /\ DOMAIN version' = Project /\ DOMAIN pointer' = Project
      /\ DOMAIN version'[p] = DOMAIN version[p] \cup {id}
      /\ version'[p][id] = VersionRow(l, parent, contracts)
      /\ \A v \in DOMAIN version[p] : v # id => version'[p][v] = version[p][v]
      /\ DOMAIN pointer'[p] = Lineage /\ pointer'[p][l] = id
      /\ \A m \in Lineage : m # l => pointer'[p][m] = pointer[p][m]
      /\ \A q \in Project : q # p => version'[q] = version[q] /\ pointer'[q] = pointer[q]
  BY WriteIs
<1>2. id # NoVersion
  BY DEF NoVersionIsNone
<1>3. /\ DOMAIN version'[p][id] = {"graph", "parent", "contracts"}
      /\ version'[p][id].graph = l /\ version'[p][id].parent = parent
      /\ version'[p][id].contracts = contracts
  BY <1>1, ARowIs
<1>4. VersionsStay
  BY <1>1 DEF VersionsStay
<1>5. ASSUME NEW q \in Project, NEW m \in Lineage, pointer[q][m] # NoVersion
      PROVE  pointer'[q][m] # NoVersion
  BY <1>1, <1>2, <1>5
<1>6. ASSUME NEW q \in Project, NEW v \in DOMAIN version'[q]
      PROVE  /\ v = VersionId(v.lineage_type, v.origin, v.document)
             /\ DOMAIN version'[q][v] = {"graph", "parent", "contracts"}
             /\ version'[q][v].graph \in Lineage
             /\ version'[q][v].graph = Base <=> v.lineage_type = "base"
             /\ version'[q][v].parent \in DOMAIN version'[q] \cup {NoVersion}
             /\ version'[q][v].contracts \in ContractsState
             /\ pointer'[q][version'[q][v].graph] # NoVersion
  <2>1. CASE q = p /\ v = id
    BY <1>1, <1>2, <1>3, <2>1
  <2>2. CASE ~(q = p /\ v = id)
    <3>1. v \in DOMAIN version[q] /\ version'[q][v] = version[q][v]
          /\ DOMAIN version[q] \subseteq DOMAIN version'[q]
      BY <1>1, <1>6, <2>2
    <3> QED
      BY <1>5, <3>1 DEF Written, Versions, Known, Born
  <2> QED
    BY <2>1, <2>2
<1>7. Versions'
  BY <1>1, <1>6 DEF Versions, Known, Born
<1>8. ASSUME NEW q \in Project, NEW m \in Lineage, pointer'[q][m] # NoVersion
      PROVE  /\ DOMAIN pointer'[q] = Lineage
             /\ pointer'[q][m] \in DOMAIN version'[q]
             /\ version'[q][pointer'[q][m]].graph = m
             /\ pointer'[q][Base] # NoVersion
  <2>1. CASE q = p /\ m = l
    BY <1>1, <1>2, <1>3, <1>5, <2>1, VersionsAssumption DEF Born
  <2>2. CASE ~(q = p /\ m = l)
    <3>1. pointer'[q][m] = pointer[q][m] /\ DOMAIN pointer'[q] = Lineage
      BY <1>1, <2>2 DEF Written, Pointers
    <3>2. /\ pointer[q][m] \in DOMAIN version[q] /\ version[q][pointer[q][m]].graph = m
          /\ pointer[q][Base] # NoVersion
      BY <1>8, <3>1 DEF Written, Pointers, Born, Known
    <3> QED
      BY <1>4, <1>5, <3>1, <3>2, VersionsAssumption DEF VersionsStay
  <2> QED
    BY <2>1, <2>2
<1>9. \A q \in Project : DOMAIN pointer'[q] = Lineage
  BY <1>1 DEF Written, Pointers
<1>10. Pointers'
  BY <1>1, <1>8, <1>9 DEF Pointers, Known, Born
<1> QED
  BY <1>4, <1>7, <1>10

LEMMA FitsOn ==
  ASSUME VersionsStay, NEW row, Fits(row) PROVE Fits(row)'
BY DEF VersionsStay, Fits, Known

(* The proposals as they were. *)
LEMMA ProposalsStay ==
  ASSUME Written, VersionsStay, proposal' = proposal PROVE Proposals' /\ OwnVersions'
<1>1. ASSUME NEW k \in 1 .. Len(proposal) PROVE Fits(proposal[k])'
  <2>1. PICK row : row = proposal[k] /\ Fits(row)
    BY DEF Written, Proposals
  <2>2. Fits(row)'
    BY <2>1, FitsOn
  <2> QED
    BY <2>1, <2>2 DEF Fits
<1>2. Proposals'
  BY <1>1 DEF Written, Proposals
<1> QED
  BY <1>2 DEF Written, OwnVersions

LEMMA SequenceIs ==
  ASSUME NEW S, NEW s \in Seq(S)
  PROVE  s = [k \in 1 .. Len(s) |-> s[k]] /\ Len(s) \in Nat
OBVIOUS

(* One more, pending. *)
LEMMA ProposalMade ==
  ASSUME Written, NEW p \in Project, NEW graph \in Lineage, NEW target \in DOMAIN version[p],
         NEW operations, NEW keyed, version[p][target].graph = graph,
         CreateProposal(ProposalRow(p, graph, target, operations, keyed))
  PROVE  /\ Written' /\ Len(proposal') = Len(proposal) + 1
         /\ UNCHANGED <<pointer, version, registry>>
         /\ \A k \in 1 .. Len(proposal) : proposal'[k] = proposal[k]
         /\ proposal'[Len(proposal) + 1].status = "pending"
<1> DEFINE row == ProposalRow(p, graph, target, operations, keyed)
           n   == Len(proposal)
<1>1. /\ DOMAIN row = {"project", "graph", "target", "operations", "keyed", "status",
                       "applied", "reviewed"}
      /\ row.project = p /\ row.graph = graph /\ row.target = target
      /\ row.status = "pending" /\ row.applied = NoVersion
  BY DEF ProposalRow
<1> HIDE DEF row
<1>2. Fits(row)
  BY <1>1 DEF Fits, Known
<1>3. /\ proposal' = Append(proposal, row) /\ UNCHANGED <<pointer, version, registry>>
      /\ n \in Nat
  BY DEF CreateProposal, row, Written, Proposals
<1>4. /\ Len(proposal') = n + 1
      /\ proposal' = [k \in 1 .. n + 1 |-> proposal'[k]]
      /\ \A k \in 1 .. n : proposal'[k] = proposal[k]
      /\ proposal'[n + 1] = row
  <2>1. proposal \in Seq({proposal[k] : k \in 1 .. n})
    BY <1>3 DEF Written, Proposals
  <2>2. \A S : S = {proposal[k] : k \in 1 .. n} =>
          /\ Len(proposal') = n + 1 /\ DOMAIN proposal' = 1 .. n + 1
          /\ \A k \in 1 .. n : proposal'[k] = proposal[k]
          /\ proposal'[n + 1] = row
    BY <1>3, <2>1
  <2>3. proposal' \in Seq({proposal[k] : k \in 1 .. n} \cup {row})
    BY <1>3, <2>1
  <2>4. Len(proposal') = n + 1
    BY <2>2
  <2>5. proposal' = [k \in 1 .. n + 1 |-> proposal'[k]]
    BY <2>3, <2>4, SequenceIs
  <2> QED
    BY <2>2, <2>4, <2>5
<1> HIDE DEF n
<1>5. \A k \in 1 .. n + 1 : k = n + 1 \/ k \in 1 .. n
  BY <1>3
<1>6. \A k \in 1 .. n + 1 : Fits(proposal'[k])
  BY <1>2, <1>4, <1>5 DEF Written, Proposals, n
<1>7. \A k \in 1 .. n + 1 : Fits(proposal[k])'
  <2>1. ASSUME NEW k \in 1 .. n + 1 PROVE Fits(proposal[k])'
    <3>1. Fits(proposal'[k])
      BY <1>6
    <3> QED
      BY <1>3, <3>1 DEF Fits, Known
  <2> QED
    BY <2>1
<1>8. Proposals'
  BY <1>3, <1>4, <1>7 DEF Proposals
<1>9. OwnVersions'
  <2>1. \A k \in 1 .. n + 1 : proposal'[k].applied # NoVersion => k \in 1 .. n
    BY <1>1, <1>4, <1>5
  <2> QED
    BY <1>4, <2>1 DEF Written, OwnVersions, n
<1> QED
  BY <1>1, <1>3, <1>4, <1>8, <1>9 DEF Written, Versions, Pointers, Known, Born, n

(* One proposal changes. *)
LEMMA ProposalSet ==
  ASSUME Written, VersionsStay, NEW k \in 1 .. Len(proposal), NEW new,
         proposal' = [proposal EXCEPT ![k] = new], Fits(new)',
         new.applied # NoVersion =>
           \A m \in 1 .. Len(proposal) :
             m # k /\ proposal[m].project = new.project => proposal[m].applied # new.applied
  PROVE  /\ Proposals' /\ OwnVersions' /\ Len(proposal') = Len(proposal) /\ proposal'[k] = new
         /\ \A m \in 1 .. Len(proposal) : m # k => proposal'[m] = proposal[m]
<1>1. /\ Len(proposal) \in Nat /\ proposal = [m \in 1 .. Len(proposal) |-> proposal[m]]
      /\ DOMAIN proposal = 1 .. Len(proposal)
  BY DEF Written, Proposals
<1>2. /\ proposal'[k] = new /\ DOMAIN proposal' = 1 .. Len(proposal)
      /\ \A m \in 1 .. Len(proposal) : m # k => proposal'[m] = proposal[m]
      /\ proposal' = [m \in 1 .. Len(proposal) |-> proposal'[m]]
  BY <1>1
<1>3. Len(proposal') = Len(proposal)
  BY <1>1, <1>2
<1>4. ASSUME NEW m \in 1 .. Len(proposal) PROVE Fits(proposal[m])'
  <2>1. CASE m = k
    BY <1>2, <2>1 DEF Fits
  <2>2. CASE m # k
    <3>1. PICK row : row = proposal[m] /\ Fits(row)
      BY DEF Written, Proposals
    <3>2. Fits(row)'
      BY <3>1, FitsOn
    <3> QED
      BY <1>2, <2>2, <3>1, <3>2 DEF Fits
  <2> QED
    BY <2>1, <2>2
<1>5. Proposals'
  BY <1>1, <1>2, <1>3, <1>4 DEF Proposals
<1>6. OwnVersions'
  BY <1>2, <1>3 DEF Written, OwnVersions
<1> QED
  BY <1>2, <1>3, <1>5, <1>6

(* What Decided sets. *)
LEMMA DecidedIs ==
  ASSUME Written, VersionsStay, NEW k \in 1 .. Len(proposal), NEW status,
         proposal' = Decided(k, status),
         status \in {"applied", "reverted"} <=> proposal[k].status \in {"applied", "reverted"}
  PROVE  /\ Proposals' /\ OwnVersions' /\ Len(proposal') = Len(proposal)
         /\ proposal'[k].status = status /\ proposal'[k].project = proposal[k].project
         /\ proposal'[k].graph = proposal[k].graph /\ proposal'[k].applied = proposal[k].applied
         /\ \A m \in 1 .. Len(proposal) : m # k => proposal'[m] = proposal[m]
<1>1. PICK row : row = proposal[k] /\ Fits(row)
  BY DEF Written, Proposals
<1> DEFINE new == [row EXCEPT !.status = status]
<1>2. /\ DOMAIN new = DOMAIN row /\ new.status = status /\ new.project = row.project
      /\ new.graph = row.graph /\ new.target = row.target /\ new.applied = row.applied
  BY <1>1 DEF Fits
<1>3. proposal' = [proposal EXCEPT ![k] = new]
  BY <1>1 DEF Decided
<1> HIDE DEF new
<1>4. PICK made : made = new
  OBVIOUS
<1>5. Fits(made)'
  BY <1>1, <1>2, <1>4, FitsOn DEF Fits
<1>6. made.applied # NoVersion =>
        \A m \in 1 .. Len(proposal) :
          m # k /\ proposal[m].project = made.project => proposal[m].applied # made.applied
  BY <1>1, <1>2, <1>4 DEF Written, OwnVersions
<1>7. proposal' = [proposal EXCEPT ![k] = made]
  BY <1>3, <1>4
<1>8. /\ Proposals' /\ OwnVersions' /\ Len(proposal') = Len(proposal) /\ proposal'[k] = made
      /\ \A m \in 1 .. Len(proposal) : m # k => proposal'[m] = proposal[m]
  BY <1>5, <1>6, <1>7, ProposalSet
<1> QED
  BY <1>1, <1>2, <1>4, <1>8

(* What a decision that moves no pointer keeps. *)
LEMMA JustDecided ==
  ASSUME Written, UNCHANGED <<pointer, version, registry>>, Proposals', OwnVersions'
  PROVE  Written' /\ VersionsStay
BY DEF Written, Versions, Pointers, Known, Born, VersionsStay

LEMMA StayPut == ASSUME UNCHANGED version PROVE VersionsStay
BY DEF VersionsStay

-----------------------------------------------------------------------------
(* Written, action by action. *)

LEMMA RegisterGraphWrites ==
  ASSUME Written, NoVersionIsNone, NEW p \in Project, NEW d, RegisterGraph(p, d)
  PROVE  /\ Written' /\ VersionsStay /\ VersionId("base", 0, d) \notin Known(p)
<1> DEFINE id == VersionId("base", 0, d)
           state == ClassifyContracts(d, registry[p])
<1>1. /\ id.lineage_type = "base" /\ id = VersionId(id.lineage_type, id.origin, id.document)
      /\ state \in ContractsState
  BY AVersionIs, ClassIs
<1>2. /\ ~Born(p, Base) /\ UNCHANGED <<proposal, registry>>
      /\ WriteVersion(p, Base, id, NoVersion, state)
  BY DEF RegisterGraph
<1> HIDE DEF id, state
<1>3. id \notin DOMAIN version[p]
  BY <1>1, <1>2 DEF Written, Versions, Known
<1>4. Versions' /\ Pointers' /\ VersionsStay
  BY <1>1, <1>2, <1>3, WriteKeeps, VersionsAssumption
<1>5. Proposals' /\ OwnVersions'
  BY <1>2, <1>4, ProposalsStay
<1>6. Written'
  BY <1>2, <1>4, <1>5 DEF Written
<1> QED
  BY <1>3, <1>4, <1>6 DEF Known, id

LEMMA ForkWrites ==
  ASSUME Written, NoVersionIsNone, NEW p \in Project, NEW l \in Lineage, NEW origin,
         Fork(p, l, origin)
  PROVE  Written' /\ VersionsStay
<1> DEFINE source == pointer[p][Base]
           id == VersionId("variant", origin, source.document)
<1>1. /\ id.lineage_type = "variant" /\ id = VersionId(id.lineage_type, id.origin, id.document)
  BY AVersionIs
<1>2. /\ l # Base /\ Born(p, Base) /\ UNCHANGED <<proposal, registry>>
      /\ id \notin DOMAIN version[p]
      /\ WriteVersion(p, l, id, source, version[p][source].contracts)
  BY DEF Fork, Known
<1>3. source \in DOMAIN version[p] /\ version[p][source].contracts \in ContractsState
  BY <1>2, VersionsAssumption DEF Written, Versions, Pointers, Known
<1> HIDE DEF id, source
<1>4. Versions' /\ Pointers' /\ VersionsStay
  BY <1>1, <1>2, <1>3, WriteKeeps, VersionsAssumption
<1>5. Proposals' /\ OwnVersions'
  BY <1>2, <1>4, ProposalsStay
<1> QED
  BY <1>2, <1>4, <1>5 DEF Written

(* Only what a version says of its contracts changes. *)
LEMMA RegisterSkillIs ==
  ASSUME Written, NEW p \in Project, NEW skill \in Skill, RegisterSkill(p, skill)
  PROVE  /\ DOMAIN version' = Project
         /\ \A q \in Project : DOMAIN version'[q] = DOMAIN version[q]
         /\ \A q \in Project : \A v \in DOMAIN version[q] :
              /\ DOMAIN version'[q][v] = DOMAIN version[q][v]
              /\ version'[q][v].graph = version[q][v].graph
              /\ version'[q][v].parent = version[q][v].parent
              /\ version'[q][v].contracts =
                   IF q = p THEN Recheck(p, skill, v) ELSE version[q][v].contracts
         /\ registry' = [registry EXCEPT ![p] = @ \cup {skill}]
         /\ UNCHANGED <<pointer, proposal>>
<1>1. DOMAIN version = Project
  BY DEF Written, Versions
<1> DEFINE rows == [v \in DOMAIN version[p] |->
                      [version[p][v] EXCEPT !.contracts = Recheck(p, skill, v)]]
<1>2. version' = [version EXCEPT ![p] = rows]
  BY DEF RegisterSkill, Known
<1>3. ASSUME NEW v \in DOMAIN version[p]
      PROVE  /\ DOMAIN rows[v] = DOMAIN version[p][v]
             /\ rows[v].graph = version[p][v].graph
             /\ rows[v].parent = version[p][v].parent
             /\ rows[v].contracts = Recheck(p, skill, v)
  <2>1. DOMAIN version[p][v] = {"graph", "parent", "contracts"}
    BY DEF Written, Versions, Known
  <2>2. rows[v] = [version[p][v] EXCEPT !.contracts = Recheck(p, skill, v)]
    OBVIOUS
  <2> HIDE DEF rows
  <2> QED
    BY <2>1, <2>2
<1>4. DOMAIN rows = DOMAIN version[p]
  OBVIOUS
<1> HIDE DEF rows
<1>5. version'[p] = rows /\ \A q \in Project : q # p => version'[q] = version[q]
  BY <1>1, <1>2
<1> QED
  BY <1>1, <1>2, <1>3, <1>4, <1>5 DEF RegisterSkill

LEMMA RegisterSkillWrites ==
  ASSUME Written, NEW p \in Project, NEW skill \in Skill, RegisterSkill(p, skill)
  PROVE  Written' /\ VersionsStay
<1>1. /\ DOMAIN version' = Project
      /\ \A q \in Project : DOMAIN version'[q] = DOMAIN version[q]
      /\ \A q \in Project : \A v \in DOMAIN version[q] :
           /\ DOMAIN version'[q][v] = DOMAIN version[q][v]
           /\ version'[q][v].graph = version[q][v].graph
           /\ version'[q][v].parent = version[q][v].parent
           /\ version'[q][v].contracts =
                IF q = p THEN Recheck(p, skill, v) ELSE version[q][v].contracts
      /\ registry' = [registry EXCEPT ![p] = @ \cup {skill}]
      /\ UNCHANGED <<pointer, proposal>>
  BY RegisterSkillIs
<1>2. VersionsStay
  BY <1>1 DEF VersionsStay, Written, Versions
<1>3. \A v \in DOMAIN version[p] : Recheck(p, skill, v) \in ContractsState
  BY ClassIs DEF Recheck, Written, Versions, Known
<1>4. Versions'
  BY <1>1, <1>3 DEF Written, Versions, Known, Born
<1>5. Pointers'
  BY <1>1, <1>2 DEF Written, Versions, Pointers, Known, Born
<1>6. Proposals' /\ OwnVersions'
  BY <1>1, <1>2, ProposalsStay
<1>7. registry' \in [Project -> SUBSET Skill]
  BY <1>1 DEF Written
<1> QED
  BY <1>2, <1>4, <1>5, <1>6, <1>7 DEF Written

(* No proposal becomes applied, and none stops being. *)
SameApplied ==
  /\ \A m \in 1 .. Len(proposal) :
       /\ m \in 1 .. Len(proposal')
       /\ proposal'[m].project = proposal[m].project /\ proposal'[m].graph = proposal[m].graph
       /\ proposal'[m].applied = proposal[m].applied
       /\ proposal'[m].status = "applied" <=> proposal[m].status = "applied"
  /\ \A m \in 1 .. Len(proposal') :
       m \in 1 .. Len(proposal) \/ proposal'[m].status # "applied"

(* Nothing but proposals, and no change of those that are applied. *)
Quiet == UNCHANGED <<pointer, version, registry>> /\ SameApplied

LEMMA OpeningIsQuiet ==
  ASSUME Written, NEW p \in Project,
         \/ \E target \in Known(p), operations \in Change : Propose(p, target, operations)
         \/ \E l \in Lineage : Promote(p, l) \/ Offer(p, l)
  PROVE  Written' /\ Quiet
<1>1. PICK graph \in Lineage, target \in DOMAIN version[p] :
        /\ version[p][target].graph = graph
        /\ \E operations, keyed :
             CreateProposal(ProposalRow(p, graph, target, operations, keyed))
  <2>1. ASSUME NEW target \in Known(p), NEW operations \in Change, Propose(p, target, operations)
        PROVE  \E graph \in Lineage, t \in DOMAIN version[p] :
                 /\ version[p][t].graph = graph
                 /\ \E ops, keyed : CreateProposal(ProposalRow(p, graph, t, ops, keyed))
    <3>1. version[p][target].graph \in Lineage
      BY <2>1 DEF Written, Versions
    <3> QED
      BY <2>1, <3>1 DEF Propose, Known
  <2>2. ASSUME NEW receiver \in Lineage, NEW giver, OpenProposal(p, receiver, giver),
               Born(p, receiver)
        PROVE  \E graph \in Lineage, t \in DOMAIN version[p] :
                 /\ version[p][t].graph = graph
                 /\ \E ops, keyed : CreateProposal(ProposalRow(p, graph, t, ops, keyed))
    <3>1. pointer[p][receiver] \in DOMAIN version[p]
          /\ version[p][pointer[p][receiver]].graph = receiver
      BY <2>2 DEF Written, Pointers, Known
    <3> QED
      BY <2>2, <3>1 DEF OpenProposal
  <2>3. ASSUME NEW l \in Lineage, Promote(p, l)
        PROVE  \E graph \in Lineage, t \in DOMAIN version[p] :
                 /\ version[p][t].graph = graph
                 /\ \E ops, keyed : CreateProposal(ProposalRow(p, graph, t, ops, keyed))
    <3>1. Born(p, Base)
      BY <2>3 DEF Promote, Written, Pointers
    <3> QED
      BY <2>2, <2>3, <3>1, VersionsAssumption DEF Promote
  <2>4. ASSUME NEW l \in Lineage, Offer(p, l)
        PROVE  \E graph \in Lineage, t \in DOMAIN version[p] :
                 /\ version[p][t].graph = graph
                 /\ \E ops, keyed : CreateProposal(ProposalRow(p, graph, t, ops, keyed))
    BY <2>2, <2>4 DEF Offer
  <2> QED
    BY <2>1, <2>3, <2>4
<1>2. /\ Written' /\ Len(proposal') = Len(proposal) + 1
      /\ UNCHANGED <<pointer, version, registry>>
      /\ \A k \in 1 .. Len(proposal) : proposal'[k] = proposal[k]
      /\ proposal'[Len(proposal) + 1].status = "pending"
  BY <1>1, ProposalMade, Zenon
<1>3. /\ Len(proposal) \in Nat
      /\ \A m \in 1 .. Len(proposal) : m \in 1 .. Len(proposal')
      /\ \A m \in 1 .. Len(proposal') : m \in 1 .. Len(proposal) \/ m = Len(proposal) + 1
  BY <1>2, ProposalsAre
<1> QED
  BY <1>2, <1>3 DEF Quiet, SameApplied

LEMMA DecisionIsQuiet ==
  ASSUME Written, NEW k \in 1 .. Len(proposal), Approve(k) \/ Reject(k) \/ RefusedByGate(k)
  PROVE  Written' /\ Quiet
<1>1. PICK status \in {"approved", "rejected"} :
        /\ proposal' = Decided(k, status) /\ UNCHANGED <<pointer, version, registry>>
        /\ proposal[k].status \notin {"applied", "reverted"}
  BY DEF Approve, Reject, RefusedByGate
<1>2. /\ Proposals' /\ OwnVersions' /\ Len(proposal') = Len(proposal)
      /\ proposal'[k].status = status /\ proposal'[k].project = proposal[k].project
      /\ proposal'[k].graph = proposal[k].graph /\ proposal'[k].applied = proposal[k].applied
      /\ \A m \in 1 .. Len(proposal) : m # k => proposal'[m] = proposal[m]
  BY <1>1, StayPut, DecidedIs
<1>3. SameApplied
  BY <1>1, <1>2 DEF SameApplied
<1> QED
  BY <1>1, <1>2, <1>3, JustDecided DEF Quiet

LEMMA VerdictIsQuiet ==
  ASSUME Written, NEW k \in 1 .. Len(proposal), RecordVerdict(k)
  PROVE  Written' /\ Quiet
<1>1. PICK row : row = proposal[k] /\ Fits(row)
  BY DEF Written, Proposals
<1>2. PICK new : new = [row EXCEPT !.reviewed = TRUE]
  OBVIOUS
<1>3. /\ DOMAIN new = DOMAIN row /\ new.status = row.status /\ new.project = row.project
      /\ new.graph = row.graph /\ new.target = row.target /\ new.applied = row.applied
  BY <1>1, <1>2 DEF Fits
<1>4. proposal' = [proposal EXCEPT ![k] = new] /\ UNCHANGED <<pointer, version, registry>>
  BY <1>1, <1>2 DEF RecordVerdict
<1>5. Fits(new)' /\ VersionsStay
  BY <1>1, <1>3, <1>4, FitsOn, StayPut DEF Fits
<1>6. new.applied # NoVersion =>
        \A m \in 1 .. Len(proposal) :
          m # k /\ proposal[m].project = new.project => proposal[m].applied # new.applied
  BY <1>1, <1>3 DEF Written, OwnVersions
<1>7. /\ Proposals' /\ OwnVersions' /\ Len(proposal') = Len(proposal) /\ proposal'[k] = new
      /\ \A m \in 1 .. Len(proposal) : m # k => proposal'[m] = proposal[m]
  BY <1>4, <1>5, <1>6, ProposalSet
<1>8. SameApplied
  BY <1>1, <1>3, <1>7 DEF SameApplied
<1> QED
  BY <1>4, <1>7, <1>8, JustDecided DEF Quiet

(* What applying a proposal writes. *)
LEMMA ApplyWrites ==
  ASSUME Written, NoVersionIsNone, NEW k \in 1 .. Len(proposal), ApplyProposal(k)
  PROVE  \E id :
           LET row == proposal[k]
               p   == row.project
           IN  /\ Written' /\ VersionsStay
               /\ row.status = "approved" /\ InForce(row, row.target)
               /\ row.project \in Project /\ row.graph \in Lineage
               /\ row.target \in Known(p)
               /\ id \notin Known(p)
               /\ WriteVersion(p, row.graph, id, row.target,
                               ClassifyContracts(id.document, registry[Default]))
               /\ Len(proposal') = Len(proposal)
               /\ proposal'[k].status = "applied" /\ proposal'[k].applied = id
               /\ proposal'[k].project = row.project /\ proposal'[k].graph = row.graph
               /\ \A m \in 1 .. Len(proposal) : m # k => proposal'[m] = proposal[m]
               /\ UNCHANGED registry
<1>1. PICK row : row = proposal[k] /\ Fits(row)
  BY DEF Written, Proposals
<1>2. PICK id \in Outcomes(row) :
        /\ id \notin Known(row.project)
        /\ WriteVersion(row.project, row.graph, id, row.target,
                        ClassifyContracts(id.document, registry[Default]))
        /\ proposal' = [proposal EXCEPT ![k].status = "applied", ![k].applied = id]
        /\ row.status = "approved" /\ InForce(row, row.target) /\ UNCHANGED registry
  BY <1>1 DEF ApplyProposal
<1>3. PICK d : id = [row.target EXCEPT !.document = d]
  BY DEF Outcomes
<1>4. row.target \in DOMAIN version[row.project] /\ version[row.project][row.target].graph = row.graph
      /\ row.project \in Project /\ row.graph \in Lineage
  BY <1>1 DEF Fits, Known
<1>5. /\ row.target = VersionId(row.target.lineage_type, row.target.origin, row.target.document)
      /\ row.graph = Base <=> row.target.lineage_type = "base"
      /\ Born(row.project, row.graph)
  BY <1>4 DEF Written, Versions, Known
<1>6. id = VersionId(row.target.lineage_type, row.target.origin, d)
  BY <1>3, <1>5 DEF VersionId
<1>7. /\ id.lineage_type = row.target.lineage_type
      /\ id = VersionId(id.lineage_type, id.origin, id.document)
  BY <1>6, AVersionIs
<1>8. Born(row.project, Base)
  BY <1>4, <1>5 DEF Written, Pointers
<1>9. Versions' /\ Pointers' /\ VersionsStay
  BY <1>2, <1>4, <1>5, <1>7, <1>8, ClassIs, WriteKeeps DEF Known
<1>10. PICK new : new = [row EXCEPT !.status = "applied", !.applied = id]
  OBVIOUS
<1>11. /\ DOMAIN new = DOMAIN row /\ new.status = "applied" /\ new.project = row.project
       /\ new.graph = row.graph /\ new.target = row.target /\ new.applied = id
  BY <1>1, <1>10 DEF Fits
<1>12. proposal' = [proposal EXCEPT ![k] = new]
  BY <1>1, <1>2, <1>10, ProposalsAre
<1>13. /\ DOMAIN version'[row.project] = DOMAIN version[row.project] \cup {id}
       /\ version'[row.project][id] =
            VersionRow(row.graph, row.target, ClassifyContracts(id.document, registry[Default]))
  BY <1>2, <1>4, WriteIs
<1>14. Fits(new)'
  <2>1. Fits(row)'
    BY <1>1, <1>9, FitsOn
  <2>2. id # NoVersion
    BY <1>6 DEF NoVersionIsNone
  <2> QED
    BY <1>11, <1>13, <2>1, <2>2, ARowIs DEF Fits, Known
<1>15. \A m \in 1 .. Len(proposal) : proposal[m].project = row.project => proposal[m].applied # id
  <2>1. id # NoVersion
    BY <1>6 DEF NoVersionIsNone
  <2> QED
    BY <1>2, <2>1 DEF Written, Proposals, Fits
<1>16. /\ Proposals' /\ OwnVersions' /\ Len(proposal') = Len(proposal) /\ proposal'[k] = new
       /\ \A m \in 1 .. Len(proposal) : m # k => proposal'[m] = proposal[m]
  <2>1. new.applied # NoVersion =>
          \A m \in 1 .. Len(proposal) :
            m # k /\ proposal[m].project = new.project => proposal[m].applied # new.applied
    BY <1>11, <1>15
  <2> QED
    BY <1>9, <1>12, <1>14, <2>1, ProposalSet, Zenon
<1>17. Written'
  BY <1>2, <1>9, <1>16 DEF Written
<1> QED
  BY <1>1, <1>2, <1>4, <1>9, <1>11, <1>16, <1>17 DEF Known

LEMMA RevertWrites ==
  ASSUME Written, NoVersionIsNone, NEW k \in 1 .. Len(proposal), RevertProposal(k)
  PROVE  LET row == proposal[k]
         IN  /\ Written' /\ VersionsStay /\ Fits(row)
             /\ row.status = "applied" /\ InForce(row, row.applied)
             /\ UNCHANGED <<version, registry>>
             /\ pointer'[row.project][row.graph] = row.target
             /\ \A p \in Project : \A l \in Lineage :
                  p # row.project \/ l # row.graph => pointer'[p][l] = pointer[p][l]
             /\ Len(proposal') = Len(proposal)
             /\ proposal'[k].status = "reverted"
             /\ \A m \in 1 .. Len(proposal) : m # k => proposal'[m] = proposal[m]
<1>1. PICK row : row = proposal[k] /\ Fits(row)
  BY DEF Written, Proposals
<1>2. /\ row.status = "applied" /\ InForce(row, row.applied)
      /\ pointer' = [pointer EXCEPT ![row.project][row.graph] = row.target]
      /\ proposal' = Decided(k, "reverted")
      /\ UNCHANGED <<version, registry>>
  BY <1>1 DEF RevertProposal
<1>3. /\ Proposals' /\ OwnVersions' /\ Len(proposal') = Len(proposal)
      /\ proposal'[k].status = "reverted"
      /\ \A m \in 1 .. Len(proposal) : m # k => proposal'[m] = proposal[m]
  BY <1>1, <1>2, StayPut, DecidedIs
<1>4. /\ row.project \in Project /\ row.graph \in Lineage /\ row.target \in DOMAIN version[row.project]
      /\ version[row.project][row.target].graph = row.graph
  BY <1>1 DEF Fits, Known
<1>5. /\ DOMAIN pointer = Project /\ \A p \in Project : DOMAIN pointer[p] = Lineage
  BY DEF Written, Pointers
<1>6. /\ pointer'[row.project][row.graph] = row.target
      /\ \A p \in Project : \A l \in Lineage :
           p # row.project \/ l # row.graph => pointer'[p][l] = pointer[p][l]
      /\ DOMAIN pointer' = Project /\ \A p \in Project : DOMAIN pointer'[p] = Lineage
  BY <1>2, <1>4, <1>5
<1>7. row.target # NoVersion
  <2>1. row.target = VersionId(row.target.lineage_type, row.target.origin, row.target.document)
    BY <1>4 DEF Written, Versions, Known
  <2> QED
    BY <2>1 DEF NoVersionIsNone
<1>8. \A p \in Project : \A l \in Lineage : pointer[p][l] # NoVersion => pointer'[p][l] # NoVersion
  BY <1>6, <1>7
<1>9. Versions'
  BY <1>2, <1>8 DEF Written, Versions, Known, Born
<1>10. Pointers'
  <2>1. Born(row.project, row.graph)
    BY <1>4 DEF Written, Versions, Known
  <2>2. Born(row.project, Base)
    BY <1>4, <2>1 DEF Written, Pointers
  <2>3. ASSUME NEW p \in Project, NEW l \in Lineage, pointer'[p][l] # NoVersion
        PROVE  /\ pointer'[p][l] \in DOMAIN version[p] /\ version[p][pointer'[p][l]].graph = l
               /\ pointer'[p][Base] # NoVersion
    <3>1. CASE p = row.project /\ l = row.graph
      BY <1>4, <1>6, <1>8, <2>2, <3>1, VersionsAssumption DEF Born
    <3>2. CASE p # row.project \/ l # row.graph
      BY <1>6, <1>8, <2>3, <3>2, VersionsAssumption DEF Written, Pointers, Born, Known
    <3> QED
      BY <3>1, <3>2
  <2> QED
    BY <1>2, <1>6, <2>3 DEF Pointers, Born, Known
<1>11. Written' /\ VersionsStay
  BY <1>2, <1>3, <1>9, <1>10, StayPut DEF Written
<1> QED
  BY <1>1, <1>2, <1>3, <1>6, <1>11

-----------------------------------------------------------------------------
(* The way back, step by step. *)

LEMMA AppliedAreFinite ==
  ASSUME Written, NEW l PROVE IsFiniteSet(AppliedTo(l)) /\ Cardinality(AppliedTo(l)) \in Nat
<1>1. Len(proposal) \in Nat
  BY ProposalsAre
<1>2. IsFiniteSet(1 .. Len(proposal))
  BY <1>1, FS_Interval
<1>3. AppliedTo(l) \in SUBSET (1 .. Len(proposal))
  BY DEF AppliedTo
<1>4. IsFiniteSet(AppliedTo(l))
  BY <1>2, <1>3, FS_Subset
<1> QED
  BY <1>4, FS_CardinalityType

(* The default project's versions, its pointer and its applied proposals as they
   were. *)
LEMMA TracedStays ==
  ASSUME NEW l \in Lineage, Traced(l),
         DOMAIN version'[Default] = DOMAIN version[Default],
         \A v \in DOMAIN version[Default] :
           /\ version'[Default][v].graph = version[Default][v].graph
           /\ version'[Default][v].parent = version[Default][v].parent,
         pointer'[Default][l] = pointer[Default][l],
         AppliedTo(l)' = AppliedTo(l),
         \A k \in AppliedTo(l) : proposal'[k].applied = proposal[k].applied
  PROVE  Traced(l)'
<1>1. \A id \in DOMAIN version[Default] :
        (Onto(l, id)' <=> Onto(l, id)) /\ Parent(id)' = Parent(id)
  BY DEF Onto, Parent, Known
<1>2. ASSUME NEW f PROVE WayBack(l, f)' <=> WayBack(l, f)
  <2>1. [id \in DOMAIN version[Default] |->
           {id} \cup IF Onto(l, id)' THEN f[Parent(id)'] ELSE {}]
        = [id \in DOMAIN version[Default] |->
             {id} \cup IF Onto(l, id) THEN f[Parent(id)] ELSE {}]
    BY <1>1
  <2> QED
    BY <2>1 DEF WayBack, Known
<1>3. ASSUME NEW f PROVE Leads(l, f)' <=> Leads(l, f)
  BY <1>1 DEF Leads, Known, Born
<1> QED
  BY <1>2, <1>3 DEF Traced

(* A version of the default project more: the ways back that there were stay,
   and there is one from it. *)
LEMMA WayOn ==
  ASSUME NEW l \in Lineage, Traced(l), NEW id, id \notin DOMAIN version[Default],
         DOMAIN version'[Default] = DOMAIN version[Default] \cup {id},
         \A v \in DOMAIN version[Default] :
           /\ version'[Default][v].graph = version[Default][v].graph
           /\ version'[Default][v].parent = version[Default][v].parent
           /\ version[Default][v].parent # id,
         version'[Default][id].parent # id
  PROVE  /\ \E f : WayBack(l, f)'
         /\ \A f : WayBack(l, f)' =>
              \E g : /\ WayBack(l, g) /\ Leads(l, g)
                     /\ \A v \in DOMAIN version[Default] : f[v] = g[v]
                     /\ f[id] = {id} \cup IF Onto(l, id)' THEN g[Parent(id)'] ELSE {}
                     /\ \A v \in DOMAIN version[Default] \cup {id} :
                          /\ f[v] \subseteq DOMAIN version[Default] \cup {id} /\ IsFiniteSet(f[v])
                          /\ Onto(l, v)' => v \notin f[Parent(v)']
<1> DEFINE K == DOMAIN version[Default]
<1>1. \A v \in K : (Onto(l, v)' <=> Onto(l, v)) /\ Parent(v)' = Parent(v)
  BY DEF Onto, Parent, Known
<1>2. /\ \A v \in K : Onto(l, v) => Parent(v) \in K
      /\ Onto(l, id)' => Parent(id)' \in K
  BY DEF Onto, Parent, Known
<1>3. /\ Known(Default) = K /\ Known(Default)' = K \cup {id} /\ id \notin K
  BY DEF Known
<1> HIDE DEF K
<1>4. \E f : WayBack(l, f)'
  <2>1. PICK g : WayBack(l, g)
    BY DEF Traced
  <2> DEFINE f == [v \in K \cup {id} |->
                     IF v = id THEN {id} \cup IF Onto(l, id)' THEN g[Parent(id)'] ELSE {}
                     ELSE g[v]]
  <2>2. g = [v \in K |-> {v} \cup IF Onto(l, v) THEN g[Parent(v)] ELSE {}]
    BY <1>3, <2>1 DEF WayBack
  <2>3. ASSUME NEW v \in K \cup {id}
        PROVE  f[v] = {v} \cup IF Onto(l, v)' THEN f[Parent(v)'] ELSE {}
    <3>1. CASE v = id
      BY <1>2, <1>3, <3>1
    <3>2. CASE v # id
      <4>1. v \in K /\ f[v] = g[v] /\ g[v] = {v} \cup IF Onto(l, v) THEN g[Parent(v)] ELSE {}
        BY <2>2, <3>2
      <4>2. Onto(l, v) => f[Parent(v)] = g[Parent(v)]
        BY <1>2, <1>3, <4>1
      <4> QED
        BY <1>1, <4>1, <4>2
    <3> QED
      BY <3>1, <3>2
  <2>4. PICK h : h = f
    OBVIOUS
  <2>5. h = [v \in K \cup {id} |-> h[v]]
    BY <2>4
  <2>6. \A v \in K \cup {id} : h[v] = {v} \cup IF Onto(l, v)' THEN h[Parent(v)'] ELSE {}
    BY <2>3, <2>4
  <2> HIDE DEF f
  <2>7. h = [v \in K \cup {id} |-> {v} \cup IF Onto(l, v)' THEN h[Parent(v)'] ELSE {}]
    BY <2>5, <2>6
  <2>8. WayBack(l, h)'
    BY <1>3, <2>7 DEF WayBack
  <2> QED
    BY <2>8
<1>5. ASSUME NEW f, WayBack(l, f)'
      PROVE  \E g : /\ WayBack(l, g) /\ Leads(l, g)
                    /\ \A v \in K : f[v] = g[v]
                    /\ f[id] = {id} \cup IF Onto(l, id)' THEN g[Parent(id)'] ELSE {}
                    /\ \A v \in K \cup {id} :
                         /\ f[v] \subseteq K \cup {id} /\ IsFiniteSet(f[v])
                         /\ Onto(l, v)' => v \notin f[Parent(v)']
  <2>1. f = [v \in K \cup {id} |-> {v} \cup IF Onto(l, v)' THEN f[Parent(v)'] ELSE {}]
    BY <1>3, <1>5 DEF WayBack
  <2>2. \A v \in K \cup {id} : f[v] = {v} \cup IF Onto(l, v)' THEN f[Parent(v)'] ELSE {}
    BY <2>1
  <2>3. PICK g : g = [v \in K |-> f[v]]
    OBVIOUS
  <2>4. \A v \in K : g[v] = f[v]
    BY <2>3
  <2>5. g = [v \in K |-> {v} \cup IF Onto(l, v) THEN g[Parent(v)] ELSE {}]
    BY <1>1, <1>2, <2>2, <2>3, <2>4
  <2>6. WayBack(l, g)
    BY <1>3, <2>5 DEF WayBack
  <2>7. Leads(l, g)
    BY <2>6 DEF Traced
  <2>8. f[id] = {id} \cup IF Onto(l, id)' THEN g[Parent(id)'] ELSE {}
    BY <1>2, <2>2, <2>4
  <2>9. \A v \in K : g[v] \subseteq K /\ IsFiniteSet(g[v]) /\ (Onto(l, v) => v \notin g[Parent(v)])
    BY <1>3, <2>7 DEF Leads
  <2>10. ASSUME NEW v \in K \cup {id}
         PROVE  /\ f[v] \subseteq K \cup {id} /\ IsFiniteSet(f[v])
                /\ Onto(l, v)' => v \notin f[Parent(v)']
    <3>1. CASE v \in K
      BY <1>1, <1>2, <2>4, <2>9, <3>1
    <3>2. CASE v = id
      <4>1. CASE Onto(l, id)'
        <5>1. PICK S : S = g[Parent(id)'] /\ S \subseteq K /\ IsFiniteSet(S)
          BY <1>2, <2>9, <4>1
        <5>2. f[id] = S \cup {id} /\ f[Parent(id)'] = S
          BY <1>2, <2>4, <2>8, <4>1, <5>1
        <5>3. IsFiniteSet(S \cup {id})
          BY <5>1, FS_AddElement
        <5> QED
          BY <1>3, <3>2, <5>1, <5>2, <5>3
      <4>2. CASE ~Onto(l, id)'
        <5>1. f[id] = {id}
          BY <2>8, <4>2
        <5>2. IsFiniteSet({id})
          BY FS_Singleton
        <5> QED
          BY <3>2, <4>2, <5>1, <5>2
      <4> QED
        BY <4>1, <4>2
    <3> QED
      BY <3>1, <3>2
  <2> QED
    BY <2>4, <2>6, <2>7, <2>8, <2>10
<1> QED
  BY <1>4, <1>5 DEF K

(* A version of another lineage, the first of its lineage, or one on top of what
   is in force. *)
LEMMA TracedOn ==
  ASSUME Written, NEW l \in Lineage, Traced(l), NEW id, id \notin DOMAIN version[Default],
         DOMAIN version'[Default] = DOMAIN version[Default] \cup {id},
         \A v \in DOMAIN version[Default] :
           /\ version'[Default][v].graph = version[Default][v].graph
           /\ version'[Default][v].parent = version[Default][v].parent
           /\ version[Default][v].parent # id,
         version'[Default][id].parent # id,
         \/ /\ pointer'[Default][l] = pointer[Default][l]
            /\ AppliedTo(l)' = AppliedTo(l)
            /\ \A k \in AppliedTo(l) : proposal'[k].applied = proposal[k].applied
         \/ pointer'[Default][l] = id /\ ~Onto(l, id)' /\ AppliedTo(l)' = {}
         \/ /\ pointer'[Default][l] = id /\ Onto(l, id)' /\ Born(Default, l)
            /\ Parent(id)' = pointer[Default][l]
            /\ \E k : /\ k \notin AppliedTo(l) /\ AppliedTo(l)' = AppliedTo(l) \cup {k}
                      /\ proposal'[k].applied = id
            /\ \A k \in AppliedTo(l) : proposal'[k].applied = proposal[k].applied
  PROVE  Traced(l)'
<1> DEFINE K == DOMAIN version[Default]
<1>1. /\ \E f : WayBack(l, f)'
      /\ \A f : WayBack(l, f)' =>
           \E g : /\ WayBack(l, g) /\ Leads(l, g)
                  /\ \A v \in K : f[v] = g[v]
                  /\ f[id] = {id} \cup IF Onto(l, id)' THEN g[Parent(id)'] ELSE {}
                  /\ \A v \in K \cup {id} :
                       /\ f[v] \subseteq K \cup {id} /\ IsFiniteSet(f[v])
                       /\ Onto(l, v)' => v \notin f[Parent(v)']
  BY WayOn
<1>2. /\ Known(Default) = K /\ Known(Default)' = K \cup {id}
      /\ Born(Default, l) => pointer[Default][l] \in K
  BY VersionsAssumption DEF Known, Written, Pointers
<1> HIDE DEF K
<1>3. ASSUME NEW f, WayBack(l, f)' PROVE Leads(l, f)'
  <2>1. PICK g : /\ WayBack(l, g) /\ Leads(l, g)
                 /\ \A v \in K : f[v] = g[v]
                 /\ f[id] = {id} \cup IF Onto(l, id)' THEN g[Parent(id)'] ELSE {}
                 /\ \A v \in K \cup {id} :
                      /\ f[v] \subseteq K \cup {id} /\ IsFiniteSet(f[v])
                      /\ Onto(l, v)' => v \notin f[Parent(v)']
    BY <1>1, <1>3
  <2>2. Born(Default, l) =>
          /\ Cardinality(g[pointer[Default][l]]) = 1 + Cardinality(AppliedTo(l))
          /\ \A k \in AppliedTo(l) : proposal[k].applied \in g[pointer[Default][l]]
    BY <2>1 DEF Leads
  <2>3. ASSUME pointer'[Default][l] # NoVersion
        PROVE  /\ Cardinality(f[pointer'[Default][l]]) = 1 + Cardinality(AppliedTo(l)')
               /\ \A k \in AppliedTo(l)' : proposal'[k].applied \in f[pointer'[Default][l]]
    <3>1. CASE /\ pointer'[Default][l] = pointer[Default][l]
               /\ AppliedTo(l)' = AppliedTo(l)
               /\ \A k \in AppliedTo(l) : proposal'[k].applied = proposal[k].applied
      BY <1>2, <2>1, <2>2, <2>3, <3>1 DEF Born
    <3>2. CASE pointer'[Default][l] = id /\ ~Onto(l, id)' /\ AppliedTo(l)' = {}
      <4>1. f[id] = {id} /\ Cardinality({id}) = 1 /\ Cardinality({}) = 0
        BY <2>1, <3>2, FS_Singleton, FS_EmptySet
      <4> QED
        BY <3>2, <4>1
    <3>3. CASE /\ pointer'[Default][l] = id /\ Onto(l, id)' /\ Born(Default, l)
               /\ Parent(id)' = pointer[Default][l]
               /\ \E k : /\ k \notin AppliedTo(l) /\ AppliedTo(l)' = AppliedTo(l) \cup {k}
                         /\ proposal'[k].applied = id
               /\ \A k \in AppliedTo(l) : proposal'[k].applied = proposal[k].applied
      <4>1. PICK k : /\ k \notin AppliedTo(l) /\ AppliedTo(l)' = AppliedTo(l) \cup {k}
                     /\ proposal'[k].applied = id
        BY <3>3
      <4>2. PICK top : top = pointer[Default][l] /\ top \in K
        BY <1>2, <3>3
      <4>3. PICK S : S = g[top] /\ IsFiniteSet(S) /\ S \subseteq K
        BY <1>2, <2>1, <4>2 DEF Leads
      <4>4. f[id] = S \cup {id}
        BY <2>1, <3>3, <4>2, <4>3
      <4>5. id \notin S
        BY <4>3 DEF K
      <4>6. Cardinality(S \cup {id}) = Cardinality(S) + 1
        BY <4>3, <4>5, FS_AddElement
      <4>7. PICK A : A = AppliedTo(l) /\ IsFiniteSet(A) /\ Cardinality(A) \in Nat
        BY AppliedAreFinite
      <4>8. Cardinality(A \cup {k}) = Cardinality(A) + 1
        BY <4>1, <4>7, FS_AddElement
      <4>9. Cardinality(S) = 1 + Cardinality(A) /\ \A m \in A : proposal[m].applied \in S
        BY <2>2, <3>3, <4>2, <4>3, <4>7
      <4>10. Cardinality(f[id]) = 1 + Cardinality(AppliedTo(l)')
        BY <4>1, <4>4, <4>6, <4>7, <4>8, <4>9
      <4>11. \A m \in AppliedTo(l)' : proposal'[m].applied \in f[id]
        BY <3>3, <4>1, <4>4, <4>7, <4>9
      <4> QED
        BY <3>3, <4>10, <4>11
    <3> QED
      BY <3>1, <3>2, <3>3
  <2> QED
    BY <1>2, <2>1, <2>3 DEF Leads, Born
<1> QED
  BY <1>1, <1>3 DEF Traced

(* The one in force taken off. *)
LEMMA TracedBack ==
  ASSUME Written, NEW l \in Lineage, Traced(l), Born(Default, l),
         UNCHANGED version,
         Onto(l, pointer[Default][l]),
         pointer'[Default][l] = Parent(pointer[Default][l]),
         NEW k, k \in AppliedTo(l), AppliedTo(l)' = AppliedTo(l) \ {k},
         \A m \in AppliedTo(l) \ {k} : /\ proposal'[m].applied = proposal[m].applied
                                       /\ proposal[m].applied # pointer[Default][l]
  PROVE  Traced(l)'
<1>1. PICK top : top = pointer[Default][l] /\ top \in DOMAIN version[Default]
  BY VersionsAssumption DEF Written, Pointers, Known
<1>2. \A id \in DOMAIN version[Default] :
        (Onto(l, id)' <=> Onto(l, id)) /\ Parent(id)' = Parent(id)
  BY DEF Onto, Parent, Known
<1>3. ASSUME NEW f PROVE WayBack(l, f)' <=> WayBack(l, f)
  <2>1. [id \in DOMAIN version[Default] |->
           {id} \cup IF Onto(l, id)' THEN f[Parent(id)'] ELSE {}]
        = [id \in DOMAIN version[Default] |->
             {id} \cup IF Onto(l, id) THEN f[Parent(id)] ELSE {}]
    BY <1>2
  <2> QED
    BY <2>1 DEF WayBack, Known
<1>4. ASSUME NEW f, WayBack(l, f), Leads(l, f) PROVE Leads(l, f)'
  <2>1. PICK below : below = Parent(top) /\ below \in DOMAIN version[Default]
    BY <1>1 DEF Onto, Known
  <2>2. f[top] = {top} \cup f[below]
    BY <1>1, <1>4, <2>1 DEF WayBack, Known
  <2>3. PICK S : S = f[below] /\ IsFiniteSet(S) /\ top \notin S
    BY <1>1, <1>4, <2>1 DEF Leads, Known
  <2>4. Cardinality(S \cup {top}) = Cardinality(S) + 1
    BY <2>3, FS_AddElement
  <2>5. S \cup {top} = f[top]
    BY <2>2, <2>3
  <2>6. PICK A : A = AppliedTo(l) /\ IsFiniteSet(A)
    BY AppliedAreFinite
  <2>7. Cardinality(A \ {k}) = Cardinality(A) - 1 /\ Cardinality(A) \in Nat
    BY <2>6, FS_RemoveElement, FS_CardinalityType
  <2>8. Cardinality(f[top]) = 1 + Cardinality(A) /\ \A m \in A : proposal[m].applied \in f[top]
    BY <1>1, <1>4, <2>6 DEF Leads
  <2>9. Cardinality(S) \in Nat
    BY <2>3, FS_CardinalityType
  <2>10. Cardinality(f[below]) = 1 + Cardinality(AppliedTo(l)')
    <3>1. Cardinality(S) + 1 = 1 + Cardinality(A)
      BY <2>4, <2>5, <2>8
    <3>2. Cardinality(S) = 1 + Cardinality(A \ {k})
      BY <2>7, <2>9, <3>1
    <3>3. AppliedTo(l)' = A \ {k}
      BY <2>6
    <3> QED
      BY <2>3, <3>2, <3>3
  <2>11. \A m \in AppliedTo(l)' : proposal'[m].applied \in f[below]
    BY <1>1, <2>3, <2>5, <2>6, <2>8
  <2>12. pointer'[Default][l] = below
    BY <1>1, <2>1
  <2> QED
    BY <1>2, <1>4, <2>10, <2>11, <2>12 DEF Leads, Known, Born
<1> QED
  BY <1>3, <1>4 DEF Traced

-----------------------------------------------------------------------------
(* The invariant, action by action. *)

AllTraced == \A l \in Lineage : Traced(l)

(* Nothing of the default project but proposals that stay as they are. *)
LEMMA NoNewsTraced ==
  ASSUME AllTraced, SameApplied,
         DOMAIN version'[Default] = DOMAIN version[Default],
         \A v \in DOMAIN version[Default] :
           /\ version'[Default][v].graph = version[Default][v].graph
           /\ version'[Default][v].parent = version[Default][v].parent,
         pointer'[Default] = pointer[Default]
  PROVE  AllTraced'
<1>1. ASSUME NEW l \in Lineage PROVE Traced(l)'
  <2>1. AppliedTo(l)' = AppliedTo(l)
    BY DEF SameApplied, AppliedTo
  <2>2. \A k \in AppliedTo(l) : proposal'[k].applied = proposal[k].applied
    BY DEF SameApplied, AppliedTo
  <2> QED
    BY <2>1, <2>2, TracedStays DEF AllTraced
<1> QED
  BY <1>1 DEF AllTraced

LEMMA QuietTraced ==
  ASSUME AllTraced, ContractsAreClassified, Quiet
  PROVE  AllTraced' /\ ContractsAreClassified'
<1>1. AllTraced'
  BY NoNewsTraced DEF Quiet
<1>2. ContractsAreClassified'
  BY DEF Quiet, ContractsAreClassified, Known
<1> QED
  BY <1>1, <1>2

(* Proposals as they were. *)
LEMMA SameProposals ==
  ASSUME proposal' = proposal PROVE SameApplied /\ \A l \in Lineage : AppliedTo(l)' = AppliedTo(l)
BY DEF SameApplied, AppliedTo

(* A lineage with no version has no proposal. *)
LEMMA UnbornIsUnchanged ==
  ASSUME Written, NEW l \in Lineage, ~Born(Default, l) PROVE AppliedTo(l) = {}
BY VersionsAssumption DEF Written, Proposals, Fits, Versions, AppliedTo, Known

LEMMA NoParentIsNew ==
  ASSUME Written, NoVersionIsNone, NEW type, NEW origin, NEW d,
         VersionId(type, origin, d) \notin DOMAIN version[Default]
  PROVE  \A v \in DOMAIN version[Default] :
           version[Default][v].parent # VersionId(type, origin, d)
BY VersionsAssumption DEF Written, Versions, NoVersionIsNone, Known

(* The first version of a lineage of the default project. *)
LEMMA FirstTraced ==
  ASSUME Written, NoVersionIsNone, AllTraced, NEW l \in Lineage, ~Born(Default, l),
         NEW type, NEW origin, NEW d, VersionId(type, origin, d) \notin DOMAIN version[Default],
         NEW parent \in DOMAIN version[Default] \cup {NoVersion}, NEW contracts,
         parent # NoVersion => version[Default][parent].graph # l,
         WriteVersion(Default, l, VersionId(type, origin, d), parent, contracts),
         proposal' = proposal
  PROVE  AllTraced'
<1>1. PICK id : id = VersionId(type, origin, d)
  OBVIOUS
<1>2. /\ DOMAIN version'[Default] = DOMAIN version[Default] \cup {id}
      /\ version'[Default][id] = VersionRow(l, parent, contracts)
      /\ \A v \in DOMAIN version[Default] : v # id => version'[Default][v] = version[Default][v]
      /\ pointer'[Default][l] = id
      /\ \A m \in Lineage : m # l => pointer'[Default][m] = pointer[Default][m]
  BY <1>1, WriteIs, VersionsAssumption
<1>3. /\ id \notin DOMAIN version[Default] /\ id # NoVersion
      /\ \A v \in DOMAIN version[Default] : version[Default][v].parent # id
      /\ parent # id
  BY <1>1, NoParentIsNew DEF NoVersionIsNone
<1>4. version'[Default][id].parent = parent
  BY <1>2, ARowIs
<1>5. \A v \in DOMAIN version[Default] :
        /\ version'[Default][v].graph = version[Default][v].graph
        /\ version'[Default][v].parent = version[Default][v].parent
        /\ version[Default][v].parent # id
  BY <1>2, <1>3
<1>6. ASSUME NEW m \in Lineage PROVE Traced(m)'
  <2>1. Traced(m) /\ AppliedTo(m)' = AppliedTo(m)
        /\ \A k \in AppliedTo(m) : proposal'[k].applied = proposal[k].applied
    BY SameProposals DEF AllTraced
  <2>2. CASE m # l
    <3>1. pointer'[Default][m] = pointer[Default][m]
      BY <1>2, <2>2
    <3> QED
      BY <1>2, <1>3, <1>4, <1>5, <2>1, <3>1, TracedOn
  <2>3. CASE m = l
    <3>1. AppliedTo(l)' = {}
      BY <2>1, <2>3, UnbornIsUnchanged
    <3>2. ~Onto(l, id)'
      <4>1. Parent(id)' = parent
        BY <1>4 DEF Parent
      <4>3. NoVersion \notin DOMAIN version[Default]
        BY VersionsAssumption DEF Written, Versions, Known, NoVersionIsNone
      <4>2. parent \in DOMAIN version'[Default] => version'[Default][parent].graph # l
        BY <1>2, <1>3, <1>5, <4>3
      <4> QED
        BY <4>1, <4>2 DEF Onto, Known
    <3> QED
      BY <1>2, <1>3, <1>4, <1>5, <2>1, <2>3, <3>1, <3>2, TracedOn
  <2> QED
    BY <2>2, <2>3
<1> QED
  BY <1>6 DEF AllTraced

(* Another project's versions. *)
LEMMA ElsewhereTraced ==
  ASSUME Written, AllTraced, ContractsAreClassified, SameApplied,
         version'[Default] = version[Default], pointer'[Default] = pointer[Default],
         UNCHANGED registry
  PROVE  AllTraced' /\ ContractsAreClassified'
<1>1. AllTraced'
  BY NoNewsTraced
<1>2. ContractsAreClassified'
  BY DEF ContractsAreClassified, Known
<1> QED
  BY <1>1, <1>2

LEMMA RegisterGraphTraced ==
  ASSUME Written, NoVersionIsNone, AllTraced, ContractsAreClassified,
         NEW p \in Project, NEW d, RegisterGraph(p, d)
  PROVE  AllTraced' /\ ContractsAreClassified'
<1> DEFINE id == VersionId("base", 0, d)
           state == ClassifyContracts(d, registry[p])
<1>1. /\ ~Born(p, Base) /\ UNCHANGED <<proposal, registry>>
      /\ WriteVersion(p, Base, id, NoVersion, state)
      /\ id \notin DOMAIN version[p] /\ id.document = d
  BY RegisterGraphWrites, AVersionIs DEF RegisterGraph, Known
<1>2. /\ DOMAIN version'[p] = DOMAIN version[p] \cup {id}
      /\ version'[p][id] = VersionRow(Base, NoVersion, state)
      /\ \A v \in DOMAIN version[p] : v # id => version'[p][v] = version[p][v]
      /\ \A q \in Project : q # p => version'[q] = version[q] /\ pointer'[q] = pointer[q]
  BY <1>1, WriteIs, VersionsAssumption
<1>3. CASE p = Default
  <2>1. AllTraced'
    BY <1>1, <1>3, FirstTraced, VersionsAssumption
  <2>2. ContractsAreClassified'
    <3>1. version'[p][id].contracts = state
      BY <1>2, ARowIs
    <3> HIDE DEF id
    <3> QED
      BY <1>1, <1>2, <1>3, <3>1 DEF ContractsAreClassified, Known
  <2> QED
    BY <2>1, <2>2
<1>4. CASE p # Default
  <2>1. version'[Default] = version[Default] /\ pointer'[Default] = pointer[Default]
    BY <1>2, <1>4, VersionsAssumption
  <2> QED
    BY <1>1, <2>1, SameProposals, ElsewhereTraced
<1> QED
  BY <1>3, <1>4

LEMMA ForkTraced ==
  ASSUME Written, NoVersionIsNone, AllTraced, ContractsAreClassified,
         NEW p \in Project, NEW l \in Lineage, NEW origin, Fork(p, l, origin)
  PROVE  AllTraced' /\ ContractsAreClassified'
<1> DEFINE source == pointer[p][Base]
           d == source.document
           id == VersionId("variant", origin, d)
<1>1. /\ l # Base /\ ~Born(p, l) /\ Born(p, Base) /\ UNCHANGED <<proposal, registry>>
      /\ id \notin DOMAIN version[p] /\ id.document = d
      /\ WriteVersion(p, l, id, source, version[p][source].contracts)
  BY AVersionIs DEF Fork, Known
<1>2. /\ DOMAIN version'[p] = DOMAIN version[p] \cup {id}
      /\ version'[p][id] = VersionRow(l, source, version[p][source].contracts)
      /\ \A v \in DOMAIN version[p] : v # id => version'[p][v] = version[p][v]
      /\ \A q \in Project : q # p => version'[q] = version[q] /\ pointer'[q] = pointer[q]
  BY <1>1, WriteIs
<1>3. source \in DOMAIN version[p] /\ version[p][source].graph = Base
  BY <1>1, VersionsAssumption DEF Written, Pointers, Known
<1>4. CASE p = Default
  <2> HIDE DEF source
  <2>1. AllTraced'
    BY <1>1, <1>3, <1>4, FirstTraced
  <2>2. ContractsAreClassified'
    <3>1. version'[p][id].contracts = version[p][source].contracts
      BY <1>2, ARowIs
    <3>2. version[p][source].contracts = ClassifyContracts(d, registry[Default])
      BY <1>3, <1>4 DEF ContractsAreClassified, Known
    <3> HIDE DEF id, d
    <3> QED
      BY <1>1, <1>2, <1>4, <3>1, <3>2 DEF ContractsAreClassified, Known
  <2> QED
    BY <2>1, <2>2
<1>5. CASE p # Default
  <2>1. version'[Default] = version[Default] /\ pointer'[Default] = pointer[Default]
    BY <1>2, <1>5, VersionsAssumption
  <2> QED
    BY <1>1, <2>1, SameProposals, ElsewhereTraced
<1> QED
  BY <1>4, <1>5

(* The registry gains a skill: what waits for it alone is judged, the rest is as
   it was. *)
LEMMA RegisterSkillTraced ==
  ASSUME Written, AllTraced, ContractsAreClassified,
         NEW p \in Project, NEW skill \in Skill, RegisterSkill(p, skill)
  PROVE  AllTraced' /\ ContractsAreClassified'
<1>1. /\ \A q \in Project : DOMAIN version'[q] = DOMAIN version[q]
      /\ \A q \in Project : \A v \in DOMAIN version[q] :
           /\ version'[q][v].graph = version[q][v].graph
           /\ version'[q][v].parent = version[q][v].parent
           /\ version'[q][v].contracts =
                IF q = p THEN Recheck(p, skill, v) ELSE version[q][v].contracts
      /\ registry' = [registry EXCEPT ![p] = @ \cup {skill}]
      /\ UNCHANGED <<pointer, proposal>>
  BY RegisterSkillIs
<1>2. AllTraced'
  BY <1>1, SameProposals, NoNewsTraced, VersionsAssumption
<1>3. ContractsAreClassified'
  <2>1. CASE p # Default
    BY <1>1, <2>1, VersionsAssumption DEF ContractsAreClassified, Known, Written
  <2>2. CASE p = Default
    <3>1. registry'[Default] = registry[Default] \cup {skill}
      BY <1>1, <2>2, VersionsAssumption DEF Written
    <3>2. ASSUME NEW v \in DOMAIN version[Default]
          PROVE  Recheck(Default, skill, v) =
                   ClassifyContracts(v.document, registry[Default] \cup {skill})
      <4>1. version[Default][v].contracts = ClassifyContracts(v.document, registry[Default])
        BY DEF ContractsAreClassified, Known
      <4>2. CASE version[Default][v].contracts = "unchecked" /\ skill \in Pins(v.document)
        BY <4>2 DEF Recheck
      <4>3. CASE version[Default][v].contracts = "unchecked" /\ skill \notin Pins(v.document)
        <5>1. ~(Pins(v.document) \subseteq registry[Default])
          BY <4>1, <4>3 DEF ClassifyContracts
        <5>2. ~(Pins(v.document) \subseteq registry[Default] \cup {skill})
          BY <4>3, <5>1
        <5> QED
          BY <4>3, <5>2 DEF Recheck, ClassifyContracts
      <4>4. CASE version[Default][v].contracts # "unchecked"
        <5>1. Pins(v.document) \subseteq registry[Default]
          BY <4>1, <4>4 DEF ClassifyContracts
        <5>2. Pins(v.document) \subseteq registry[Default] \cup {skill}
          BY <5>1
        <5> QED
          BY <4>1, <4>4, <5>1, <5>2 DEF Recheck, ClassifyContracts
      <4> QED
        BY <4>2, <4>3, <4>4
    <3> QED
      BY <1>1, <2>2, <3>1, <3>2, VersionsAssumption DEF ContractsAreClassified, Known
  <2> QED
    BY <2>1, <2>2
<1> QED
  BY <1>2, <1>3

(* A proposal applied on top of what is in force. *)
LEMMA ApplyTraced ==
  ASSUME Written, NoVersionIsNone, AllTraced, ContractsAreClassified,
         NEW k \in 1 .. Len(proposal), ApplyProposal(k)
  PROVE  AllTraced' /\ ContractsAreClassified'
<1>1. PICK row : row = proposal[k]
  OBVIOUS
<1>2. PICK id :
        /\ Written' /\ VersionsStay
        /\ row.status = "approved" /\ InForce(row, row.target)
        /\ row.project \in Project /\ row.graph \in Lineage
        /\ row.target \in Known(row.project)
        /\ id \notin Known(row.project)
        /\ WriteVersion(row.project, row.graph, id, row.target,
                        ClassifyContracts(id.document, registry[Default]))
        /\ Len(proposal') = Len(proposal)
        /\ proposal'[k].status = "applied" /\ proposal'[k].applied = id
        /\ proposal'[k].project = row.project /\ proposal'[k].graph = row.graph
        /\ \A m \in 1 .. Len(proposal) : m # k => proposal'[m] = proposal[m]
        /\ UNCHANGED registry
  BY <1>1, ApplyWrites
<1>3. PICK p \in Project, l \in Lineage, target \in Known(row.project) :
        p = row.project /\ l = row.graph /\ target = row.target
  BY <1>2
<1>4. /\ DOMAIN version'[p] = DOMAIN version[p] \cup {id}
      /\ version'[p][id] = VersionRow(l, target, ClassifyContracts(id.document, registry[Default]))
      /\ \A v \in DOMAIN version[p] : v # id => version'[p][v] = version[p][v]
      /\ pointer'[p][l] = id
      /\ \A m \in Lineage : m # l => pointer'[p][m] = pointer[p][m]
      /\ \A q \in Project : q # p => version'[q] = version[q] /\ pointer'[q] = pointer[q]
  BY <1>2, <1>3, WriteIs
<1>5. /\ version'[p][id].parent = target /\ version'[p][id].graph = l
      /\ version'[p][id].contracts = ClassifyContracts(id.document, registry[Default])
  BY <1>4, ARowIs
<1>6. CASE p # Default
  <2>1. version'[Default] = version[Default] /\ pointer'[Default] = pointer[Default]
    BY <1>4, <1>6, VersionsAssumption
  <2>2. \A m \in Lineage : AppliedTo(m)' = AppliedTo(m)
    BY <1>1, <1>2, <1>3, <1>6 DEF AppliedTo
  <2>3. \A m \in Lineage : \A j \in AppliedTo(m) : proposal'[j].applied = proposal[j].applied
    BY <1>1, <1>2, <1>3, <1>6 DEF AppliedTo
  <2>4. ASSUME NEW m \in Lineage PROVE Traced(m)'
    BY <2>1, <2>2, <2>3, TracedStays DEF AllTraced
  <2>5. ContractsAreClassified'
    BY <1>2, <2>1 DEF ContractsAreClassified, Known
  <2> QED
    BY <2>4, <2>5 DEF AllTraced
<1>7. CASE p = Default
  <2>1. /\ id \notin DOMAIN version[Default] /\ target \in DOMAIN version[Default]
        /\ pointer[Default][l] = target
    BY <1>2, <1>3, <1>7 DEF Known, InForce
  <2>2. id = VersionId(id.lineage_type, id.origin, id.document) /\ id # NoVersion
    BY <1>2, <1>3, <1>4 DEF Written, Versions, Known, NoVersionIsNone
  <2>3. target # NoVersion
    <3>1. target = VersionId(target.lineage_type, target.origin, target.document)
      BY <2>1, VersionsAssumption DEF Written, Versions, Known
    <3> QED
      BY <3>1 DEF NoVersionIsNone
  <2>4. \A v \in DOMAIN version[Default] :
          /\ version'[Default][v].graph = version[Default][v].graph
          /\ version'[Default][v].parent = version[Default][v].parent
          /\ version[Default][v].parent # id
    BY <1>4, <1>7, <2>1, <2>2, NoParentIsNew
  <2>5. target # id
    BY <2>1
  <2>6. ASSUME NEW m \in Lineage PROVE Traced(m)'
    <3>1. CASE m # l
      <4>1. AppliedTo(m)' = AppliedTo(m)
        BY <1>1, <1>2, <1>3, <3>1 DEF AppliedTo
      <4>2. \A j \in AppliedTo(m) : proposal'[j].applied = proposal[j].applied
        BY <1>1, <1>2, <1>3, <3>1 DEF AppliedTo
      <4>3. pointer'[Default][m] = pointer[Default][m]
        BY <1>4, <1>7, <3>1
      <4> QED
        BY <1>4, <1>5, <1>7, <2>1, <2>4, <2>5, <4>1, <4>2, <4>3, TracedOn DEF AllTraced
    <3>2. CASE m = l
      <4>1. k \notin AppliedTo(l) /\ AppliedTo(l)' = AppliedTo(l) \cup {k}
        BY <1>1, <1>2, <1>3, <1>7 DEF AppliedTo
      <4>2. \A j \in AppliedTo(l) : proposal'[j].applied = proposal[j].applied
        BY <1>2, <4>1 DEF AppliedTo
      <4>3. Parent(id)' = target
        BY <1>5, <1>7 DEF Parent
      <4>4. Onto(l, id)'
        <5>1. target \in DOMAIN version'[Default] /\ version'[Default][target].graph = l
          <6>1. Fits(row)
            BY <1>1, ProposalsAre
          <6>2. version[Default][target].graph = l
            BY <1>3, <1>7, <6>1 DEF Fits
          <6> QED
            BY <1>4, <1>7, <2>1, <2>4, <6>2
        <5> QED
          BY <4>3, <5>1 DEF Onto, Known
      <4>5. Born(Default, l)
        BY <2>1, <2>3 DEF Born
      <4> QED
        BY <1>2, <1>4, <1>5, <1>7, <2>1, <2>4, <2>5, <3>2, <4>1, <4>2, <4>3, <4>4, <4>5,
           TracedOn DEF AllTraced
    <3> QED
      BY <3>1, <3>2
  <2>7. ContractsAreClassified'
    BY <1>2, <1>4, <1>5, <1>7 DEF ContractsAreClassified, Known
  <2> QED
    BY <2>6, <2>7 DEF AllTraced
<1> QED
  BY <1>6, <1>7

(* The proposal in force taken back. *)
LEMMA RevertTraced ==
  ASSUME Written, NoVersionIsNone, AllTraced, ContractsAreClassified,
         NEW k \in 1 .. Len(proposal), RevertProposal(k)
  PROVE  AllTraced' /\ ContractsAreClassified'
<1>1. PICK row : row = proposal[k]
  OBVIOUS
<1>2. /\ Fits(row) /\ row.status = "applied" /\ InForce(row, row.applied)
      /\ UNCHANGED <<version, registry>>
      /\ pointer'[row.project][row.graph] = row.target
      /\ \A p \in Project : \A l \in Lineage :
           p # row.project \/ l # row.graph => pointer'[p][l] = pointer[p][l]
      /\ Len(proposal') = Len(proposal)
      /\ proposal'[k].status = "reverted"
      /\ \A m \in 1 .. Len(proposal) : m # k => proposal'[m] = proposal[m]
  BY <1>1, RevertWrites
<1>3. row.project \in Project /\ row.graph \in Lineage /\ row.applied # NoVersion
  BY <1>2 DEF Fits
<1>4. ASSUME NEW l \in Lineage PROVE Traced(l)'
  <2>1. CASE row.project # Default \/ l # row.graph
    <3>1. pointer'[Default][l] = pointer[Default][l]
      BY <1>2, <2>1, VersionsAssumption
    <3>2. AppliedTo(l)' = AppliedTo(l)
      <4>1. ~(proposal[k].project = Default /\ proposal[k].graph = l)
        BY <1>1, <2>1
      <4>2. k \notin AppliedTo(l) /\ k \notin AppliedTo(l)'
        BY <1>2, <4>1 DEF AppliedTo
      <4>3. \A m \in 1 .. Len(proposal) : m # k => (m \in AppliedTo(l)' <=> m \in AppliedTo(l))
        BY <1>2 DEF AppliedTo
      <4>4. AppliedTo(l) \subseteq 1 .. Len(proposal) /\ AppliedTo(l)' \subseteq 1 .. Len(proposal)
        BY <1>2 DEF AppliedTo
      <4> QED
        BY <4>2, <4>3, <4>4
    <3>3. \A m \in AppliedTo(l) : proposal'[m].applied = proposal[m].applied
      BY <1>1, <1>2, <2>1 DEF AppliedTo
    <3> QED
      BY <1>2, <3>1, <3>2, <3>3, TracedStays DEF AllTraced
  <2>2. CASE row.project = Default /\ l = row.graph
    <3>1. pointer[Default][l] = row.applied /\ Born(Default, l)
      BY <1>2, <1>3, <2>2 DEF InForce, Born
    <3>2. Parent(row.applied) = row.target
      BY <1>2, <1>3, <2>2 DEF Fits, Parent
    <3>3. Onto(l, pointer[Default][l])
      BY <1>2, <2>2, <3>1, <3>2 DEF Fits, Onto
    <3>4. pointer'[Default][l] = Parent(pointer[Default][l])
      BY <1>2, <2>2, <3>1, <3>2
    <3>5. k \in AppliedTo(l)
      BY <1>1, <1>2, <2>2 DEF AppliedTo
    <3>6. AppliedTo(l)' = AppliedTo(l) \ {k}
      BY <1>2 DEF AppliedTo
    <3>7. \A m \in AppliedTo(l) \ {k} : /\ proposal'[m].applied = proposal[m].applied
                                        /\ proposal[m].applied # pointer[Default][l]
      BY <1>1, <1>2, <1>3, <2>2, <3>1 DEF AppliedTo, Written, OwnVersions
    <3> QED
      BY <1>2, <3>1, <3>3, <3>4, <3>5, <3>6, <3>7, TracedBack DEF AllTraced
  <2> QED
    BY <2>1, <2>2
<1>5. ContractsAreClassified'
  BY <1>2 DEF ContractsAreClassified, Known
<1> QED
  BY <1>4, <1>5 DEF AllTraced

-----------------------------------------------------------------------------
InForceInv == Written /\ AllTraced /\ ContractsAreClassified

LEMMA InitStep == ASSUME Init PROVE InForceInv
<1>1. /\ DOMAIN pointer = Project /\ \A p \in Project : DOMAIN pointer[p] = Lineage
      /\ \A p \in Project : \A l \in Lineage : ~Born(p, l)
      /\ DOMAIN version = Project /\ \A p \in Project : DOMAIN version[p] = {}
      /\ proposal = <<>> /\ Len(proposal) = 0
      /\ registry \in [Project -> SUBSET Skill]
  BY VersionsAssumption DEF Init, Born
<1>2. Written
  <2>1. proposal = [k \in 1 .. 0 |-> proposal[k]]
    BY <1>1
  <2> QED
    BY <1>1, <2>1 DEF Written, Versions, Pointers, Proposals, OwnVersions, Known
<1>3. ASSUME NEW l \in Lineage PROVE Traced(l)
  <2>1. PICK f : f = [id \in {} |-> {id} \cup IF Onto(l, id) THEN {} ELSE {}]
    OBVIOUS
  <2>2. f = [id \in {} |-> {id} \cup IF Onto(l, id) THEN f[Parent(id)] ELSE {}]
    BY <2>1
  <2>3. WayBack(l, f)
    BY <1>1, <2>2, VersionsAssumption DEF WayBack, Known
  <2>4. \A g : Leads(l, g)
    BY <1>1, VersionsAssumption DEF Leads, Known
  <2> QED
    BY <2>3, <2>4 DEF Traced
<1>4. ContractsAreClassified
  BY <1>1, VersionsAssumption DEF ContractsAreClassified, Known
<1> QED
  BY <1>2, <1>3, <1>4 DEF InForceInv, AllTraced

LEMMA CatalogueStep ==
  ASSUME InForceInv, NoVersionIsNone, NEW p \in Project, Catalogue(p)
  PROVE  InForceInv' /\ VersionsStay
<1>1. Written /\ AllTraced /\ ContractsAreClassified
  BY DEF InForceInv
<1>2. ASSUME NEW d \in Document, RegisterGraph(p, d) PROVE InForceInv' /\ VersionsStay
  BY <1>1, <1>2, RegisterGraphWrites, RegisterGraphTraced DEF InForceInv
<1>3. ASSUME NEW l \in Lineage, NEW origin, Fork(p, l, origin) PROVE InForceInv' /\ VersionsStay
  BY <1>1, <1>3, ForkWrites, ForkTraced DEF InForceInv
<1>4. ASSUME NEW skill \in Skill, RegisterSkill(p, skill) PROVE InForceInv' /\ VersionsStay
  BY <1>1, <1>4, RegisterSkillWrites, RegisterSkillTraced DEF InForceInv
<1>5. CASE \/ \E target \in Known(p), operations \in Change : Propose(p, target, operations)
           \/ \E l \in Lineage : Promote(p, l) \/ Offer(p, l)
  BY <1>1, <1>5, OpeningIsQuiet, QuietTraced, StayPut DEF InForceInv, Quiet
<1> QED
  BY <1>2, <1>3, <1>4, <1>5 DEF Catalogue

LEMMA DecideStep ==
  ASSUME InForceInv, NoVersionIsNone, NEW k \in DOMAIN proposal, Decide(k)
  PROVE  InForceInv' /\ VersionsStay
<1>1. Written /\ AllTraced /\ ContractsAreClassified /\ k \in 1 .. Len(proposal)
  BY ProposalsAre DEF InForceInv
<1>2. CASE Approve(k) \/ Reject(k) \/ RefusedByGate(k)
  BY <1>1, <1>2, DecisionIsQuiet, QuietTraced, StayPut DEF InForceInv, Quiet
<1>3. CASE RecordVerdict(k)
  BY <1>1, <1>3, VerdictIsQuiet, QuietTraced, StayPut DEF InForceInv, Quiet
<1>4. CASE ApplyProposal(k)
  BY <1>1, <1>4, ApplyWrites, ApplyTraced DEF InForceInv
<1>5. CASE RevertProposal(k)
  BY <1>1, <1>5, RevertWrites, RevertTraced DEF InForceInv
<1> QED
  BY <1>2, <1>3, <1>4, <1>5 DEF Decide

LEMMA StutterStep ==
  ASSUME InForceInv, UNCHANGED vars PROVE InForceInv' /\ VersionsStay
<1>1. UNCHANGED <<pointer, version, proposal, registry>>
  BY DEF vars
<1>2. Written' /\ VersionsStay
  BY <1>1 DEF InForceInv, Written, Versions, Pointers, Proposals, OwnVersions, Fits, Known, Born,
     VersionsStay
<1>3. AllTraced' /\ ContractsAreClassified'
  BY <1>1, SameProposals, QuietTraced DEF InForceInv, Quiet
<1> QED
  BY <1>2, <1>3 DEF InForceInv

LEMMA Always == ASSUME NoVersionIsNone PROVE Spec => []InForceInv /\ [][VersionsStay]_vars
<1>1. Init => InForceInv
  BY InitStep
<1>2. InForceInv /\ [Next]_vars => InForceInv' /\ VersionsStay
  BY CatalogueStep, DecideStep, StutterStep DEF Next
<1> QED
  BY <1>1, <1>2, PTL DEF Spec

-----------------------------------------------------------------------------
(* Every document written passed the gate, and what a proposal would do is a
   list of operations on documents. *)

DocumentsAreGood ==
  /\ \A p \in Project : \A v \in DOMAIN version[p] : Good(v.document)
  /\ \A k \in 1 .. Len(proposal) : ListedOperations(proposal[k].operations)

(* Versions, with one good one more. *)
LEMMA WrittenIsGood ==
  ASSUME Written, DocumentsAreGood, NEW p \in Project, NEW l \in Lineage, NEW id, NEW parent,
         NEW contracts, WriteVersion(p, l, id, parent, contracts), Good(id.document)
  PROVE  \A q \in Project : \A v \in DOMAIN version'[q] : Good(v.document)
<1>1. /\ DOMAIN version'[p] = DOMAIN version[p] \cup {id}
      /\ \A q \in Project : q # p => version'[q] = version[q]
  BY WriteIs
<1> QED
  BY <1>1 DEF DocumentsAreGood

(* No decision changes what a proposal would do. *)
LEMMA SameOperations ==
  ASSUME Written, NEW k \in 1 .. Len(proposal), Decide(k)
  PROVE  /\ Len(proposal') = Len(proposal)
         /\ \A m \in 1 .. Len(proposal) : proposal'[m].operations = proposal[m].operations
<1>1. PICK row : row = proposal[k] /\ Fits(row)
  BY DEF Written, Proposals
<1>2. DOMAIN row = {"project", "graph", "target", "operations", "keyed", "status",
                    "applied", "reviewed"}
  BY <1>1 DEF Fits
<1>3. \E new : proposal' = [proposal EXCEPT ![k] = new] /\ new.operations = row.operations
  <2>1. ASSUME NEW status, proposal' = Decided(k, status)
        PROVE  \E new : proposal' = [proposal EXCEPT ![k] = new] /\ new.operations = row.operations
    <3>1. PICK new : new = [row EXCEPT !.status = status]
      OBVIOUS
    <3>2. new.operations = row.operations
      BY <1>2, <3>1
    <3>3. proposal' = [proposal EXCEPT ![k] = new]
      BY <1>1, <2>1, <3>1 DEF Decided
    <3> QED
      BY <3>2, <3>3
  <2>2. CASE Approve(k) \/ Reject(k) \/ RefusedByGate(k) \/ RevertProposal(k)
    BY <2>1, <2>2 DEF Approve, Reject, RefusedByGate, RevertProposal
  <2>3. CASE ApplyProposal(k)
    <3>1. PICK id : proposal' = [proposal EXCEPT ![k].status = "applied", ![k].applied = id]
      BY <2>3 DEF ApplyProposal
    <3>2. PICK new : new = [row EXCEPT !.status = "applied", !.applied = id]
      OBVIOUS
    <3>3. new.operations = row.operations
      BY <1>2, <3>2
    <3>4. proposal' = [proposal EXCEPT ![k] = new]
      BY <1>1, <3>1, <3>2, ProposalsAre
    <3> QED
      BY <3>3, <3>4
  <2>4. CASE RecordVerdict(k)
    <3>1. PICK new : new = [row EXCEPT !.reviewed = TRUE]
      OBVIOUS
    <3>2. new.operations = row.operations
      BY <1>2, <3>1
    <3>3. proposal' = [proposal EXCEPT ![k] = new]
      BY <1>1, <2>4, <3>1 DEF RecordVerdict
    <3> QED
      BY <3>2, <3>3
  <2> QED
    BY <2>2, <2>3, <2>4 DEF Decide
<1>4. PICK new : proposal' = [proposal EXCEPT ![k] = new] /\ new.operations = row.operations
  BY <1>3
<1>5. DOMAIN proposal = 1 .. Len(proposal) /\ Len(proposal) \in Nat
  BY ProposalsAre
<1>6. /\ DOMAIN proposal' = 1 .. Len(proposal) /\ proposal'[k] = new
      /\ \A m \in 1 .. Len(proposal) : m # k => proposal'[m] = proposal[m]
  BY <1>4, <1>5
<1>7. Len(proposal') = Len(proposal)
  BY <1>5, <1>6
<1> QED
  BY <1>1, <1>4, <1>6, <1>7

(* A new proposal is a list of operations somebody wrote, or a diff. *)
LEMMA OpeningIsListed ==
  ASSUME Written, DocumentsAreGood, NEW p \in Project,
         \/ \E target \in Known(p), operations \in Change : Propose(p, target, operations)
         \/ \E l \in Lineage : Promote(p, l) \/ Offer(p, l)
  PROVE  \A k \in 1 .. Len(proposal') : ListedOperations(proposal'[k].operations)
<1>1. PICK row : proposal' = Append(proposal, row) /\ ListedOperations(row.operations)
  <2>1. ASSUME NEW row, NEW ops, CreateProposal(row), row.operations = ops, ListedOperations(ops)
        PROVE  \E r : proposal' = Append(proposal, r) /\ ListedOperations(r.operations)
    BY <2>1 DEF CreateProposal
  <2>3. ASSUME NEW target \in Known(p), NEW ops \in Change, Propose(p, target, ops)
        PROVE  \E r : proposal' = Append(proposal, r) /\ ListedOperations(r.operations)
    <3>1. ListedOperations(ops)
      BY VersionsAssumption
    <3>2. CreateProposal(ProposalRow(p, version[p][target].graph, target, ops, TRUE))
      BY <2>3 DEF Propose
    <3>3. PICK row : row = ProposalRow(p, version[p][target].graph, target, ops, TRUE)
      OBVIOUS
    <3>4. row.operations = ops
      BY <3>3 DEF ProposalRow
    <3> QED
      BY <2>1, <3>1, <3>2, <3>3, <3>4
  <2>4. ASSUME NEW receiver \in Lineage, NEW giver \in Lineage, Born(p, receiver), Born(p, giver),
               OpenProposal(p, receiver, giver)
        PROVE  \E r : proposal' = Append(proposal, r) /\ ListedOperations(r.operations)
    <3> DEFINE ops == DiffGraphs(Current(p, receiver), Current(p, giver))
    <3>1. pointer[p][receiver] \in DOMAIN version[p] /\ pointer[p][giver] \in DOMAIN version[p]
      BY <2>4 DEF Written, Pointers, Known
    <3>2. Listed(Current(p, receiver)) /\ Listed(Current(p, giver))
      BY <3>1 DEF DocumentsAreGood, Good, Current
    <3>3. ListedOperations(ops)
      BY <3>2, DiffIsListed
    <3>4. CreateProposal(ProposalRow(p, receiver, pointer[p][receiver], ops, FALSE))
      BY <2>4 DEF OpenProposal
    <3> HIDE DEF ops
    <3>5. PICK row : row = ProposalRow(p, receiver, pointer[p][receiver], ops, FALSE)
      OBVIOUS
    <3>6. row.operations = ops
      BY <3>5 DEF ProposalRow
    <3> QED
      BY <2>1, <3>3, <3>4, <3>5, <3>6
  <2>5. ASSUME NEW l \in Lineage, Promote(p, l) \/ Offer(p, l)
        PROVE  \E r : proposal' = Append(proposal, r) /\ ListedOperations(r.operations)
    <3>1. Born(p, l) /\ (OpenProposal(p, Base, l) \/ OpenProposal(p, l, Base))
      BY <2>5 DEF Promote, Offer
    <3>2. Born(p, Base) /\ Base \in Lineage
      BY <3>1, VersionsAssumption DEF Written, Pointers
    <3> QED
      BY <2>4, <3>1, <3>2
  <2> QED
    BY <2>3, <2>5
<1> DEFINE T == {proposal[k] : k \in 1 .. Len(proposal)} \cup {row}
<1>2. proposal \in Seq(T) /\ row \in T
  BY DEF Written, Proposals
<1> HIDE DEF T
<1>3. /\ Len(proposal') = Len(proposal) + 1 /\ Len(proposal) \in Nat
      /\ \A k \in 1 .. Len(proposal) : proposal'[k] = proposal[k]
      /\ proposal'[Len(proposal) + 1] = row
  BY <1>1, <1>2, AppendIs
<1>4. ASSUME NEW k \in 1 .. Len(proposal') PROVE ListedOperations(proposal'[k].operations)
  <2>1. k = Len(proposal) + 1 \/ k \in 1 .. Len(proposal)
    BY <1>3
  <2> QED
    BY <1>1, <1>3, <2>1 DEF DocumentsAreGood
<1> QED
  BY <1>4

LEMMA CatalogueGood ==
  ASSUME Written, DocumentsAreGood, NEW p \in Project, Catalogue(p)
  PROVE  DocumentsAreGood'
<1>1. ASSUME NEW d \in Document, RegisterGraph(p, d) PROVE DocumentsAreGood'
  <2> DEFINE id == VersionId("base", 0, d)
             state == ClassifyContracts(d, registry[p])
  <2>1. Good(id.document)
    BY <1>1, AVersionIs, VersionsAssumption DEF RegisterGraph, Good
  <2>2. WriteVersion(p, Base, id, NoVersion, state) /\ proposal' = proposal
    BY <1>1 DEF RegisterGraph
  <2> HIDE DEF id, state
  <2>3. \A q \in Project : \A v \in DOMAIN version'[q] : Good(v.document)
    BY <2>1, <2>2, WrittenIsGood, VersionsAssumption
  <2> QED
    BY <2>2, <2>3 DEF DocumentsAreGood
<1>2. ASSUME NEW l \in Lineage, NEW origin, Fork(p, l, origin) PROVE DocumentsAreGood'
  <2> DEFINE source == pointer[p][Base]
             id == VersionId("variant", origin, source.document)
  <2>1. /\ Born(p, Base) /\ proposal' = proposal
        /\ WriteVersion(p, l, id, source, version[p][source].contracts)
    BY <1>2 DEF Fork
  <2>2. source \in DOMAIN version[p]
    BY <2>1, VersionsAssumption DEF Written, Pointers, Known
  <2>3. Good(id.document)
    BY <2>2, AVersionIs DEF DocumentsAreGood
  <2> HIDE DEF id, source
  <2>4. \A q \in Project : \A v \in DOMAIN version'[q] : Good(v.document)
    BY <2>1, <2>3, WrittenIsGood
  <2> QED
    BY <2>1, <2>4 DEF DocumentsAreGood
<1>3. ASSUME NEW skill \in Skill, RegisterSkill(p, skill) PROVE DocumentsAreGood'
  <2>1. (\A q \in Project : DOMAIN version'[q] = DOMAIN version[q]) /\ proposal' = proposal
    BY <1>3, RegisterSkillIs
  <2> QED
    BY <2>1 DEF DocumentsAreGood
<1>4. CASE \/ \E target \in Known(p), operations \in Change : Propose(p, target, operations)
           \/ \E l \in Lineage : Promote(p, l) \/ Offer(p, l)
  <2>1. \A k \in 1 .. Len(proposal') : ListedOperations(proposal'[k].operations)
    BY <1>4, OpeningIsListed
  <2>2. version' = version
    BY <1>4 DEF Propose, Promote, Offer, OpenProposal, CreateProposal
  <2> QED
    BY <2>1, <2>2 DEF DocumentsAreGood
<1> QED
  BY <1>1, <1>2, <1>3, <1>4 DEF Catalogue

LEMMA DecideGood ==
  ASSUME Written, DocumentsAreGood, NEW k \in 1 .. Len(proposal), Decide(k)
  PROVE  DocumentsAreGood'
<1>1. \A m \in 1 .. Len(proposal') : ListedOperations(proposal'[m].operations)
  BY SameOperations DEF DocumentsAreGood
<1>2. \A q \in Project : \A v \in DOMAIN version'[q] : Good(v.document)
  <2>1. CASE ~ApplyProposal(k)
    <3>1. version' = version
      BY <2>1 DEF Decide, Approve, Reject, RefusedByGate, RevertProposal, RecordVerdict
    <3> QED
      BY <3>1 DEF DocumentsAreGood
  <2>2. CASE ApplyProposal(k)
    <3>1. PICK row : row = proposal[k] /\ Fits(row)
      BY DEF Written, Proposals
    <3>2. PICK id \in Outcomes(row) :
            WriteVersion(row.project, row.graph, id, row.target,
                         ClassifyContracts(id.document, registry[Default]))
      BY <2>2, <3>1 DEF ApplyProposal
    <3>3. PICK d \in Applied(row.target.document, row.operations) :
            id = [row.target EXCEPT !.document = d]
      BY DEF Outcomes
    <3>4. row.project \in Project /\ row.graph \in Lineage
          /\ row.target \in DOMAIN version[row.project]
      BY <3>1 DEF Fits, Known
    <3>5. row.target = VersionId(row.target.lineage_type, row.target.origin, row.target.document)
      BY <3>4 DEF Written, Versions, Known
    <3>6. id.document = d
      BY <3>3, <3>5 DEF VersionId
    <3>7. Valid(d)
      BY <3>2, <3>6 DEF Outcomes
    <3>8. Listed(d)
      BY <3>1, <3>3, <3>4, AppliedIsListed DEF DocumentsAreGood, Good
    <3>9. Good(id.document)
      BY <3>6, <3>7, <3>8 DEF Good
    <3> QED
      BY <3>2, <3>4, <3>9, WrittenIsGood
  <2> QED
    BY <2>1, <2>2
<1> QED
  BY <1>1, <1>2 DEF DocumentsAreGood

LEMMA AlwaysGood == ASSUME NoVersionIsNone PROVE Spec => []DocumentsAreGood
<1>1. Init => DocumentsAreGood
  <2>1. Init => \A p \in Project : DOMAIN version[p] = {}
    BY DEF Init
  <2>2. Init => Len(proposal) = 0
    BY DEF Init
  <2> QED
    BY <2>1, <2>2 DEF DocumentsAreGood
<1>2. InForceInv /\ DocumentsAreGood /\ [Next]_vars => DocumentsAreGood'
  <2>1. InForceInv => Written /\ DOMAIN proposal = 1 .. Len(proposal)
    BY ProposalsAre DEF InForceInv
  <2>2. UNCHANGED vars /\ DocumentsAreGood => DocumentsAreGood'
    BY DEF vars, DocumentsAreGood
  <2> QED
    BY <2>1, <2>2, CatalogueGood, DecideGood DEF Next
<1> QED
  BY <1>1, <1>2, Always, PTL DEF Spec

-----------------------------------------------------------------------------
LEMMA WrittenIsTyped == ASSUME Written PROVE TypeOK
<1>1. ASSUME NEW p \in Project
      PROVE  /\ registry[p] \subseteq Skill
             /\ \A id \in Known(p) : /\ version[p][id].graph \in Lineage
                                     /\ version[p][id].parent \in Known(p) \cup {NoVersion}
                                     /\ version[p][id].contracts \in ContractsState
             /\ \A l \in Lineage : Born(p, l) => /\ pointer[p][l] \in Known(p)
                                                 /\ version[p][pointer[p][l]].graph = l
  BY DEF Written, Versions, Pointers
<1>2. ASSUME NEW k \in DOMAIN proposal
      PROVE  LET row == proposal[k]
             IN  /\ row.target \in Known(row.project)
                 /\ version[row.project][row.target].graph = row.graph
                 /\ row.status \in {"applied", "reverted"} <=> row.applied # NoVersion
                 /\ row.applied # NoVersion => version[row.project][row.applied].parent = row.target
  BY ProposalsAre DEF Fits
<1> QED
  BY <1>1, <1>2 DEF TypeOK

(* Rows keep their shape; a pointer names a version of its own lineage and
   project, a proposal a target there, an applied one what it wrote. *)
THEOREM TypeCorrect == ASSUME NoVersionIsNone PROVE Spec => []TypeOK
<1>1. InForceInv => TypeOK
  BY WrittenIsTyped DEF InForceInv
<1> QED
  BY <1>1, Always, PTL

(* However registrations, forks, approvals, applications and reverts of any
   number of proposals interleave (proposal-handlers.ts, graph-handlers.ts), what
   is in force of a lineage of the default project is its first version and, on
   top of it, exactly the versions of the proposals that are applied, each once. *)
THEOREM InForceAlways == ASSUME NoVersionIsNone PROVE Spec => []AppliedIsInForce
<1>1. InForceInv => AppliedIsInForce
  <2> SUFFICES ASSUME InForceInv, NEW l \in Lineage, Born(Default, l)
               PROVE  LET applied == {k \in DOMAIN proposal : /\ proposal[k].project = Default
                                                              /\ proposal[k].graph = l
                                                              /\ proposal[k].status = "applied"}
                      IN  /\ Cardinality(ComeThrough(l)) = 1 + Cardinality(applied)
                          /\ {proposal[k].applied : k \in applied} \subseteq ComeThrough(l)
    BY WrittenIsTyped DEF InForceInv, AppliedIsInForce
  <2>1. Written /\ Traced(l)
    BY DEF InForceInv, AllTraced
  <2>2. {k \in DOMAIN proposal : /\ proposal[k].project = Default
                                 /\ proposal[k].graph = l
                                 /\ proposal[k].status = "applied"} = AppliedTo(l)
    BY <2>1, ProposalsAre DEF AppliedTo
  <2> DEFINE back == CHOOSE f : WayBack(l, f)
  <2>3. WayBack(l, back)
    BY <2>1 DEF Traced
  <2>4. ComeThrough(l) = back[pointer[Default][l]]
    BY DEF ComeThrough, WayBack, Onto, Parent
  <2> HIDE DEF back
  <2>5. Leads(l, back)
    BY <2>1, <2>3 DEF Traced
  <2>6. /\ Cardinality(ComeThrough(l)) = 1 + Cardinality(AppliedTo(l))
        /\ \A k \in AppliedTo(l) : proposal[k].applied \in ComeThrough(l)
    BY <2>4, <2>5 DEF Leads
  <2> QED
    BY <2>2, <2>6
<1> QED
  BY <1>1, Always, PTL

(* What a version of the default project says of its contracts is what
   classifyContracts makes of its document and the registry as it stands,
   whichever of the two was written last: no version stays unchecked when the
   last skill it pins is there, and none is judged before. *)
THEOREM ContractsClassified == ASSUME NoVersionIsNone PROVE Spec => []ContractsAreClassified
<1>1. InForceInv => ContractsAreClassified
  BY DEF InForceInv
<1> QED
  BY <1>1, Always, PTL

(* A version that was written stays, in its lineage and on top of the version it
   was made from: no apply, revert or registration rewrites the history. *)
THEOREM HistoryIsKept == ASSUME NoVersionIsNone PROVE Spec => [][VersionsStay]_vars
BY Always, PTL

(* What a version of the default project says of its contracts is true of the
   work: checked when, along every way from the initial node to every node,
   what the node's skill requires was produced or is given, failed when on some
   way it is not, unchecked when a skill is missing from the registry as it
   stands.  The fixpoint of findUnproducedInput (graph.ts) and the order in which
   versions and skills come (skill-handlers.ts) are both behind it. *)
THEOREM ContractsTrue == ASSUME NoVersionIsNone PROVE Spec => []ContractsAreTrue
<1>1. InForceInv /\ DocumentsAreGood => ContractsAreTrue
  <2> SUFFICES ASSUME InForceInv, DocumentsAreGood, NEW id \in Known(Default)
               PROVE  version[Default][id].contracts =
                        IF ~(Pins(id.document) \subseteq registry[Default]) THEN "unchecked"
                        ELSE IF \A node \in Ids(id.document) : AlwaysSupplied(id.document, node)
                        THEN "checked" ELSE "failed"
    BY DEF ContractsAreTrue
  <2> DEFINE d == id.document
             known == registry[Default]
             supplied == \A node \in Ids(d) : AlwaysSupplied(d, node)
  <2>1. Good(d)
    BY VersionsAssumption DEF DocumentsAreGood, Known
  <2>2. known \in SUBSET Skill
    BY VersionsAssumption DEF InForceInv, Written
  <2>3. version[Default][id].contracts = ClassifyContracts(d, known)
    BY DEF InForceInv, ContractsAreClassified
  <2> HIDE DEF d, known
  <2>4. /\ ~(Pins(d) \subseteq known) => ClassifyContracts(d, known) = "unchecked"
        /\ Pins(d) \subseteq known =>
             ClassifyContracts(d, known) = IF supplied THEN "checked" ELSE "failed"
    BY <2>1, <2>2, VerdictIsTrue
  <2> HIDE DEF supplied
  <2>5. ClassifyContracts(d, known) =
          IF ~(Pins(d) \subseteq known) THEN "unchecked"
          ELSE IF supplied THEN "checked" ELSE "failed"
    BY <2>4
  <2> QED
    BY <2>3, <2>5 DEF d, known, supplied
<1> QED
  BY <1>1, Always, AlwaysGood, PTL

(* Whatever two lineages of a project have in force, promoting or offering one
   to the other does what it says: the operations diffGraphs computes
   (diff.ts) all apply to the receiver's document in their order, the
   first that is refused would stop them (operations.ts), and they make of
   it the giver's nodes and, between any two of them, the giver's edges. *)
THEOREM DiffsLand == ASSUME NoVersionIsNone PROVE Spec => []DiffLands
<1>1. InForceInv /\ DocumentsAreGood => DiffLands
  <2> SUFFICES ASSUME InForceInv, DocumentsAreGood, NEW p \in Project,
                      NEW receiver \in Lineage, NEW giver \in Lineage,
                      Born(p, receiver), Born(p, giver)
               PROVE  \E made \in Applied(Current(p, receiver),
                                          DiffGraphs(Current(p, receiver), Current(p, giver))) :
                        Agree(made, Current(p, giver))
    BY DEF DiffLands
  <2>1. pointer[p][receiver] \in DOMAIN version[p] /\ pointer[p][giver] \in DOMAIN version[p]
    BY DEF InForceInv, Written, Pointers, Known
  <2>2. Good(Current(p, receiver)) /\ Good(Current(p, giver))
    BY <2>1 DEF DocumentsAreGood, Current
  <2> QED
    BY <2>2, DiffDoes
<1> QED
  BY <1>1, Always, AlwaysGood, PTL

=============================================================================
