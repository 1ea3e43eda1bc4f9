----------------------------- MODULE SequenceLemmas -----------------------------
(***************************************************************************)
(* What the proofs need to know of sequences and of definitions by         *)
(* recursion over them.  Induction is used in the form that the provers    *)
(* can instantiate: a set of numbers that is not empty has a least element, *)
(* and the least counterexample is refuted.                                *)
(***************************************************************************)
EXTENDS Integers, SequencesExt, SequenceTheorems, WellFoundedInduction, TLAPS

LEMMA LeastElement ==
    ASSUME NEW T \in SUBSET Nat, T # {}
    PROVE  \E x \in T : \A y \in T : x <= y
<1> DEFINE R == {ss \in Nat \X Nat : ss[1] < ss[2]}
<1>1. IsWellFoundedOn(R, Nat)
  BY NatLessThanWellFounded DEF OpToRel
<1>2. PICK x \in T : \A y \in T : <<y, x>> \notin R
  BY <1>1, WFMin
<1>3. \A y \in T : ~(y < x)
  BY <1>2
<1> QED BY <1>3

\* A set that holds 0, and n + 1 whenever it holds n, up to a bound.
LEMMA InductionUpTo ==
    ASSUME NEW n \in Nat, NEW T, 0 \in T, \A m \in 0..(n - 1) : m \in T => m + 1 \in T
    PROVE  \A m \in 0..n : m \in T
<1> DEFINE Missing == {m \in 0..n : m \notin T}
<1> SUFFICES ASSUME Missing # {} PROVE FALSE
  OBVIOUS
<1>1. PICK m \in Missing : \A k \in Missing : m <= k
  <2>1. Missing \in SUBSET Nat
    OBVIOUS
  <2> QED BY <2>1, LeastElement
<1>2. m \in 1..n /\ m - 1 \in 0..(n - 1) /\ m - 1 \notin Missing
  BY <1>1
<1>3. m - 1 \in T
  BY <1>2
<1>4. (m - 1) + 1 \in T
  BY <1>2, <1>3
<1> QED BY <1>1, <1>2, <1>4

\* Max of numbers up to a bound is the greatest of them.
LEMMA GreatestElement ==
    ASSUME NEW n \in Nat, NEW T \in SUBSET (0..n), T # {}
    PROVE  Max(T) \in T /\ \A y \in T : y <= Max(T)
<1> DEFINE R == {n - x : x \in T}
<1>1. R \in SUBSET Nat /\ R # {}
  <2>1. \A x \in T : x \in 0..n /\ n - x \in Nat
    OBVIOUS
  <2> QED BY <2>1
<1>2. PICK r \in R : \A y \in R : r <= y
  BY <1>1, LeastElement
<1>3. PICK x \in T : r = n - x
  BY <1>2
<1>4. \A y \in T : x >= y
  <2> SUFFICES ASSUME NEW y \in T PROVE x >= y
    OBVIOUS
  <2>1. n - y \in R /\ x \in 0..n /\ y \in 0..n
    OBVIOUS
  <2>2. n - x <= n - y
    BY <1>2, <1>3, <2>1
  <2> QED BY <2>1, <2>2
<1>5. \E z \in T : \A y \in T : z >= y
  BY <1>4
<1>6. Max(T) \in T /\ \A y \in T : Max(T) >= y
  BY <1>5 DEF Max
<1> QED BY <1>6

LEMMA FunctionIsSequence ==
    ASSUME NEW A, NEW n \in Nat, NEW f \in [1..n -> A]
    PROVE  f \in Seq(A) /\ Len(f) = n
  OBVIOUS

LEMMA RangeInType ==
    ASSUME NEW A, NEW s \in Seq(A)
    PROVE  Range(s) \subseteq A
<1>1. DOMAIN s = 1..Len(s) /\ \A k \in 1..Len(s) : s[k] \in A
  OBVIOUS
<1> QED BY <1>1 DEF Range

LEMMA ConcatAppend ==
    ASSUME NEW A, NEW r \in Seq(A), NEW s \in Seq(A), NEW e \in A
    PROVE  r \o Append(s, e) = Append(r \o s, e)
<1>1. /\ Append(s, e) = s \o <<e>> /\ Append(r \o s, e) = (r \o s) \o <<e>>
      /\ <<e>> \in Seq(A)
  BY AppendIsConcat, ConcatProperties
<1> QED BY <1>1, ConcatAssociative

LEMMA ConcatIsFunction ==
    ASSUME NEW A, NEW r \in Seq(A), NEW s \in Seq(A)
    PROVE  r \o s = [k \in 1..(Len(r) + Len(s)) |-> IF k <= Len(r) THEN r[k] ELSE s[k - Len(r)]]
<1> DEFINE n == Len(r) + Len(s)
           both == r \o s
           f == [k \in 1..n |-> IF k <= Len(r) THEN r[k] ELSE s[k - Len(r)]]
<1>1. Len(r) \in Nat /\ Len(s) \in Nat
  OBVIOUS
<1>2. both \in Seq(A) /\ Len(both) = n
  OBVIOUS
<1>3. \A k \in 1..n : both[k] = f[k]
  OBVIOUS
<1> HIDE DEF both
<1>4. both = [k \in 1..n |-> both[k]]
  <2>1. DOMAIN both = 1..n
    BY <1>2
  <2>2. both = [k \in DOMAIN both |-> both[k]]
    BY <1>2
  <2> QED BY <2>1, <2>2
<1>5. f = [k \in 1..n |-> f[k]]
  OBVIOUS
<1> HIDE DEF f, n
<1>6. both = f
  BY <1>3, <1>4, <1>5
<1> QED BY <1>6 DEF both, f, n

LEMMA AppendIsFunction ==
    ASSUME NEW A, NEW s \in Seq(A), NEW e \in A
    PROVE  Append(s, e) = [k \in 1..(Len(s) + 1) |-> IF k = Len(s) + 1 THEN e ELSE s[k]]
<1> DEFINE f == [k \in 1..(Len(s) + 1) |-> IF k = Len(s) + 1 THEN e ELSE s[k]]
<1>1. f \in Seq(A) /\ Len(f) = Len(s) + 1
  OBVIOUS
<1>2. \A k \in 1..(Len(s) + 1) : Append(s, e)[k] = f[k]
  OBVIOUS
<1> HIDE DEF f
<1>3. Append(s, e) = f
  BY <1>1, <1>2, AppendProperties, SeqEqual
<1> QED BY <1>3 DEF f

-----------------------------------------------------------------------------
(* FlattenSeq *)

\* The function that FlattenSeq defines.
Flattens(f, n, seqs) ==
    f = [i \in 1..n |-> IF i = 1 THEN seqs[i] ELSE f[i - 1] \o seqs[i]]

\* Its value at one place, from the value before.
LEMMA FlattensStep ==
    ASSUME NEW n \in Nat, NEW seqs, NEW f, Flattens(f, n, seqs), NEW m \in Nat, m < n
    PROVE  f[m + 1] = IF m = 0 THEN seqs[1] ELSE f[m] \o seqs[m + 1]
<1>1. m + 1 \in 1..n /\ (m + 1) - 1 = m /\ (m + 1 = 1 <=> m = 0)
  OBVIOUS
<1>2. \A i \in 1..n : f[i] = IF i = 1 THEN seqs[i] ELSE f[i - 1] \o seqs[i]
  BY DEF Flattens
<1> QED BY <1>1, <1>2

LEMMA FlattensExists ==
    ASSUME NEW seqs, NEW n \in Nat
    PROVE  \E f : Flattens(f, n, seqs)
<1> DEFINE T == {m \in 0..n : \E f : Flattens(f, m, seqs)}
<1>1. 0 \in T
  <2>1. Flattens([i \in {} |-> 0], 0, seqs)
    BY DEF Flattens
  <2> QED BY <2>1
<1>2. ASSUME NEW m \in 0..(n - 1), m \in T PROVE m + 1 \in T
  <2>1. PICK f : Flattens(f, m, seqs)
    BY <1>2
  <2> DEFINE next == IF m = 0 THEN seqs[1] ELSE f[m] \o seqs[m + 1]
             g == [i \in 1..(m + 1) |-> IF i = m + 1 THEN next ELSE f[i]]
  <2>2. \A i \in 1..m : f[i] = IF i = 1 THEN seqs[i] ELSE f[i - 1] \o seqs[i]
    BY <2>1 DEF Flattens
  <2>3. \A i \in 1..(m + 1) : g[i] = IF i = 1 THEN seqs[i] ELSE g[i - 1] \o seqs[i]
    <3> SUFFICES ASSUME NEW i \in 1..(m + 1)
                 PROVE  g[i] = IF i = 1 THEN seqs[i] ELSE g[i - 1] \o seqs[i]
      OBVIOUS
    <3>1. CASE i = m + 1
      <4>1. CASE m = 0
        BY <3>1, <4>1
      <4>2. CASE m # 0
        <5>1. m \in 1..(m + 1) /\ m # m + 1 /\ i - 1 = m /\ i # 1
          BY <3>1, <4>2
        <5>2. g[m] = f[m] /\ g[i] = f[m] \o seqs[m + 1]
          BY <3>1, <4>2, <5>1
        <5> HIDE DEF g
        <5> QED BY <3>1, <5>1, <5>2
      <4> QED BY <4>1, <4>2
    <3>2. CASE i # m + 1
      BY <2>2, <3>2
    <3> QED BY <3>1, <3>2
  <2> HIDE DEF g
  <2>4. g = [i \in 1..(m + 1) |-> IF i = 1 THEN seqs[i] ELSE g[i - 1] \o seqs[i]]
    BY <2>3 DEF g
  <2>5. Flattens(g, m + 1, seqs)
    BY <2>4 DEF Flattens
  <2> QED BY <2>5
<1> HIDE DEF T
<1>3. n \in T
  BY <1>1, <1>2, InductionUpTo
<1> QED BY <1>3 DEF T

\* FlattenSeq is the last value of that function.
LEMMA FlattenIsLast ==
    ASSUME NEW seqs, Len(seqs) \in Nat \ {0}
    PROVE  \E f : Flattens(f, Len(seqs), seqs) /\ FlattenSeq(seqs) = f[Len(seqs)]
<1>1. \E f : f = [i \in 1..Len(seqs) |-> IF i = 1 THEN seqs[i] ELSE f[i - 1] \o seqs[i]]
  BY FlattensExists DEF Flattens
<1> DEFINE flatten == CHOOSE f :
               f = [i \in 1..Len(seqs) |-> IF i = 1 THEN seqs[i] ELSE f[i - 1] \o seqs[i]]
<1>2. Flattens(flatten, Len(seqs), seqs)
  BY <1>1 DEF Flattens
<1>3. FlattenSeq(seqs) = flatten[Len(seqs)]
  BY DEF FlattenSeq
<1> QED BY <1>2, <1>3

\* Two such functions agree where their sequences do.
LEMMA FlattensAgree ==
    ASSUME NEW n \in Nat, NEW seqs, NEW more, \A i \in 1..n : seqs[i] = more[i],
           NEW f, Flattens(f, n, seqs), NEW g, Flattens(g, n + 1, more), NEW k \in 1..n
    PROVE  f[k] = g[k]
<1> DEFINE T == {m \in 0..n : m = 0 \/ f[m] = g[m]}
<1>1. 0 \in T
  OBVIOUS
<1>2. ASSUME NEW m \in 0..(n - 1), m \in T PROVE m + 1 \in T
  <2>1. m \in Nat /\ m < n /\ m < n + 1 /\ n + 1 \in Nat
    OBVIOUS
  <2>2. /\ f[m + 1] = (IF m = 0 THEN seqs[1] ELSE f[m] \o seqs[m + 1])
        /\ g[m + 1] = (IF m = 0 THEN more[1] ELSE g[m] \o more[m + 1])
    BY <2>1, FlattensStep
  <2>3. seqs[1] = more[1] /\ seqs[m + 1] = more[m + 1]
    BY <2>1
  <2> QED BY <1>2, <2>1, <2>2, <2>3
<1> HIDE DEF T
<1>3. \A m \in 0..n : m \in T
  BY <1>1, <1>2, InductionUpTo
<1>4. k \in T
  BY <1>3
<1> QED BY <1>4 DEF T

\* Its values are sequences.
LEMMA FlattensTypes ==
    ASSUME NEW A, NEW seqs \in Seq(Seq(A)), NEW f, Flattens(f, Len(seqs), seqs)
    PROVE  \A i \in 1..Len(seqs) : f[i] \in Seq(A)
<1> DEFINE n == Len(seqs)
           T == {m \in 0..n : m = 0 \/ f[m] \in Seq(A)}
<1>1. n \in Nat /\ Flattens(f, n, seqs) /\ \A i \in 1..n : seqs[i] \in Seq(A)
  OBVIOUS
<1> HIDE DEF n
<1>2. 0 \in T
  BY <1>1
<1>3. ASSUME NEW m \in 0..(n - 1), m \in T PROVE m + 1 \in T
  <2>1. m \in Nat /\ m < n
    BY <1>1
  <2>2. f[m + 1] = (IF m = 0 THEN seqs[1] ELSE f[m] \o seqs[m + 1])
    BY <1>1, <2>1, FlattensStep
  <2>3. seqs[1] \in Seq(A) /\ seqs[m + 1] \in Seq(A)
    BY <1>1, <2>1
  <2>4. \A p, q \in Seq(A) : p \o q \in Seq(A)
    OBVIOUS
  <2>5. m = 0 \/ f[m] \in Seq(A)
    BY <1>3
  <2>6. f[m + 1] \in Seq(A)
    BY <2>2, <2>3, <2>4, <2>5
  <2> QED BY <1>1, <2>1, <2>6
<1> HIDE DEF T
<1>4. \A m \in 0..n : m \in T
  BY <1>1, <1>2, <1>3, InductionUpTo
<1> QED BY <1>4 DEF T, n

LEMMA FlattenType ==
    ASSUME NEW A, NEW seqs \in Seq(Seq(A))
    PROVE  FlattenSeq(seqs) \in Seq(A)
<1>1. CASE Len(seqs) = 0
  <2>1. seqs = <<>>
    BY <1>1
  <2> QED BY <1>1, <2>1 DEF FlattenSeq
<1>2. CASE Len(seqs) # 0
  <2>1. PICK f : Flattens(f, Len(seqs), seqs) /\ FlattenSeq(seqs) = f[Len(seqs)]
    BY <1>2, FlattenIsLast
  <2> QED BY <1>2, <2>1, FlattensTypes
<1> QED BY <1>1, <1>2

LEMMA FlattenEmpty == FlattenSeq(<<>>) = <<>>
  BY DEF FlattenSeq

\* One sequence more is one sequence behind the others.
LEMMA FlattenAppend ==
    ASSUME NEW A, NEW seqs \in Seq(Seq(A)), NEW s \in Seq(A)
    PROVE  FlattenSeq(Append(seqs, s)) = FlattenSeq(seqs) \o s
<1> DEFINE n == Len(seqs)
           more == Append(seqs, s)
<1>1. /\ n \in Nat /\ Len(more) = n + 1
      /\ \A i \in 1..n : more[i] = seqs[i]
      /\ more[n + 1] = s
  OBVIOUS
<1> HIDE DEF n, more
<1>2. PICK g : Flattens(g, n + 1, more) /\ FlattenSeq(more) = g[n + 1]
  BY <1>1, FlattenIsLast
<1>3. g[n + 1] = (IF n = 0 THEN more[1] ELSE g[n] \o more[n + 1])
  BY <1>1, <1>2, FlattensStep
<1>4. CASE n = 0
  <2>1. seqs = <<>>
    BY <1>4 DEF n
  <2>2. <<>> \o s = s
    OBVIOUS
  <2> QED BY <1>1, <1>2, <1>3, <1>4, <2>1, <2>2, FlattenEmpty DEF more
<1>5. CASE n # 0
  <2>1. PICK f : Flattens(f, n, seqs) /\ FlattenSeq(seqs) = f[n]
    BY <1>1, <1>5, FlattenIsLast DEF n
  <2>2. n \in 1..n
    BY <1>1, <1>5
  <2>3. f[n] = g[n]
    BY <1>1, <1>2, <2>1, <2>2, FlattensAgree
  <2> QED BY <1>1, <1>2, <1>3, <1>5, <2>1, <2>3 DEF more
<1> QED BY <1>4, <1>5

\* Where the elements of the sequences are in the one they make: behind those of
\* the sequences before, of which there are off[m - 1].
Places(off, seqs, flat) ==
    /\ off \in [0..Len(seqs) -> Nat] /\ off[0] = 0 /\ off[Len(seqs)] = Len(flat)
    /\ \A m \in 1..Len(seqs) : off[m] = off[m - 1] + Len(seqs[m])
    /\ \A m \in 1..Len(seqs) : \A j \in 1..Len(seqs[m]) :
          off[m - 1] + j \in 1..Len(flat) /\ flat[off[m - 1] + j] = seqs[m][j]
    /\ \A p \in 1..Len(flat) : \E m \in 1..Len(seqs) : \E j \in 1..Len(seqs[m]) :
          p = off[m - 1] + j

\* One sequence more has its places behind the others.
LEMMA PlacesAppend ==
    ASSUME NEW A, NEW seqs \in Seq(Seq(A)), NEW s \in Seq(A), NEW flat \in Seq(A),
           NEW off, Places(off, seqs, flat)
    PROVE  \E more : Places(more, Append(seqs, s), flat \o s)
<1> DEFINE n == Len(seqs)
           all == Append(seqs, s)
           longer == flat \o s
           more == [m \in 0..(n + 1) |-> IF m = n + 1 THEN off[n] + Len(s) ELSE off[m]]
<1>1. /\ n \in Nat /\ Len(all) = n + 1 /\ all[n + 1] = s
      /\ \A m \in 1..n : all[m] = seqs[m] /\ seqs[m] \in Seq(A)
  OBVIOUS
<1>2. /\ Len(flat) \in Nat /\ Len(s) \in Nat /\ Len(longer) = Len(flat) + Len(s)
      /\ \A p \in 1..Len(flat) : longer[p] = flat[p]
      /\ \A j \in 1..Len(s) : longer[Len(flat) + j] = s[j]
  <2>1. /\ Len(longer) = Len(flat) + Len(s) /\ Len(flat) \in Nat /\ Len(s) \in Nat
        /\ \A i \in 1..(Len(flat) + Len(s)) :
              longer[i] = IF i <= Len(flat) THEN flat[i] ELSE s[i - Len(flat)]
    BY ConcatProperties
  <2> HIDE DEF longer
  <2>2. \A j \in 1..Len(s) : /\ Len(flat) + j \in 1..(Len(flat) + Len(s)) /\ ~(Len(flat) + j <= Len(flat))
                            /\ (Len(flat) + j) - Len(flat) = j
    BY <2>1
  <2>3. \A j \in 1..Len(s) : longer[Len(flat) + j] = s[j]
    BY <2>1, <2>2
  <2>4. \A p \in 1..Len(flat) : p \in 1..(Len(flat) + Len(s)) /\ p <= Len(flat)
    BY <2>1
  <2> QED BY <2>1, <2>3, <2>4
<1>3. /\ off \in [0..n -> Nat] /\ off[0] = 0 /\ off[n] = Len(flat)
      /\ \A m \in 1..n : off[m] = off[m - 1] + Len(seqs[m])
      /\ \A m \in 1..n : \A j \in 1..Len(seqs[m]) :
            off[m - 1] + j \in 1..Len(flat) /\ flat[off[m - 1] + j] = seqs[m][j]
      /\ \A p \in 1..Len(flat) : \E m \in 1..n : \E j \in 1..Len(seqs[m]) : p = off[m - 1] + j
  BY DEF Places
<1> HIDE DEF n, all, longer
<1>4. /\ more \in [0..(n + 1) -> Nat] /\ more[n + 1] = off[n] + Len(s)
      /\ \A m \in 0..n : more[m] = off[m]
  BY <1>1, <1>2, <1>3
<1> HIDE DEF more
<1>5. \A m \in 1..(n + 1) : m \in 1..n \/ m = n + 1
  BY <1>1
<1>6. \A m \in 1..(n + 1) : more[m] = more[m - 1] + Len(all[m])
  <2> SUFFICES ASSUME NEW m \in 1..(n + 1) PROVE more[m] = more[m - 1] + Len(all[m])
    OBVIOUS
  <2>1. m - 1 \in 0..n /\ more[m - 1] = off[m - 1]
    BY <1>1, <1>4
  <2>2. CASE m \in 1..n
    <3>1. more[m] = off[m] /\ all[m] = seqs[m] /\ off[m] = off[m - 1] + Len(seqs[m])
      BY <1>1, <1>3, <1>4, <2>2
    <3> QED BY <2>1, <3>1
  <2>3. CASE m = n + 1
    BY <1>1, <1>4, <2>1, <2>3
  <2> QED BY <1>5, <2>2, <2>3
<1>7. ASSUME NEW m \in 1..(n + 1), NEW j \in 1..Len(all[m])
      PROVE  more[m - 1] + j \in 1..Len(longer) /\ longer[more[m - 1] + j] = all[m][j]
  <2>1. CASE m \in 1..n
    <3>1. more[m - 1] = off[m - 1] /\ all[m] = seqs[m]
      BY <1>1, <1>4, <2>1
    <3>2. off[m - 1] + j \in 1..Len(flat) /\ flat[off[m - 1] + j] = seqs[m][j]
      BY <1>3, <2>1, <3>1
    <3> QED BY <1>2, <3>1, <3>2
  <2>2. CASE m = n + 1
    <3>1. more[m - 1] = Len(flat) /\ all[m] = s
      BY <1>1, <1>3, <1>4, <2>2
    <3> QED BY <1>2, <3>1
  <2> QED BY <1>5, <2>1, <2>2
<1>8. ASSUME NEW p \in 1..Len(longer)
      PROVE  \E m \in 1..(n + 1) : \E j \in 1..Len(all[m]) : p = more[m - 1] + j
  <2>1. CASE p <= Len(flat)
    <3> p \in 1..Len(flat)
      BY <1>2, <2>1
    <3>1. PICK m \in 1..n : \E j \in 1..Len(seqs[m]) : p = off[m - 1] + j
      BY <1>3
    <3>2. all[m] = seqs[m] /\ more[m - 1] = off[m - 1] /\ m \in 1..(n + 1)
      BY <1>1, <1>4
    <3> QED BY <3>1, <3>2
  <2>2. CASE p > Len(flat)
    <3>1. p - Len(flat) \in 1..Len(s) /\ p = Len(flat) + (p - Len(flat))
      BY <1>2, <2>2
    <3>2. all[n + 1] = s /\ more[(n + 1) - 1] = Len(flat) /\ n + 1 \in 1..(n + 1)
      BY <1>1, <1>3, <1>4
    <3> QED BY <3>1, <3>2
  <2> QED BY <1>2, <2>1, <2>2
<1>9. more[0] = 0 /\ more[n + 1] = Len(longer)
  BY <1>1, <1>2, <1>3, <1>4
<1>10. Places(more, all, longer)
  BY <1>1, <1>4, <1>6, <1>7, <1>8, <1>9 DEF Places
<1> QED BY <1>10 DEF all, longer

\* A sequence of sequences, one after the other.
LEMMA PrefixAppend ==
    ASSUME NEW A, NEW seqs \in Seq(A), NEW m \in Nat, m < Len(seqs)
    PROVE  /\ [k \in 1..m |-> seqs[k]] \in Seq(A)
           /\ [k \in 1..(m + 1) |-> seqs[k]] = Append([k \in 1..m |-> seqs[k]], seqs[m + 1])
           /\ seqs[m + 1] \in A
<1> DEFINE prefix == [k \in 1..m |-> seqs[k]]
<1>1. prefix \in Seq(A) /\ Len(prefix) = m /\ seqs[m + 1] \in A
  OBVIOUS
<1>2. Append(prefix, seqs[m + 1]) = [k \in 1..(m + 1) |-> IF k = m + 1 THEN seqs[m + 1] ELSE prefix[k]]
  BY <1>1, AppendIsFunction
<1>3. \A k \in 1..(m + 1) : seqs[k] = IF k = m + 1 THEN seqs[m + 1] ELSE prefix[k]
  OBVIOUS
<1> HIDE DEF prefix
<1>4. Append(prefix, seqs[m + 1]) = [k \in 1..(m + 1) |-> seqs[k]]
  BY <1>2, <1>3
<1> QED BY <1>1, <1>4 DEF prefix

LEMMA FlattenPlaces ==
    ASSUME NEW A, NEW seqs \in Seq(Seq(A))
    PROVE  \E off : Places(off, seqs, FlattenSeq(seqs))
<1> DEFINE n == Len(seqs)
           Prefix(m) == [k \in 1..m |-> seqs[k]]
           T == {m \in 0..n : \E off : Places(off, Prefix(m), FlattenSeq(Prefix(m)))}
<1>1. n \in Nat /\ Prefix(n) = seqs
  OBVIOUS
<1>2. 0 \in T
  <2>1. Prefix(0) = <<>> /\ Len(<<>>) = 0
    OBVIOUS
  <2>2. Places([m \in 0..0 |-> 0], <<>>, <<>>)
    BY <2>1 DEF Places
  <2>3. FlattenSeq(Prefix(0)) = <<>>
    BY <2>1, FlattenEmpty
  <2> QED BY <1>1, <2>1, <2>2, <2>3
<1>3. ASSUME NEW m \in 0..(n - 1), m \in T PROVE m + 1 \in T
  <2>1. m \in Nat /\ m < Len(seqs) /\ m + 1 \in 0..n
    BY <1>1
  <2>2. Prefix(m) \in Seq(Seq(A)) /\ Prefix(m + 1) = Append(Prefix(m), seqs[m + 1]) /\ seqs[m + 1] \in Seq(A)
    BY <2>1, PrefixAppend
  <2>3. \E off : Places(off, Prefix(m), FlattenSeq(Prefix(m)))
    BY <1>3
  <2> HIDE DEF Prefix
  <2>4. FlattenSeq(Prefix(m)) \in Seq(A)
    BY <2>2, FlattenType
  <2>5. FlattenSeq(Prefix(m + 1)) = FlattenSeq(Prefix(m)) \o seqs[m + 1]
    BY <2>2, FlattenAppend
  <2>6. \E off : Places(off, Prefix(m + 1), FlattenSeq(Prefix(m + 1)))
    BY <2>2, <2>3, <2>4, <2>5, PlacesAppend
  <2> QED BY <2>1, <2>6
<1> HIDE DEF T
<1>4. \A m \in 0..n : m \in T
  BY <1>1, <1>2, <1>3, InductionUpTo
<1>5. n \in T
  BY <1>1, <1>4
<1> QED BY <1>1, <1>5 DEF T

\* No sequence begins before the end of an earlier one.
LEMMA PlacesInOrder ==
    ASSUME NEW A, NEW seqs \in Seq(Seq(A)), NEW flat, NEW off, Places(off, seqs, flat),
           NEW i \in 0..Len(seqs), NEW k \in i..Len(seqs)
    PROVE  off[i] <= off[k]
<1> DEFINE n == Len(seqs)
           T == {d \in 0..(n - i) : off[i] <= off[i + d]}
<1>1. /\ n \in Nat /\ off \in [0..n -> Nat]
      /\ \A m \in 1..n : off[m] = off[m - 1] + Len(seqs[m]) /\ Len(seqs[m]) \in Nat
  BY DEF Places
<1> HIDE DEF n
<1>2. i \in 0..n /\ k \in i..n
  BY DEF n
<1>3. 0 \in T
  BY <1>1, <1>2
<1>4. ASSUME NEW d \in 0..((n - i) - 1), d \in T PROVE d + 1 \in T
  <2>1. i + d + 1 \in 1..n /\ d + 1 \in 0..(n - i) /\ (i + d + 1) - 1 = i + d /\ i + d \in 0..n
    BY <1>1, <1>2
  <2>2. off[i + d + 1] = off[i + d] + Len(seqs[i + d + 1]) /\ Len(seqs[i + d + 1]) \in Nat
    BY <1>1, <2>1
  <2>3. off[i] \in Nat /\ off[i + d] \in Nat /\ off[i] <= off[i + d]
    BY <1>1, <1>2, <1>4, <2>1
  <2> QED BY <2>1, <2>2, <2>3
<1>5. n - i \in Nat /\ k - i \in 0..(n - i) /\ i + (k - i) = k
  BY <1>1, <1>2
<1> HIDE DEF T
<1>6. \A d \in 0..(n - i) : d \in T
  BY <1>3, <1>4, <1>5, InductionUpTo
<1>7. k - i \in T
  BY <1>5, <1>6
<1> QED BY <1>5, <1>7 DEF T

\* What is in one of the sequences, and nothing else.
LEMMA FlattenRange ==
    ASSUME NEW A, NEW seqs \in Seq(Seq(A))
    PROVE  \A e : e \in Range(FlattenSeq(seqs)) <=> \E m \in 1..Len(seqs) : e \in Range(seqs[m])
<1>1. PICK off : Places(off, seqs, FlattenSeq(seqs))
  BY FlattenPlaces
<1> DEFINE flat == FlattenSeq(seqs)
<1>2. flat \in Seq(A)
  BY FlattenType
<1> HIDE DEF flat
<1>3. DOMAIN flat = 1..Len(flat) /\ \A m \in 1..Len(seqs) : DOMAIN seqs[m] = 1..Len(seqs[m])
  BY <1>2
<1>4. ASSUME NEW e, e \in Range(flat) PROVE \E m \in 1..Len(seqs) : e \in Range(seqs[m])
  <2>1. PICK p \in 1..Len(flat) : e = flat[p]
    BY <1>3, <1>4 DEF Range
  <2>2. PICK m \in 1..Len(seqs) : \E j \in 1..Len(seqs[m]) : p = off[m - 1] + j
    BY <1>1 DEF Places, flat
  <2>3. PICK j \in 1..Len(seqs[m]) : p = off[m - 1] + j
    BY <2>2
  <2>4. e = seqs[m][j]
    BY <1>1, <2>1, <2>3 DEF Places, flat
  <2> QED BY <1>3, <2>4 DEF Range
<1>5. ASSUME NEW e, NEW m \in 1..Len(seqs), e \in Range(seqs[m]) PROVE e \in Range(flat)
  <2>1. PICK j \in 1..Len(seqs[m]) : e = seqs[m][j]
    BY <1>3, <1>5 DEF Range
  <2>2. off[m - 1] + j \in 1..Len(flat) /\ e = flat[off[m - 1] + j]
    BY <1>1, <2>1 DEF Places, flat
  <2> QED BY <1>3, <2>2 DEF Range
<1> QED BY <1>4, <1>5 DEF flat

\* Nothing occurs twice in sequences that do not repeat themselves nor one another.
LEMMA FlattenInjective ==
    ASSUME NEW A, NEW seqs \in Seq(Seq(A)),
           \A m \in 1..Len(seqs) : IsInjective(seqs[m]),
           \A m, k \in 1..Len(seqs) : m # k => Range(seqs[m]) \intersect Range(seqs[k]) = {}
    PROVE  IsInjective(FlattenSeq(seqs))
<1>1. PICK off : Places(off, seqs, FlattenSeq(seqs))
  BY FlattenPlaces
<1> DEFINE flat == FlattenSeq(seqs)
<1>2. flat \in Seq(A)
  BY FlattenType
<1> HIDE DEF flat
<1>3. DOMAIN flat = 1..Len(flat) /\ \A m \in 1..Len(seqs) : DOMAIN seqs[m] = 1..Len(seqs[m])
  BY <1>2
<1>4. ASSUME NEW p \in 1..Len(flat), NEW q \in 1..Len(flat), flat[p] = flat[q] PROVE p = q
  <2>1. PICK m \in 1..Len(seqs) : \E j \in 1..Len(seqs[m]) : p = off[m - 1] + j
    BY <1>1 DEF Places, flat
  <2>2. PICK j \in 1..Len(seqs[m]) : p = off[m - 1] + j
    BY <2>1
  <2>3. PICK k \in 1..Len(seqs) : \E i \in 1..Len(seqs[k]) : q = off[k - 1] + i
    BY <1>1 DEF Places, flat
  <2>4. PICK i \in 1..Len(seqs[k]) : q = off[k - 1] + i
    BY <2>3
  <2>5. flat[p] = seqs[m][j] /\ flat[q] = seqs[k][i]
    BY <1>1, <2>2, <2>4 DEF Places, flat
  <2>6. seqs[m][j] \in Range(seqs[m]) /\ seqs[k][i] \in Range(seqs[k])
    BY <1>3, <2>2, <2>4 DEF Range
  <2>7. m = k
    BY <1>4, <2>5, <2>6
  <2>8. j = i
    BY <1>3, <1>4, <2>2, <2>4, <2>5, <2>7 DEF IsInjective
  <2> QED BY <2>2, <2>4, <2>7, <2>8
<1> QED BY <1>3, <1>4 DEF IsInjective, flat

\* The first sequences, and then the rest.
LEMMA FlattenConcat ==
    ASSUME NEW A, NEW r \in Seq(Seq(A)), NEW s \in Seq(Seq(A))
    PROVE  FlattenSeq(r \o s) = FlattenSeq(r) \o FlattenSeq(s)
<1> DEFINE n == Len(s)
           Prefix(m) == [k \in 1..m |-> s[k]]
           T == {m \in 0..n : FlattenSeq(r \o Prefix(m)) = FlattenSeq(r) \o FlattenSeq(Prefix(m))}
<1>1. n \in Nat /\ Prefix(n) = s
  OBVIOUS
<1>2. 0 \in T
  <2>1. Prefix(0) = <<>> /\ r \o <<>> = r
    BY ConcatEmptySeq
  <2>2. FlattenSeq(r) \o <<>> = FlattenSeq(r)
    BY FlattenType, ConcatEmptySeq
  <2> HIDE DEF Prefix
  <2>3. FlattenSeq(r \o Prefix(0)) = FlattenSeq(r) \o FlattenSeq(Prefix(0))
    BY <2>1, <2>2, FlattenEmpty
  <2> QED BY <1>1, <2>3
<1>3. ASSUME NEW m \in 0..(n - 1), m \in T PROVE m + 1 \in T
  <2>1. m \in Nat /\ m < Len(s) /\ m + 1 \in 0..n
    BY <1>1
  <2>2. Prefix(m) \in Seq(Seq(A)) /\ Prefix(m + 1) = Append(Prefix(m), s[m + 1]) /\ s[m + 1] \in Seq(A)
    BY <2>1, PrefixAppend
  <2>3. FlattenSeq(r \o Prefix(m)) = FlattenSeq(r) \o FlattenSeq(Prefix(m))
    BY <1>3
  <2> DEFINE prefix == Prefix(m)
             longer == Prefix(m + 1)
             next == s[m + 1]
  <2> HIDE DEF Prefix
  <2>10. prefix \in Seq(Seq(A)) /\ longer = Append(prefix, next) /\ next \in Seq(A)
    BY <2>2
  <2> HIDE DEF prefix, longer, next
  <2>14. prefix \in Seq(Seq(A))
    BY <2>10
  <2>15. next \in Seq(A)
    BY <2>10
  <2>11. r \o Append(prefix, next) = Append(r \o prefix, next)
    BY <2>14, <2>15, ConcatAppend
  <2>4. r \o Prefix(m + 1) = Append(r \o Prefix(m), s[m + 1])
    BY <2>10, <2>11 DEF prefix, longer, next
  <2>5. r \o Prefix(m) \in Seq(Seq(A))
    BY <2>2, ConcatProperties
  <2>6. FlattenSeq(r \o Prefix(m + 1)) = FlattenSeq(r \o Prefix(m)) \o s[m + 1]
    BY <2>2, <2>4, <2>5, FlattenAppend
  <2>7. FlattenSeq(Prefix(m + 1)) = FlattenSeq(Prefix(m)) \o s[m + 1]
    BY <2>2, FlattenAppend
  <2>8. FlattenSeq(r) \in Seq(A) /\ FlattenSeq(Prefix(m)) \in Seq(A)
    BY <2>2, FlattenType
  <2> DEFINE fr == FlattenSeq(r)
             fp == FlattenSeq(Prefix(m))
  <2>12. fr \in Seq(A) /\ fp \in Seq(A)
    BY <2>8
  <2> HIDE DEF fr, fp
  <2>13. (fr \o fp) \o next = fr \o (fp \o next)
    BY <2>12, <2>15, ConcatAssociative
  <2>9. (FlattenSeq(r) \o FlattenSeq(Prefix(m))) \o s[m + 1]
            = FlattenSeq(r) \o (FlattenSeq(Prefix(m)) \o s[m + 1])
    BY <2>13 DEF fr, fp, next
  <2> QED BY <2>1, <2>3, <2>6, <2>7, <2>9
<1> HIDE DEF T
<1>4. \A m \in 0..n : m \in T
  BY <1>1, <1>2, <1>3, InductionUpTo
<1>5. n \in T
  BY <1>1, <1>4
<1> QED BY <1>1, <1>5 DEF T

===============================================================================
