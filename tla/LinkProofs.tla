------------------------------ MODULE LinkProofs ------------------------------
(***************************************************************************)
(* Proofs about the queues and lanes that carry frames.  Link: no packet   *)
(* is lost but by supersession, lanes deliver in order and within one      *)
(* connection, the reports add up, and the byte counter of every queue is  *)
(* exact and within its limits.  TcpPump and UsbBulkPump: the streams of   *)
(* both workers, in both directions, implement OrderedLanes.               *)
(***************************************************************************)
EXTENDS Link, SequenceTheorems, WellFoundedInduction, TLAPS

-----------------------------------------------------------------------------
(***************************************************************************)
(* Induction.  The principle is stated for sets, so that it can be cited:  *)
(* a claim P is proved for all n in 0..N by taking T = {n \in 0..N : P}.   *)
(***************************************************************************)
\* Every nonempty set of natural numbers has a least element.
LEMMA LeastNumber ==
  ASSUME NEW T, T \subseteq Nat, T # {}
  PROVE  \E n \in T : \A m \in T : n <= m
  <1> DEFINE R == {ss \in Nat \X Nat : ss[1] < ss[2]}
  <1>1. IsWellFoundedOn(R, Nat)
    BY NatLessThanWellFounded DEF OpToRel
  <1>2. \E x \in T : \A y \in T : ~(<<y, x>> \in R)
    BY <1>1, WFMin
  <1>3. PICK x \in T : \A y \in T : ~(<<y, x>> \in R)
    BY <1>2
  <1>4. \A y \in T : y < x => <<y, x>> \in R
    OBVIOUS
  <1>5. \A y \in T : x <= y
    <2> SUFFICES ASSUME NEW y \in T PROVE x <= y
      OBVIOUS
    <2>1. x \in Nat /\ y \in Nat /\ ~(y < x)
      BY <1>3, <1>4
    <2> QED BY <2>1
  <1> QED BY <1>5

\* A set that holds 0 and, with each number below N, the next holds 0..N.
LEMMA InductionUpTo ==
  ASSUME NEW N \in Nat, NEW T, 0 \in T,
         \A n \in 0 .. N - 1 : n \in T => n + 1 \in T
  PROVE  \A n \in 0 .. N : n \in T
  <1> SUFFICES ASSUME NEW k \in 0 .. N, k \notin T PROVE FALSE
    OBVIOUS
  <1> DEFINE Bad == {n \in 0 .. N : n \notin T}
  <1>1. PICK n \in Bad : \A m \in Bad : n <= m
    <2>1. Bad \subseteq Nat /\ Bad # {}
      OBVIOUS
    <2> QED BY <2>1, LeastNumber
  <1>2. n # 0 /\ n - 1 \in 0 .. N - 1 /\ n - 1 \in T
    BY <1>1
  <1> QED BY <1>1, <1>2

-----------------------------------------------------------------------------
(***************************************************************************)
(* What Retain and TotalBytes compute.  Both are recursive functions over  *)
(* the prefixes of a sequence; the first lemma on each says that the       *)
(* recursion defines a function, which is how its equations are obtained.  *)
(***************************************************************************)
\* The equations of Retain.
RetainEquations(f, s, K) ==
    /\ f[0] = <<>>
    /\ \A n \in 1 .. Len(s) :
         f[n] = IF s[n] \in K THEN Append(f[n - 1], s[n]) ELSE f[n - 1]

\* Retain(s, K) is the value at Len(s) of a function that satisfies them.
LEMMA RetainRecursion ==
  ASSUME NEW S, NEW s \in Seq(S), NEW K
  PROVE  \E f \in [0 .. Len(s) -> Seq(S)] :
            RetainEquations(f, s, K) /\ Retain(s, K) = f[Len(s)]
  <1> DEFINE N == Len(s)
             F(f) == [n \in 0 .. N |->
                        IF n = 0 THEN <<>>
                        ELSE IF s[n] \in K THEN Append(f[n - 1], s[n]) ELSE f[n - 1]]
             Good(n, f) == /\ f[0] = <<>>
                           /\ \A m \in 1 .. n : f[m] =
                                IF s[m] \in K THEN Append(f[m - 1], s[m]) ELSE f[m - 1]
             T == {n \in 0 .. N : \E f \in [0 .. n -> Seq(S)] : Good(n, f)}
  <1>0. N \in Nat /\ \A n \in 1 .. N : s[n] \in S
    OBVIOUS
  <1>1. 0 \in T
    <2> DEFINE f == [n \in 0 .. 0 |-> <<>>]
    <2>1. f \in [0 .. 0 -> Seq(S)] /\ f[0] = <<>>
      OBVIOUS
    <2> HIDE DEF f
    <2>2. Good(0, f)
      BY <2>1
    <2>3. 0 \in 0 .. N
      BY <1>0
    <2> HIDE DEF Good
    <2> QED BY <2>1, <2>2, <2>3
  <1>2. ASSUME NEW n \in 0 .. N - 1, n \in T PROVE n + 1 \in T
    <2>1. PICK f \in [0 .. n -> Seq(S)] : Good(n, f)
      BY <1>2
    <2> DEFINE last == IF s[n + 1] \in K THEN Append(f[n], s[n + 1]) ELSE f[n]
               g == [m \in 0 .. n + 1 |-> IF m = n + 1 THEN last ELSE f[m]]
    <2>2. last \in Seq(S)
      BY <1>0, <2>1
    <2>3. g \in [0 .. n + 1 -> Seq(S)]
      BY <2>2
    <2>4. Good(n + 1, g)
      <3> HIDE DEF last
      <3>1. g[0] = <<>>
        BY <2>1
      <3>2. ASSUME NEW m \in 1 .. n
            PROVE  g[m] = IF s[m] \in K THEN Append(g[m - 1], s[m]) ELSE g[m - 1]
        <4>1. m \in 0 .. n + 1 /\ m # n + 1 /\ m - 1 \in 0 .. n + 1 /\ m - 1 # n + 1
          OBVIOUS
        <4>2. g[m] = f[m] /\ g[m - 1] = f[m - 1]
          BY <4>1
        <4> QED BY <2>1, <3>2, <4>2
      <3>3. g[n + 1] = IF s[n + 1] \in K THEN Append(g[n], s[n + 1]) ELSE g[n]
        <4>1. g[n + 1] = last /\ g[n] = f[n]
          OBVIOUS
        <4> QED BY <4>1 DEF last
      <3>4. \A m \in 1 .. n + 1 : m \in 1 .. n \/ m = n + 1
        OBVIOUS
      <3>5. (n + 1) - 1 = n
        OBVIOUS
      <3> HIDE DEF g
      <3> QED BY <3>1, <3>2, <3>3, <3>4, <3>5
    <2>5. n + 1 \in 0 .. N
      BY <1>0
    <2> HIDE DEF g, Good
    <2> QED BY <2>3, <2>4, <2>5
  <1>3. N \in T
    <2> HIDE DEF T, N
    <2>1. \A n \in 0 .. N : n \in T
      BY <1>0, <1>1, <1>2, InductionUpTo
    <2> QED BY <1>0, <2>1
  <1>4. PICK f \in [0 .. N -> Seq(S)] : Good(N, f)
    BY <1>3
  <1>5. f = F(f)
    <2>1. \A n \in 0 .. N : n = 0 \/ n \in 1 .. N
      BY <1>0
    <2>2. \A n \in 0 .. N : f[n] = F(f)[n]
      BY <1>4, <2>1
    <2> HIDE DEF F
    <2>3. F(f) = [n \in 0 .. N |-> F(f)[n]]
      BY DEF F
    <2> QED BY <2>2, <2>3
  <1> DEFINE h == CHOOSE x : x = F(x)
  <1>6. h = F(h)
    <2> HIDE DEF F
    <2> QED BY <1>5
  <1>7. Retain(s, K) = h[N]
    BY DEF Retain
  <1>8. h[0] = <<>> /\ \A n \in 1 .. N : h[n] = IF s[n] \in K THEN Append(h[n - 1], s[n]) ELSE h[n - 1]
    <2> HIDE DEF h
    <2>1. \A n \in 0 .. N : h[n] = F(h)[n]
      BY <1>6
    <2>2. \A n \in 1 .. N : n \in 0 .. N /\ n # 0
      BY <1>0
    <2>3. h[0] = <<>>
      BY <1>0, <2>1
    <2>4. ASSUME NEW n \in 1 .. N
          PROVE  h[n] = IF s[n] \in K THEN Append(h[n - 1], s[n]) ELSE h[n - 1]
      BY <2>1, <2>2
    <2> QED BY <2>3, <2>4
  <1>9. \A n \in 0 .. N : h[n] \in Seq(S)
    <2> HIDE DEF h
    <2> DEFINE U == {n \in 0 .. N : h[n] \in Seq(S)}
    <2>1. 0 \in U
      <3>1. 0 \in 0 .. N /\ <<>> \in Seq(S)
        BY <1>0
      <3> QED BY <1>8, <3>1
    <2>2. ASSUME NEW n \in 0 .. N - 1, n \in U PROVE n + 1 \in U
      <3>1. n + 1 \in 1 .. N /\ n + 1 \in 0 .. N /\ (n + 1) - 1 = n
        BY <1>0
      <3>2. h[n + 1] = IF s[n + 1] \in K THEN Append(h[n], s[n + 1]) ELSE h[n]
        BY <1>8, <3>1
      <3>3. h[n + 1] \in Seq(S)
        BY <1>0, <2>2, <3>1, <3>2
      <3> QED BY <3>1, <3>3
    <2> QED BY <1>0, <2>1, <2>2, InductionUpTo
  <1>10. h \in [0 .. N -> Seq(S)]
    <2> HIDE DEF h
    <2> QED BY <1>6, <1>9
  <1> HIDE DEF h
  <1> QED BY <1>7, <1>8, <1>10 DEF RetainEquations

\* The equations of TotalBytes.
SumEquations(f, s) ==
    /\ f[0] = 0
    /\ \A n \in 1 .. Len(s) : f[n] = f[n - 1] + s[n].size

Sized(S) == \A x \in S : x.size \in Nat

\* TotalBytes(s) is the value at Len(s) of a function that satisfies them.
LEMMA SumRecursion ==
  ASSUME NEW S, Sized(S), NEW s \in Seq(S)
  PROVE  \E f \in [0 .. Len(s) -> Nat] : SumEquations(f, s) /\ TotalBytes(s) = f[Len(s)]
  <1> DEFINE N == Len(s)
             F(f) == [n \in 0 .. N |-> IF n = 0 THEN 0 ELSE f[n - 1] + s[n].size]
             Good(n, f) == f[0] = 0 /\ \A m \in 1 .. n : f[m] = f[m - 1] + s[m].size
             T == {n \in 0 .. N : \E f \in [0 .. n -> Nat] : Good(n, f)}
  <1>0. N \in Nat /\ \A n \in 1 .. N : s[n].size \in Nat
    BY DEF Sized
  <1>1. 0 \in T
    <2> DEFINE f == [n \in 0 .. 0 |-> 0]
    <2>1. f \in [0 .. 0 -> Nat] /\ f[0] = 0
      OBVIOUS
    <2> HIDE DEF f
    <2>2. Good(0, f)
      BY <2>1
    <2>3. 0 \in 0 .. N
      BY <1>0
    <2> HIDE DEF Good
    <2> QED BY <2>1, <2>2, <2>3
  <1>2. ASSUME NEW n \in 0 .. N - 1, n \in T PROVE n + 1 \in T
    <2>1. PICK f \in [0 .. n -> Nat] : Good(n, f)
      BY <1>2
    <2> DEFINE last == f[n] + s[n + 1].size
               g == [m \in 0 .. n + 1 |-> IF m = n + 1 THEN last ELSE f[m]]
    <2>2. last \in Nat
      BY <1>0, <2>1
    <2>3. g \in [0 .. n + 1 -> Nat]
      BY <2>2
    <2>4. Good(n + 1, g)
      <3> HIDE DEF last
      <3>1. g[0] = 0
        BY <2>1
      <3>2. ASSUME NEW m \in 1 .. n
            PROVE  g[m] = g[m - 1] + s[m].size
        <4>1. m \in 0 .. n + 1 /\ m # n + 1 /\ m - 1 \in 0 .. n + 1 /\ m - 1 # n + 1
          OBVIOUS
        <4>2. g[m] = f[m] /\ g[m - 1] = f[m - 1]
          BY <4>1
        <4> QED BY <2>1, <3>2, <4>2
      <3>3. g[n + 1] = g[n] + s[n + 1].size
        <4>1. g[n + 1] = last /\ g[n] = f[n]
          OBVIOUS
        <4> QED BY <4>1 DEF last
      <3>4. \A m \in 1 .. n + 1 : m \in 1 .. n \/ m = n + 1
        OBVIOUS
      <3>5. (n + 1) - 1 = n
        OBVIOUS
      <3> HIDE DEF g
      <3> QED BY <3>1, <3>2, <3>3, <3>4, <3>5
    <2>5. n + 1 \in 0 .. N
      BY <1>0
    <2> HIDE DEF g, Good
    <2> QED BY <2>3, <2>4, <2>5
  <1>3. N \in T
    <2> HIDE DEF T, N
    <2>1. \A n \in 0 .. N : n \in T
      BY <1>0, <1>1, <1>2, InductionUpTo
    <2> QED BY <1>0, <2>1
  <1>4. PICK f \in [0 .. N -> Nat] : Good(N, f)
    BY <1>3
  <1>5. f = F(f)
    <2>1. \A n \in 0 .. N : n = 0 \/ n \in 1 .. N
      BY <1>0
    <2>2. \A n \in 0 .. N : f[n] = F(f)[n]
      BY <1>4, <2>1
    <2> HIDE DEF F
    <2>3. F(f) = [n \in 0 .. N |-> F(f)[n]]
      BY DEF F
    <2> QED BY <2>2, <2>3
  <1> DEFINE h == CHOOSE x : x = F(x)
  <1>6. h = F(h)
    <2> HIDE DEF F
    <2> QED BY <1>5
  <1>7. TotalBytes(s) = h[N]
    BY DEF TotalBytes
  <1> HIDE DEF h
  <1>8. h[0] = 0 /\ \A n \in 1 .. N : h[n] = h[n - 1] + s[n].size
    <2>1. \A n \in 0 .. N : h[n] = F(h)[n]
      BY <1>6
    <2>2. \A n \in 1 .. N : n \in 0 .. N /\ n # 0
      BY <1>0
    <2>3. h[0] = 0
      BY <1>0, <2>1
    <2>4. ASSUME NEW n \in 1 .. N PROVE h[n] = h[n - 1] + s[n].size
      BY <2>1, <2>2
    <2> QED BY <2>3, <2>4
  <1>9. \A n \in 0 .. N : h[n] \in Nat
    <2> DEFINE U == {n \in 0 .. N : h[n] \in Nat}
    <2>1. 0 \in U
      BY <1>0, <1>8
    <2>2. ASSUME NEW n \in 0 .. N - 1, n \in U PROVE n + 1 \in U
      <3>1. n + 1 \in 1 .. N /\ n + 1 \in 0 .. N /\ (n + 1) - 1 = n
        BY <1>0
      <3>2. h[n + 1] = h[n] + s[n + 1].size
        BY <1>8, <3>1
      <3> QED BY <1>0, <2>2, <3>1, <3>2
    <2> QED BY <1>0, <2>1, <2>2, InductionUpTo
  <1>10. h \in [0 .. N -> Nat]
    BY <1>6, <1>9
  <1> QED BY <1>7, <1>8, <1>10 DEF SumEquations

\* The bytes of no packet, of one, and of a sequence with one more at its end.
LEMMA TotalOfAppend ==
  ASSUME NEW S, Sized(S), NEW s \in Seq(S), NEW e \in S
  PROVE  /\ TotalBytes(s) \in Nat /\ TotalBytes(<<>>) = 0 /\ TotalBytes(<<e>>) = e.size
         /\ TotalBytes(Append(s, e)) = TotalBytes(s) + e.size
  <1>1. PICK f \in [0 .. Len(s) -> Nat] : SumEquations(f, s) /\ TotalBytes(s) = f[Len(s)]
    BY SumRecursion
  <1>2. Append(s, e) \in Seq(S) /\ Len(Append(s, e)) = Len(s) + 1 /\ Len(s) \in Nat
        /\ Append(s, e)[Len(s) + 1] = e /\ \A n \in 1 .. Len(s) : Append(s, e)[n] = s[n]
    OBVIOUS
  <1>3. PICK g \in [0 .. Len(s) + 1 -> Nat] :
          SumEquations(g, Append(s, e)) /\ TotalBytes(Append(s, e)) = g[Len(s) + 1]
    BY <1>2, SumRecursion
  <1> DEFINE T == {n \in 0 .. Len(s) : g[n] = f[n]}
  <1>4. 0 \in T
    BY <1>1, <1>2, <1>3 DEF SumEquations
  <1>5. ASSUME NEW n \in 0 .. Len(s) - 1, n \in T PROVE n + 1 \in T
    <2>1. n + 1 \in 1 .. Len(s) /\ n + 1 \in 1 .. Len(s) + 1 /\ (n + 1) - 1 = n
      BY <1>2
    <2>2. f[n + 1] = f[n] + s[n + 1].size
      BY <1>1, <2>1 DEF SumEquations
    <2>3. g[n + 1] = g[n] + s[n + 1].size
      BY <1>2, <1>3, <2>1 DEF SumEquations
    <2> QED BY <1>2, <1>5, <2>1, <2>2, <2>3
  <1>6. g[Len(s)] = f[Len(s)]
    <2>1. Len(s) \in T
      <3> HIDE DEF T
      <3>1. \A n \in 0 .. Len(s) : n \in T
        BY <1>2, <1>4, <1>5, InductionUpTo
      <3> QED BY <1>2, <3>1
    <2> QED BY <2>1
  <1>7. g[Len(s) + 1] = g[Len(s)] + e.size
    <2>1. Len(s) + 1 \in 1 .. Len(s) + 1 /\ (Len(s) + 1) - 1 = Len(s)
      BY <1>2
    <2> QED BY <1>2, <1>3, <2>1 DEF SumEquations
  <1>8. TotalBytes(<<>>) = 0
    <2>1. <<>> \in Seq(S) /\ Len(<<>>) = 0
      OBVIOUS
    <2>2. PICK h \in [0 .. 0 -> Nat] : SumEquations(h, <<>>) /\ TotalBytes(<<>>) = h[0]
      BY <2>1, SumRecursion
    <2> QED BY <2>2 DEF SumEquations
  <1>9. TotalBytes(<<e>>) = e.size
    <2>1. <<e>> \in Seq(S) /\ Len(<<e>>) = 1 /\ <<e>>[1] = e
      OBVIOUS
    <2>2. PICK h \in [0 .. 1 -> Nat] : SumEquations(h, <<e>>) /\ TotalBytes(<<e>>) = h[1]
      BY <2>1, SumRecursion
    <2>3. h[1] = h[0] + e.size /\ h[0] = 0
      BY <2>1, <2>2 DEF SumEquations
    <2> QED BY <2>2, <2>3 DEF Sized
  <1> QED BY <1>1, <1>2, <1>3, <1>6, <1>7, <1>8, <1>9

\* The bytes of a queue without its first packet.
LEMMA TotalOfTail ==
  ASSUME NEW S, Sized(S), NEW s \in Seq(S), s # <<>>
  PROVE  TotalBytes(s) = Head(s).size + TotalBytes(Tail(s))
  <1>1. /\ Tail(s) \in Seq(S) /\ Len(Tail(s)) = Len(s) - 1 /\ Len(s) \in Nat \ {0}
        /\ Head(s) = s[1] /\ s[1].size \in Nat
        /\ \A n \in 1 .. Len(s) - 1 : Tail(s)[n] = s[n + 1] /\ s[n + 1].size \in Nat
    BY DEF Sized
  <1>2. PICK f \in [0 .. Len(s) -> Nat] : SumEquations(f, s) /\ TotalBytes(s) = f[Len(s)]
    BY SumRecursion
  <1>3. PICK g \in [0 .. Len(s) - 1 -> Nat] :
          SumEquations(g, Tail(s)) /\ TotalBytes(Tail(s)) = g[Len(s) - 1]
    BY <1>1, SumRecursion
  <1> DEFINE N == Len(s) - 1
             T == {n \in 0 .. N : f[n + 1] = s[1].size + g[n]}
  <1>4. 0 \in T
    <2>1. 1 \in 1 .. Len(s) /\ 0 \in 0 .. N
      BY <1>1
    <2>2. f[1] = f[0] + s[1].size /\ f[0] = 0 /\ g[0] = 0
      BY <1>2, <1>3, <2>1 DEF SumEquations
    <2> QED BY <1>1, <2>1, <2>2
  <1>5. ASSUME NEW n \in 0 .. N - 1, n \in T PROVE n + 1 \in T
    <2>1. /\ n + 1 \in 1 .. N /\ n + 2 \in 1 .. Len(s) /\ (n + 1) - 1 = n
          /\ (n + 2) - 1 = n + 1 /\ (n + 1) + 1 = n + 2 /\ n + 1 \in 0 .. N
      BY <1>1
    <2>2. f[n + 2] = f[n + 1] + s[n + 2].size
      BY <1>2, <2>1 DEF SumEquations
    <2>3. g[n + 1] = g[n] + s[n + 2].size
      BY <1>1, <1>3, <2>1 DEF SumEquations
    <2>4. g[n] \in Nat /\ s[n + 2].size \in Nat
      <3>1. n + 1 \in 1 .. Len(s) - 1 /\ n \in 0 .. Len(s) - 1
        BY <2>1
      <3>2. s[(n + 1) + 1].size \in Nat
        BY <1>1, <3>1
      <3> QED BY <1>3, <2>1, <3>1, <3>2
    <2> QED BY <1>1, <1>5, <2>1, <2>2, <2>3, <2>4
  <1>6. N \in T
    <2>1. N \in Nat
      BY <1>1
    <2> HIDE DEF T, N
    <2>2. \A n \in 0 .. N : n \in T
      BY <1>4, <1>5, <2>1, InductionUpTo
    <2> QED BY <2>1, <2>2
  <1>7. f[N + 1] = s[1].size + g[N] /\ N + 1 = Len(s)
    BY <1>1, <1>6
  <1> QED BY <1>1, <1>2, <1>3, <1>7

\* What a queue holds after a packet is put in at its back or taken from its
\* front.
LEMMA MembersOfSequences ==
  ASSUME NEW S, NEW s \in Seq(S), NEW e \in S
  PROVE  /\ ToSet(<<>>) = {} /\ ToSet(s) \subseteq S
         /\ ToSet(Append(s, e)) = ToSet(s) \cup {e}
         /\ s # <<>> => ToSet(s) = {Head(s)} \cup ToSet(Tail(s))
  <1>1. ToSet(<<>>) = {} /\ ToSet(s) \subseteq S
    BY DEF ToSet
  <1>2. ToSet(Append(s, e)) = ToSet(s) \cup {e}
    <2>1. Append(s, e) \in Seq(S) /\ Len(Append(s, e)) = Len(s) + 1 /\ Len(s) \in Nat
          /\ Append(s, e)[Len(s) + 1] = e /\ \A n \in 1 .. Len(s) : Append(s, e)[n] = s[n]
          /\ DOMAIN s = 1 .. Len(s) /\ DOMAIN Append(s, e) = 1 .. Len(s) + 1
      OBVIOUS
    <2>2. \A n \in 1 .. Len(s) + 1 : n \in 1 .. Len(s) \/ n = Len(s) + 1
      BY <2>1
    <2>3. \A n \in 1 .. Len(s) : n \in 1 .. Len(s) + 1
      BY <2>1
    <2>4. Len(s) + 1 \in 1 .. Len(s) + 1
      BY <2>1
    <2>5. ASSUME NEW x \in ToSet(Append(s, e)) PROVE x \in ToSet(s) \cup {e}
      BY <2>1, <2>2, <2>5 DEF ToSet
    <2>6. ASSUME NEW x \in ToSet(s) PROVE x \in ToSet(Append(s, e))
      BY <2>1, <2>3, <2>6 DEF ToSet
    <2>7. e \in ToSet(Append(s, e))
      BY <2>1, <2>4 DEF ToSet
    <2> QED BY <2>5, <2>6, <2>7
  <1>3. ASSUME s # <<>> PROVE ToSet(s) = {Head(s)} \cup ToSet(Tail(s))
    <2>1. /\ Len(s) \in Nat \ {0} /\ Head(s) = s[1] /\ DOMAIN s = 1 .. Len(s)
          /\ DOMAIN Tail(s) = 1 .. Len(s) - 1
          /\ \A n \in 1 .. Len(s) - 1 : Tail(s)[n] = s[n + 1]
      BY <1>3
    <2>2. \A n \in 1 .. Len(s) : n = 1 \/ (n - 1 \in 1 .. Len(s) - 1 /\ (n - 1) + 1 = n)
      BY <2>1
    <2>3. 1 \in 1 .. Len(s) /\ \A n \in 1 .. Len(s) - 1 : n + 1 \in 1 .. Len(s)
      BY <2>1
    <2>4. ASSUME NEW n \in 1 .. Len(s) PROVE s[n] \in {Head(s)} \cup ToSet(Tail(s))
      <3>1. CASE n = 1
        BY <2>1, <3>1
      <3>2. CASE n - 1 \in 1 .. Len(s) - 1 /\ (n - 1) + 1 = n
        <4>1. Tail(s)[n - 1] = s[n]
          BY <2>1, <3>2
        <4> QED BY <2>1, <3>2, <4>1 DEF ToSet
      <3> QED BY <2>2, <3>1, <3>2
    <2>5. ASSUME NEW n \in 1 .. Len(s) - 1 PROVE Tail(s)[n] \in ToSet(s)
      BY <2>1, <2>3 DEF ToSet
    <2>6. s[1] \in ToSet(s)
      BY <2>1, <2>3 DEF ToSet
    <2>7. ToSet(s) \subseteq {Head(s)} \cup ToSet(Tail(s))
      <3>1. ASSUME NEW x \in ToSet(s) PROVE x \in {Head(s)} \cup ToSet(Tail(s))
        <4>1. PICK n \in 1 .. Len(s) : x = s[n]
          BY <2>1, <3>1 DEF ToSet
        <4> QED BY <2>4, <4>1
      <3> QED BY <3>1
    <2>8. ToSet(Tail(s)) \subseteq ToSet(s)
      <3>1. ASSUME NEW x \in ToSet(Tail(s)) PROVE x \in ToSet(s)
        <4>1. PICK n \in 1 .. Len(s) - 1 : x = Tail(s)[n]
          BY <2>1, <3>1 DEF ToSet
        <4> QED BY <2>5, <4>1
      <3> QED BY <3>1
    <2> QED BY <2>1, <2>6, <2>7, <2>8
  <1> QED BY <1>1, <1>2, <1>3

\* Numbers of the packets of a lane grow towards its back.
Increasing(s) == \A i, j \in DOMAIN s : i < j => s[i].id < s[j].id

\* They still do when a packet with a greater number is put in at the back.
LEMMA IncreasingAppend ==
  ASSUME NEW S, NEW s \in Seq(S), NEW e \in S, Increasing(s),
         \A x \in ToSet(s) : x.id < e.id
  PROVE  Increasing(Append(s, e))
  <1>1. Append(s, e) \in Seq(S) /\ Len(s) \in Nat
        /\ Append(s, e)[Len(s) + 1] = e /\ (\A n \in 1 .. Len(s) : Append(s, e)[n] = s[n])
        /\ DOMAIN s = 1 .. Len(s) /\ DOMAIN Append(s, e) = 1 .. Len(s) + 1
    OBVIOUS
  <1>2. SUFFICES ASSUME NEW i \in 1 .. Len(s) + 1, NEW j \in 1 .. Len(s) + 1, i < j
                 PROVE  Append(s, e)[i].id < Append(s, e)[j].id
    BY <1>1 DEF Increasing
  <1>3. i \in 1 .. Len(s) /\ Append(s, e)[i] = s[i]
    BY <1>1, <1>2
  <1>4. CASE j = Len(s) + 1
    <2>1. s[i] \in ToSet(s)
      BY <1>1, <1>3 DEF ToSet
    <2> QED BY <1>1, <1>3, <1>4, <2>1
  <1>5. CASE j # Len(s) + 1
    <2>1. j \in 1 .. Len(s)
      BY <1>1, <1>5
    <2> QED BY <1>1, <1>2, <1>3, <2>1 DEF Increasing
  <1> QED BY <1>4, <1>5

\* And when a packet is taken from the front, it has the least number.
LEMMA IncreasingTail ==
  ASSUME NEW S, NEW s \in Seq(S), s # <<>>, Increasing(s)
  PROVE  Increasing(Tail(s)) /\ \A x \in ToSet(Tail(s)) : Head(s).id < x.id
  <1>1. /\ Len(s) \in Nat \ {0} /\ Head(s) = s[1] /\ DOMAIN s = 1 .. Len(s)
        /\ DOMAIN Tail(s) = 1 .. Len(s) - 1
        /\ \A n \in 1 .. Len(s) - 1 : Tail(s)[n] = s[n + 1] /\ n + 1 \in 1 .. Len(s)
    OBVIOUS
  <1>2. ASSUME NEW i \in 1 .. Len(s) - 1, NEW j \in 1 .. Len(s) - 1, i < j
        PROVE  Tail(s)[i].id < Tail(s)[j].id
    BY <1>1, <1>2 DEF Increasing
  <1>3. ASSUME NEW n \in 1 .. Len(s) - 1
        PROVE  Head(s).id < Tail(s)[n].id
    <2>1. 1 \in 1 .. Len(s) /\ 1 < n + 1
      BY <1>1
    <2> QED BY <1>1, <2>1 DEF Increasing
  <1> QED BY <1>1, <1>2, <1>3 DEF Increasing, ToSet

\* Retain keeps exactly the members that are in K, in their order.
LEMMA RetainKeeps ==
  ASSUME NEW S, NEW s \in Seq(S), NEW K
  PROVE  /\ Retain(s, K) \in Seq(S)
         /\ ToSet(Retain(s, K)) = ToSet(s) \cap K
         /\ Increasing(s) => Increasing(Retain(s, K))
  <1>0. Len(s) \in Nat /\ DOMAIN s = 1 .. Len(s) /\ \A n \in 1 .. Len(s) : s[n] \in S
    OBVIOUS
  <1>1. PICK f \in [0 .. Len(s) -> Seq(S)] :
          RetainEquations(f, s, K) /\ Retain(s, K) = f[Len(s)]
    BY RetainRecursion
  <1> DEFINE First(n) == {s[i] : i \in 1 .. n}
             Claim(n) == /\ ToSet(f[n]) = First(n) \cap K
                         /\ Increasing(s) => Increasing(f[n])
             T == {n \in 0 .. Len(s) : Claim(n)}
  <1>2. 0 \in T
    <2>1. f[0] = <<>> /\ ToSet(<<>>) = {} /\ First(0) = {} /\ Increasing(<<>>)
      BY <1>1 DEF RetainEquations, ToSet, Increasing
    <2> QED BY <1>0, <2>1
  <1>3. ASSUME NEW n \in 0 .. Len(s) - 1, n \in T PROVE n + 1 \in T
    <2>1. n + 1 \in 1 .. Len(s) /\ n + 1 \in 0 .. Len(s) /\ (n + 1) - 1 = n /\ n \in 0 .. Len(s)
      BY <1>0
    <2>2. f[n + 1] = IF s[n + 1] \in K THEN Append(f[n], s[n + 1]) ELSE f[n]
      BY <1>1, <2>1 DEF RetainEquations
    <2>3. First(n + 1) = First(n) \cup {s[n + 1]}
      <3>1. \A i \in 1 .. n + 1 : i \in 1 .. n \/ i = n + 1
        OBVIOUS
      <3>2. \A i \in 1 .. n : i \in 1 .. n + 1
        OBVIOUS
      <3>3. n + 1 \in 1 .. n + 1
        OBVIOUS
      <3> QED BY <3>1, <3>2, <3>3
    <2> HIDE DEF First
    <2>4. f[n] \in Seq(S) /\ s[n + 1] \in S /\ Claim(n)
      BY <1>0, <1>1, <1>3, <2>1
    <2>5. CASE s[n + 1] \in K
      <3>1. ToSet(f[n + 1]) = ToSet(f[n]) \cup {s[n + 1]}
        BY <2>2, <2>4, <2>5, MembersOfSequences
      <3>2. ASSUME Increasing(s) PROVE Increasing(f[n + 1])
        <4>1. ASSUME NEW x \in ToSet(f[n]) PROVE x.id < s[n + 1].id
          <5>1. PICK i \in 1 .. n : x = s[i]
            BY <2>4, <4>1 DEF First
          <5>2. i \in DOMAIN s /\ n + 1 \in DOMAIN s /\ i < n + 1
            BY <1>0, <2>1
          <5> QED BY <3>2, <5>1, <5>2 DEF Increasing
        <4> QED BY <2>2, <2>4, <2>5, <3>2, <4>1, IncreasingAppend
      <3> QED BY <2>1, <2>3, <2>4, <2>5, <3>1, <3>2
    <2>6. CASE s[n + 1] \notin K
      BY <2>1, <2>2, <2>3, <2>4, <2>6
    <2> QED BY <2>5, <2>6
  <1>4. Len(s) \in T
    <2> HIDE DEF T
    <2>1. \A n \in 0 .. Len(s) : n \in T
      BY <1>0, <1>2, <1>3, InductionUpTo
    <2> QED BY <1>0, <2>1
  <1>5. Claim(Len(s)) /\ First(Len(s)) = ToSet(s)
    BY <1>0, <1>4 DEF ToSet
  <1> QED BY <1>0, <1>1, <1>5

\* What is kept and what is not add up, in packets and in bytes.
LEMMA RetainSplits ==
  ASSUME NEW S, Sized(S), NEW s \in Seq(S), NEW K, NEW L,
         \A i \in DOMAIN s : s[i] \in L <=> s[i] \notin K
  PROVE  /\ Len(Retain(s, K)) + Len(Retain(s, L)) = Len(s)
         /\ TotalBytes(Retain(s, K)) + TotalBytes(Retain(s, L)) = TotalBytes(s)
  <1>0. /\ Len(s) \in Nat /\ DOMAIN s = 1 .. Len(s)
        /\ \A n \in 1 .. Len(s) : s[n] \in S /\ s[n].size \in Nat
    BY DEF Sized
  <1>1. PICK f \in [0 .. Len(s) -> Seq(S)] :
          RetainEquations(f, s, K) /\ Retain(s, K) = f[Len(s)]
    BY RetainRecursion
  <1>2. PICK g \in [0 .. Len(s) -> Seq(S)] :
          RetainEquations(g, s, L) /\ Retain(s, L) = g[Len(s)]
    BY RetainRecursion
  <1>3. PICK h \in [0 .. Len(s) -> Nat] : SumEquations(h, s) /\ TotalBytes(s) = h[Len(s)]
    BY SumRecursion
  <1> DEFINE Claim(n) == /\ Len(f[n]) + Len(g[n]) = n
                         /\ TotalBytes(f[n]) + TotalBytes(g[n]) = h[n]
             T == {n \in 0 .. Len(s) : Claim(n)}
  <1>4. 0 \in T
    <2>1. f[0] = <<>> /\ g[0] = <<>> /\ h[0] = 0
      BY <1>1, <1>2, <1>3 DEF RetainEquations, SumEquations
    <2>2. TotalBytes(<<>>) = 0
      <3>1. CASE Len(s) = 0
        <4>1. s = <<>> /\ h[Len(s)] = 0
          BY <2>1, <3>1
        <4> QED BY <1>3, <4>1
      <3>2. CASE Len(s) # 0
        <4>1. s[1] \in S
          BY <1>0, <3>2
        <4> QED BY <4>1, TotalOfAppend
      <3> QED BY <3>1, <3>2
    <2> QED BY <1>0, <2>1, <2>2
  <1>5. ASSUME NEW n \in 0 .. Len(s) - 1, n \in T PROVE n + 1 \in T
    <2>1. n + 1 \in 1 .. Len(s) /\ n + 1 \in 0 .. Len(s) /\ (n + 1) - 1 = n /\ n \in 0 .. Len(s)
      BY <1>0
    <2>2. /\ f[n + 1] = IF s[n + 1] \in K THEN Append(f[n], s[n + 1]) ELSE f[n]
          /\ g[n + 1] = IF s[n + 1] \in L THEN Append(g[n], s[n + 1]) ELSE g[n]
          /\ h[n + 1] = h[n] + s[n + 1].size
      BY <1>1, <1>2, <1>3, <2>1 DEF RetainEquations, SumEquations
    <2>3. /\ f[n] \in Seq(S) /\ g[n] \in Seq(S) /\ s[n + 1] \in S /\ s[n + 1].size \in Nat
          /\ h[n] \in Nat /\ Claim(n) /\ (s[n + 1] \in L <=> s[n + 1] \notin K)
      BY <1>0, <1>1, <1>2, <1>3, <1>5, <2>1
    <2>4. /\ TotalBytes(f[n]) \in Nat /\ TotalBytes(g[n]) \in Nat
          /\ TotalBytes(Append(f[n], s[n + 1])) = TotalBytes(f[n]) + s[n + 1].size
          /\ TotalBytes(Append(g[n], s[n + 1])) = TotalBytes(g[n]) + s[n + 1].size
      BY <2>3, TotalOfAppend
    <2>5. /\ Len(f[n]) \in Nat /\ Len(Append(f[n], s[n + 1])) = Len(f[n]) + 1
          /\ Len(g[n]) \in Nat /\ Len(Append(g[n], s[n + 1])) = Len(g[n]) + 1
      BY <2>3
    <2>6. CASE s[n + 1] \in K
      <3>1. f[n + 1] = Append(f[n], s[n + 1]) /\ g[n + 1] = g[n]
        BY <2>2, <2>3, <2>6
      <3>2. Len(f[n + 1]) + Len(g[n + 1]) = n + 1
        BY <2>3, <2>5, <3>1
      <3>3. TotalBytes(f[n + 1]) + TotalBytes(g[n + 1]) = h[n + 1]
        BY <2>2, <2>3, <2>4, <3>1
      <3> QED BY <2>1, <3>2, <3>3
    <2>7. CASE s[n + 1] \notin K
      <3>1. f[n + 1] = f[n] /\ g[n + 1] = Append(g[n], s[n + 1])
        BY <2>2, <2>3, <2>7
      <3>2. Len(f[n + 1]) + Len(g[n + 1]) = n + 1
        BY <2>3, <2>5, <3>1
      <3>3. TotalBytes(f[n + 1]) + TotalBytes(g[n + 1]) = h[n + 1]
        BY <2>2, <2>3, <2>4, <3>1
      <3> QED BY <2>1, <3>2, <3>3
    <2> QED BY <2>6, <2>7
  <1>6. Len(s) \in T
    <2> HIDE DEF T
    <2>1. \A n \in 0 .. Len(s) : n \in T
      BY <1>0, <1>4, <1>5, InductionUpTo
    <2> QED BY <1>0, <2>1
  <1> QED BY <1>1, <1>2, <1>3, <1>6

-----------------------------------------------------------------------------
(***************************************************************************)
(* The invariant, lane by lane.                                            *)
(***************************************************************************)
Packet == [id : Nat, epoch : Nat, channel : Channel, key : Key \cup {NoKey}, size : Nat]
Queues == [packets : Seq(Packet), bytes : Nat]

\* The byte counter is what the packets weigh, and both limits hold.
WithinLimits(c, q) ==
    /\ q.bytes = TotalBytes(q.packets)
    /\ Len(q.packets) <= Limits[c].max_packets
    /\ q.bytes <= Limits[c].max_queued_bytes

\* Queued packets are of this connection, in order, and all later than those
\* received; no number is ahead of the count of packets offered.
InLine(q, acc, rec, last, current) ==
    /\ Increasing(q.packets)
    /\ \A p \in ToSet(q.packets) :
          p.id <= last /\ p.epoch = current /\ \A r \in rec : r.id < p.id
    /\ \A p \in acc \cup rec : p.id <= last

LaneInv(c, q, acc, rec, last, current) ==
    /\ q \in Queues /\ acc \subseteq Packet /\ rec \subseteq Packet
    /\ WithinLimits(c, q)
    /\ InLine(q, acc, rec, last, current)

\* The third conjunct of NothingLostWhileConnected, for one lane.
NotLost(q, acc, rec) ==
    \A p \in acc :
        \/ p \in ToSet(q.packets)
        \/ p \in rec
        \/ \E newer \in acc : newer.id > p.id /\ Obsoletes(newer, p)

Depths == [packets : Int, bytes : Int]
Totals == [superseded : Depths, discarded : Depths, accepted : Depths, received : Depths]

Shapes ==
    /\ connected \in BOOLEAN /\ offered \in Nat /\ epoch \in Nat
    /\ queue \in [Side -> [Channel -> Queues]]
    /\ accepted \in [Side -> [Channel -> SUBSET Packet]]
    /\ received \in [Side -> [Channel -> SUBSET Packet]]
    /\ told \in [Channel -> Totals]

Lanes ==
    \A s \in Side, c \in Channel :
        LaneInv(c, queue[s][c], accepted[s][c], received[s][c], offered, epoch)

DownIsEmpty == ~connected => \A s \in Side, c \in Channel : queue[s][c] = EmptyQueue

LinkInv == Shapes /\ Lanes /\ DownIsEmpty /\ NothingLostWhileConnected /\ ReportsAddUp

\* Packets have a size, and what may be sent is a packet.
LEMMA PacketsAreSized ==
  Sized(Packet) /\ (Shapes => Packets \subseteq Packet)
  <1>1. Sized(Packet)
    BY DEF Sized, Packet
  <1>2. ASSUME Shapes, NEW p \in Packets PROVE p \in Packet
    <2>1. offered + 1 \in Nat /\ epoch \in Nat
      BY <1>2 DEF Shapes
    <2> QED BY <1>2, <2>1, SizeAssumption DEF Packet, Packets
  <1> QED BY <1>1, <1>2

\* A queue that was emptied.
LEMMA EmptyLane ==
  /\ EmptyQueue \in Queues /\ ToSet(EmptyQueue.packets) = {}
  /\ \A c \in Channel : WithinLimits(c, EmptyQueue)
  /\ Increasing(EmptyQueue.packets) /\ DepthOf(EmptyQueue) = NoDepth
  <1>1. TotalBytes(<<>>) = 0
    <2>1. PICK h \in [0 .. 0 -> Nat] : SumEquations(h, <<>>) /\ TotalBytes(<<>>) = h[0]
      <3>1. <<>> \in Seq(Packet) /\ Len(<<>>) = 0
        OBVIOUS
      <3> QED BY <3>1, PacketsAreSized, SumRecursion
    <2> QED BY <2>1 DEF SumEquations
  <1>2. ToSet(<<>>) = {} /\ Increasing(<<>>)
    BY DEF ToSet, Increasing
  <1> QED BY <1>1, <1>2, LimitsAssumption
          DEF EmptyQueue, Queues, WithinLimits, DepthOf, NoDepth

\* What try_push leaves of a lane.
LEMMA PushedLane ==
  ASSUME NEW c \in Channel, NEW q \in Queues, WithinLimits(c, q), NEW p \in Packet
  PROVE  LET old == SupersededBy(q, p)
         IN  /\ Len(old) \in Nat /\ Len(old) <= Len(q.packets)
             /\ TotalBytes(old) \in Nat /\ TotalBytes(old) <= q.bytes
             /\ Pushed(q, p) \in Queues
             /\ Len(Pushed(q, p).packets) = Len(q.packets) - Len(old) + 1
             /\ Pushed(q, p).bytes = q.bytes - TotalBytes(old) + p.size
             /\ ToSet(Pushed(q, p).packets) =
                  {x \in ToSet(q.packets) : ~Obsoletes(p, x)} \cup {p}
             /\ Fits(q, Limits[c], p) => WithinLimits(c, Pushed(q, p))
             /\ Increasing(q.packets) /\ (\A x \in ToSet(q.packets) : x.id < p.id)
                  => Increasing(Pushed(q, p).packets)
  <1> DEFINE s == q.packets
             K == Obsolete(q, p)
             L == ToSet(s) \ K
             old == SupersededBy(q, p)
             rest == Retain(s, L)
  <1>1. /\ s \in Seq(Packet) /\ q.bytes \in Nat /\ p.size \in Nat /\ Len(s) \in Nat
        /\ q.bytes = TotalBytes(s) /\ Len(s) <= Limits[c].max_packets
        /\ q.bytes <= Limits[c].max_queued_bytes
        /\ Limits[c].max_packets \in Nat /\ Limits[c].max_queued_bytes \in Nat
    BY LimitsAssumption DEF Queues, WithinLimits, Packet
  <1>2. \A i \in DOMAIN s : s[i] \in L <=> s[i] \notin K
    BY DEF ToSet
  <1>3. /\ Len(old) + Len(rest) = Len(s) /\ TotalBytes(old) + TotalBytes(rest) = TotalBytes(s)
    BY <1>1, <1>2, PacketsAreSized, RetainSplits DEF SupersededBy
  <1>4. /\ old \in Seq(Packet) /\ rest \in Seq(Packet) /\ ToSet(rest) = ToSet(s) \cap L
        /\ Increasing(s) => Increasing(rest)
    BY <1>1, RetainKeeps DEF SupersededBy
  <1>5. Len(old) \in Nat /\ Len(rest) \in Nat /\ TotalBytes(old) \in Nat /\ TotalBytes(rest) \in Nat
    <2> HIDE DEF old, rest
    <2>1. Len(old) \in Nat /\ Len(rest) \in Nat
      BY <1>4
    <2>2. TotalBytes(old) \in Nat /\ TotalBytes(rest) \in Nat
      BY <1>4, PacketsAreSized, TotalOfAppend
    <2> QED BY <2>1, <2>2
  <1>6. Pushed(q, p) = [packets |-> Append(rest, p), bytes |-> q.bytes - TotalBytes(old) + p.size]
    BY DEF Pushed
  <1>7. /\ Append(rest, p) \in Seq(Packet) /\ Len(Append(rest, p)) = Len(rest) + 1
        /\ TotalBytes(Append(rest, p)) = TotalBytes(rest) + p.size
        /\ ToSet(Append(rest, p)) = ToSet(rest) \cup {p}
    <2> HIDE DEF old, rest
    <2>1. Append(rest, p) \in Seq(Packet) /\ Len(Append(rest, p)) = Len(rest) + 1
      BY <1>4
    <2>2. TotalBytes(Append(rest, p)) = TotalBytes(rest) + p.size
      BY <1>4, PacketsAreSized, TotalOfAppend
    <2>3. ToSet(Append(rest, p)) = ToSet(rest) \cup {p}
      BY <1>4, MembersOfSequences
    <2> QED BY <2>1, <2>2, <2>3
  <1>8. ToSet(rest) = {x \in ToSet(s) : ~Obsoletes(p, x)}
    BY <1>4 DEF Obsolete
  <1> HIDE DEF s, K, L, old, rest
  <1>9. Len(old) <= Len(s) /\ TotalBytes(old) <= q.bytes /\ q.bytes - TotalBytes(old) + p.size \in Nat
    BY <1>1, <1>3, <1>5
  <1>10. Pushed(q, p) \in Queues
    BY <1>6, <1>7, <1>9 DEF Queues
  <1>11. ASSUME Fits(q, Limits[c], p) PROVE WithinLimits(c, Pushed(q, p))
    <2>1. /\ Len(s) - Len(old) < Limits[c].max_packets
          /\ p.size <= Limits[c].max_queued_bytes - (q.bytes - TotalBytes(old))
      BY <1>11 DEF Fits, s, old
    <2>2. Len(rest) + 1 <= Limits[c].max_packets
      BY <1>1, <1>3, <1>5, <2>1
    <2>3. q.bytes - TotalBytes(old) + p.size <= Limits[c].max_queued_bytes
      BY <1>1, <1>5, <2>1
    <2>4. q.bytes - TotalBytes(old) + p.size = TotalBytes(rest) + p.size
      BY <1>1, <1>3, <1>5
    <2> QED BY <1>6, <1>7, <2>2, <2>3, <2>4 DEF WithinLimits
  <1>12. ASSUME Increasing(s), \A x \in ToSet(s) : x.id < p.id
         PROVE  Increasing(Pushed(q, p).packets)
    <2>1. \A x \in ToSet(rest) : x.id < p.id
      BY <1>8, <1>12
    <2> QED BY <1>4, <1>6, <1>12, <2>1, IncreasingAppend
  <1>13. Len(Append(rest, p)) = Len(s) - Len(old) + 1
    BY <1>1, <1>3, <1>5, <1>7
  <1> QED BY <1>5, <1>6, <1>7, <1>8, <1>9, <1>10, <1>11, <1>12, <1>13 DEF s, old

\* What pop leaves of a lane.
LEMMA PoppedLane ==
  ASSUME NEW c \in Channel, NEW q \in Queues, WithinLimits(c, q), q.packets # <<>>
  PROVE  LET p == Head(q.packets)
         IN  /\ p \in Packet /\ Popped(q) \in Queues /\ WithinLimits(c, Popped(q))
             /\ Len(Popped(q).packets) = Len(q.packets) - 1
             /\ Popped(q).bytes = q.bytes - p.size
             /\ ToSet(q.packets) = {p} \cup ToSet(Popped(q).packets)
             /\ Increasing(q.packets) => /\ Increasing(Popped(q).packets)
                                         /\ \A x \in ToSet(Popped(q).packets) : p.id < x.id
  <1> DEFINE s == q.packets
             p == Head(s)
  <1>1. /\ s \in Seq(Packet) /\ s # <<>> /\ p \in Packet /\ p.size \in Nat /\ q.bytes \in Nat
        /\ Tail(s) \in Seq(Packet) /\ Len(Tail(s)) = Len(s) - 1 /\ Len(s) \in Nat
        /\ q.bytes = TotalBytes(s) /\ Len(s) <= Limits[c].max_packets
        /\ q.bytes <= Limits[c].max_queued_bytes
        /\ Limits[c].max_packets \in Nat /\ Limits[c].max_queued_bytes \in Nat
    <2>1. s \in Seq(Packet) /\ s # <<>> /\ q.bytes \in Nat
      BY DEF Queues
    <2>2. p \in Packet /\ Tail(s) \in Seq(Packet) /\ Len(Tail(s)) = Len(s) - 1 /\ Len(s) \in Nat
      BY <2>1
    <2>3. p.size \in Nat
      BY <2>2, PacketsAreSized DEF Sized
    <2>4. Limits[c].max_packets \in Nat /\ Limits[c].max_queued_bytes \in Nat
      BY LimitsAssumption
    <2>5. q.bytes = TotalBytes(s) /\ Len(s) <= Limits[c].max_packets
          /\ q.bytes <= Limits[c].max_queued_bytes
      BY DEF WithinLimits
    <2> HIDE DEF s, p
    <2> QED BY <2>1, <2>2, <2>3, <2>4, <2>5
  <1>2. TotalBytes(s) = p.size + TotalBytes(Tail(s)) /\ TotalBytes(Tail(s)) \in Nat
    BY <1>1, PacketsAreSized, TotalOfTail, TotalOfAppend
  <1>3. ToSet(s) = {p} \cup ToSet(Tail(s))
    BY <1>1, MembersOfSequences
  <1>4. Increasing(s) => Increasing(Tail(s)) /\ \A x \in ToSet(Tail(s)) : p.id < x.id
    BY <1>1, IncreasingTail
  <1>5. Popped(q) = [packets |-> Tail(s), bytes |-> q.bytes - p.size]
    BY DEF Popped
  <1> HIDE DEF s, p
  <1>6. q.bytes - p.size = TotalBytes(Tail(s)) /\ q.bytes - p.size \in Nat
        /\ Len(Tail(s)) <= Limits[c].max_packets /\ q.bytes - p.size <= Limits[c].max_queued_bytes
    BY <1>1, <1>2
  <1>7. Popped(q) \in Queues /\ WithinLimits(c, Popped(q))
    BY <1>1, <1>5, <1>6 DEF Queues, WithinLimits
  <1> QED BY <1>1, <1>3, <1>4, <1>5, <1>7 DEF s, p

-----------------------------------------------------------------------------
(***************************************************************************)
(* One lane through each kind of step.                                     *)
(***************************************************************************)
\* A lane nobody touches while packets are offered elsewhere.
LEMMA LaneWaits ==
  ASSUME NEW c \in Channel, NEW q, NEW acc, NEW rec, NEW last \in Nat, NEW current,
         LaneInv(c, q, acc, rec, last, current)
  PROVE  LaneInv(c, q, acc, rec, last + 1, current)
  <1>1. q.packets \in Seq(Packet) /\ acc \subseteq Packet /\ rec \subseteq Packet
    BY DEF LaneInv, Queues
  <1>2. \A x \in ToSet(q.packets) : x.id \in Nat
    <2>1. \A x \in ToSet(q.packets) : x \in Packet
      BY <1>1 DEF ToSet
    <2> QED BY <2>1 DEF Packet
  <1>3. \A x \in acc \cup rec : x.id \in Nat
    BY <1>1 DEF Packet
  <1>4. \A i \in Nat : i <= last => i <= last + 1
    OBVIOUS
  <1> QED BY <1>2, <1>3, <1>4 DEF LaneInv, InLine

\* A lane that takes the packet just numbered.
LEMMA LanePush ==
  ASSUME NEW c \in Channel, NEW q, NEW acc, NEW rec, NEW last \in Nat, NEW current,
         LaneInv(c, q, acc, rec, last, current),
         NEW p \in Packet, p.id = last + 1, p.epoch = current, Fits(q, Limits[c], p)
  PROVE  /\ LaneInv(c, Pushed(q, p), acc \cup {p}, rec, last + 1, current)
         /\ NotLost(q, acc, rec) => NotLost(Pushed(q, p), acc \cup {p}, rec)
  <1>1. /\ q \in Queues /\ WithinLimits(c, q) /\ InLine(q, acc, rec, last, current)
        /\ q.packets \in Seq(Packet) /\ acc \subseteq Packet /\ rec \subseteq Packet
    BY DEF LaneInv, Queues
  <1>2. \A x \in ToSet(q.packets) : x.id \in Nat
    <2>1. \A x \in ToSet(q.packets) : x \in Packet
      BY <1>1 DEF ToSet
    <2> QED BY <2>1 DEF Packet
  <1>3. \A x \in acc \cup rec : x.id \in Nat
    BY <1>1 DEF Packet
  <1>4. (\A i \in Nat : i <= last => i < last + 1 /\ i <= last + 1) /\ last + 1 <= last + 1
    OBVIOUS
  <1>5. \A x \in ToSet(q.packets) : x.id < p.id /\ x.id <= last + 1
    BY <1>1, <1>2, <1>4 DEF InLine
  <1>6. \A x \in acc \cup rec : x.id < p.id /\ x.id <= last + 1
    BY <1>1, <1>3, <1>4 DEF InLine
  <1>7. /\ Pushed(q, p) \in Queues /\ WithinLimits(c, Pushed(q, p))
        /\ ToSet(Pushed(q, p).packets) = {x \in ToSet(q.packets) : ~Obsoletes(p, x)} \cup {p}
        /\ Increasing(Pushed(q, p).packets)
    <2>1. Increasing(q.packets) /\ \A x \in ToSet(q.packets) : x.id < p.id
      BY <1>1, <1>5 DEF InLine
    <2>2. /\ Pushed(q, p) \in Queues
          /\ ToSet(Pushed(q, p).packets) = {x \in ToSet(q.packets) : ~Obsoletes(p, x)} \cup {p}
      BY <1>1, PushedLane
    <2>3. WithinLimits(c, Pushed(q, p))
      BY <1>1, PushedLane
    <2>4. Increasing(Pushed(q, p).packets)
      BY <1>1, <2>1, PushedLane
    <2> QED BY <2>2, <2>3, <2>4
  <1>8. InLine(Pushed(q, p), acc \cup {p}, rec, last + 1, current)
    <2>1. ASSUME NEW x \in ToSet(Pushed(q, p).packets)
          PROVE  x.id <= last + 1 /\ x.epoch = current /\ \A r \in rec : r.id < x.id
      <3>1. CASE x = p
        BY <1>4, <1>6, <3>1
      <3>2. CASE x \in ToSet(q.packets)
        BY <1>1, <1>5, <3>2 DEF InLine
      <3> QED BY <1>7, <2>1, <3>1, <3>2
    <2>2. \A x \in (acc \cup {p}) \cup rec : x.id <= last + 1
      BY <1>4, <1>6
    <2> QED BY <1>7, <2>1, <2>2 DEF InLine
  <1>9. ASSUME NotLost(q, acc, rec) PROVE NotLost(Pushed(q, p), acc \cup {p}, rec)
    <2> SUFFICES ASSUME NEW x \in acc \cup {p}
                 PROVE  \/ x \in ToSet(Pushed(q, p).packets)
                        \/ x \in rec
                        \/ \E newer \in acc \cup {p} : newer.id > x.id /\ Obsoletes(newer, x)
      BY DEF NotLost
    <2>1. CASE x = p
      BY <1>7, <2>1
    <2>2. CASE x \in acc /\ x \in ToSet(q.packets)
      <3>1. x.id < p.id /\ x.id \in Nat /\ p.id \in Nat
        BY <1>2, <1>5, <2>2
      <3>2. p.id > x.id
        BY <3>1
      <3> QED BY <1>7, <2>2, <3>2
    <2>3. CASE x \in acc /\ x \notin ToSet(q.packets)
      BY <1>9, <2>3 DEF NotLost
    <2> QED BY <2>1, <2>2, <2>3
  <1> QED BY <1>1, <1>7, <1>8, <1>9 DEF LaneInv

\* A lane whose first packet is received.
LEMMA LanePop ==
  ASSUME NEW c \in Channel, NEW q, NEW acc, NEW rec, NEW last \in Nat, NEW current,
         LaneInv(c, q, acc, rec, last, current), q.packets # <<>>
  PROVE  LET p == Head(q.packets)
         IN  /\ p \in Packet /\ p.epoch = current /\ \A r \in rec : r.id < p.id
             /\ LaneInv(c, Popped(q), acc, rec \cup {p}, last, current)
             /\ NotLost(q, acc, rec) => NotLost(Popped(q), acc, rec \cup {p})
  <1> DEFINE p == Head(q.packets)
  <1>1. /\ q \in Queues /\ WithinLimits(c, q) /\ InLine(q, acc, rec, last, current)
        /\ acc \subseteq Packet /\ rec \subseteq Packet
    BY DEF LaneInv
  <1>2. /\ p \in Packet /\ Popped(q) \in Queues /\ WithinLimits(c, Popped(q))
        /\ ToSet(q.packets) = {p} \cup ToSet(Popped(q).packets)
        /\ Increasing(Popped(q).packets)
        /\ \A x \in ToSet(Popped(q).packets) : p.id < x.id
    BY <1>1, PoppedLane DEF InLine
  <1> HIDE DEF p
  <1>3. p \in ToSet(q.packets)
    BY <1>2
  <1>4. p.id <= last /\ p.epoch = current /\ \A r \in rec : r.id < p.id
    BY <1>1, <1>3 DEF InLine
  <1>5. InLine(Popped(q), acc, rec \cup {p}, last, current)
    <2>1. ASSUME NEW x \in ToSet(Popped(q).packets)
          PROVE  x.id <= last /\ x.epoch = current /\ \A r \in rec \cup {p} : r.id < x.id
      <3>1. x \in ToSet(q.packets)
        BY <1>2
      <3> QED BY <1>1, <1>2, <3>1 DEF InLine
    <2> QED BY <1>1, <1>2, <1>4, <2>1 DEF InLine
  <1>6. NotLost(q, acc, rec) => NotLost(Popped(q), acc, rec \cup {p})
    BY <1>2 DEF NotLost
  <1> QED BY <1>1, <1>2, <1>4, <1>5, <1>6 DEF LaneInv, p

-----------------------------------------------------------------------------
(***************************************************************************)
(* The whole link.                                                         *)
(***************************************************************************)
\* NothingLostWhileConnected, lane by lane.
LEMMA NothingLostByLane ==
  NothingLostWhileConnected <=>
    (connected => \A s \in Side, c \in Channel :
                    NotLost(queue[s][c], accepted[s][c], received[s][c]))
  BY DEF NothingLostWhileConnected, NotLost

\* A new link.
LEMMA InitHolds == Init => LinkInv
  <1> SUFFICES ASSUME Init PROVE LinkInv
    OBVIOUS
  <1>1. NoDepth \in Depths /\ Plus(NoDepth, NoDepth) = NoDepth
    BY DEF NoDepth, Depths, Plus
  <1>2. Shapes
    <2>1. /\ queue \in [Side -> [Channel -> Queues]]
          /\ accepted \in [Side -> [Channel -> SUBSET Packet]]
          /\ received \in [Side -> [Channel -> SUBSET Packet]]
      BY EmptyLane DEF Init, PerLane
    <2>2. told \in [Channel -> Totals]
      BY <1>1 DEF Init, Totals
    <2> QED BY <2>1, <2>2 DEF Init, Shapes
  <1>3. \A s \in Side, c \in Channel :
           queue[s][c] = EmptyQueue /\ accepted[s][c] = {} /\ received[s][c] = {}
    BY DEF Init, PerLane
  <1>4. Lanes
    BY <1>3, EmptyLane DEF Lanes, LaneInv, InLine
  <1>5. NothingLostWhileConnected
    BY <1>3 DEF NothingLostWhileConnected
  <1>6. ReportsAddUp
    <2>1. "First" \in Side /\ "Second" \in Side
      BY DEF Side
    <2>2. \A c \in Channel : DepthOf(queue["First"][c]) = NoDepth /\ DepthOf(queue["Second"][c]) = NoDepth
      BY <1>3, <2>1, EmptyLane
    <2>3. \A c \in Channel : /\ told[c].accepted = NoDepth /\ told[c].superseded = NoDepth
                             /\ told[c].discarded = NoDepth /\ told[c].received = NoDepth
      BY DEF Init
    <2> QED BY <1>1, <2>2, <2>3 DEF ReportsAddUp
  <1>7. DownIsEmpty
    BY <1>3 DEF DownIsEmpty
  <1> QED BY <1>2, <1>4, <1>5, <1>6, <1>7 DEF LinkInv

\* Every queue is emptied; whatever is reported, the packets and bytes add up.
LEMMA Emptied ==
  ASSUME LinkInv, queue' = PerLane(EmptyQueue), offered' = offered,
         \/ /\ connected' = FALSE /\ UNCHANGED <<epoch, accepted, received>>
         \/ /\ connected' = TRUE /\ epoch' = epoch + 1
            /\ accepted' = PerLane({}) /\ received' = PerLane({})
  PROVE  Lanes' /\ DownIsEmpty' /\ NothingLostWhileConnected'
         /\ (told' \in [Channel -> Totals] => Shapes')
  <1>1. \A s \in Side, c \in Channel : queue'[s][c] = EmptyQueue
    BY DEF PerLane
  <1>2. queue' \in [Side -> [Channel -> Queues]]
    BY EmptyLane DEF PerLane
  <1>3. /\ offered \in Nat /\ epoch \in Nat
        /\ accepted \in [Side -> [Channel -> SUBSET Packet]]
        /\ received \in [Side -> [Channel -> SUBSET Packet]]
    BY DEF LinkInv, Shapes
  <1>4. DownIsEmpty'
    BY <1>1 DEF DownIsEmpty
  <1>5. CASE connected' = FALSE /\ UNCHANGED <<epoch, accepted, received>>
    <2>1. ASSUME NEW s \in Side, NEW c \in Channel
          PROVE  LaneInv(c, EmptyQueue, accepted[s][c], received[s][c], offered, epoch)
      <3>1. LaneInv(c, queue[s][c], accepted[s][c], received[s][c], offered, epoch)
        BY DEF LinkInv, Lanes
      <3> QED BY <3>1, EmptyLane DEF LaneInv, InLine
    <2>2. Lanes'
      BY <1>1, <1>5, <2>1 DEF Lanes
    <2>3. NothingLostWhileConnected'
      BY <1>5 DEF NothingLostWhileConnected
    <2> QED BY <1>2, <1>3, <1>4, <1>5, <2>2, <2>3 DEF Shapes
  <1>6. CASE /\ connected' = TRUE /\ epoch' = epoch + 1
             /\ accepted' = PerLane({}) /\ received' = PerLane({})
    <2>1. \A s \in Side, c \in Channel : accepted'[s][c] = {} /\ received'[s][c] = {}
      BY <1>6 DEF PerLane
    <2>2. /\ accepted' \in [Side -> [Channel -> SUBSET Packet]]
          /\ received' \in [Side -> [Channel -> SUBSET Packet]]
      BY <1>6 DEF PerLane
    <2>3. Lanes'
      BY <1>1, <2>1, EmptyLane DEF Lanes, LaneInv, InLine
    <2>4. NothingLostWhileConnected'
      BY <2>1 DEF NothingLostWhileConnected
    <2> QED BY <1>2, <1>3, <1>4, <1>6, <2>2, <2>3, <2>4 DEF Shapes
  <1> QED BY <1>5, <1>6

\* disconnect.
LEMMA DisconnectStep ==
  ASSUME LinkInv, NEW side \in Side, Disconnect(side)
  PROVE  LinkInv'
  <1>1. \A s \in Side, c \in Channel : queue[s][c] \in Queues /\ queue'[s][c] = EmptyQueue
    BY DEF LinkInv, Shapes, Disconnect, PerLane
  <1>2. "First" \in Side /\ "Second" \in Side
    BY DEF Side
  <1>3. ASSUME NEW c \in Channel
        PROVE  /\ told'[c] \in Totals
               /\ told'[c].accepted =
                    Plus(Plus(told'[c].superseded, told'[c].discarded),
                         Plus(told'[c].received,
                              Plus(DepthOf(queue'["First"][c]), DepthOf(queue'["Second"][c]))))
    <2> DEFINE a == DepthOf(queue["First"][c])
               b == DepthOf(queue["Second"][c])
               t == told[c]
    <2>1. a \in Depths /\ b \in Depths
      BY <1>1, <1>2 DEF DepthOf, Depths, Queues
    <2>2. t \in Totals
      BY DEF LinkInv, Shapes
    <2>3. told'[c] = [t EXCEPT !.discarded = Plus(t.discarded, Plus(a, b))]
      BY DEF Disconnect
    <2>4. t.accepted = Plus(Plus(t.superseded, t.discarded), Plus(t.received, Plus(a, b)))
      BY DEF LinkInv, ReportsAddUp
    <2>5. DepthOf(queue'["First"][c]) = NoDepth /\ DepthOf(queue'["Second"][c]) = NoDepth
      BY <1>1, <1>2, EmptyLane
    <2> HIDE DEF a, b, t
    <2>6. told'[c] \in Totals
      BY <2>1, <2>2, <2>3 DEF Totals, Depths, Plus
    <2>7. /\ told'[c].accepted = t.accepted /\ told'[c].superseded = t.superseded
          /\ told'[c].received = t.received
          /\ told'[c].discarded = Plus(t.discarded, Plus(a, b))
      BY <2>2, <2>3 DEF Totals
    <2>8. t.superseded \in Depths /\ t.discarded \in Depths /\ t.received \in Depths
      BY <2>2 DEF Totals
    <2>9. Plus(Plus(t.superseded, t.discarded), Plus(t.received, Plus(a, b)))
          = Plus(Plus(t.superseded, Plus(t.discarded, Plus(a, b))),
                 Plus(t.received, Plus(NoDepth, NoDepth)))
      BY <2>1, <2>8 DEF Plus, Depths, NoDepth
    <2> QED BY <2>4, <2>5, <2>6, <2>7, <2>9
  <1>4. told' \in [Channel -> Totals]
    <2>1. told' = [c \in Channel |-> told'[c]]
      BY DEF Disconnect
    <2> QED BY <1>3, <2>1
  <1>5. ReportsAddUp'
    BY <1>3 DEF ReportsAddUp
  <1>6. Lanes' /\ DownIsEmpty' /\ NothingLostWhileConnected' /\ Shapes'
    BY <1>4, Emptied DEF Disconnect
  <1> QED BY <1>5, <1>6 DEF LinkInv

\* reconnect.  The queues of a link that is down are empty.
LEMMA ReconnectStep ==
  ASSUME LinkInv, NEW side \in Side, Reconnect(side)
  PROVE  LinkInv'
  <1>1. \A s \in Side, c \in Channel : queue'[s][c] = queue[s][c]
    BY DEF LinkInv, DownIsEmpty, Reconnect, PerLane
  <1>2. ReportsAddUp'
    BY <1>1 DEF LinkInv, ReportsAddUp, Reconnect, Side
  <1>3. told' \in [Channel -> Totals]
    BY DEF LinkInv, Shapes, Reconnect
  <1>4. Lanes' /\ DownIsEmpty' /\ NothingLostWhileConnected' /\ Shapes'
    BY <1>3, Emptied DEF Reconnect
  <1> QED BY <1>2, <1>4 DEF LinkInv

\* try_send accepts a packet.
LEMMA TrySendStep ==
  ASSUME LinkInv, NEW side \in Side, NEW p \in Packets, offered' = offered + 1,
         TrySend(side, p)
  PROVE  LinkInv'
  <1> DEFINE c == p.channel
             q == queue[side][c]
             old == SupersededBy(q, p)
  <1>1. /\ p \in Packet /\ c \in Channel /\ p.id = offered + 1 /\ p.epoch = epoch
        /\ offered \in Nat /\ epoch \in Nat
    BY PacketsAreSized DEF LinkInv, Shapes, Packet, Packets
  <1> HIDE DEF c
  <1>2. /\ connected /\ connected' = connected /\ epoch' = epoch /\ received' = received
        /\ Fits(q, Limits[c], p)
        /\ queue' = [queue EXCEPT ![side][c] = Pushed(q, p)]
        /\ accepted' = [accepted EXCEPT ![side][c] = @ \union {p}]
        /\ told' = [told EXCEPT ![c].superseded = Plus(@, Depth(old)),
                                ![c].accepted = Plus(@, Depth(<<p>>))]
    BY DEF TrySend, c
  <1>3. /\ queue \in [Side -> [Channel -> Queues]] /\ told \in [Channel -> Totals]
        /\ accepted \in [Side -> [Channel -> SUBSET Packet]]
        /\ received \in [Side -> [Channel -> SUBSET Packet]]
    BY DEF LinkInv, Shapes
  <1> HIDE DEF q, old
  <1>4. q \in Queues /\ LaneInv(c, q, accepted[side][c], received[side][c], offered, epoch)
    BY <1>1, <1>3 DEF LinkInv, Lanes, q
  <1>5. /\ Len(old) \in Nat /\ TotalBytes(old) \in Nat /\ Pushed(q, p) \in Queues
        /\ Len(Pushed(q, p).packets) = Len(q.packets) - Len(old) + 1
        /\ Pushed(q, p).bytes = q.bytes - TotalBytes(old) + p.size
    BY <1>1, <1>4, PushedLane DEF LaneInv, old
  <1>6. /\ LaneInv(c, Pushed(q, p), accepted[side][c] \cup {p}, received[side][c], offered + 1, epoch)
        /\ NotLost(q, accepted[side][c], received[side][c])
             => NotLost(Pushed(q, p), accepted[side][c] \cup {p}, received[side][c])
    BY <1>1, <1>2, <1>4, LanePush
  <1>7. /\ queue'[side][c] = Pushed(q, p) /\ accepted'[side][c] = accepted[side][c] \cup {p}
        /\ \A s \in Side, d \in Channel : s # side \/ d # c =>
              queue'[s][d] = queue[s][d] /\ accepted'[s][d] = accepted[s][d]
    BY <1>1, <1>2, <1>3
  <1>8. /\ queue' \in [Side -> [Channel -> Queues]]
        /\ accepted' \in [Side -> [Channel -> SUBSET Packet]]
    BY <1>1, <1>2, <1>3, <1>5
  <1>9. Lanes'
    <2> SUFFICES ASSUME NEW s \in Side, NEW d \in Channel
                 PROVE  LaneInv(d, queue'[s][d], accepted'[s][d], received'[s][d], offered', epoch')
      BY DEF Lanes
    <2>1. CASE s = side /\ d = c
      BY <1>2, <1>6, <1>7, <2>1
    <2>2. CASE s # side \/ d # c
      <3>1. LaneInv(d, queue[s][d], accepted[s][d], received[s][d], offered, epoch)
        BY DEF LinkInv, Lanes
      <3>2. LaneInv(d, queue[s][d], accepted[s][d], received[s][d], offered + 1, epoch)
        BY <1>1, <3>1, LaneWaits
      <3> QED BY <1>2, <1>7, <2>2, <3>2
    <2> QED BY <2>1, <2>2
  <1>10. NothingLostWhileConnected'
    <2>1. \A s \in Side, d \in Channel : NotLost(queue[s][d], accepted[s][d], received[s][d])
      BY <1>2, NothingLostByLane DEF LinkInv
    <2>2. \A s \in Side, d \in Channel : NotLost(queue'[s][d], accepted'[s][d], received'[s][d])
      <3> SUFFICES ASSUME NEW s \in Side, NEW d \in Channel
                   PROVE  NotLost(queue'[s][d], accepted'[s][d], received'[s][d])
        OBVIOUS
      <3>1. CASE s = side /\ d = c
        <4>1. NotLost(q, accepted[side][c], received[side][c])
          BY <1>1, <2>1 DEF q
        <4> QED BY <1>2, <1>6, <1>7, <3>1, <4>1
      <3>2. CASE s # side \/ d # c
        BY <1>2, <1>7, <2>1, <3>2
      <3> QED BY <3>1, <3>2
    <2> QED BY <2>2 DEF NothingLostWhileConnected, NotLost
  <1>11. /\ Depth(<<p>>) = [packets |-> 1, bytes |-> p.size] /\ p.size \in Nat
         /\ Depth(old) = [packets |-> Len(old), bytes |-> TotalBytes(old)]
    <2>1. <<p>> \in Seq(Packet) /\ Len(<<p>>) = 1
      BY <1>1
    <2>2. TotalBytes(<<p>>) = p.size
      BY <1>1, <2>1, PacketsAreSized, TotalOfAppend
    <2> QED BY <1>1, <2>1, <2>2 DEF Depth, Packet
  <1>12. /\ told'[c] = [told[c] EXCEPT !.superseded = Plus(@, Depth(old)),
                                       !.accepted = Plus(@, Depth(<<p>>))]
         /\ told' = [d \in Channel |-> told'[d]]
         /\ \A d \in Channel : d # c => told'[d] = told[d]
    BY <1>1, <1>2, <1>3
  <1>13. told' \in [Channel -> Totals]
    <2>1. told[c] \in Totals
      BY <1>1, <1>3
    <2>2. told'[c] \in Totals
      <3>1. Depth(old) \in Depths /\ Depth(<<p>>) \in Depths
        BY <1>5, <1>11 DEF Depths
      <3>2. told[c].superseded \in Depths /\ told[c].accepted \in Depths
        BY <2>1 DEF Totals
      <3>3. Plus(told[c].superseded, Depth(old)) \in Depths /\ Plus(told[c].accepted, Depth(<<p>>)) \in Depths
        BY <3>1, <3>2 DEF Plus, Depths
      <3> QED BY <1>12, <2>1, <3>3 DEF Totals
    <2> QED BY <1>3, <1>12, <2>2
  <1>14. ReportsAddUp'
    <2> SUFFICES ASSUME NEW d \in Channel
                 PROVE  told'[d].accepted =
                    Plus(Plus(told'[d].superseded, told'[d].discarded),
                         Plus(told'[d].received,
                              Plus(DepthOf(queue'["First"][d]), DepthOf(queue'["Second"][d]))))
      BY DEF ReportsAddUp
    <2>0. told[d].accepted =
                    Plus(Plus(told[d].superseded, told[d].discarded),
                         Plus(told[d].received,
                              Plus(DepthOf(queue["First"][d]), DepthOf(queue["Second"][d]))))
      BY DEF LinkInv, ReportsAddUp
    <2>1. "First" \in Side /\ "Second" \in Side /\ (side = "First" \/ side = "Second")
      BY DEF Side
    <2>2. CASE d # c
      BY <1>7, <1>12, <2>0, <2>1, <2>2
    <2>3. CASE d = c
      <3> DEFINE t == told[c]
                 a == DepthOf(queue["First"][c])
                 b == DepthOf(queue["Second"][c])
                 x == DepthOf(queue'["First"][c])
                 y == DepthOf(queue'["Second"][c])
                 new == Depth(<<p>>)
                 gone == Depth(old)
      <3>1. /\ t \in Totals /\ a \in Depths /\ b \in Depths /\ new \in Depths /\ gone \in Depths
        <4>1. t \in Totals
          BY <1>1, <1>3
        <4>2. queue["First"][c] \in Queues /\ queue["Second"][c] \in Queues
          BY <1>1, <1>3, <2>1
        <4>3. a \in Depths /\ b \in Depths
          BY <4>2 DEF DepthOf, Depths, Queues
        <4>4. new \in Depths /\ gone \in Depths
          BY <1>5, <1>11 DEF Depths
        <4> QED BY <4>1, <4>3, <4>4
      <3>2. \/ x = [packets |-> a.packets - gone.packets + new.packets,
                    bytes |-> a.bytes - gone.bytes + new.bytes] /\ y = b
            \/ y = [packets |-> b.packets - gone.packets + new.packets,
                    bytes |-> b.bytes - gone.bytes + new.bytes] /\ x = a
        <4>1. CASE side = "First"
          <5>1. y = b
            BY <1>1, <1>7, <2>1, <4>1
          <5>2. queue["First"][c] = q /\ queue'["First"][c] = Pushed(q, p)
            BY <1>7, <4>1 DEF q
          <5>3. x = [packets |-> Len(q.packets) - Len(old) + 1, bytes |-> q.bytes - TotalBytes(old) + p.size]
            BY <1>5, <5>2 DEF DepthOf
          <5>4. a = [packets |-> Len(q.packets), bytes |-> q.bytes]
            BY <5>2 DEF DepthOf
          <5> HIDE DEF x, y, a, b
          <5> QED BY <1>11, <5>1, <5>3, <5>4
        <4>2. CASE side = "Second"
          <5>1. x = a
            BY <1>1, <1>7, <2>1, <4>2
          <5>2. queue["Second"][c] = q /\ queue'["Second"][c] = Pushed(q, p)
            BY <1>7, <4>2 DEF q
          <5>3. y = [packets |-> Len(q.packets) - Len(old) + 1, bytes |-> q.bytes - TotalBytes(old) + p.size]
            BY <1>5, <5>2 DEF DepthOf
          <5>4. b = [packets |-> Len(q.packets), bytes |-> q.bytes]
            BY <5>2 DEF DepthOf
          <5> HIDE DEF x, y, a, b
          <5> QED BY <1>11, <5>1, <5>3, <5>4
        <4> QED BY <2>1, <4>1, <4>2
      <3>3. t.accepted = Plus(Plus(t.superseded, t.discarded), Plus(t.received, Plus(a, b)))
        BY <2>0, <2>3
      <3>4. /\ told'[c].accepted = Plus(t.accepted, new)
            /\ told'[c].superseded = Plus(t.superseded, gone)
            /\ told'[c].discarded = t.discarded /\ told'[c].received = t.received
        BY <1>12, <3>1 DEF Totals
      <3>5. /\ t.superseded \in Depths /\ t.discarded \in Depths /\ t.received \in Depths
            /\ t.accepted \in Depths
        BY <3>1 DEF Totals
      <3> HIDE DEF t, a, b, x, y, new, gone
      <3>6. Plus(t.accepted, new) =
              Plus(Plus(Plus(t.superseded, gone), t.discarded), Plus(t.received, Plus(x, y)))
        BY <3>1, <3>2, <3>3, <3>5 DEF Plus, Depths
      <3> QED BY <2>3, <3>4, <3>6 DEF x, y
    <2> QED BY <2>2, <2>3
  <1>15. Shapes' /\ DownIsEmpty'
    BY <1>1, <1>2, <1>3, <1>8, <1>13 DEF Shapes, DownIsEmpty
  <1> QED BY <1>9, <1>10, <1>14, <1>15 DEF LinkInv

\* try_receive takes a packet.
LEMMA TryReceiveStep ==
  ASSUME LinkInv, NEW side \in Side, NEW c \in Channel, TryReceive(side, c)
  PROVE  LinkInv'
  <1> DEFINE from == Other(side)
             q == queue[from][c]
             p == Head(q.packets)
  <1>0. from \in Side
    BY DEF Other, Side
  <1> HIDE DEF from
  <1>1. /\ connected /\ connected' = connected /\ epoch' = epoch /\ accepted' = accepted
        /\ offered' = offered /\ q.packets # <<>>
        /\ queue' = [queue EXCEPT ![from][c] = Popped(q)]
        /\ received' = [received EXCEPT ![from][c] = @ \union {p}]
        /\ told' = [told EXCEPT ![c].received = Plus(@, Depth(<<p>>))]
    BY DEF TryReceive, from
  <1>2. /\ queue \in [Side -> [Channel -> Queues]] /\ told \in [Channel -> Totals]
        /\ accepted \in [Side -> [Channel -> SUBSET Packet]]
        /\ received \in [Side -> [Channel -> SUBSET Packet]]
        /\ offered \in Nat /\ epoch \in Nat
    BY DEF LinkInv, Shapes
  <1>3. q \in Queues /\ LaneInv(c, q, accepted[from][c], received[from][c], offered, epoch)
    BY <1>0, <1>2 DEF LinkInv, Lanes
  <1> HIDE DEF q
  <1>4. /\ p \in Packet /\ Popped(q) \in Queues
        /\ Len(Popped(q).packets) = Len(q.packets) - 1 /\ Popped(q).bytes = q.bytes - p.size
    BY <1>1, <1>3, PoppedLane DEF LaneInv
  <1>5. /\ LaneInv(c, Popped(q), accepted[from][c], received[from][c] \cup {p}, offered, epoch)
        /\ NotLost(q, accepted[from][c], received[from][c])
             => NotLost(Popped(q), accepted[from][c], received[from][c] \cup {p})
    BY <1>1, <1>2, <1>3, LanePop
  <1> HIDE DEF p
  <1>6. /\ queue'[from][c] = Popped(q) /\ received'[from][c] = received[from][c] \cup {p}
        /\ \A s \in Side, d \in Channel : s # from \/ d # c =>
              queue'[s][d] = queue[s][d] /\ received'[s][d] = received[s][d]
    BY <1>0, <1>1, <1>2
  <1>7. /\ queue' \in [Side -> [Channel -> Queues]]
        /\ received' \in [Side -> [Channel -> SUBSET Packet]]
    BY <1>0, <1>1, <1>2, <1>4
  <1>8. Lanes'
    <2> SUFFICES ASSUME NEW s \in Side, NEW d \in Channel
                 PROVE  LaneInv(d, queue'[s][d], accepted'[s][d], received'[s][d], offered', epoch')
      BY DEF Lanes
    <2>1. CASE s = from /\ d = c
      BY <1>1, <1>5, <1>6, <2>1
    <2>2. CASE s # from \/ d # c
      <3>1. LaneInv(d, queue[s][d], accepted[s][d], received[s][d], offered, epoch)
        BY DEF LinkInv, Lanes
      <3> QED BY <1>1, <1>6, <2>2, <3>1
    <2> QED BY <2>1, <2>2
  <1>9. NothingLostWhileConnected'
    <2>1. \A s \in Side, d \in Channel : NotLost(queue[s][d], accepted[s][d], received[s][d])
      BY <1>1, NothingLostByLane DEF LinkInv
    <2>2. \A s \in Side, d \in Channel : NotLost(queue'[s][d], accepted'[s][d], received'[s][d])
      <3> SUFFICES ASSUME NEW s \in Side, NEW d \in Channel
                   PROVE  NotLost(queue'[s][d], accepted'[s][d], received'[s][d])
        OBVIOUS
      <3>1. CASE s = from /\ d = c
        <4>1. NotLost(q, accepted[from][c], received[from][c])
          BY <1>0, <2>1 DEF q
        <4> QED BY <1>1, <1>5, <1>6, <3>1, <4>1
      <3>2. CASE s # from \/ d # c
        BY <1>1, <1>6, <2>1, <3>2
      <3> QED BY <3>1, <3>2
    <2> QED BY <2>2 DEF NothingLostWhileConnected, NotLost
  <1>10. Depth(<<p>>) = [packets |-> 1, bytes |-> p.size] /\ p.size \in Nat
    <2>1. <<p>> \in Seq(Packet) /\ Len(<<p>>) = 1
      BY <1>4
    <2>2. TotalBytes(<<p>>) = p.size
      BY <1>4, <2>1, PacketsAreSized, TotalOfAppend
    <2> QED BY <1>4, <2>1, <2>2 DEF Depth, Packet
  <1>11. /\ told'[c] = [told[c] EXCEPT !.received = Plus(@, Depth(<<p>>))]
         /\ told' = [d \in Channel |-> told'[d]]
         /\ \A d \in Channel : d # c => told'[d] = told[d]
    BY <1>1, <1>2
  <1>12. told' \in [Channel -> Totals]
    <2>1. told[c] \in Totals
      BY <1>2
    <2>2. Depth(<<p>>) \in Depths /\ told[c].received \in Depths
      BY <1>10, <2>1 DEF Depths, Totals
    <2>3. Plus(told[c].received, Depth(<<p>>)) \in Depths
      BY <2>2 DEF Plus, Depths
    <2>4. told'[c] \in Totals
      BY <1>11, <2>1, <2>3 DEF Totals
    <2> QED BY <1>2, <1>11, <2>4
  <1>13. ReportsAddUp'
    <2> SUFFICES ASSUME NEW d \in Channel
                 PROVE  told'[d].accepted =
                    Plus(Plus(told'[d].superseded, told'[d].discarded),
                         Plus(told'[d].received,
                              Plus(DepthOf(queue'["First"][d]), DepthOf(queue'["Second"][d]))))
      BY DEF ReportsAddUp
    <2>0. told[d].accepted =
                    Plus(Plus(told[d].superseded, told[d].discarded),
                         Plus(told[d].received,
                              Plus(DepthOf(queue["First"][d]), DepthOf(queue["Second"][d]))))
      BY DEF LinkInv, ReportsAddUp
    <2>1. "First" \in Side /\ "Second" \in Side /\ (from = "First" \/ from = "Second")
      BY <1>0 DEF Side
    <2>2. CASE d # c
      BY <1>6, <1>11, <2>0, <2>1, <2>2
    <2>3. CASE d = c
      <3> DEFINE t == told[c]
                 a == DepthOf(queue["First"][c])
                 b == DepthOf(queue["Second"][c])
                 x == DepthOf(queue'["First"][c])
                 y == DepthOf(queue'["Second"][c])
                 got == Depth(<<p>>)
      <3>1. /\ t \in Totals /\ a \in Depths /\ b \in Depths /\ got \in Depths
        BY <1>2, <1>10, <2>1 DEF DepthOf, Depths, Queues
      <3>2. \/ x = [packets |-> a.packets - got.packets, bytes |-> a.bytes - got.bytes] /\ y = b
            \/ y = [packets |-> b.packets - got.packets, bytes |-> b.bytes - got.bytes] /\ x = a
        <4>1. CASE from = "First"
          <5>1. y = b
            BY <1>6, <2>1, <4>1
          <5>2. queue["First"][c] = q /\ queue'["First"][c] = Popped(q)
            BY <1>6, <4>1 DEF q
          <5>3. x = [packets |-> Len(q.packets) - 1, bytes |-> q.bytes - p.size]
            BY <1>4, <5>2 DEF DepthOf
          <5>4. a = [packets |-> Len(q.packets), bytes |-> q.bytes]
            BY <5>2 DEF DepthOf
          <5> HIDE DEF x, y, a, b
          <5> QED BY <1>10, <5>1, <5>3, <5>4
        <4>2. CASE from = "Second"
          <5>1. x = a
            BY <1>6, <2>1, <4>2
          <5>2. queue["Second"][c] = q /\ queue'["Second"][c] = Popped(q)
            BY <1>6, <4>2 DEF q
          <5>3. y = [packets |-> Len(q.packets) - 1, bytes |-> q.bytes - p.size]
            BY <1>4, <5>2 DEF DepthOf
          <5>4. b = [packets |-> Len(q.packets), bytes |-> q.bytes]
            BY <5>2 DEF DepthOf
          <5> HIDE DEF x, y, a, b
          <5> QED BY <1>10, <5>1, <5>3, <5>4
        <4> QED BY <2>1, <4>1, <4>2
      <3>3. t.accepted = Plus(Plus(t.superseded, t.discarded), Plus(t.received, Plus(a, b)))
        BY <2>0, <2>3
      <3>4. /\ told'[c].accepted = t.accepted /\ told'[c].superseded = t.superseded
            /\ told'[c].discarded = t.discarded /\ told'[c].received = Plus(t.received, got)
        BY <1>11, <3>1 DEF Totals
      <3>5. /\ t.superseded \in Depths /\ t.discarded \in Depths /\ t.received \in Depths
        BY <3>1 DEF Totals
      <3> HIDE DEF t, a, b, x, y, got
      <3>6. Plus(Plus(t.superseded, t.discarded), Plus(t.received, Plus(a, b)))
              = Plus(Plus(t.superseded, t.discarded), Plus(Plus(t.received, got), Plus(x, y)))
        BY <3>1, <3>2, <3>5 DEF Plus, Depths
      <3> QED BY <2>3, <3>3, <3>4, <3>6 DEF x, y
    <2> QED BY <2>2, <2>3
  <1>14. Shapes' /\ DownIsEmpty'
    BY <1>1, <1>2, <1>7, <1>12 DEF LinkInv, Shapes, DownIsEmpty
  <1> QED BY <1>8, <1>9, <1>13, <1>14 DEF LinkInv

\* A packet that is refused leaves every lane as it is, with its number used.
LEMMA RefusedStep ==
  ASSUME LinkInv, offered' = offered + 1,
         UNCHANGED <<connected, queue, epoch, accepted, received, told>>
  PROVE  LinkInv'
  <1>1. Lanes'
    <2> SUFFICES ASSUME NEW s \in Side, NEW d \in Channel
                 PROVE  LaneInv(d, queue[s][d], accepted[s][d], received[s][d], offered + 1, epoch)
      BY DEF Lanes
    <2>1. LaneInv(d, queue[s][d], accepted[s][d], received[s][d], offered, epoch) /\ offered \in Nat
      BY DEF LinkInv, Lanes, Shapes
    <2> QED BY <2>1, LaneWaits
  <1> QED BY <1>1 DEF LinkInv, Shapes, DownIsEmpty, NothingLostWhileConnected, ReportsAddUp

\* Every step of the link preserves LinkInv.
LEMMA NextHolds == LinkInv /\ [Next]_vars => LinkInv'
  <1> SUFFICES ASSUME LinkInv, [Next]_vars PROVE LinkInv'
    OBVIOUS
  <1>1. ASSUME NEW side \in Side, Send(side) PROVE LinkInv'
    BY <1>1, TrySendStep, RefusedStep DEF Send, Refused
  <1>2. CASE UNCHANGED vars
    BY <1>2 DEF vars, LinkInv, Shapes, Lanes, DownIsEmpty, NothingLostWhileConnected, ReportsAddUp
  <1> QED BY <1>1, <1>2, TryReceiveStep, DisconnectStep, ReconnectStep DEF Next

-----------------------------------------------------------------------------
(***************************************************************************)
(* The invariant of the link: lanes in line and within their limits,       *)
(* nothing lost, reports that add up.                                      *)
(***************************************************************************)
THEOREM LinkInvariant == Spec => []LinkInv
  BY InitHolds, NextHolds, PTL DEF Spec

(***************************************************************************)
(* While the link is connected, an accepted packet is queued, was received *)
(* or was superseded by a later one of its key (BoundedQueue::try_push and *)
(* pop), for every number of packets, keys, sizes and limits.              *)
(***************************************************************************)
THEOREM NothingIsLost == Spec => []NothingLostWhileConnected
  <1>1. LinkInv => NothingLostWhileConnected
    BY DEF LinkInv
  <1> QED BY <1>1, LinkInvariant, PTL

(***************************************************************************)
(* The reports of try_send and disconnect account for every accepted       *)
(* packet and byte exactly once, whoever disconnects and how often.        *)
(***************************************************************************)
THEOREM ReportsAreExact == Spec => []ReportsAddUp
  <1>1. LinkInv => ReportsAddUp
    BY DEF LinkInv
  <1> QED BY <1>1, LinkInvariant, PTL

(***************************************************************************)
(* A lane delivers in the order it accepted and nothing of an earlier      *)
(* connection (LoopbackEndpoint::try_receive after disconnect, reconnect). *)
(***************************************************************************)
THEOREM LanesDeliverInOrder == Spec => InOrderWithinEpoch
  <1> DEFINE InOrder == \A s \in Side, c \in Channel :
                          \A p \in received'[s][c] \ received[s][c] :
                             /\ p.epoch = epoch
                             /\ \A earlier \in received[s][c] : earlier.id < p.id
  <1>1. ASSUME LinkInv, [Next]_vars PROVE InOrder
    <2>1. ASSUME NEW side \in Side, NEW c \in Channel, TryReceive(side, c) PROVE InOrder
      <3> DEFINE from == Other(side)
                 q == queue[from][c]
      <3>1. from \in Side
        BY DEF Other, Side
      <3>2. /\ q.packets # <<>>
            /\ received' = [received EXCEPT ![from][c] = @ \union {Head(q.packets)}]
        BY <2>1 DEF TryReceive
      <3>3. /\ LaneInv(c, q, accepted[from][c], received[from][c], offered, epoch)
            /\ offered \in Nat /\ received \in [Side -> [Channel -> SUBSET Packet]]
        BY <1>1, <3>1 DEF LinkInv, Lanes, Shapes
      <3> HIDE DEF from, q
      <3>4. Head(q.packets).epoch = epoch /\ \A r \in received[from][c] : r.id < Head(q.packets).id
        BY <3>2, <3>3, LanePop
      <3>5. \A s \in Side, d \in Channel : \A p \in received'[s][d] \ received[s][d] :
               s = from /\ d = c /\ p = Head(q.packets)
        BY <3>1, <3>2, <3>3
      <3> QED BY <3>4, <3>5
    <2>2. CASE received' = received \/ received' = PerLane({})
      BY <2>2 DEF PerLane
    <2>3. ASSUME NEW side \in Side, Send(side) \/ Disconnect(side) \/ Reconnect(side)
          PROVE  received' = received \/ received' = PerLane({})
      BY <2>3 DEF Send, TrySend, Refused, Disconnect, Reconnect
    <2>4. CASE UNCHANGED vars
      BY <2>2, <2>4 DEF vars
    <2> QED BY <1>1, <2>1, <2>2, <2>3, <2>4 DEF Next
  <1>2. ASSUME LinkInv, [Next]_vars PROVE [InOrder]_vars
    BY <1>1, <1>2
  <1> HIDE DEF InOrder
  <1>3. Spec => [][InOrder]_vars
    BY <1>2, LinkInvariant, PTL DEF Spec
  <1> QED BY <1>3 DEF InOrder, InOrderWithinEpoch

\* The usize arithmetic of BoundedQueue: queued_bytes is what the packets weigh,
\* the queue never exceeds either limit, and for whatever packet comes next the
\* subtractions of try_push, of what it supersedes from what is queued and of
\* what is retained from the limit, do not go below zero.
QueueArithmeticIsSafe ==
    \A s \in Side, c \in Channel :
        LET q == queue[s][c]
        IN  /\ WithinLimits(c, q)
            /\ \A p \in Packet : /\ Len(SupersededBy(q, p)) <= Len(q.packets)
                                 /\ TotalBytes(SupersededBy(q, p)) <= q.bytes

(***************************************************************************)
(* It holds in every reachable state, although retain and push_back count  *)
(* bytes by difference and never sum them again.                           *)
(***************************************************************************)
THEOREM CountersAreExact == Spec => []QueueArithmeticIsSafe
  <1>1. LinkInv => QueueArithmeticIsSafe
    BY PushedLane DEF LinkInv, Lanes, LaneInv, QueueArithmeticIsSafe
  <1> QED BY <1>1, LinkInvariant, PTL

-----------------------------------------------------------------------------
(***************************************************************************)
(* The lanes of the two pumps.                                             *)
(***************************************************************************)
\* How parts of a lane can be regrouped, extended and taken apart.
SequenceLaws(S) ==
    /\ \A a, b \in Seq(S) : a \o b \in Seq(S)
    /\ \A a, b, c \in Seq(S) : (a \o b) \o c = a \o (b \o c)
    /\ \A a \in Seq(S) : a \o <<>> = a /\ <<>> \o a = a
    /\ \A a, b \in Seq(S), e \in S : Append(a \o b, e) = a \o Append(b, e)
    /\ \A a, b \in Seq(S) : a # <<>> =>
          Head(a \o b) = Head(a) /\ Tail(a \o b) = Tail(a) \o b /\ a \o b # <<>>
    /\ \A a \in Seq(S) : a # <<>> =>
          Head(a) \in S /\ Tail(a) \in Seq(S) /\ a = <<Head(a)>> \o Tail(a)
    /\ \A a \in Seq(S), e \in S : Append(a, e) \in Seq(S) /\ Append(a, e) = a \o <<e>>

\* They hold for sequences over any set.
LEMMA LawsHold ==
  ASSUME NEW S
  PROVE  SequenceLaws(S)
  <1>1. ASSUME NEW a \in Seq(S), NEW b \in Seq(S)
        PROVE  a \o b \in Seq(S)
    OBVIOUS
  <1>2. ASSUME NEW a \in Seq(S), NEW b \in Seq(S), NEW c \in Seq(S)
        PROVE  (a \o b) \o c = a \o (b \o c)
    OBVIOUS
  <1>3. ASSUME NEW a \in Seq(S)
        PROVE  a \o <<>> = a /\ <<>> \o a = a
    OBVIOUS
  <1>4. ASSUME NEW a \in Seq(S), NEW b \in Seq(S), NEW e \in S
        PROVE  Append(a \o b, e) = a \o Append(b, e)
    OBVIOUS
  <1>5. ASSUME NEW a \in Seq(S), NEW b \in Seq(S), a # <<>>
        PROVE  Head(a \o b) = Head(a) /\ Tail(a \o b) = Tail(a) \o b /\ a \o b # <<>>
    BY <1>5
  <1>6. ASSUME NEW a \in Seq(S), a # <<>>
        PROVE  Head(a) \in S /\ Tail(a) \in Seq(S) /\ a = <<Head(a)>> \o Tail(a)
    BY <1>6
  <1>7. ASSUME NEW a \in Seq(S), NEW e \in S
        PROVE  Append(a, e) \in Seq(S) /\ Append(a, e) = a \o <<e>>
    OBVIOUS
  <1> QED BY <1>1, <1>2, <1>3, <1>4, <1>5, <1>6, <1>7 DEF SequenceLaws

\* A sequence may be cut anywhere.
LEMMA SplitAnywhere ==
  ASSUME NEW S, NEW s \in Seq(S), NEW n \in 0 .. Len(s)
  PROVE  /\ SubSeq(s, 1, n) \in Seq(S) /\ SubSeq(s, n + 1, Len(s)) \in Seq(S)
         /\ SubSeq(s, 1, n) \o SubSeq(s, n + 1, Len(s)) = s
  <1>1. Len(s) \in Nat /\ \A i \in 1 .. Len(s) : s[i] \in S
    OBVIOUS
  <1>2. SubSeq(s, 1, n) \in Seq(S)
    <2>1. \A i \in 1 .. n : s[i] \in S
      BY <1>1
    <2> QED BY <2>1, SubSeqProperties
  <1>3. SubSeq(s, n + 1, Len(s)) \in Seq(S)
    <2>1. n + 1 \in Int /\ Len(s) \in Int /\ \A i \in n + 1 .. Len(s) : s[i] \in S
      BY <1>1
    <2> QED BY <2>1, SubSeqProperties
  <1>4. SubSeq(s, 1, n) \o SubSeq(s, n + 1, Len(s)) = SubSeq(s, 1, Len(s))
    <2>1. 1 \in 1 .. Len(s) + 1 /\ n \in 1 - 1 .. Len(s) /\ Len(s) \in n .. Len(s)
      BY <1>1
    <2> QED BY <2>1, ConcatAdjacentSubSeq
  <1>5. SubSeq(s, 1, Len(s)) = s
    BY SubSeqFull
  <1> QED BY <1>2, <1>3, <1>4, <1>5

\* Retain works on the parts of a sequence apart.
LEMMA RetainOfConcat ==
  ASSUME NEW S, NEW s \in Seq(S), NEW t \in Seq(S), NEW K
  PROVE  Retain(s \o t, K) = Retain(s, K) \o Retain(t, K)
  <1>0. \A a, b \in Seq(S), e \in S : Append(a \o b, e) = a \o Append(b, e)
    BY LawsHold DEF SequenceLaws
  <1>1. /\ s \o t \in Seq(S) /\ Len(s) \in Nat /\ Len(t) \in Nat
        /\ Len(s \o t) = Len(s) + Len(t)
        /\ \A i \in 1 .. Len(s) + Len(t) :
              (s \o t)[i] = IF i <= Len(s) THEN s[i] ELSE t[i - Len(s)]
    BY ConcatProperties
  <1>2. PICK f \in [0 .. Len(s) -> Seq(S)] :
          RetainEquations(f, s, K) /\ Retain(s, K) = f[Len(s)]
    BY RetainRecursion
  <1>3. PICK g \in [0 .. Len(t) -> Seq(S)] :
          RetainEquations(g, t, K) /\ Retain(t, K) = g[Len(t)]
    BY RetainRecursion
  <1>4. PICK h \in [0 .. Len(s \o t) -> Seq(S)] :
          RetainEquations(h, s \o t, K) /\ Retain(s \o t, K) = h[Len(s \o t)]
    <2> DEFINE st == s \o t
    <2>1. st \in Seq(S)
      BY <1>1
    <2> HIDE DEF st
    <2>2. \E h \in [0 .. Len(st) -> Seq(S)] :
            RetainEquations(h, st, K) /\ Retain(st, K) = h[Len(st)]
      BY <2>1, RetainRecursion
    <2> QED BY ONLY <2>2 DEF st
  <1> DEFINE T == {n \in 0 .. Len(s) : h[n] = f[n]}
             U == {n \in 0 .. Len(t) : h[Len(s) + n] = f[Len(s)] \o g[n]}
  <1>5. 0 \in T
    BY <1>1, <1>2, <1>4 DEF RetainEquations
  <1>6. ASSUME NEW n \in 0 .. Len(s) - 1, n \in T PROVE n + 1 \in T
    <2>1. /\ n + 1 \in 1 .. Len(s) /\ n + 1 \in 1 .. Len(s \o t) /\ (n + 1) - 1 = n
          /\ n + 1 \in 0 .. Len(s) /\ n + 1 <= Len(s)
      BY <1>1
    <2>2. (s \o t)[n + 1] = s[n + 1]
      BY <1>1, <2>1
    <2>3. f[n + 1] = IF s[n + 1] \in K THEN Append(f[n], s[n + 1]) ELSE f[n]
      BY <1>2, <2>1 DEF RetainEquations
    <2>4. h[n + 1] = IF s[n + 1] \in K THEN Append(h[n], s[n + 1]) ELSE h[n]
      BY <1>4, <2>1, <2>2 DEF RetainEquations
    <2> QED BY <1>6, <2>1, <2>3, <2>4
  <1>7. h[Len(s)] = f[Len(s)]
    <2>1. Len(s) \in T
      <3> HIDE DEF T
      <3>1. \A n \in 0 .. Len(s) : n \in T
        BY <1>1, <1>5, <1>6, InductionUpTo
      <3> QED BY <1>1, <3>1
    <2> QED BY <2>1
  <1>8. f[Len(s)] \in Seq(S) /\ \A n \in 0 .. Len(t) : g[n] \in Seq(S)
    <2>1. Len(s) \in 0 .. Len(s)
      BY <1>1
    <2>2. f[Len(s)] \in Seq(S)
      BY <1>2, <2>1
    <2>3. ASSUME NEW n \in 0 .. Len(t) PROVE g[n] \in Seq(S)
      BY <1>3, <2>3
    <2> QED BY <2>2, <2>3
  <1>9. 0 \in U
    <2>1. g[0] = <<>> /\ Len(s) + 0 = Len(s) /\ 0 \in 0 .. Len(t)
      BY <1>1, <1>3 DEF RetainEquations
    <2>2. f[Len(s)] \o <<>> = f[Len(s)]
      BY <1>8, ConcatEmptySeq
    <2> QED BY <1>7, <2>1, <2>2
  <1>10. ASSUME NEW n \in 0 .. Len(t) - 1, n \in U PROVE n + 1 \in U
    <2> DEFINE a == f[Len(s)]
               m == Len(s) + n
               e == t[n + 1]
    <2>1. /\ n + 1 \in 1 .. Len(t) /\ m + 1 \in 1 .. Len(s \o t) /\ (n + 1) - 1 = n
          /\ n + 1 \in 0 .. Len(t) /\ ~(m + 1 <= Len(s)) /\ (m + 1) - Len(s) = n + 1
          /\ m + 1 \in 1 .. Len(s) + Len(t) /\ (m + 1) - 1 = m /\ Len(s) + (n + 1) = m + 1
          /\ n \in 0 .. Len(t)
      BY <1>1
    <2>2. (s \o t)[m + 1] = e /\ e \in S
      BY <1>1, <2>1
    <2>3. g[n + 1] = IF e \in K THEN Append(g[n], e) ELSE g[n]
      BY <1>3, <2>1 DEF RetainEquations
    <2>4. h[m + 1] = IF e \in K THEN Append(h[m], e) ELSE h[m]
      <3> HIDE DEF m, e
      <3> QED BY <1>4, <2>1, <2>2 DEF RetainEquations
    <2>5. h[m] = a \o g[n] /\ a \in Seq(S) /\ g[n] \in Seq(S)
      BY <1>8, <1>10, <2>1
    <2>6. Append(a \o g[n], e) = a \o Append(g[n], e)
      <3> DEFINE b == g[n]
      <3>1. a \in Seq(S) /\ b \in Seq(S) /\ e \in S
        BY <2>2, <2>5
      <3> HIDE DEF a, b, e
      <3>2. Append(a \o b, e) = a \o Append(b, e)
        BY <1>0, <3>1
      <3> QED BY <3>2 DEF b
    <2>7. h[m + 1] = a \o g[n + 1]
      <3> HIDE DEF a, m, e
      <3> QED BY <2>3, <2>4, <2>5, <2>6
    <2> QED BY <2>1, <2>7
  <1>11. h[Len(s) + Len(t)] = f[Len(s)] \o g[Len(t)]
    <2>1. Len(t) \in U
      <3> HIDE DEF U
      <3>1. \A n \in 0 .. Len(t) : n \in U
        BY <1>1, <1>9, <1>10, InductionUpTo
      <3> QED BY <1>1, <3>1
    <2> QED BY <2>1
  <1> QED BY <1>1, <1>2, <1>3, <1>4, <1>11

\* Retain of no member and of a single one.
LEMMA RetainOfOne ==
  ASSUME NEW S, NEW e \in S, NEW K
  PROVE  /\ Retain(<<>>, K) = <<>>
         /\ Retain(<<e>>, K) = IF e \in K THEN <<e>> ELSE <<>>
  <1> DEFINE one == <<e>>
  <1>1. <<>> \in Seq(S) /\ Len(<<>>) = 0 /\ one \in Seq(S) /\ Len(one) = 1 /\ one[1] = e
    OBVIOUS
  <1>5. Append(<<>>, e) = one
    OBVIOUS
  <1> HIDE DEF one
  <1>2. PICK f \in [0 .. Len(<<>>) -> Seq(S)] :
          RetainEquations(f, <<>>, K) /\ Retain(<<>>, K) = f[Len(<<>>)]
    BY <1>1, RetainRecursion
  <1>3. PICK g \in [0 .. Len(one) -> Seq(S)] :
          RetainEquations(g, one, K) /\ Retain(one, K) = g[Len(one)]
    BY <1>1, RetainRecursion
  <1>4. g[0] = <<>> /\ g[1] = IF e \in K THEN Append(g[0], e) ELSE g[0]
    <2>1. 1 \in 1 .. Len(one) /\ 1 - 1 = 0
      BY <1>1
    <2> QED BY <1>1, <1>3, <2>1 DEF RetainEquations
  <1> QED BY <1>1, <1>2, <1>3, <1>4, <1>5 DEF RetainEquations, one

\* Retain keeps all of a sequence whose members are all in K.
LEMMA RetainOfAll ==
  ASSUME NEW S, NEW s \in Seq(S), NEW K, \A i \in DOMAIN s : s[i] \in K
  PROVE  Retain(s, K) = s
  <1>1. Len(s) \in Nat /\ DOMAIN s = 1 .. Len(s)
    OBVIOUS
  <1>2. PICK f \in [0 .. Len(s) -> Seq(S)] :
          RetainEquations(f, s, K) /\ Retain(s, K) = f[Len(s)]
    BY RetainRecursion
  <1> DEFINE T == {n \in 0 .. Len(s) : f[n] = SubSeq(s, 1, n)}
  <1>3. 0 \in T
    <2>1. SubSeq(s, 1, 0) = <<>>
      BY SubSeqEmpty
    <2> QED BY <1>1, <1>2, <2>1 DEF RetainEquations
  <1>4. ASSUME NEW n \in 0 .. Len(s) - 1, n \in T PROVE n + 1 \in T
    <2>1. /\ n + 1 \in 1 .. Len(s) /\ (n + 1) - 1 = n /\ n + 1 \in 0 .. Len(s)
          /\ 1 \in 1 .. Len(s) /\ n \in 0 .. Len(s)
      BY <1>1
    <2>2. f[n + 1] = Append(f[n], s[n + 1])
      BY <1>1, <1>2, <2>1 DEF RetainEquations
    <2>3. SubSeq(s, 1, n + 1) = SubSeq(s, 1, n) \o <<s[n + 1]>>
      <3>1. ASSUME NEW m \in 1 .. Len(s) PROVE SubSeq(s, 1, m) = SubSeq(s, 1, m - 1) \o <<s[m]>>
        <4>1. 1 \in 1 .. Len(s) /\ m \in 1 .. Len(s)
          BY <2>1, <3>1
        <4> QED BY <4>1, SubSeqRecursiveSecond
      <3> QED BY <2>1, <3>1
    <2>4. Append(f[n], s[n + 1]) = f[n] \o <<s[n + 1]>>
      <3>1. f[n] \in Seq(S) /\ s[n + 1] \in S
        BY <1>1, <2>1
      <3> QED BY <3>1, AppendIsConcat
    <2> QED BY <1>4, <2>1, <2>2, <2>3, <2>4
  <1>5. Len(s) \in T
    <2> HIDE DEF T
    <2>1. \A n \in 0 .. Len(s) : n \in T
      BY <1>1, <1>3, <1>4, InductionUpTo
    <2> QED BY <1>1, <2>1
  <1>6. SubSeq(s, 1, Len(s)) = s
    BY SubSeqFull
  <1> QED BY <1>2, <1>5, <1>6

\* A packet without a key supersedes nothing: it goes to the back.
LEMMA PushedWithoutKey ==
  ASSUME NEW S, NEW q, q.packets \in Seq(S), NEW p, p.key = NoKey
  PROVE  Pushed(q, p).packets = Append(q.packets, p)
  <1>1. Obsolete(q, p) = {}
    BY DEF Obsolete, Obsoletes
  <1>2. ToSet(q.packets) \ Obsolete(q, p) = ToSet(q.packets)
    BY <1>1
  <1>3. \A i \in DOMAIN q.packets : q.packets[i] \in ToSet(q.packets)
    BY DEF ToSet
  <1>4. Retain(q.packets, ToSet(q.packets)) = q.packets
    BY <1>3, RetainOfAll
  <1> QED BY <1>2, <1>4 DEF Pushed

-----------------------------------------------------------------------------
(***************************************************************************)
(* The pumps and what they share.  Ldfl is the stream without a worker:    *)
(* the facts about lanes are proved for it once and hold for both workers, *)
(* as both extend the same module.                                         *)
(***************************************************************************)
CONSTANTS MaxFrames, MaxPeerFrames, MaxRead

VARIABLES
    out, in, sent, slot, wire, peerSent, flight, delivered, cancel,
    pc, inbound, pending, peerOpen, result, lastError, joining,
    writing, written, ended, phase, stopping

Ldfl == INSTANCE LdflStream
Tcp == INSTANCE TcpPump
Usb == INSTANCE UsbBulkPump

\* Every lane holds frames of its own; what is held back belongs to its lane.
QueuesOwn(o) ==
    /\ DOMAIN o = Ldfl!Lane
    /\ \A l \in Ldfl!Lane : o[l].packets \in Seq(Ldfl!FramesOf[l])
SlotsOwn(s) ==
    /\ DOMAIN s = Ldfl!Lane
    /\ \A l \in Ldfl!Lane : s[l] \in Ldfl!FramesOf[l] \cup {Ldfl!None}

\* A frame has one lane and no key, and is not None.
LEMMA FrameFacts ==
  /\ \A f \in Ldfl!Frame : f.lane \in Ldfl!Lane /\ f # Ldfl!None /\ f.key = NoKey
  /\ \A l \in Ldfl!Lane : \A f : f \in Ldfl!FramesOf[l] <=> f \in Ldfl!Frame /\ f.lane = l
  <1>1. ASSUME NEW f \in Ldfl!Frame
        PROVE  f.lane \in Ldfl!Lane /\ f # Ldfl!None /\ f.key = NoKey
    <2>1. f.seq \in 1 .. MaxFrames + MaxPeerFrames /\ f.lane \in Ldfl!Lane /\ f.key = NoKey
      BY DEF Ldfl!Frame
    <2>2. f.seq # 0
      BY <2>1
    <2>3. Ldfl!None.seq = 0
      BY DEF Ldfl!None
    <2> QED BY <2>1, <2>2, <2>3
  <1>2. ASSUME NEW l \in Ldfl!Lane, NEW f
        PROVE  f \in Ldfl!FramesOf[l] <=> f \in Ldfl!Frame /\ f.lane = l
    BY DEF Ldfl!FramesOf
  <1> QED BY <1>1, <1>2

\* What OfLane gives.
LaneLaws(l) ==
    /\ Ldfl!OfLane(<<>>, l) = <<>>
    /\ \A s \in Seq(Ldfl!Frame) : Ldfl!OfLane(s, l) \in Seq(Ldfl!Frame)
    /\ \A s, t \in Seq(Ldfl!Frame) :
          Ldfl!OfLane(s \o t, l) = Ldfl!OfLane(s, l) \o Ldfl!OfLane(t, l)
    /\ \A f \in Ldfl!Frame : Ldfl!OfLane(<<f>>, l) = IF f.lane = l THEN <<f>> ELSE <<>>

\* They hold for every lane.
LEMMA LaneLawsHold ==
  ASSUME NEW l \in Ldfl!Lane
  PROVE  LaneLaws(l)
  <1> DEFINE K == Ldfl!FramesOf[l]
  <1>1. \A s : Ldfl!OfLane(s, l) = Retain(s, K)
    BY DEF Ldfl!OfLane, Ldfl!Retain, Retain
  <1>2. \A f \in Ldfl!Frame : f \in K <=> f.lane = l
    BY FrameFacts
  <1> HIDE DEF K
  <1>3. ASSUME NEW f \in Ldfl!Frame
        PROVE  Ldfl!OfLane(<<f>>, l) = IF f.lane = l THEN <<f>> ELSE <<>>
    <2>1. Retain(<<f>>, K) = IF f \in K THEN <<f>> ELSE <<>>
      BY RetainOfOne
    <2> QED BY <1>1, <1>2, <2>1
  <1>4. Retain(<<>>, K) = <<>>
    <2>1. 1 \in {1}
      OBVIOUS
    <2> QED BY <2>1, RetainOfOne
  <1>5. ASSUME NEW s \in Seq(Ldfl!Frame) PROVE Ldfl!OfLane(s, l) \in Seq(Ldfl!Frame)
    BY <1>1, RetainKeeps
  <1>6. ASSUME NEW s \in Seq(Ldfl!Frame), NEW t \in Seq(Ldfl!Frame)
        PROVE  Ldfl!OfLane(s \o t, l) = Ldfl!OfLane(s, l) \o Ldfl!OfLane(t, l)
    <2>1. Retain(s \o t, K) = Retain(s, K) \o Retain(t, K)
      BY RetainOfConcat
    <2>2. Ldfl!OfLane(s \o t, l) = Retain(s \o t, K)
      BY <1>1
    <2>3. Ldfl!OfLane(s, l) = Retain(s, K) /\ Ldfl!OfLane(t, l) = Retain(t, K)
      BY <1>1
    <2> QED BY <2>1, <2>2, <2>3
  <1> QED BY <1>1, <1>3, <1>4, <1>5, <1>6 DEF LaneLaws

\* One more frame on a stream is one more frame on its lane.
LEMMA OneMore ==
  ASSUME NEW s \in Seq(Ldfl!Frame), NEW f \in Ldfl!Frame
  PROVE  /\ Ldfl!PerLane(Append(s, f)) =
              [Ldfl!PerLane(s) EXCEPT ![f.lane] = Append(@, f)]
         /\ \A l \in Ldfl!Lane : Ldfl!OfLane(Append(s, f), l) =
              IF f.lane = l THEN Append(Ldfl!OfLane(s, l), f) ELSE Ldfl!OfLane(s, l)
  <1>1. SequenceLaws(Ldfl!Frame) /\ <<f>> \in Seq(Ldfl!Frame) /\ f.lane \in Ldfl!Lane
    BY LawsHold, FrameFacts
  <1>2. ASSUME NEW l \in Ldfl!Lane
        PROVE  Ldfl!OfLane(Append(s, f), l) =
                 IF f.lane = l THEN Append(Ldfl!OfLane(s, l), f) ELSE Ldfl!OfLane(s, l)
    <2> DEFINE a == Ldfl!OfLane(s, l)
    <2>1. LaneLaws(l)
      BY LaneLawsHold
    <2>2. Append(s, f) = s \o <<f>>
      BY <1>1 DEF SequenceLaws
    <2>3. Ldfl!OfLane(s \o <<f>>, l) = a \o Ldfl!OfLane(<<f>>, l)
      BY <1>1, <2>1 DEF LaneLaws
    <2>4. Ldfl!OfLane(<<f>>, l) = IF f.lane = l THEN <<f>> ELSE <<>>
      BY <2>1 DEF LaneLaws
    <2>5. a \in Seq(Ldfl!Frame)
      BY <2>1 DEF LaneLaws
    <2> HIDE DEF a
    <2>6. a \o <<f>> = Append(a, f) /\ a \o <<>> = a
      BY <1>1, <2>5 DEF SequenceLaws
    <2> QED BY <2>2, <2>3, <2>4, <2>6 DEF a
  <1>3. Ldfl!PerLane(Append(s, f)) = [Ldfl!PerLane(s) EXCEPT ![f.lane] = Append(@, f)]
    BY <1>1, <1>2 DEF Ldfl!PerLane
  <1> QED BY <1>2, <1>3

\* The queues after a frame is pushed and after one is popped.
AfterPush(o, f) == [o EXCEPT ![f.lane] = Ldfl!Pushed(@, f)]
AfterPop(o, k) == [o EXCEPT ![k] = Ldfl!Popped(@)]

\* A frame pushed into its queue goes to the back of it.
PushedBack(o, f, r) ==
    /\ QueuesOwn(r)
    /\ \A l \in Ldfl!Lane :
          r[l].packets = IF l = f.lane THEN Append(o[l].packets, f) ELSE o[l].packets

\* No frame of a pump has a key, so pushing one supersedes nothing.
LEMMA QueuePushed ==
  ASSUME NEW o, QueuesOwn(o), NEW f \in Ldfl!Frame
  PROVE  PushedBack(o, f, AfterPush(o, f))
  <1> DEFINE k == f.lane
             q == o[k]
             r == AfterPush(o, f)
  <1>1. k \in Ldfl!Lane /\ f.key = NoKey /\ f \in Ldfl!FramesOf[k]
    BY FrameFacts
  <1>2. q.packets \in Seq(Ldfl!FramesOf[k]) /\ DOMAIN o = Ldfl!Lane
    BY <1>1 DEF QueuesOwn
  <1>3. r[k] = Ldfl!Pushed(q, f) /\ DOMAIN r = Ldfl!Lane
        /\ \A l \in Ldfl!Lane : l # k => r[l] = o[l]
    BY <1>1, <1>2 DEF AfterPush
  <1> HIDE DEF k, r
  <1>4. Ldfl!Pushed(q, f).packets = Pushed(q, f).packets
    <2>1. \A s, K : Ldfl!Retain(s, K) = Retain(s, K)
      BY DEF Ldfl!Retain, Retain
    <2>2. Ldfl!ToSet(q.packets) = ToSet(q.packets)
      BY DEF Ldfl!ToSet, ToSet
    <2>3. Ldfl!Obsolete(q, f) = Obsolete(q, f)
      BY <2>2 DEF Ldfl!Obsolete, Obsolete, Ldfl!Obsoletes, Obsoletes
    <2> QED BY <2>1, <2>2, <2>3 DEF Ldfl!Pushed, Pushed
  <1> HIDE DEF q
  <1>5. Pushed(q, f).packets = Append(q.packets, f)
    BY <1>1, <1>2, PushedWithoutKey
  <1>6. Append(q.packets, f) \in Seq(Ldfl!FramesOf[k])
    <2> DEFINE F == Ldfl!FramesOf[k]
               p == q.packets
    <2>1. p \in Seq(F) /\ f \in F
      BY <1>1, <1>2
    <2> HIDE DEF F, p
    <2>2. Append(p, f) \in Seq(F)
      BY <2>1
    <2> QED BY <2>2 DEF F, p
  <1>7. r[k].packets = Append(q.packets, f)
    BY <1>3, <1>4, <1>5
  <1>8. \A l \in Ldfl!Lane :
              r[l].packets = IF l = k THEN Append(o[l].packets, f) ELSE o[l].packets
    BY <1>3, <1>7 DEF q
  <1>9. QueuesOwn(r)
    BY <1>3, <1>6, <1>7 DEF QueuesOwn
  <1> QED BY <1>8, <1>9 DEF k, r, PushedBack

\* A frame taken from a queue is one of its lane.
PoppedFront(o, k, r) ==
    /\ QueuesOwn(r)
    /\ Head(o[k].packets) \in Ldfl!FramesOf[k]
    /\ \A l \in Ldfl!Lane :
          r[l].packets = IF l = k THEN Tail(o[l].packets) ELSE o[l].packets

\* The rest of the queue keeps its order.
LEMMA QueuePopped ==
  ASSUME NEW o, QueuesOwn(o), NEW k \in Ldfl!Lane, o[k].packets # <<>>
  PROVE  PoppedFront(o, k, AfterPop(o, k))
  <1> DEFINE q == o[k]
             r == AfterPop(o, k)
  <1>2. q.packets \in Seq(Ldfl!FramesOf[k]) /\ DOMAIN o = Ldfl!Lane
    BY DEF QueuesOwn
  <1>3. r[k] = Ldfl!Popped(q) /\ DOMAIN r = Ldfl!Lane
        /\ \A l \in Ldfl!Lane : l # k => r[l] = o[l]
    BY <1>2 DEF AfterPop
  <1> HIDE DEF r
  <1>4. r[k].packets = Tail(q.packets)
    BY <1>3 DEF Ldfl!Popped
  <1>5. Tail(q.packets) \in Seq(Ldfl!FramesOf[k]) /\ Head(q.packets) \in Ldfl!FramesOf[k]
    <2> DEFINE F == Ldfl!FramesOf[k]
               p == q.packets
    <2>1. p \in Seq(F) /\ p # <<>>
      BY <1>2
    <2> HIDE DEF F, p
    <2>2. Tail(p) \in Seq(F) /\ Head(p) \in F
      BY <2>1
    <2> QED BY <2>2 DEF F, p
  <1> HIDE DEF q
  <1>6. QueuesOwn(r)
    BY <1>3, <1>4, <1>5 DEF QueuesOwn
  <1> QED BY <1>3, <1>4, <1>5, <1>6 DEF q, r, PoppedFront

\* The parts of what is under way are sequences of frames.
OutParted(h, s, o, l) ==
    /\ Ldfl!OfLane(Ldfl!Held(h), l) \in Seq(Ldfl!Frame)
    /\ Ldfl!Held(s[l]) \in Seq(Ldfl!Frame)
    /\ o[l].packets \in Seq(Ldfl!Frame)
    /\ Ldfl!OutTransit(TRUE, h, s, o)[l] =
          (Ldfl!OfLane(Ldfl!Held(h), l) \o Ldfl!Held(s[l])) \o o[l].packets

\* They are, whichever frame is being written or held back.
LEMMA OutParts ==
  ASSUME NEW h \in Ldfl!Frame \cup {Ldfl!None}, NEW s, SlotsOwn(s), NEW o, QueuesOwn(o),
         NEW l \in Ldfl!Lane
  PROVE  OutParted(h, s, o, l)
  <1>1. \A f \in Ldfl!Frame \cup {Ldfl!None} : Ldfl!Held(f) \in Seq(Ldfl!Frame)
    BY DEF Ldfl!Held
  <1>2. Ldfl!OfLane(Ldfl!Held(h), l) \in Seq(Ldfl!Frame)
    <2>1. Ldfl!Held(h) \in Seq(Ldfl!Frame)
      BY <1>1
    <2> QED BY <2>1, LaneLawsHold DEF LaneLaws
  <1>3. \A f \in Ldfl!FramesOf[l] : f \in Ldfl!Frame
    BY FrameFacts
  <1>4. s[l] \in Ldfl!Frame \cup {Ldfl!None}
    BY <1>3 DEF SlotsOwn
  <1>5. o[l].packets \in Seq(Ldfl!Frame)
    <2>1. o[l].packets \in Seq(Ldfl!FramesOf[l]) /\ Ldfl!FramesOf[l] \subseteq Ldfl!Frame
      BY <1>3 DEF QueuesOwn
    <2> QED BY <2>1, SeqMonotonic
  <1>6. Ldfl!Held(s[l]) \in Seq(Ldfl!Frame)
    BY <1>1, <1>4
  <1>7. Ldfl!OutTransit(TRUE, h, s, o)[l] =
              (Ldfl!OfLane(Ldfl!Held(h), l) \o Ldfl!Held(s[l])) \o o[l].packets
    BY DEF Ldfl!OutTransit
  <1> QED BY <1>2, <1>5, <1>6, <1>7 DEF OutParted

\* A function on the lanes.
OnLanes(F) == F = [l \in Ldfl!Lane |-> F[l]]

\* Functions on the lanes that agree on every lane are equal.
LEMMA LaneByLane ==
  ASSUME NEW F, NEW G, OnLanes(F), OnLanes(G), \A l \in Ldfl!Lane : F[l] = G[l]
  PROVE  F = G
  <1>1. [l \in Ldfl!Lane |-> F[l]] = [l \in Ldfl!Lane |-> G[l]]
    OBVIOUS
  <1> QED BY <1>1 DEF OnLanes

\* What is under way is given lane by lane.
LEMMA TransitOnLanes ==
  /\ \A u, h, s, o : OnLanes(Ldfl!OutTransit(u, h, s, o))
  /\ \A u, i, b, f : OnLanes(Ldfl!InTransit(u, i, b, f))
  BY DEF Ldfl!OutTransit, Ldfl!InTransit, OnLanes

\* A frame the application sends goes to the end of its lane.
QueuedOut(h, s, o, f) ==
    /\ QueuesOwn(AfterPush(o, f))
    /\ Ldfl!OutTransit(TRUE, h, s, AfterPush(o, f)) =
         [Ldfl!OutTransit(TRUE, h, s, o) EXCEPT ![f.lane] = Append(@, f)]

\* The push of try_send does that.
LEMMA OutQueued ==
  ASSUME NEW h \in Ldfl!Frame \cup {Ldfl!None}, NEW s, SlotsOwn(s), NEW o, QueuesOwn(o),
         NEW f \in Ldfl!Frame
  PROVE  QueuedOut(h, s, o, f)
  <1> DEFINE r == AfterPush(o, f)
             F == Ldfl!OutTransit(TRUE, h, s, o)
             G == Ldfl!OutTransit(TRUE, h, s, r)
             H == [F EXCEPT ![f.lane] = Append(@, f)]
  <1>1. PushedBack(o, f, r)
    BY QueuePushed
  <1>2. OnLanes(F) /\ OnLanes(G)
    BY TransitOnLanes
  <1>3. SequenceLaws(Ldfl!Frame) /\ f.lane \in Ldfl!Lane
    BY LawsHold, FrameFacts
  <1>4. QueuesOwn(r) /\ \A l \in Ldfl!Lane :
          r[l].packets = IF l = f.lane THEN Append(o[l].packets, f) ELSE o[l].packets
    BY <1>1 DEF PushedBack
  <1> HIDE DEF r
  <1>5. ASSUME NEW l \in Ldfl!Lane PROVE G[l] = IF l = f.lane THEN Append(F[l], f) ELSE F[l]
    <2> DEFINE a == Ldfl!OfLane(Ldfl!Held(h), l)
               b == Ldfl!Held(s[l])
               c == o[l].packets
               ab == a \o b
    <2>1. OutParted(h, s, o, l) /\ OutParted(h, s, r, l)
      BY <1>4, OutParts
    <2>2. a \in Seq(Ldfl!Frame) /\ b \in Seq(Ldfl!Frame) /\ c \in Seq(Ldfl!Frame)
          /\ F[l] = ab \o c /\ G[l] = ab \o r[l].packets
      BY <2>1 DEF OutParted
    <2>3. r[l].packets = IF l = f.lane THEN Append(c, f) ELSE c
      BY <1>4
    <2> HIDE DEF a, b, c, F, G
    <2>4. ab \in Seq(Ldfl!Frame)
      BY <1>3, <2>2 DEF SequenceLaws
    <2> HIDE DEF ab
    <2>5. Append(ab \o c, f) = ab \o Append(c, f)
      <3>1. \A u, v \in Seq(Ldfl!Frame), e \in Ldfl!Frame : Append(u \o v, e) = u \o Append(v, e)
        BY <1>3 DEF SequenceLaws
      <3> QED BY <2>2, <2>4, <3>1, Zenon
    <2> QED BY <2>2, <2>3, <2>5
  <1> HIDE DEF F, G
  <1>6. G = H
    BY <1>2, <1>3, <1>5 DEF OnLanes
  <1> QED BY <1>4, <1>6 DEF F, G, r, QueuedOut

\* The multiplexer's receive moves the first frame of a queue to the slot
\* before it.
TakenOut(h, s, o, k) ==
    /\ QueuesOwn(AfterPop(o, k)) /\ SlotsOwn([s EXCEPT ![k] = Head(o[k].packets)])
    /\ Ldfl!OutTransit(TRUE, h, [s EXCEPT ![k] = Head(o[k].packets)], AfterPop(o, k)) =
         Ldfl!OutTransit(TRUE, h, s, o)

\* It does, whichever frame is being written.
LEMMA OutTaken ==
  ASSUME NEW h \in Ldfl!Frame \cup {Ldfl!None}, NEW s, SlotsOwn(s), NEW o, QueuesOwn(o),
         NEW k \in Ldfl!Lane, s[k] = Ldfl!None, o[k].packets # <<>>
  PROVE  TakenOut(h, s, o, k)
  <1> DEFINE r == AfterPop(o, k)
             t == [s EXCEPT ![k] = Head(o[k].packets)]
             F == Ldfl!OutTransit(TRUE, h, s, o)
             G == Ldfl!OutTransit(TRUE, h, t, r)
             x == Head(o[k].packets)
  <1>1. PoppedFront(o, k, r)
    BY QueuePopped
  <1>2. QueuesOwn(r) /\ x \in Ldfl!FramesOf[k] /\ \A l \in Ldfl!Lane :
              r[l].packets = IF l = k THEN Tail(o[l].packets) ELSE o[l].packets
    BY <1>1 DEF PoppedFront
  <1>3. DOMAIN s = Ldfl!Lane /\ t[k] = x /\ DOMAIN t = Ldfl!Lane
        /\ \A l \in Ldfl!Lane : l # k => t[l] = s[l]
    BY DEF SlotsOwn
  <1>4. OnLanes(F) /\ OnLanes(G)
    BY TransitOnLanes
  <1> HIDE DEF r, t
  <1>5. SequenceLaws(Ldfl!Frame) /\ x \in Ldfl!Frame /\ x # Ldfl!None
    <2> HIDE DEF x
    <2> QED BY <1>2, LawsHold, FrameFacts
  <1>6. SlotsOwn(t)
    <2> HIDE DEF x
    <2> QED BY <1>2, <1>3 DEF SlotsOwn
  <1>7. ASSUME NEW l \in Ldfl!Lane PROVE F[l] = G[l]
    <2> DEFINE a == Ldfl!OfLane(Ldfl!Held(h), l)
               c == o[l].packets
    <2>1. OutParted(h, s, o, l) /\ OutParted(h, t, r, l)
      BY <1>2, <1>6, OutParts
    <2>2. a \in Seq(Ldfl!Frame) /\ c \in Seq(Ldfl!Frame)
          /\ F[l] = (a \o Ldfl!Held(s[l])) \o c
          /\ G[l] = (a \o Ldfl!Held(t[l])) \o r[l].packets
      BY <2>1 DEF OutParted
    <2>3. CASE l # k
      <3>1. t[l] = s[l] /\ r[l].packets = c
        BY <1>2, <1>3, <2>3
      <3> HIDE DEF a, c, F, G, x
      <3> QED BY <2>2, <3>1
    <2>4. CASE l = k
      <3>1. Ldfl!Held(s[l]) = <<>> /\ Ldfl!Held(t[l]) = <<x>>
        <4> HIDE DEF x
        <4> QED BY <1>3, <1>5, <2>4 DEF Ldfl!Held
      <3>2. r[l].packets = Tail(c) /\ c # <<>> /\ x = Head(c)
        BY <1>2, <2>4
      <3> HIDE DEF a, c, F, G, x
      <3> DEFINE one == <<x>>
                 rest == Tail(c)
      <3>3. one \in Seq(Ldfl!Frame) /\ rest \in Seq(Ldfl!Frame) /\ c = one \o rest
        <4>1. one \in Seq(Ldfl!Frame)
          BY <1>5
        <4> QED BY <1>5, <2>2, <3>2, <4>1 DEF SequenceLaws
      <3>4. F[l] = (a \o <<>>) \o c /\ G[l] = (a \o one) \o rest
        BY <2>2, <3>1, <3>2
      <3> HIDE DEF one, rest
      <3>5. (a \o one) \o rest = a \o (one \o rest) /\ a \o <<>> = a
        <4>1. \A u, v, w \in Seq(Ldfl!Frame) : (u \o v) \o w = u \o (v \o w)
          BY <1>5 DEF SequenceLaws
        <4>2. a \o <<>> = a
          BY <1>5, <2>2 DEF SequenceLaws
        <4> QED BY <2>2, <3>3, <4>1, <4>2, Zenon
      <3> QED BY <3>3, <3>4, <3>5
    <2> QED BY <2>3, <2>4
  <1> HIDE DEF F, G, x
  <1>8. F = G
    BY <1>4, <1>7, LaneByLane
  <1> QED BY <1>2, <1>6, <1>8 DEF F, G, r, t, TakenOut

\* What is held of no frame and of a frame, and on which lane.
LEMMA HeldFacts ==
  /\ Ldfl!Held(Ldfl!None) = <<>>
  /\ \A f \in Ldfl!Frame : Ldfl!Held(f) = <<f>>
  /\ \A l \in Ldfl!Lane : Ldfl!OfLane(Ldfl!Held(Ldfl!None), l) = <<>>
  /\ \A l \in Ldfl!Lane, f \in Ldfl!Frame :
        Ldfl!OfLane(Ldfl!Held(f), l) = IF f.lane = l THEN <<f>> ELSE <<>>
  <1>1. Ldfl!Held(Ldfl!None) = <<>> /\ \A f \in Ldfl!Frame : Ldfl!Held(f) = <<f>>
    BY FrameFacts DEF Ldfl!Held
  <1>2. \A l \in Ldfl!Lane : Ldfl!OfLane(<<>>, l) = <<>>
    BY LaneLawsHold DEF LaneLaws
  <1>3. \A l \in Ldfl!Lane, f \in Ldfl!Frame :
          Ldfl!OfLane(<<f>>, l) = IF f.lane = l THEN <<f>> ELSE <<>>
    BY LaneLawsHold DEF LaneLaws
  <1> QED BY <1>1, <1>2, <1>3

\* The multiplexer's choice is a frame held back on its lane, or there is none.
LEMMA EarliestIsHeld ==
  ASSUME NEW s, SlotsOwn(s)
  PROVE  \/ Ldfl!Earliest(s) = Ldfl!None
         \/ /\ Ldfl!Earliest(s) \in Ldfl!Frame
            /\ s[Ldfl!Earliest(s).lane] = Ldfl!Earliest(s)
  <1>1. "Control" \in Ldfl!Lane /\ "Media" \in Ldfl!Lane
    BY DEF Ldfl!Lane
  <1>2. Ldfl!Earliest(s) \in {s["Control"], s["Media"]}
    BY DEF Ldfl!Earliest
  <1>3. ASSUME NEW l \in Ldfl!Lane, s[l] # Ldfl!None PROVE s[l] \in Ldfl!Frame /\ s[l].lane = l
    <2>1. s[l] \in Ldfl!FramesOf[l]
      BY <1>3 DEF SlotsOwn
    <2> QED BY <2>1, FrameFacts
  <1> QED BY <1>1, <1>2, <1>3

\* Taking it from its slot and starting to write it moves nothing.
ChosenOut(s, o) ==
    /\ Ldfl!Earliest(s) \in Ldfl!Frame \cup {Ldfl!None}
    /\ SlotsOwn(Ldfl!Without(s, Ldfl!Earliest(s)))
    /\ Ldfl!OutTransit(TRUE, Ldfl!Earliest(s), Ldfl!Without(s, Ldfl!Earliest(s)), o) =
         Ldfl!OutTransit(TRUE, Ldfl!None, s, o)

\* The choice does that.
LEMMA OutChosen ==
  ASSUME NEW s, SlotsOwn(s), NEW o, QueuesOwn(o)
  PROVE  ChosenOut(s, o)
  <1> DEFINE e == Ldfl!Earliest(s)
             t == Ldfl!Without(s, e)
             F == Ldfl!OutTransit(TRUE, Ldfl!None, s, o)
             G == Ldfl!OutTransit(TRUE, e, t, o)
  <1>1. e = Ldfl!None \/ (e \in Ldfl!Frame /\ s[e.lane] = e)
    BY EarliestIsHeld
  <1>2. DOMAIN t = Ldfl!Lane /\ \A l \in Ldfl!Lane : t[l] = IF s[l] = e THEN Ldfl!None ELSE s[l]
    BY DEF Ldfl!Without
  <1>3. OnLanes(F) /\ OnLanes(G)
    BY TransitOnLanes
  <1> HIDE DEF e, t
  <1>4. SlotsOwn(t)
    BY <1>2 DEF SlotsOwn
  <1>5. e \in Ldfl!Frame \cup {Ldfl!None}
    BY <1>1
  <1>6. SequenceLaws(Ldfl!Frame)
    BY LawsHold
  <1>7. ASSUME NEW l \in Ldfl!Lane PROVE F[l] = G[l]
    <2> DEFINE b == Ldfl!Held(s[l])
               c == o[l].packets
    <2>0. Ldfl!None \in Ldfl!Frame \cup {Ldfl!None}
      OBVIOUS
    <2>1. OutParted(Ldfl!None, s, o, l) /\ OutParted(e, t, o, l)
      BY <1>4, <1>5, <2>0, OutParts
    <2>2. b \in Seq(Ldfl!Frame) /\ F[l] = (<<>> \o b) \o c
      BY <2>1, HeldFacts DEF OutParted
    <2>3. G[l] = (Ldfl!OfLane(Ldfl!Held(e), l) \o Ldfl!Held(t[l])) \o c
      BY <2>1 DEF OutParted
    <2>4. <<>> \o b = b /\ b \o <<>> = b
      <3> HIDE DEF b
      <3> QED BY <1>6, <2>2 DEF SequenceLaws
    <2>5. CASE e = Ldfl!None
      <3>1. t[l] = s[l] /\ Ldfl!OfLane(Ldfl!Held(e), l) = <<>>
        BY <1>2, <2>5, HeldFacts
      <3> QED BY <2>2, <2>3, <3>1
    <2>6. CASE e \in Ldfl!Frame /\ s[e.lane] = e /\ e.lane = l
      <3>1. t[l] = Ldfl!None /\ Ldfl!OfLane(Ldfl!Held(e), l) = <<e>> /\ b = <<e>>
        BY <1>2, <2>6, HeldFacts
      <3>2. Ldfl!Held(t[l]) = <<>>
        BY <3>1, HeldFacts
      <3> HIDE DEF b, c, F, G
      <3> QED BY <2>2, <2>3, <2>4, <3>1, <3>2
    <2>7. CASE e \in Ldfl!Frame /\ s[e.lane] = e /\ e.lane # l
      <3>1. s[l] # e
        <4>1. e # Ldfl!None /\ s[l] \in Ldfl!FramesOf[l] \cup {Ldfl!None}
          BY <2>7, FrameFacts DEF SlotsOwn
        <4>2. e \notin Ldfl!FramesOf[l]
          BY <2>7, FrameFacts
        <4> QED BY <4>1, <4>2
      <3>2. t[l] = s[l] /\ Ldfl!OfLane(Ldfl!Held(e), l) = <<>>
        BY <1>2, <2>7, <3>1, HeldFacts
      <3> QED BY <2>2, <2>3, <3>2
    <2> QED BY <1>1, <2>5, <2>6, <2>7
  <1> HIDE DEF F, G
  <1>8. F = G
    BY <1>3, <1>7, LaneByLane
  <1> QED BY <1>4, <1>5, <1>8 DEF F, G, e, t, ChosenOut

\* The frame whose last chunk is written is the first of its lane.
WrittenOut(h, s, o) ==
    /\ h.lane \in Ldfl!Lane
    /\ Ldfl!OutTransit(TRUE, h, s, o)[h.lane] # <<>>
    /\ Head(Ldfl!OutTransit(TRUE, h, s, o)[h.lane]) = h
    /\ Ldfl!OutTransit(TRUE, Ldfl!None, s, o) =
         [Ldfl!OutTransit(TRUE, h, s, o) EXCEPT ![h.lane] = Tail(@)]

\* It is, whatever waits behind it.
LEMMA OutWritten ==
  ASSUME NEW h \in Ldfl!Frame, NEW s, SlotsOwn(s), NEW o, QueuesOwn(o)
  PROVE  WrittenOut(h, s, o)
  <1> DEFINE F == Ldfl!OutTransit(TRUE, h, s, o)
             G == Ldfl!OutTransit(TRUE, Ldfl!None, s, o)
             k == h.lane
  <1>1. k \in Ldfl!Lane
    BY FrameFacts
  <1>2. OnLanes(F) /\ OnLanes(G)
    BY TransitOnLanes
  <1>3. ASSUME NEW l \in Ldfl!Lane
        PROVE  IF l = k THEN F[l] # <<>> /\ Head(F[l]) = h /\ G[l] = Tail(F[l])
                        ELSE G[l] = F[l]
    <2> DEFINE b == Ldfl!Held(s[l])
               c == o[l].packets
               bc == b \o c
    <2>0. Ldfl!None \in Ldfl!Frame \cup {Ldfl!None} /\ h \in Ldfl!Frame \cup {Ldfl!None}
      OBVIOUS
    <2>1. OutParted(Ldfl!None, s, o, l) /\ OutParted(h, s, o, l)
      BY <2>0, OutParts
    <2>2. b \in Seq(Ldfl!Frame) /\ c \in Seq(Ldfl!Frame) /\ G[l] = (<<>> \o b) \o c
      BY <2>1, HeldFacts DEF OutParted
    <2>3. F[l] = ((IF h.lane = l THEN <<h>> ELSE <<>>) \o b) \o c
      BY <2>1, HeldFacts DEF OutParted
    <2>4. SequenceLaws(Ldfl!Frame)
      BY LawsHold
    <2> HIDE DEF b, c, F, G
    <2>5. <<>> \o b = b /\ bc \in Seq(Ldfl!Frame)
      BY <2>2, <2>4 DEF SequenceLaws
    <2>6. CASE l # k
      BY <2>2, <2>3, <2>6
    <2>7. CASE l = k
      <3> DEFINE one == <<h>>
      <3>1. one \in Seq(Ldfl!Frame) /\ one # <<>> /\ Head(one) = h /\ Tail(one) = <<>>
        OBVIOUS
      <3>2. F[l] = (one \o b) \o c
        BY <2>3, <2>7
      <3>3. (one \o b) \o c = one \o bc
        <4> HIDE DEF one
        <4>1. \A u, v, w \in Seq(Ldfl!Frame) : (u \o v) \o w = u \o (v \o w)
          BY <2>4 DEF SequenceLaws
        <4> QED BY <2>2, <3>1, <4>1, Zenon
      <3> HIDE DEF one, bc
      <3>4. Head(one \o bc) = Head(one) /\ Tail(one \o bc) = Tail(one) \o bc /\ one \o bc # <<>>
        BY <2>4, <2>5, <3>1 DEF SequenceLaws
      <3>5. <<>> \o bc = bc
        BY <2>4, <2>5 DEF SequenceLaws
      <3>6. G[l] = bc
        BY <2>2, <2>5 DEF bc
      <3> QED BY <2>7, <3>1, <3>2, <3>3, <3>4, <3>5, <3>6
    <2> QED BY <2>6, <2>7
  <1> HIDE DEF F, G
  <1>4. G = [F EXCEPT ![k] = Tail(@)]
    <2> HIDE DEF k
    <2> QED BY <1>1, <1>2, <1>3 DEF OnLanes
  <1> QED BY <1>1, <1>3, <1>4 DEF F, G, WrittenOut

\* The parts of what is under way inbound.
InParted(i, b, f, l) ==
    /\ i[l].packets \in Seq(Ldfl!Frame)
    /\ Ldfl!OfLane(b \o f, l) \in Seq(Ldfl!Frame)
    /\ Ldfl!InTransit(TRUE, i, b, f)[l] = i[l].packets \o Ldfl!OfLane(b \o f, l)

\* They are, whatever is buffered and in flight.
LEMMA InParts ==
  ASSUME NEW i, QueuesOwn(i), NEW b \in Seq(Ldfl!Frame), NEW f \in Seq(Ldfl!Frame),
         NEW l \in Ldfl!Lane
  PROVE  InParted(i, b, f, l)
  <1>1. i[l].packets \in Seq(Ldfl!Frame)
    <2>1. i[l].packets \in Seq(Ldfl!FramesOf[l]) /\ Ldfl!FramesOf[l] \subseteq Ldfl!Frame
      BY FrameFacts DEF QueuesOwn
    <2> QED BY <2>1, SeqMonotonic
  <1>2. b \o f \in Seq(Ldfl!Frame)
    BY LawsHold DEF SequenceLaws
  <1>3. Ldfl!OfLane(b \o f, l) \in Seq(Ldfl!Frame)
    BY <1>2, LaneLawsHold DEF LaneLaws
  <1>4. Ldfl!InTransit(TRUE, i, b, f)[l] = i[l].packets \o Ldfl!OfLane(b \o f, l)
    BY DEF Ldfl!InTransit
  <1> QED BY <1>1, <1>3, <1>4 DEF InParted

\* A frame the peer sends goes to the end of its lane.
SentIn(i, b, f, e) ==
    Ldfl!InTransit(TRUE, i, b, Append(f, e)) =
      [Ldfl!InTransit(TRUE, i, b, f) EXCEPT ![e.lane] = Append(@, e)]

\* The peer's send does that.
LEMMA InSent ==
  ASSUME NEW i, QueuesOwn(i), NEW b \in Seq(Ldfl!Frame), NEW f \in Seq(Ldfl!Frame),
         NEW e \in Ldfl!Frame
  PROVE  SentIn(i, b, f, e)
  <1> DEFINE g == Append(f, e)
             F == Ldfl!InTransit(TRUE, i, b, f)
             G == Ldfl!InTransit(TRUE, i, b, g)
  <1>1. SequenceLaws(Ldfl!Frame) /\ e.lane \in Ldfl!Lane
    BY LawsHold, FrameFacts
  <1>2. g \in Seq(Ldfl!Frame) /\ b \o f \in Seq(Ldfl!Frame) /\ b \o g = Append(b \o f, e)
    <2>1. \A u, v \in Seq(Ldfl!Frame), x \in Ldfl!Frame : Append(u \o v, x) = u \o Append(v, x)
      BY <1>1 DEF SequenceLaws
    <2>2. b \o f \in Seq(Ldfl!Frame) /\ g \in Seq(Ldfl!Frame)
      BY <1>1 DEF SequenceLaws
    <2>3. Append(b \o f, e) = b \o Append(f, e)
      BY <2>1, Zenon
    <2> QED BY <2>2, <2>3
  <1>3. OnLanes(F) /\ OnLanes(G)
    BY TransitOnLanes
  <1>4. ASSUME NEW l \in Ldfl!Lane PROVE G[l] = IF l = e.lane THEN Append(F[l], e) ELSE F[l]
    <2> DEFINE a == i[l].packets
               c == Ldfl!OfLane(b \o f, l)
               bf == b \o f
    <2> HIDE DEF g
    <2>1. InParted(i, b, f, l) /\ InParted(i, b, g, l)
      BY <1>2, InParts
    <2>2. a \in Seq(Ldfl!Frame) /\ c \in Seq(Ldfl!Frame) /\ F[l] = a \o c
          /\ G[l] = a \o Ldfl!OfLane(Append(bf, e), l)
      BY <1>2, <2>1 DEF InParted
    <2>3. bf \in Seq(Ldfl!Frame) /\ c = Ldfl!OfLane(bf, l)
      BY <1>2
    <2> HIDE DEF a, c, bf, F, G
    <2>4. Ldfl!OfLane(Append(bf, e), l) = IF e.lane = l THEN Append(c, e) ELSE c
      BY <2>3, OneMore
    <2>5. a \o Append(c, e) = Append(a \o c, e)
      <3>1. \A u, v \in Seq(Ldfl!Frame), x \in Ldfl!Frame : Append(u \o v, x) = u \o Append(v, x)
        BY <1>1 DEF SequenceLaws
      <3>2. Append(a \o c, e) = a \o Append(c, e)
        BY <2>2, <3>1, Zenon
      <3> QED BY <3>2
    <2> QED BY <2>2, <2>4, <2>5
  <1> HIDE DEF F, G
  <1>5. G = [F EXCEPT ![e.lane] = Append(@, e)]
    BY <1>1, <1>3, <1>4 DEF OnLanes
  <1> QED BY <1>5 DEF F, G, g, SentIn

\* What the application receives is the first frame of its lane.
ReceivedIn(i, b, f, k) ==
    /\ QueuesOwn(AfterPop(i, k))
    /\ Head(i[k].packets) \in Ldfl!Frame /\ Head(i[k].packets).lane = k
    /\ Ldfl!InTransit(TRUE, i, b, f)[k] # <<>>
    /\ Head(Ldfl!InTransit(TRUE, i, b, f)[k]) = Head(i[k].packets)
    /\ Ldfl!InTransit(TRUE, AfterPop(i, k), b, f) =
         [Ldfl!InTransit(TRUE, i, b, f) EXCEPT ![k] = Tail(@)]

\* It is, for any frames behind it.
LEMMA InReceived ==
  ASSUME NEW i, QueuesOwn(i), NEW b \in Seq(Ldfl!Frame), NEW f \in Seq(Ldfl!Frame),
         NEW k \in Ldfl!Lane, i[k].packets # <<>>
  PROVE  ReceivedIn(i, b, f, k)
  <1> DEFINE r == AfterPop(i, k)
             F == Ldfl!InTransit(TRUE, i, b, f)
             G == Ldfl!InTransit(TRUE, r, b, f)
             x == Head(i[k].packets)
  <1>1. PoppedFront(i, k, r)
    BY QueuePopped
  <1>2. QueuesOwn(r) /\ x \in Ldfl!FramesOf[k] /\ \A l \in Ldfl!Lane :
              r[l].packets = IF l = k THEN Tail(i[l].packets) ELSE i[l].packets
    BY <1>1 DEF PoppedFront
  <1>3. OnLanes(F) /\ OnLanes(G)
    BY TransitOnLanes
  <1> HIDE DEF r
  <1>4. x \in Ldfl!Frame /\ x.lane = k
    <2> HIDE DEF x
    <2> QED BY <1>2, FrameFacts
  <1>5. ASSUME NEW l \in Ldfl!Lane
        PROVE  IF l = k THEN F[l] # <<>> /\ Head(F[l]) = x /\ G[l] = Tail(F[l])
                        ELSE G[l] = F[l]
    <2> DEFINE a == i[l].packets
               c == Ldfl!OfLane(b \o f, l)
    <2>1. InParted(i, b, f, l) /\ InParted(r, b, f, l)
      BY <1>2, InParts
    <2>2. a \in Seq(Ldfl!Frame) /\ c \in Seq(Ldfl!Frame) /\ F[l] = a \o c
          /\ G[l] = r[l].packets \o c
      BY <2>1 DEF InParted
    <2>3. CASE l # k
      <3>1. r[l].packets = a
        BY <1>2, <2>3
      <3> HIDE DEF a, c, F, G, x
      <3> QED BY <2>2, <2>3, <3>1
    <2>4. CASE l = k
      <3>1. r[l].packets = Tail(a) /\ a # <<>> /\ x = Head(a)
        BY <1>2, <2>4
      <3> HIDE DEF a, c, F, G, x
      <3>2. Head(a \o c) = Head(a) /\ Tail(a \o c) = Tail(a) \o c /\ a \o c # <<>>
        <4>1. SequenceLaws(Ldfl!Frame)
          BY LawsHold
        <4>2. a \in Seq(Ldfl!Frame) /\ c \in Seq(Ldfl!Frame) /\ a # <<>>
          BY <2>2, <3>1
        <4> QED BY ONLY <4>1, <4>2 DEF SequenceLaws
      <3> QED BY <2>2, <2>4, <3>1, <3>2
    <2> QED BY <2>3, <2>4
  <1> HIDE DEF F, G, x
  <1>6. G = [F EXCEPT ![k] = Tail(@)]
    BY <1>3, <1>5 DEF OnLanes
  <1> QED BY <1>2, <1>4, <1>5, <1>6 DEF F, G, r, x, ReceivedIn

\* Putting a decoded frame into its lane's queue moves nothing.
DeliveredIn(i, b, f) ==
    /\ QueuesOwn(AfterPush(i, Head(b)))
    /\ Tail(b) \in Seq(Ldfl!Frame)
    /\ Ldfl!InTransit(TRUE, AfterPush(i, Head(b)), Tail(b), f) =
         Ldfl!InTransit(TRUE, i, b, f)

\* The worker's push does that.
LEMMA InDelivered ==
  ASSUME NEW i, QueuesOwn(i), NEW b \in Seq(Ldfl!Frame), NEW f \in Seq(Ldfl!Frame), b # <<>>
  PROVE  DeliveredIn(i, b, f)
  <1> DEFINE e == Head(b)
             d == Tail(b)
             r == AfterPush(i, e)
             F == Ldfl!InTransit(TRUE, i, b, f)
             G == Ldfl!InTransit(TRUE, r, d, f)
             one == <<e>>
  <1>0. SequenceLaws(Ldfl!Frame)
    BY LawsHold
  <1>1. e \in Ldfl!Frame /\ d \in Seq(Ldfl!Frame) /\ b = one \o d
    BY <1>0 DEF SequenceLaws
  <1>2. OnLanes(F) /\ OnLanes(G)
    BY TransitOnLanes
  <1> HIDE DEF e, d
  <1>3. PushedBack(i, e, r)
    BY <1>1, QueuePushed
  <1>4. QueuesOwn(r) /\ \A l \in Ldfl!Lane :
          r[l].packets = IF l = e.lane THEN Append(i[l].packets, e) ELSE i[l].packets
    BY <1>3 DEF PushedBack
  <1> HIDE DEF r
  <1>5. one \in Seq(Ldfl!Frame) /\ d \o f \in Seq(Ldfl!Frame)
    BY <1>0, <1>1 DEF SequenceLaws
  <1>6. b \o f = one \o (d \o f)
    <2> HIDE DEF one
    <2>1. \A u, v, w \in Seq(Ldfl!Frame) : (u \o v) \o w = u \o (v \o w)
      BY <1>0 DEF SequenceLaws
    <2>2. (one \o d) \o f = one \o (d \o f)
      <3>1. one \in Seq(Ldfl!Frame) /\ d \in Seq(Ldfl!Frame) /\ f \in Seq(Ldfl!Frame)
        BY <1>1, <1>5
      <3> QED BY ONLY <2>1, <3>1, Zenon
    <2> QED BY <1>1, <2>2
  <1>7. ASSUME NEW l \in Ldfl!Lane PROVE F[l] = G[l]
    <2> DEFINE a == i[l].packets
               c == Ldfl!OfLane(d \o f, l)
               n == Ldfl!OfLane(one, l)
    <2>1. InParted(i, b, f, l) /\ InParted(r, d, f, l)
      BY <1>1, <1>4, InParts
    <2>2. a \in Seq(Ldfl!Frame) /\ c \in Seq(Ldfl!Frame)
          /\ F[l] = a \o Ldfl!OfLane(b \o f, l) /\ G[l] = r[l].packets \o c
      BY <2>1 DEF InParted
    <2>3. Ldfl!OfLane(b \o f, l) = n \o c
      <3> DEFINE df == d \o f
      <3> HIDE DEF df, one
      <3>1. \A s, t \in Seq(Ldfl!Frame) :
              Ldfl!OfLane(s \o t, l) = Ldfl!OfLane(s, l) \o Ldfl!OfLane(t, l)
        BY LaneLawsHold DEF LaneLaws
      <3>2. df \in Seq(Ldfl!Frame) /\ one \in Seq(Ldfl!Frame) /\ b \o f = one \o df
        BY <1>5, <1>6 DEF df
      <3>3. Ldfl!OfLane(one \o df, l) = Ldfl!OfLane(one, l) \o Ldfl!OfLane(df, l)
        BY <3>1, <3>2, Zenon
      <3> QED BY <3>2, <3>3 DEF df
    <2>4. n = IF e.lane = l THEN one ELSE <<>>
      BY <1>1, LaneLawsHold DEF LaneLaws
    <2> HIDE DEF one, a, c, n, F, G
    <2>5. CASE e.lane # l
      <3>1. r[l].packets = a
        BY <1>4, <2>5 DEF a
      <3>2. <<>> \o c = c
        BY <1>0, <2>2 DEF SequenceLaws
      <3> QED BY <2>2, <2>3, <2>4, <2>5, <3>1, <3>2
    <2>6. CASE e.lane = l
      <3>1. r[l].packets = Append(a, e)
        BY <1>4, <2>6 DEF a
      <3>2. Append(a, e) = a \o one
        BY <1>0, <1>1, <2>2 DEF SequenceLaws, one
      <3>3. \A u, v, w \in Seq(Ldfl!Frame) : (u \o v) \o w = u \o (v \o w)
        BY <1>0 DEF SequenceLaws
      <3>4. (a \o one) \o c = a \o (one \o c)
        <4>1. a \in Seq(Ldfl!Frame) /\ one \in Seq(Ldfl!Frame) /\ c \in Seq(Ldfl!Frame)
          BY <1>5, <2>2
        <4> QED BY ONLY <3>3, <4>1, Zenon
      <3> QED BY <2>2, <2>3, <2>4, <2>6, <3>1, <3>2, <3>4
    <2> QED BY <2>5, <2>6
  <1> HIDE DEF F, G, one
  <1>8. F = G
    BY <1>2, <1>7, LaneByLane
  <1> QED BY <1>1, <1>4, <1>8 DEF F, G, r, e, d, DeliveredIn

\* Reading some frames of the peer moves nothing.
ReadIn(i, b, f, n) ==
    /\ b \o SubSeq(f, 1, n) \in Seq(Ldfl!Frame)
    /\ SubSeq(f, n + 1, Len(f)) \in Seq(Ldfl!Frame)
    /\ Ldfl!InTransit(TRUE, i, b \o SubSeq(f, 1, n), SubSeq(f, n + 1, Len(f))) =
         Ldfl!InTransit(TRUE, i, b, f)

\* However many frames a read completes.
LEMMA InRead ==
  ASSUME NEW i, NEW b \in Seq(Ldfl!Frame), NEW f \in Seq(Ldfl!Frame), NEW n \in 0 .. Len(f)
  PROVE  ReadIn(i, b, f, n)
  <1> DEFINE g == SubSeq(f, 1, n)
             m == SubSeq(f, n + 1, Len(f))
  <1>1. g \in Seq(Ldfl!Frame) /\ m \in Seq(Ldfl!Frame) /\ g \o m = f
    BY SplitAnywhere
  <1> HIDE DEF g, m
  <1>2. SequenceLaws(Ldfl!Frame)
    BY LawsHold
  <1>3. b \o g \in Seq(Ldfl!Frame)
    BY <1>1, <1>2 DEF SequenceLaws
  <1>4. (b \o g) \o m = b \o f
    <2>1. \A u, v, w \in Seq(Ldfl!Frame) : (u \o v) \o w = u \o (v \o w)
      BY <1>2 DEF SequenceLaws
    <2>2. (b \o g) \o m = b \o (g \o m)
      BY <1>1, <2>1, Zenon
    <2> QED BY <1>1, <2>2
  <1>5. Ldfl!InTransit(TRUE, i, b \o g, m) = Ldfl!InTransit(TRUE, i, b, f)
    BY <1>4 DEF Ldfl!InTransit
  <1> QED BY <1>1, <1>3, <1>5 DEF g, m, ReadIn

-----------------------------------------------------------------------------
(***************************************************************************)
(* Both workers extend LdflStream; what is defined there means the same.   *)
(***************************************************************************)
\* Tcp talks about the same stream.
LEMMA TcpIsLdfl ==
  /\ Tcp!Lane = Ldfl!Lane /\ Tcp!None = Ldfl!None /\ Tcp!Frame = Ldfl!Frame
  /\ Tcp!EmptyQueue = Ldfl!EmptyQueue
  /\ \A s : Tcp!PerLane(s) = Ldfl!PerLane(s)
  /\ \A u, h, s, o : Tcp!OutTransit(u, h, s, o) = Ldfl!OutTransit(u, h, s, o)
  /\ \A u, i, b, f : Tcp!InTransit(u, i, b, f) = Ldfl!InTransit(u, i, b, f)
  /\ \A q, p : Tcp!Pushed(q, p) = Ldfl!Pushed(q, p)
  /\ \A q : Tcp!Popped(q) = Ldfl!Popped(q)
  /\ \A s : Tcp!Earliest(s) = Ldfl!Earliest(s)
  /\ \A s, f : Tcp!Without(s, f) = Ldfl!Without(s, f)
  <1>1. Tcp!Lane = Ldfl!Lane /\ Tcp!None = Ldfl!None /\ Tcp!EmptyQueue = Ldfl!EmptyQueue
    BY DEF Tcp!Lane, Ldfl!Lane, Tcp!None, Ldfl!None, Tcp!EmptyQueue, Ldfl!EmptyQueue
  <1>2. Tcp!Frame = Ldfl!Frame
    BY <1>1 DEF Tcp!Frame, Ldfl!Frame
  <1>3. Tcp!FramesOf = Ldfl!FramesOf
    BY <1>1, <1>2 DEF Tcp!FramesOf, Ldfl!FramesOf
  <1>4. \A s, K : Tcp!Retain(s, K) = Ldfl!Retain(s, K)
    BY DEF Tcp!Retain, Ldfl!Retain
  <1>5. \A s, l : Tcp!OfLane(s, l) = Ldfl!OfLane(s, l)
    BY <1>3, <1>4 DEF Tcp!OfLane, Ldfl!OfLane
  <1>6. \A s : Tcp!PerLane(s) = Ldfl!PerLane(s)
    BY <1>1, <1>5 DEF Tcp!PerLane, Ldfl!PerLane
  <1>7. \A f : Tcp!Held(f) = Ldfl!Held(f)
    BY <1>1 DEF Tcp!Held, Ldfl!Held
  <1>8. \A u, h, s, o : Tcp!OutTransit(u, h, s, o) = Ldfl!OutTransit(u, h, s, o)
    BY <1>1, <1>5, <1>7 DEF Tcp!OutTransit, Ldfl!OutTransit
  <1>9. \A u, i, b, f : Tcp!InTransit(u, i, b, f) = Ldfl!InTransit(u, i, b, f)
    BY <1>1, <1>5 DEF Tcp!InTransit, Ldfl!InTransit
  <1>10. \A q, p : Tcp!Pushed(q, p) = Ldfl!Pushed(q, p)
    <2>1. \A s : Tcp!ToSet(s) = Ldfl!ToSet(s)
      BY DEF Tcp!ToSet, Ldfl!ToSet
    <2>2. \A q, p : Tcp!Obsolete(q, p) = Ldfl!Obsolete(q, p)
      BY <2>1 DEF Tcp!Obsolete, Ldfl!Obsolete, Tcp!Obsoletes, Ldfl!Obsoletes
    <2>3. \A s : Tcp!TotalBytes(s) = Ldfl!TotalBytes(s)
      BY DEF Tcp!TotalBytes, Ldfl!TotalBytes
    <2>4. \A q, p : Tcp!SupersededBy(q, p) = Ldfl!SupersededBy(q, p)
      BY <1>4, <2>2 DEF Tcp!SupersededBy, Ldfl!SupersededBy
    <2> QED BY <1>4, <2>1, <2>2, <2>3, <2>4 DEF Tcp!Pushed, Ldfl!Pushed
  <1>11. \A q : Tcp!Popped(q) = Ldfl!Popped(q)
    BY DEF Tcp!Popped, Ldfl!Popped
  <1>12. \A s : Tcp!Earliest(s) = Ldfl!Earliest(s)
    BY <1>1 DEF Tcp!Earliest, Ldfl!Earliest
  <1>13. \A s, f : Tcp!Without(s, f) = Ldfl!Without(s, f)
    BY <1>1 DEF Tcp!Without, Ldfl!Without
  <1> QED BY <1>1, <1>2, <1>6, <1>8, <1>9, <1>10, <1>11, <1>12, <1>13

\* Usb talks about the same stream.
LEMMA UsbIsLdfl ==
  /\ Usb!Lane = Ldfl!Lane /\ Usb!None = Ldfl!None /\ Usb!Frame = Ldfl!Frame
  /\ Usb!EmptyQueue = Ldfl!EmptyQueue
  /\ \A s : Usb!PerLane(s) = Ldfl!PerLane(s)
  /\ \A u, h, s, o : Usb!OutTransit(u, h, s, o) = Ldfl!OutTransit(u, h, s, o)
  /\ \A u, i, b, f : Usb!InTransit(u, i, b, f) = Ldfl!InTransit(u, i, b, f)
  /\ \A q, p : Usb!Pushed(q, p) = Ldfl!Pushed(q, p)
  /\ \A q : Usb!Popped(q) = Ldfl!Popped(q)
  /\ \A s : Usb!Earliest(s) = Ldfl!Earliest(s)
  /\ \A s, f : Usb!Without(s, f) = Ldfl!Without(s, f)
  <1>1. Usb!Lane = Ldfl!Lane /\ Usb!None = Ldfl!None /\ Usb!EmptyQueue = Ldfl!EmptyQueue
    BY DEF Usb!Lane, Ldfl!Lane, Usb!None, Ldfl!None, Usb!EmptyQueue, Ldfl!EmptyQueue
  <1>2. Usb!Frame = Ldfl!Frame
    BY <1>1 DEF Usb!Frame, Ldfl!Frame
  <1>3. Usb!FramesOf = Ldfl!FramesOf
    BY <1>1, <1>2 DEF Usb!FramesOf, Ldfl!FramesOf
  <1>4. \A s, K : Usb!Retain(s, K) = Ldfl!Retain(s, K)
    BY DEF Usb!Retain, Ldfl!Retain
  <1>5. \A s, l : Usb!OfLane(s, l) = Ldfl!OfLane(s, l)
    BY <1>3, <1>4 DEF Usb!OfLane, Ldfl!OfLane
  <1>6. \A s : Usb!PerLane(s) = Ldfl!PerLane(s)
    BY <1>1, <1>5 DEF Usb!PerLane, Ldfl!PerLane
  <1>7. \A f : Usb!Held(f) = Ldfl!Held(f)
    BY <1>1 DEF Usb!Held, Ldfl!Held
  <1>8. \A u, h, s, o : Usb!OutTransit(u, h, s, o) = Ldfl!OutTransit(u, h, s, o)
    BY <1>1, <1>5, <1>7 DEF Usb!OutTransit, Ldfl!OutTransit
  <1>9. \A u, i, b, f : Usb!InTransit(u, i, b, f) = Ldfl!InTransit(u, i, b, f)
    BY <1>1, <1>5 DEF Usb!InTransit, Ldfl!InTransit
  <1>10. \A q, p : Usb!Pushed(q, p) = Ldfl!Pushed(q, p)
    <2>1. \A s : Usb!ToSet(s) = Ldfl!ToSet(s)
      BY DEF Usb!ToSet, Ldfl!ToSet
    <2>2. \A q, p : Usb!Obsolete(q, p) = Ldfl!Obsolete(q, p)
      BY <2>1 DEF Usb!Obsolete, Ldfl!Obsolete, Usb!Obsoletes, Ldfl!Obsoletes
    <2>3. \A s : Usb!TotalBytes(s) = Ldfl!TotalBytes(s)
      BY DEF Usb!TotalBytes, Ldfl!TotalBytes
    <2>4. \A q, p : Usb!SupersededBy(q, p) = Ldfl!SupersededBy(q, p)
      BY <1>4, <2>2 DEF Usb!SupersededBy, Ldfl!SupersededBy
    <2> QED BY <1>4, <2>1, <2>2, <2>3, <2>4 DEF Usb!Pushed, Ldfl!Pushed
  <1>11. \A q : Usb!Popped(q) = Ldfl!Popped(q)
    BY DEF Usb!Popped, Ldfl!Popped
  <1>12. \A s : Usb!Earliest(s) = Ldfl!Earliest(s)
    BY <1>1 DEF Usb!Earliest, Ldfl!Earliest
  <1>13. \A s, f : Usb!Without(s, f) = Ldfl!Without(s, f)
    BY <1>1 DEF Usb!Without, Ldfl!Without
  <1> QED BY <1>1, <1>2, <1>6, <1>8, <1>9, <1>10, <1>11, <1>12, <1>13

-----------------------------------------------------------------------------
(***************************************************************************)
(* What the application, the peer and the multiplexer do to a stream,      *)
(* whichever worker runs.  Moves is a step of OrderedLanes, or none, in    *)
(* terms of the values before and after it.                                *)
(***************************************************************************)
Moves(u, acc, tra, arr, u2, acc2, tra2, arr2) ==
    \/ u2 = u /\ acc2 = acc /\ tra2 = tra /\ arr2 = arr
    \/ \E l \in Ldfl!Lane, f \in Ldfl!Frame :
          /\ acc2 = [acc EXCEPT ![l] = Append(@, f)]
          /\ tra2 = IF u THEN [tra EXCEPT ![l] = Append(@, f)] ELSE tra
          /\ u2 = u /\ arr2 = arr
    \/ \E l \in Ldfl!Lane :
          /\ u /\ tra[l] # <<>>
          /\ arr2 = [arr EXCEPT ![l] = Append(@, Head(tra[l]))]
          /\ tra2 = [tra EXCEPT ![l] = Tail(@)]
          /\ u2 = u /\ acc2 = acc
    \/ /\ u /\ u2 = FALSE
       /\ tra2 = [l \in Ldfl!Lane |-> <<>>]
       /\ acc2 = acc /\ arr2 = arr

\* The outbound step, h and h2 being the frame in writing before and after.
OutMoves(h, h2) ==
    Moves(connected, Ldfl!PerLane(sent), Ldfl!OutTransit(connected, h, slot, out),
          Ldfl!PerLane(wire),
          connected', Ldfl!PerLane(sent'), Ldfl!OutTransit(connected', h2, slot', out'),
          Ldfl!PerLane(wire'))

\* The inbound step.
InMoves ==
    Moves(connected, Ldfl!PerLane(peerSent), Ldfl!InTransit(connected, in, inbound, flight),
          Ldfl!PerLane(delivered),
          connected', Ldfl!PerLane(peerSent'),
          Ldfl!InTransit(connected', in', inbound', flight'), Ldfl!PerLane(delivered'))

\* The stream's state: frames in the lane they belong to.
StreamShape ==
    /\ connected \in BOOLEAN
    /\ sent \in Seq(Ldfl!Frame) /\ wire \in Seq(Ldfl!Frame)
    /\ peerSent \in Seq(Ldfl!Frame) /\ flight \in Seq(Ldfl!Frame)
    /\ delivered \in Seq(Ldfl!Frame) /\ inbound \in Seq(Ldfl!Frame)
    /\ QueuesOwn(out) /\ QueuesOwn(in) /\ SlotsOwn(slot)

\* What is under way is lost with the connection.
LEMMA TransitDown ==
  /\ \A h, s, o : Ldfl!OutTransit(FALSE, h, s, o) = [l \in Ldfl!Lane |-> <<>>]
  /\ \A i, b, f : Ldfl!InTransit(FALSE, i, b, f) = [l \in Ldfl!Lane |-> <<>>]
  BY DEF Ldfl!OutTransit, Ldfl!InTransit

\* The number the application gives its next frame is within the bounds.
LEMMA NewFrame ==
  ASSUME {MaxFrames, MaxPeerFrames} \subseteq Nat, NEW l \in Ldfl!Lane,
         NEW z \in Size \cup {1}, NEW n \in Nat, n < MaxFrames \/ n < MaxPeerFrames
  PROVE  [seq |-> n + 1, lane |-> l, size |-> z, key |-> NoKey] \in Ldfl!Frame
  <1>1. n + 1 \in 1 .. MaxFrames + MaxPeerFrames
    OBVIOUS
  <1> QED BY <1>1 DEF Ldfl!Frame

\* try_send of the application: accepted at the end of its lane.
LEMMA SendMoves ==
  ASSUME {MaxFrames, MaxPeerFrames} \subseteq Nat, StreamShape,
         NEW l \in Ldfl!Lane, NEW z \in Size, Ldfl!AppSend(l, z), inbound' = inbound,
         NEW h \in Ldfl!Frame \cup {Ldfl!None}
  PROVE  StreamShape' /\ OutMoves(h, h) /\ InMoves
  <1> DEFINE f == [seq |-> Len(sent) + 1, lane |-> l, size |-> z, key |-> NoKey]
  <1>1. /\ connected /\ Len(sent) < MaxFrames
        /\ out' = [out EXCEPT ![l] = Ldfl!Pushed(@, f)] /\ sent' = Append(sent, f)
        /\ UNCHANGED <<connected, in, slot, wire, peerSent, flight, delivered, cancel>>
    BY DEF Ldfl!AppSend
  <1>2. f \in Ldfl!Frame /\ f.lane = l
    <2>1. Len(sent) \in Nat /\ z \in Size \cup {1}
      BY DEF StreamShape
    <2> QED BY <1>1, <2>1, NewFrame
  <1> HIDE DEF f
  <1>3. out' = AfterPush(out, f) /\ connected = TRUE /\ connected' = TRUE
    BY <1>1, <1>2 DEF AfterPush, StreamShape
  <1>4. sent \in Seq(Ldfl!Frame) /\ SlotsOwn(slot) /\ QueuesOwn(out)
    BY DEF StreamShape
  <1>5. /\ QueuesOwn(AfterPush(out, f))
        /\ Ldfl!OutTransit(TRUE, h, slot, AfterPush(out, f)) =
              [Ldfl!OutTransit(TRUE, h, slot, out) EXCEPT ![f.lane] = Append(@, f)]
    <2>1. QueuedOut(h, slot, out, f)
      BY <1>2, <1>4, OutQueued
    <2> QED BY <2>1 DEF QueuedOut
  <1>6. Ldfl!PerLane(sent') = [Ldfl!PerLane(sent) EXCEPT ![f.lane] = Append(@, f)]
    BY <1>1, <1>2, <1>4, OneMore
  <1>7. StreamShape'
    <2>1. sent' \in Seq(Ldfl!Frame)
      BY <1>1, <1>2, <1>4
    <2>2. QueuesOwn(out')
      BY <1>3, <1>5
    <2>3. /\ connected' = connected /\ in' = in /\ slot' = slot /\ wire' = wire
          /\ peerSent' = peerSent /\ flight' = flight /\ delivered' = delivered
      BY <1>1
    <2> QED BY <2>1, <2>2, <2>3 DEF StreamShape, QueuesOwn, SlotsOwn
  <1>8. OutMoves(h, h)
    <2>1. /\ Ldfl!OutTransit(connected, h, slot, out) = Ldfl!OutTransit(TRUE, h, slot, out)
          /\ Ldfl!OutTransit(connected', h, slot', out') =
               [Ldfl!OutTransit(TRUE, h, slot, out) EXCEPT ![f.lane] = Append(@, f)]
      BY <1>1, <1>3, <1>5
    <2>2. Ldfl!PerLane(wire') = Ldfl!PerLane(wire) /\ connected' = connected
      BY <1>1
    <2>3. f.lane \in Ldfl!Lane
      BY <1>2
    <2> QED BY <1>2, <1>3, <1>6, <2>1, <2>2, <2>3 DEF OutMoves, Moves
  <1>9. InMoves
    BY <1>1 DEF InMoves, Moves
  <1> QED BY <1>7, <1>8, <1>9

\* try_receive of the application: the first frame of its lane arrives.
LEMMA ReceiveMoves ==
  ASSUME StreamShape, NEW k \in Ldfl!Lane, Ldfl!AppReceive(k), inbound' = inbound,
         NEW h \in Ldfl!Frame \cup {Ldfl!None}
  PROVE  StreamShape' /\ OutMoves(h, h) /\ InMoves
  <1> DEFINE x == Head(in[k].packets)
             F == Ldfl!InTransit(TRUE, in, inbound, flight)
  <1>1. /\ connected /\ in[k].packets # <<>>
        /\ delivered' = Append(delivered, x) /\ in' = AfterPop(in, k)
        /\ UNCHANGED <<connected, out, sent, slot, wire, peerSent, flight, cancel>>
    BY DEF Ldfl!AppReceive, AfterPop
  <1>2. connected = TRUE /\ connected' = TRUE /\ delivered \in Seq(Ldfl!Frame) /\ QueuesOwn(in)
        /\ inbound \in Seq(Ldfl!Frame) /\ flight \in Seq(Ldfl!Frame)
    BY <1>1 DEF StreamShape
  <1>3. /\ QueuesOwn(AfterPop(in, k)) /\ x \in Ldfl!Frame /\ x.lane = k
        /\ F[k] # <<>> /\ Head(F[k]) = x
        /\ Ldfl!InTransit(TRUE, AfterPop(in, k), inbound, flight) = [F EXCEPT ![k] = Tail(@)]
    <2>1. ReceivedIn(in, inbound, flight, k)
      BY <1>1, <1>2, InReceived
    <2> QED BY <2>1 DEF ReceivedIn
  <1> HIDE DEF x, F
  <1>4. Ldfl!PerLane(delivered') = [Ldfl!PerLane(delivered) EXCEPT ![k] = Append(@, Head(F[k]))]
    <2>1. Ldfl!PerLane(Append(delivered, x)) =
             [Ldfl!PerLane(delivered) EXCEPT ![x.lane] = Append(@, x)]
      BY <1>2, <1>3, OneMore
    <2> QED BY <1>1, <1>3, <2>1
  <1>5. StreamShape'
    <2>1. delivered' \in Seq(Ldfl!Frame)
      BY <1>1, <1>2, <1>3
    <2>2. QueuesOwn(in')
      BY <1>1, <1>3
    <2>3. /\ connected' = connected /\ out' = out /\ slot' = slot /\ wire' = wire
          /\ peerSent' = peerSent /\ flight' = flight /\ sent' = sent
      BY <1>1
    <2> QED BY <2>1, <2>2, <2>3 DEF StreamShape, QueuesOwn, SlotsOwn
  <1>6. OutMoves(h, h)
    BY <1>1 DEF OutMoves, Moves
  <1>7. InMoves
    <2>1. /\ Ldfl!InTransit(connected, in, inbound, flight) = F
          /\ Ldfl!InTransit(connected', in', inbound', flight') = [F EXCEPT ![k] = Tail(@)]
      BY <1>1, <1>2, <1>3 DEF F
    <2>2. Ldfl!PerLane(peerSent') = Ldfl!PerLane(peerSent) /\ connected' = connected
      BY <1>1
    <2> QED BY <1>2, <1>3, <1>4, <2>1, <2>2 DEF InMoves, Moves
  <1> QED BY <1>5, <1>6, <1>7

\* The peer's frame enters its stream, also after the connection is gone.
LEMMA PeerMoves ==
  ASSUME {MaxFrames, MaxPeerFrames} \subseteq Nat, StreamShape,
         NEW l \in Ldfl!Lane, Ldfl!PeerSend(l), inbound' = inbound,
         NEW h \in Ldfl!Frame \cup {Ldfl!None}
  PROVE  StreamShape' /\ OutMoves(h, h) /\ InMoves
  <1> DEFINE f == [seq |-> Len(peerSent) + 1, lane |-> l, size |-> 1, key |-> NoKey]
             F == Ldfl!InTransit(TRUE, in, inbound, flight)
  <1>1. /\ Len(peerSent) < MaxPeerFrames
        /\ peerSent' = Append(peerSent, f) /\ flight' = Append(flight, f)
        /\ UNCHANGED <<connected, out, in, sent, slot, wire, delivered, cancel>>
    BY DEF Ldfl!PeerSend
  <1>2. f \in Ldfl!Frame /\ f.lane = l
    <2>1. Len(peerSent) \in Nat /\ 1 \in Size \cup {1}
      BY DEF StreamShape
    <2> QED BY <1>1, <2>1, NewFrame
  <1> HIDE DEF f
  <1>3. peerSent \in Seq(Ldfl!Frame) /\ QueuesOwn(in) /\ connected \in BOOLEAN
        /\ inbound \in Seq(Ldfl!Frame) /\ flight \in Seq(Ldfl!Frame)
    BY DEF StreamShape
  <1>4. Ldfl!InTransit(TRUE, in, inbound, Append(flight, f)) = [F EXCEPT ![f.lane] = Append(@, f)]
    <2>1. SentIn(in, inbound, flight, f)
      BY <1>2, <1>3, InSent
    <2> QED BY <2>1 DEF SentIn
  <1> HIDE DEF F
  <1>5. Ldfl!PerLane(peerSent') = [Ldfl!PerLane(peerSent) EXCEPT ![f.lane] = Append(@, f)]
    BY <1>1, <1>2, <1>3, OneMore
  <1>6. StreamShape'
    <2>1. peerSent' \in Seq(Ldfl!Frame) /\ flight' \in Seq(Ldfl!Frame)
      BY <1>1, <1>2, <1>3
    <2>3. /\ connected' = connected /\ out' = out /\ slot' = slot /\ wire' = wire
          /\ in' = in /\ delivered' = delivered /\ sent' = sent
      BY <1>1
    <2> QED BY <2>1, <2>3 DEF StreamShape, QueuesOwn, SlotsOwn
  <1>7. OutMoves(h, h)
    BY <1>1 DEF OutMoves, Moves
  <1>8. InMoves
    <2>1. Ldfl!InTransit(connected', in', inbound', flight') =
            IF connected THEN [Ldfl!InTransit(connected, in, inbound, flight)
                                  EXCEPT ![f.lane] = Append(@, f)]
                         ELSE Ldfl!InTransit(connected, in, inbound, flight)
      <3>1. CASE connected
        <4>1. connected = TRUE /\ connected' = TRUE
          BY <1>1, <1>3, <3>1
        <4> QED BY <1>1, <1>4, <4>1 DEF F
      <3>2. CASE ~connected
        <4>1. connected = FALSE /\ connected' = FALSE
          BY <1>1, <1>3, <3>2
        <4> QED BY <4>1, TransitDown
      <3> QED BY <3>1, <3>2
    <2>2. Ldfl!PerLane(delivered') = Ldfl!PerLane(delivered) /\ connected' = connected
      BY <1>1
    <2> QED BY <1>2, <1>5, <2>1, <2>2 DEF InMoves, Moves
  <1> QED BY <1>6, <1>7, <1>8

\* A step that leaves the frames alone moves nothing.
LEMMA NothingMoves ==
  ASSUME StreamShape, NEW h,
         UNCHANGED <<connected, out, in, sent, slot, wire, peerSent, flight, delivered, inbound>>
  PROVE  StreamShape' /\ OutMoves(h, h) /\ InMoves
  <1>1. StreamShape'
    BY DEF StreamShape, QueuesOwn, SlotsOwn
  <1>2. OutMoves(h, h)
    BY DEF OutMoves, Moves
  <1>3. InMoves
    BY DEF InMoves, Moves
  <1> QED BY <1>1, <1>2, <1>3

\* A receive of the multiplexer, whether its lane has a frame for it or not.
TookOut(k, h) ==
    /\ SlotsOwn(Ldfl!SlotAfter(k)) /\ QueuesOwn(Ldfl!OutAfter(k))
    /\ Ldfl!OutTransit(TRUE, h, Ldfl!SlotAfter(k), Ldfl!OutAfter(k)) =
         Ldfl!OutTransit(TRUE, h, slot, out)

\* It moves nothing.
LEMMA ReceivesKeepOrder ==
  ASSUME StreamShape, NEW k \in Ldfl!Lane, NEW h \in Ldfl!Frame \cup {Ldfl!None}
  PROVE  TookOut(k, h)
  <1>1. SlotsOwn(slot) /\ QueuesOwn(out)
    BY DEF StreamShape
  <1>2. CASE Ldfl!Takes(k)
    <2>1. slot[k] = Ldfl!None /\ out[k].packets # <<>>
      BY <1>2 DEF Ldfl!Takes
    <2>2. TakenOut(h, slot, out, k)
      BY <1>1, <2>1, OutTaken
    <2>3. Ldfl!SlotAfter(k) = [slot EXCEPT ![k] = Head(out[k].packets)]
          /\ Ldfl!OutAfter(k) = AfterPop(out, k)
      BY <1>2 DEF Ldfl!SlotAfter, Ldfl!OutAfter, AfterPop
    <2> QED BY <2>2, <2>3 DEF TookOut, TakenOut
  <1>3. CASE ~Ldfl!Takes(k)
    <2>1. Ldfl!SlotAfter(k) = slot /\ Ldfl!OutAfter(k) = out
      BY <1>3 DEF Ldfl!SlotAfter, Ldfl!OutAfter
    <2> QED BY <1>1, <2>1 DEF TookOut
  <1> QED BY <1>2, <1>3

\* The first receive of the multiplexer as a step.
LEMMA TakeMoves ==
  ASSUME StreamShape, connected, NEW k \in Ldfl!Lane, NEW h \in Ldfl!Frame \cup {Ldfl!None},
         slot' = Ldfl!SlotAfter(k), out' = Ldfl!OutAfter(k),
         UNCHANGED <<connected, in, sent, wire, peerSent, flight, delivered, inbound>>
  PROVE  StreamShape' /\ OutMoves(h, h) /\ InMoves
  <1>1. TookOut(k, h)
    BY ReceivesKeepOrder
  <1>2. connected = TRUE /\ connected' = TRUE
    BY DEF StreamShape
  <1>3. StreamShape'
    <2>1. SlotsOwn(slot') /\ QueuesOwn(out')
      BY <1>1 DEF TookOut
    <2> QED BY <2>1 DEF StreamShape, QueuesOwn, SlotsOwn
  <1>4. OutMoves(h, h)
    <2>1. Ldfl!OutTransit(connected', h, slot', out') = Ldfl!OutTransit(connected, h, slot, out)
      BY <1>1, <1>2 DEF TookOut
    <2> QED BY <2>1 DEF OutMoves, Moves
  <1>5. InMoves
    BY DEF InMoves, Moves
  <1> QED BY <1>3, <1>4, <1>5

\* The second receive and the choice: the earliest frame is written next.
LEMMA ChooseMoves ==
  ASSUME StreamShape, connected, NEW k \in Ldfl!Lane, NEW e,
         e = Ldfl!Earliest(Ldfl!SlotAfter(k)),
         slot' = Ldfl!Without(Ldfl!SlotAfter(k), e), out' = Ldfl!OutAfter(k),
         UNCHANGED <<connected, in, sent, wire, peerSent, flight, delivered, inbound>>
  PROVE  /\ StreamShape' /\ OutMoves(Ldfl!None, e) /\ InMoves
         /\ e \in Ldfl!Frame \cup {Ldfl!None}
  <1> DEFINE s == Ldfl!SlotAfter(k)
             o == Ldfl!OutAfter(k)
  <1>0. Ldfl!None \in Ldfl!Frame \cup {Ldfl!None}
    OBVIOUS
  <1>1. TookOut(k, Ldfl!None)
    BY <1>0, ReceivesKeepOrder
  <1>2. connected = TRUE /\ connected' = TRUE
    BY DEF StreamShape
  <1>3. SlotsOwn(s) /\ QueuesOwn(o)
        /\ Ldfl!OutTransit(TRUE, Ldfl!None, s, o) = Ldfl!OutTransit(TRUE, Ldfl!None, slot, out)
    BY <1>1 DEF TookOut
  <1> HIDE DEF s, o
  <1>4. ChosenOut(s, o)
    BY <1>3, OutChosen
  <1>5. e = Ldfl!Earliest(s) /\ slot' = Ldfl!Without(s, Ldfl!Earliest(s)) /\ out' = o
    BY DEF s, o
  <1>6. e \in Ldfl!Frame \cup {Ldfl!None} /\ SlotsOwn(slot')
        /\ Ldfl!OutTransit(TRUE, e, slot', out') = Ldfl!OutTransit(TRUE, Ldfl!None, s, o)
    BY <1>4, <1>5 DEF ChosenOut
  <1>7. StreamShape'
    <2>1. QueuesOwn(out')
      BY <1>3, <1>5
    <2> QED BY <1>6, <2>1 DEF StreamShape, QueuesOwn, SlotsOwn
  <1>8. OutMoves(Ldfl!None, e)
    <2>1. Ldfl!OutTransit(connected', e, slot', out') =
            Ldfl!OutTransit(connected, Ldfl!None, slot, out)
      BY <1>2, <1>3, <1>6
    <2> QED BY <2>1 DEF OutMoves, Moves
  <1>9. InMoves
    BY DEF InMoves, Moves
  <1> QED BY <1>6, <1>7, <1>8, <1>9

\* The last chunk of a frame: the first frame of its lane arrives.
LEMMA WriteMoves ==
  ASSUME StreamShape, connected, NEW h \in Ldfl!Frame, wire' = Append(wire, h),
         UNCHANGED <<connected, out, in, sent, slot, peerSent, flight, delivered, inbound>>
  PROVE  StreamShape' /\ OutMoves(h, Ldfl!None) /\ InMoves
  <1> DEFINE F == Ldfl!OutTransit(TRUE, h, slot, out)
  <1>1. SlotsOwn(slot) /\ QueuesOwn(out) /\ wire \in Seq(Ldfl!Frame)
        /\ connected = TRUE /\ connected' = TRUE
    BY DEF StreamShape
  <1>2. WrittenOut(h, slot, out)
    BY <1>1, OutWritten
  <1>3. h.lane \in Ldfl!Lane /\ F[h.lane] # <<>> /\ Head(F[h.lane]) = h
        /\ Ldfl!OutTransit(TRUE, Ldfl!None, slot, out) = [F EXCEPT ![h.lane] = Tail(@)]
    BY <1>2 DEF WrittenOut
  <1>4. Ldfl!PerLane(wire') = [Ldfl!PerLane(wire) EXCEPT ![h.lane] = Append(@, Head(F[h.lane]))]
    <2> HIDE DEF F
    <2>1. Ldfl!PerLane(Append(wire, h)) = [Ldfl!PerLane(wire) EXCEPT ![h.lane] = Append(@, h)]
      BY <1>1, OneMore
    <2> QED BY <1>3, <2>1
  <1>5. StreamShape'
    <2>1. wire' \in Seq(Ldfl!Frame)
      BY <1>1
    <2> QED BY <2>1 DEF StreamShape, QueuesOwn, SlotsOwn
  <1>6. OutMoves(h, Ldfl!None)
    <2>1. /\ Ldfl!OutTransit(connected, h, slot, out) = F
          /\ Ldfl!OutTransit(connected', Ldfl!None, slot', out') = [F EXCEPT ![h.lane] = Tail(@)]
      BY <1>1, <1>3
    <2>2. Ldfl!PerLane(sent') = Ldfl!PerLane(sent) /\ connected' = connected
      OBVIOUS
    <2> HIDE DEF F
    <2> QED BY <1>1, <1>3, <1>4, <2>1, <2>2 DEF OutMoves, Moves
  <1>7. InMoves
    BY DEF InMoves, Moves
  <1> QED BY <1>5, <1>6, <1>7

\* A decoded frame is put into its lane's queue.
LEMMA DeliverMoves ==
  ASSUME StreamShape, connected, NEW h, inbound # <<>>,
         in' = AfterPush(in, Head(inbound)), inbound' = Tail(inbound),
         UNCHANGED <<connected, out, sent, slot, wire, peerSent, flight, delivered>>
  PROVE  StreamShape' /\ OutMoves(h, h) /\ InMoves
  <1>1. QueuesOwn(in) /\ inbound \in Seq(Ldfl!Frame) /\ flight \in Seq(Ldfl!Frame)
        /\ connected = TRUE /\ connected' = TRUE
    BY DEF StreamShape
  <1>2. DeliveredIn(in, inbound, flight)
    BY <1>1, InDelivered
  <1>3. QueuesOwn(in') /\ inbound' \in Seq(Ldfl!Frame)
        /\ Ldfl!InTransit(TRUE, in', inbound', flight) = Ldfl!InTransit(TRUE, in, inbound, flight)
    BY <1>2 DEF DeliveredIn
  <1>4. StreamShape'
    BY <1>3 DEF StreamShape, QueuesOwn, SlotsOwn
  <1>5. OutMoves(h, h)
    BY DEF OutMoves, Moves
  <1>6. InMoves
    <2>1. Ldfl!InTransit(connected', in', inbound', flight') =
            Ldfl!InTransit(connected, in, inbound, flight)
      BY <1>1, <1>3
    <2> QED BY <2>1 DEF InMoves, Moves
  <1> QED BY <1>4, <1>5, <1>6

\* A read completes some frames.
LEMMA ReadMoves ==
  ASSUME StreamShape, connected, NEW h, NEW n \in 0 .. Len(flight),
         inbound' = inbound \o SubSeq(flight, 1, n),
         flight' = SubSeq(flight, n + 1, Len(flight)),
         UNCHANGED <<connected, out, in, sent, slot, wire, peerSent, delivered>>
  PROVE  StreamShape' /\ OutMoves(h, h) /\ InMoves
  <1>1. inbound \in Seq(Ldfl!Frame) /\ flight \in Seq(Ldfl!Frame)
        /\ connected = TRUE /\ connected' = TRUE
    BY DEF StreamShape
  <1>2. ReadIn(in, inbound, flight, n)
    BY <1>1, InRead
  <1>3. flight' \in Seq(Ldfl!Frame) /\ inbound' \in Seq(Ldfl!Frame)
        /\ Ldfl!InTransit(TRUE, in, inbound', flight') = Ldfl!InTransit(TRUE, in, inbound, flight)
    BY <1>2 DEF ReadIn
  <1>4. StreamShape'
    BY <1>3 DEF StreamShape, QueuesOwn, SlotsOwn
  <1>5. OutMoves(h, h)
    BY DEF OutMoves, Moves
  <1>6. InMoves
    <2>1. Ldfl!InTransit(connected', in', inbound', flight') =
            Ldfl!InTransit(connected, in, inbound, flight)
      BY <1>1, <1>3
    <2> QED BY <2>1 DEF InMoves, Moves
  <1> QED BY <1>4, <1>5, <1>6

\* The worker's disconnect closes the lanes.
LEMMA DisconnectMoves ==
  ASSUME StreamShape, connected, NEW h, connected' = FALSE,
         out' = [l \in Ldfl!Lane |-> Ldfl!EmptyQueue],
         in' = [l \in Ldfl!Lane |-> Ldfl!EmptyQueue],
         UNCHANGED <<sent, slot, wire, peerSent, flight, delivered, inbound>>
  PROVE  StreamShape' /\ OutMoves(h, h) /\ InMoves
  <1>0. connected' = FALSE
    OBVIOUS
  <1>1. QueuesOwn(out') /\ QueuesOwn(in')
    <2>1. \A l \in Ldfl!Lane : Ldfl!EmptyQueue.packets \in Seq(Ldfl!FramesOf[l])
      BY DEF Ldfl!EmptyQueue
    <2> QED BY <2>1 DEF QueuesOwn
  <1>2. StreamShape'
    BY <1>1 DEF StreamShape, QueuesOwn, SlotsOwn
  <1>3. OutMoves(h, h)
    <2>1. Ldfl!OutTransit(connected', h, slot', out') = [l \in Ldfl!Lane |-> <<>>]
      BY ONLY <1>0, TransitDown, Zenon
    <2> QED BY <2>1 DEF OutMoves, Moves
  <1>4. InMoves
    <2>1. Ldfl!InTransit(connected', in', inbound', flight') = [l \in Ldfl!Lane |-> <<>>]
      BY ONLY <1>0, TransitDown, Zenon
    <2> QED BY <2>1 DEF InMoves, Moves
  <1> QED BY <1>2, <1>3, <1>4

\* So do its calls and the multiplexer.
LEMMA TcpCalls ==
  /\ \A l, z : Tcp!AppSend(l, z) => Ldfl!AppSend(l, z)
  /\ \A l : Tcp!AppReceive(l) => Ldfl!AppReceive(l)
  /\ \A l : Tcp!PeerSend(l) => Ldfl!PeerSend(l)
  /\ \A l : Tcp!SlotAfter(l) = Ldfl!SlotAfter(l) /\ Tcp!OutAfter(l) = Ldfl!OutAfter(l)
  <1>1. \A q, m, p : Tcp!Fits(q, m, p) <=> Ldfl!Fits(q, m, p)
    <2>1. \A s : Tcp!ToSet(s) = Ldfl!ToSet(s)
      BY DEF Tcp!ToSet, Ldfl!ToSet
    <2>2. \A q, p : Tcp!Obsolete(q, p) = Ldfl!Obsolete(q, p)
      BY <2>1 DEF Tcp!Obsolete, Ldfl!Obsolete, Tcp!Obsoletes, Ldfl!Obsoletes
    <2>3. \A s : Tcp!TotalBytes(s) = Ldfl!TotalBytes(s)
      BY DEF Tcp!TotalBytes, Ldfl!TotalBytes
    <2>4. \A s, K : Tcp!Retain(s, K) = Ldfl!Retain(s, K)
      BY DEF Tcp!Retain, Ldfl!Retain
    <2>5. \A q, p : Tcp!SupersededBy(q, p) = Ldfl!SupersededBy(q, p)
      BY <2>2, <2>4 DEF Tcp!SupersededBy, Ldfl!SupersededBy
    <2> QED BY <2>3, <2>5 DEF Tcp!Fits, Ldfl!Fits
  <1>2. ASSUME NEW l, NEW z, Tcp!AppSend(l, z) PROVE Ldfl!AppSend(l, z)
    BY <1>1, <1>2, TcpIsLdfl DEF Tcp!AppSend, Ldfl!AppSend, Tcp!TooLarge, Ldfl!TooLarge
  <1>3. \A l : Tcp!AppReceive(l) => Ldfl!AppReceive(l)
    BY TcpIsLdfl DEF Tcp!AppReceive, Ldfl!AppReceive
  <1>4. \A l : Tcp!PeerSend(l) => Ldfl!PeerSend(l)
    BY TcpIsLdfl DEF Tcp!PeerSend, Ldfl!PeerSend
  <1>5. ASSUME NEW l
        PROVE  Tcp!SlotAfter(l) = Ldfl!SlotAfter(l) /\ Tcp!OutAfter(l) = Ldfl!OutAfter(l)
    BY TcpIsLdfl DEF Tcp!SlotAfter, Ldfl!SlotAfter, Tcp!OutAfter, Ldfl!OutAfter,
                     Tcp!Takes, Ldfl!Takes
  <1> QED BY <1>2, <1>3, <1>4, <1>5

\* So do its calls and the multiplexer.
LEMMA UsbCalls ==
  /\ \A l, z : Usb!AppSend(l, z) => Ldfl!AppSend(l, z)
  /\ \A l : Usb!AppReceive(l) => Ldfl!AppReceive(l)
  /\ \A l : Usb!PeerSend(l) => Ldfl!PeerSend(l)
  /\ \A l : Usb!SlotAfter(l) = Ldfl!SlotAfter(l) /\ Usb!OutAfter(l) = Ldfl!OutAfter(l)
  <1>1. \A q, m, p : Usb!Fits(q, m, p) <=> Ldfl!Fits(q, m, p)
    <2>1. \A s : Usb!ToSet(s) = Ldfl!ToSet(s)
      BY DEF Usb!ToSet, Ldfl!ToSet
    <2>2. \A q, p : Usb!Obsolete(q, p) = Ldfl!Obsolete(q, p)
      BY <2>1 DEF Usb!Obsolete, Ldfl!Obsolete, Usb!Obsoletes, Ldfl!Obsoletes
    <2>3. \A s : Usb!TotalBytes(s) = Ldfl!TotalBytes(s)
      BY DEF Usb!TotalBytes, Ldfl!TotalBytes
    <2>4. \A s, K : Usb!Retain(s, K) = Ldfl!Retain(s, K)
      BY DEF Usb!Retain, Ldfl!Retain
    <2>5. \A q, p : Usb!SupersededBy(q, p) = Ldfl!SupersededBy(q, p)
      BY <2>2, <2>4 DEF Usb!SupersededBy, Ldfl!SupersededBy
    <2> QED BY <2>3, <2>5 DEF Usb!Fits, Ldfl!Fits
  <1>2. ASSUME NEW l, NEW z, Usb!AppSend(l, z) PROVE Ldfl!AppSend(l, z)
    BY <1>1, <1>2, UsbIsLdfl DEF Usb!AppSend, Ldfl!AppSend, Usb!TooLarge, Ldfl!TooLarge
  <1>3. \A l : Usb!AppReceive(l) => Ldfl!AppReceive(l)
    BY UsbIsLdfl DEF Usb!AppReceive, Ldfl!AppReceive
  <1>4. \A l : Usb!PeerSend(l) => Ldfl!PeerSend(l)
    BY UsbIsLdfl DEF Usb!PeerSend, Ldfl!PeerSend
  <1>5. ASSUME NEW l
        PROVE  Usb!SlotAfter(l) = Ldfl!SlotAfter(l) /\ Usb!OutAfter(l) = Ldfl!OutAfter(l)
    BY UsbIsLdfl DEF Usb!SlotAfter, Ldfl!SlotAfter, Usb!OutAfter, Ldfl!OutAfter,
                     Usb!Takes, Ldfl!Takes
  <1> QED BY <1>2, <1>3, <1>4, <1>5

\* A step in terms of values is a step of the specification it implements.
LEMMA TcpSimulates ==
  /\ OutMoves(pending.frame, pending'.frame) => [Tcp!Outbound!Next]_Tcp!Outbound!laneVars
  /\ InMoves => [Tcp!Inbound!Next]_Tcp!Inbound!laneVars
  <1>1. ASSUME OutMoves(pending.frame, pending'.frame) PROVE [Tcp!Outbound!Next]_Tcp!Outbound!laneVars
    <2>1. /\ Tcp!Lane = Ldfl!Lane /\ Tcp!Frame = Ldfl!Frame
          /\ Tcp!PerLane(sent) = Ldfl!PerLane(sent) /\ Tcp!PerLane(sent') = Ldfl!PerLane(sent')
          /\ Tcp!PerLane(wire) = Ldfl!PerLane(wire) /\ Tcp!PerLane(wire') = Ldfl!PerLane(wire')
          /\ Tcp!OutTransit(connected, pending.frame, slot, out) =
               Ldfl!OutTransit(connected, pending.frame, slot, out)
          /\ Tcp!OutTransit(connected', pending'.frame, slot', out') =
               Ldfl!OutTransit(connected', pending'.frame, slot', out')
      BY TcpIsLdfl
    <2> DEFINE tra == Tcp!OutTransit(connected, pending.frame, slot, out)
    <2>2. Tcp!OutTransit(connected', pending'.frame, slot', out') = tra'
      OBVIOUS
    <2>3. Moves(connected, Tcp!PerLane(sent), tra, Tcp!PerLane(wire),
                connected', Tcp!PerLane(sent'), tra', Tcp!PerLane(wire'))
      BY <1>1, <2>1, <2>2 DEF OutMoves
    <2> HIDE DEF tra
    <2>4. \/ \E l \in Tcp!Lane :
               \/ /\ connected /\ tra[l] # <<>>
                  /\ Tcp!PerLane(wire)' = [Tcp!PerLane(wire) EXCEPT ![l] = Append(@, Head(tra[l]))]
                  /\ tra' = [tra EXCEPT ![l] = Tail(@)]
                  /\ UNCHANGED <<connected, Tcp!PerLane(sent)>>
               \/ \E f \in Tcp!Frame :
                  /\ Tcp!PerLane(sent)' = [Tcp!PerLane(sent) EXCEPT ![l] = Append(@, f)]
                  /\ tra' = IF connected THEN [tra EXCEPT ![l] = Append(@, f)] ELSE tra
                  /\ UNCHANGED <<connected, Tcp!PerLane(wire)>>
          \/ /\ connected /\ connected' = FALSE
             /\ tra' = [l \in Tcp!Lane |-> <<>>]
             /\ UNCHANGED <<Tcp!PerLane(sent), Tcp!PerLane(wire)>>
          \/ UNCHANGED <<connected, Tcp!PerLane(sent), tra, Tcp!PerLane(wire)>>
      BY <2>1, <2>3 DEF Moves
    <2> QED BY <2>4 DEF tra, Tcp!Outbound!Next, Tcp!Outbound!laneVars,
          Tcp!Outbound!Accept, Tcp!Outbound!Arrive, Tcp!Outbound!Close
  <1>2. ASSUME InMoves PROVE [Tcp!Inbound!Next]_Tcp!Inbound!laneVars
    BY <1>2, TcpIsLdfl DEF InMoves, Moves, Tcp!Inbound!Next, Tcp!Inbound!laneVars,
       Tcp!Inbound!Accept, Tcp!Inbound!Arrive, Tcp!Inbound!Close
  <1> QED BY <1>1, <1>2

\* A step in terms of values is a step of the specification it implements.
LEMMA UsbSimulates ==
  /\ OutMoves(writing, writing') => [Usb!Outbound!Next]_Usb!Outbound!laneVars
  /\ InMoves => [Usb!Inbound!Next]_Usb!Inbound!laneVars
  <1>1. ASSUME OutMoves(writing, writing') PROVE [Usb!Outbound!Next]_Usb!Outbound!laneVars
    BY <1>1, UsbIsLdfl DEF OutMoves, Moves, Usb!Outbound!Next, Usb!Outbound!laneVars,
       Usb!Outbound!Accept, Usb!Outbound!Arrive, Usb!Outbound!Close
  <1>2. ASSUME InMoves PROVE [Usb!Inbound!Next]_Usb!Inbound!laneVars
    BY <1>2, UsbIsLdfl DEF InMoves, Moves, Usb!Inbound!Next, Usb!Inbound!laneVars,
       Usb!Inbound!Accept, Usb!Inbound!Arrive, Usb!Inbound!Close
  <1> QED BY <1>1, <1>2

-----------------------------------------------------------------------------
(***************************************************************************)
(* The TCP worker.                                                         *)
(***************************************************************************)
\* The stream is up until the worker has disconnected it; a frame is chosen
\* only when none is being written.
TcpShape ==
    /\ StreamShape
    /\ pending \in [frame : Ldfl!Frame \cup {Ldfl!None}, offset : Nat]
    /\ pending.frame = Ldfl!None => pending = Tcp!NoWrite
    /\ pc = "muxMedia" => pending.frame = Ldfl!None
    /\ connected <=> pc \notin {"report", "done"}

\* What a step of the worker, of the application or of the peer does.
TcpMoves == TcpShape' /\ OutMoves(pending.frame, pending'.frame) /\ InMoves

\* Initially nothing is under way.
LEMMA NothingYet ==
  ASSUME connected = TRUE, out = [l \in Ldfl!Lane |-> Ldfl!EmptyQueue],
         in = [l \in Ldfl!Lane |-> Ldfl!EmptyQueue], sent = <<>>,
         slot = [l \in Ldfl!Lane |-> Ldfl!None], wire = <<>>, peerSent = <<>>,
         flight = <<>>, delivered = <<>>, inbound = <<>>
  PROVE  /\ StreamShape
         /\ Ldfl!PerLane(<<>>) = [l \in Ldfl!Lane |-> <<>>]
         /\ Ldfl!OutTransit(TRUE, Ldfl!None, slot, out) = [l \in Ldfl!Lane |-> <<>>]
         /\ Ldfl!InTransit(TRUE, in, <<>>, <<>>) = [l \in Ldfl!Lane |-> <<>>]
  <1>0. <<>> \in Seq(Ldfl!Frame) /\ <<>> \o <<>> = <<>> /\ Ldfl!EmptyQueue.packets = <<>>
    BY DEF Ldfl!EmptyQueue
  <1>1. QueuesOwn(out) /\ QueuesOwn(in)
    <2>1. \A l \in Ldfl!Lane : <<>> \in Seq(Ldfl!FramesOf[l])
      OBVIOUS
    <2> QED BY <1>0, <2>1 DEF QueuesOwn
  <1>2. SlotsOwn(slot)
    BY DEF SlotsOwn
  <1>3. StreamShape
    BY <1>0, <1>1, <1>2 DEF StreamShape
  <1>4. \A l \in Ldfl!Lane : Ldfl!OfLane(<<>>, l) = <<>>
    BY LaneLawsHold DEF LaneLaws
  <1>5. Ldfl!PerLane(<<>>) = [l \in Ldfl!Lane |-> <<>>]
    BY <1>4 DEF Ldfl!PerLane
  <1>6. Ldfl!OutTransit(TRUE, Ldfl!None, slot, out) = [l \in Ldfl!Lane |-> <<>>]
    <2>1. \A l \in Ldfl!Lane : out[l].packets = <<>> /\ slot[l] = Ldfl!None
      BY <1>0
    <2> QED BY <1>0, <2>1, HeldFacts DEF Ldfl!OutTransit
  <1>7. Ldfl!InTransit(TRUE, in, <<>>, <<>>) = [l \in Ldfl!Lane |-> <<>>]
    <2>1. \A l \in Ldfl!Lane : in[l].packets = <<>>
      BY <1>0
    <2> QED BY <1>0, <1>4, <2>1 DEF Ldfl!InTransit
  <1> QED BY <1>3, <1>5, <1>6, <1>7

\* The worker starts in a state that maps to an initial one.
LEMMA TcpStarts ==
  ASSUME Tcp!Init
  PROVE  TcpShape /\ Tcp!Outbound!Init /\ Tcp!Inbound!Init
  <1>1. /\ connected = TRUE /\ out = [l \in Ldfl!Lane |-> Ldfl!EmptyQueue]
        /\ in = [l \in Ldfl!Lane |-> Ldfl!EmptyQueue] /\ sent = <<>>
        /\ slot = [l \in Ldfl!Lane |-> Ldfl!None] /\ wire = <<>> /\ peerSent = <<>>
        /\ flight = <<>> /\ delivered = <<>> /\ inbound = <<>>
    BY TcpIsLdfl DEF Tcp!Init, Tcp!StreamInit
  <1>2. pending.frame = Ldfl!None /\ pending.offset = 0 /\ pc = "top" /\ pending = Tcp!NoWrite
        /\ pending \in [frame : Ldfl!Frame \cup {Ldfl!None}, offset : Nat]
    BY TcpIsLdfl DEF Tcp!Init, Tcp!NoWrite
  <1>3. /\ StreamShape
        /\ Ldfl!PerLane(<<>>) = [l \in Ldfl!Lane |-> <<>>]
        /\ Ldfl!OutTransit(TRUE, Ldfl!None, slot, out) = [l \in Ldfl!Lane |-> <<>>]
        /\ Ldfl!InTransit(TRUE, in, <<>>, <<>>) = [l \in Ldfl!Lane |-> <<>>]
    BY <1>1, NothingYet
  <1>4. TcpShape
    BY <1>1, <1>2, <1>3 DEF TcpShape
  <1>5. Tcp!Outbound!Init
    <2>1. Tcp!PerLane(sent) = [l \in Tcp!Lane |-> <<>>] /\ Tcp!PerLane(wire) = [l \in Tcp!Lane |-> <<>>]
      BY <1>1, <1>3, TcpIsLdfl
    <2>2. Tcp!OutTransit(connected, pending.frame, slot, out) = [l \in Tcp!Lane |-> <<>>]
      BY <1>1, <1>2, <1>3, TcpIsLdfl
    <2> QED BY <1>1, <2>1, <2>2 DEF Tcp!Outbound!Init
  <1>6. Tcp!Inbound!Init
    <2>1. Tcp!PerLane(peerSent) = [l \in Tcp!Lane |-> <<>>]
          /\ Tcp!PerLane(delivered) = [l \in Tcp!Lane |-> <<>>]
      BY <1>1, <1>3, TcpIsLdfl
    <2>2. Tcp!InTransit(connected, in, inbound, flight) = [l \in Tcp!Lane |-> <<>>]
      BY <1>1, <1>3, TcpIsLdfl
    <2> QED BY <1>1, <2>1, <2>2 DEF Tcp!Inbound!Init
  <1> QED BY <1>4, <1>5, <1>6

\* The application's and the peer's steps.
LEMMA TcpCallers ==
  ASSUME {MaxFrames, MaxPeerFrames} \subseteq Nat, TcpShape,
         Tcp!Application \/ Tcp!Shutdown \/ Tcp!Peer
  PROVE  TcpMoves
  <1> DEFINE h == pending.frame
  <1>1. StreamShape /\ h \in Ldfl!Frame \cup {Ldfl!None}
    BY DEF TcpShape
  <1>2. pc' = pc /\ pending' = pending /\ inbound' = inbound /\ connected' = connected
    BY DEF Tcp!Application, Tcp!Shutdown, Tcp!Peer, Tcp!workerVars, Tcp!streamVars,
           Tcp!AppSend, Tcp!AppReceive, Tcp!PeerSend
  <1> HIDE DEF h
  <1>3. StreamShape' /\ OutMoves(h, h) /\ InMoves
    <2>1. CASE Tcp!Application
      <3>1. CASE \E l \in Tcp!Lane, z \in Size : Tcp!AppSend(l, z)
        <4>1. PICK l \in Tcp!Lane, z \in Size : Tcp!AppSend(l, z)
          BY <3>1
        <4>2. l \in Ldfl!Lane /\ z \in Size /\ Ldfl!AppSend(l, z)
          BY <4>1, TcpIsLdfl, TcpCalls
        <4> QED BY <1>1, <1>2, <4>2, SendMoves
      <3>2. CASE \E l \in Tcp!Lane : Tcp!AppReceive(l)
        <4>1. PICK l \in Tcp!Lane : Tcp!AppReceive(l)
          BY <3>2
        <4>2. l \in Ldfl!Lane /\ Ldfl!AppReceive(l)
          BY <4>1, TcpIsLdfl, TcpCalls
        <4> QED BY <1>1, <1>2, <4>2, ReceiveMoves
      <3> QED BY <2>1, <3>1, <3>2 DEF Tcp!Application
    <2>2. CASE Tcp!Shutdown
      <3>1. UNCHANGED <<connected, out, in, sent, slot, wire, peerSent, flight, delivered, inbound>>
        BY <1>2, <2>2 DEF Tcp!Shutdown
      <3> QED BY <1>1, <3>1, NothingMoves
    <2>3. CASE Tcp!Peer
      <3>1. CASE \E l \in Tcp!Lane : Tcp!PeerSend(l)
        <4>1. PICK l \in Tcp!Lane : Tcp!PeerSend(l)
          BY <3>1
        <4>2. l \in Ldfl!Lane /\ Ldfl!PeerSend(l)
          BY <4>1, TcpIsLdfl, TcpCalls
        <4> QED BY <1>1, <1>2, <4>2, PeerMoves
      <3>2. CASE UNCHANGED Tcp!streamVars
        <4>1. UNCHANGED <<connected, out, in, sent, slot, wire, peerSent, flight, delivered, inbound>>
          BY <1>2, <3>2 DEF Tcp!streamVars
        <4> QED BY <1>1, <4>1, NothingMoves
      <3> QED BY <2>3, <3>1, <3>2 DEF Tcp!Peer
    <2> QED BY <2>1, <2>2, <2>3
  <1>4. TcpShape'
    BY <1>2, <1>3 DEF TcpShape, Tcp!NoWrite, Tcp!None
  <1>5. OutMoves(pending.frame, pending'.frame)
    BY <1>2, <1>3 DEF h
  <1> QED BY <1>3, <1>4, <1>5 DEF TcpMoves

\* The steps of the worker that touch no frame.
LEMMA TcpQuiet ==
  ASSUME TcpShape, UNCHANGED Tcp!streamVars, UNCHANGED <<inbound, pending>>,
         connected <=> pc' \notin {"report", "done"},
         pc' = "muxMedia" => pc = "muxMedia"
  PROVE  TcpMoves
  <1> DEFINE h == pending.frame
  <1>1. UNCHANGED <<connected, out, in, sent, slot, wire, peerSent, flight, delivered, inbound>>
    BY DEF Tcp!streamVars
  <1>2. StreamShape
    BY DEF TcpShape
  <1> HIDE DEF h
  <1>3. StreamShape' /\ OutMoves(h, h) /\ InMoves
    BY <1>1, <1>2, NothingMoves
  <1>4. TcpShape'
    BY <1>1, <1>3 DEF TcpShape, Tcp!NoWrite, Tcp!None
  <1>5. OutMoves(pending.frame, pending'.frame)
    BY <1>3 DEF h
  <1> QED BY <1>3, <1>4, <1>5 DEF TcpMoves

\* The drain and the read.
LEMMA TcpReads ==
  ASSUME TcpShape, Tcp!Drain \/ Tcp!Read
  PROVE  TcpMoves
  <1> DEFINE h == pending.frame
  <1>1. StreamShape /\ connected
    BY DEF TcpShape, Tcp!Drain, Tcp!Read
  <1>2. pending' = pending /\ connected' = connected /\ pc' \in {"drain", "mux", "top"}
    BY DEF Tcp!Drain, Tcp!Read
  <1> HIDE DEF h
  <1>3. StreamShape' /\ OutMoves(h, h) /\ InMoves
    <2>1. CASE Tcp!Drain
      <3>1. UNCHANGED <<connected, out, sent, slot, wire, peerSent, flight, delivered>>
        BY <2>1 DEF Tcp!Drain
      <3>2. CASE UNCHANGED <<in, inbound>>
        <4>1. UNCHANGED <<connected, out, in, sent, slot, wire, peerSent, flight, delivered, inbound>>
          BY <3>1, <3>2
        <4> QED BY <1>1, <4>1, NothingMoves
      <3>3. CASE ~UNCHANGED <<in, inbound>>
        <4>1. inbound # <<>> /\ inbound' = Tail(inbound) /\ in' = AfterPush(in, Head(inbound))
          BY <2>1, <3>3, TcpIsLdfl DEF Tcp!Drain, AfterPush
        <4> QED BY <1>1, <3>1, <4>1, DeliverMoves
      <3> QED BY <3>2, <3>3
    <2>2. CASE Tcp!Read
      <3>1. UNCHANGED <<connected, out, in, sent, slot, wire, peerSent, delivered>>
        BY <2>2 DEF Tcp!Read
      <3>2. PICK n \in 0 .. MaxRead : /\ n <= Len(flight)
                                      /\ inbound' = inbound \o SubSeq(flight, 1, n)
                                      /\ flight' = SubSeq(flight, n + 1, Len(flight))
        BY <2>2 DEF Tcp!Read
      <3>3. n \in 0 .. Len(flight)
        <4>1. Len(flight) \in Nat
          BY <1>1 DEF StreamShape
        <4> QED BY <3>2, <4>1
      <3> QED BY <1>1, <3>1, <3>2, <3>3, ReadMoves
    <2> QED BY <2>1, <2>2
  <1>4. TcpShape'
    BY <1>1, <1>2, <1>3 DEF TcpShape, Tcp!NoWrite, Tcp!None
  <1>5. OutMoves(pending.frame, pending'.frame)
    BY <1>2, <1>3 DEF h
  <1> QED BY <1>3, <1>4, <1>5 DEF TcpMoves

\* The multiplexer.
LEMMA TcpMux ==
  ASSUME TcpShape, Tcp!MuxControl \/ Tcp!MuxMedia
  PROVE  TcpMoves
  <1>1. StreamShape /\ connected /\ pending.frame \in Ldfl!Frame \cup {Ldfl!None}
    BY DEF TcpShape, Tcp!MuxControl, Tcp!MuxMedia
  <1>2. UNCHANGED <<connected, in, sent, wire, peerSent, flight, delivered, inbound>>
    BY DEF Tcp!MuxControl, Tcp!MuxMedia
  <1>3. "Control" \in Ldfl!Lane /\ "Media" \in Ldfl!Lane
    BY DEF Ldfl!Lane
  <1>4. CASE Tcp!MuxControl
    <2> DEFINE h == pending.frame
    <2>1. pending' = pending /\ h \in Ldfl!Frame \cup {Ldfl!None}
      BY <1>1, <1>4 DEF Tcp!MuxControl
    <2>2. CASE pending = Tcp!NoWrite
      <3>1. slot' = Ldfl!SlotAfter("Control") /\ out' = Ldfl!OutAfter("Control") /\ pc' = "muxMedia"
        BY <1>4, <2>2, TcpCalls DEF Tcp!MuxControl
      <3>2. h = Ldfl!None
        BY <2>2, TcpIsLdfl DEF Tcp!NoWrite
      <3> HIDE DEF h
      <3>3. StreamShape' /\ OutMoves(h, h) /\ InMoves
        BY <1>1, <1>2, <1>3, <2>1, <3>1, TakeMoves
      <3>4. TcpShape'
        BY <1>1, <1>2, <2>1, <3>1, <3>2, <3>3 DEF TcpShape, Tcp!NoWrite, Tcp!None, h
      <3>5. OutMoves(pending.frame, pending'.frame)
        BY <2>1, <3>3 DEF h
      <3> QED BY <3>3, <3>4, <3>5 DEF TcpMoves
    <2>3. CASE pending # Tcp!NoWrite
      <3>1. UNCHANGED Tcp!streamVars /\ UNCHANGED <<inbound, pending>> /\ pc' = "write"
        BY <1>4, <2>3 DEF Tcp!MuxControl, Tcp!streamVars
      <3> QED BY <1>1, <3>1, TcpQuiet
    <2> QED BY <2>2, <2>3
  <1>5. CASE Tcp!MuxMedia
    <2> DEFINE e == Ldfl!Earliest(Ldfl!SlotAfter("Media"))
    <2>1. /\ pending' = [frame |-> e, offset |-> 0] /\ pc' = "write"
          /\ slot' = Ldfl!Without(Ldfl!SlotAfter("Media"), e) /\ out' = Ldfl!OutAfter("Media")
      BY <1>5, TcpCalls, TcpIsLdfl DEF Tcp!MuxMedia
    <2>2. pending.frame = Ldfl!None
      BY <1>5 DEF TcpShape, Tcp!MuxMedia
    <2>3. ASSUME NEW x, x = e
          PROVE  StreamShape' /\ OutMoves(Ldfl!None, x) /\ InMoves
                 /\ x \in Ldfl!Frame \cup {Ldfl!None}
      BY <1>1, <1>2, <1>3, <2>1, <2>3, ChooseMoves
    <2>4. StreamShape' /\ OutMoves(Ldfl!None, e) /\ InMoves /\ e \in Ldfl!Frame \cup {Ldfl!None}
      BY <2>3
    <2> HIDE DEF e
    <2>5. TcpShape'
      <3>1. pending' \in [frame : Ldfl!Frame \cup {Ldfl!None}, offset : Nat]
            /\ pending'.frame = e /\ pending'.offset = 0
        BY <2>1, <2>4
      <3>2. pending'.frame = Ldfl!None => pending' = Tcp!NoWrite
        BY <2>1, <3>1, TcpIsLdfl DEF Tcp!NoWrite
      <3> QED BY <1>1, <1>2, <2>1, <2>4, <3>1, <3>2 DEF TcpShape, Tcp!NoWrite, Tcp!None
    <2>6. OutMoves(pending.frame, pending'.frame)
      BY <2>1, <2>2, <2>4
    <2> QED BY <2>4, <2>5, <2>6 DEF TcpMoves
  <1> QED BY <1>4, <1>5

\* A chunk of the frame in writing.
LEMMA TcpWrites ==
  ASSUME TcpShape, Tcp!WriteChunk
  PROVE  TcpMoves
  <1> DEFINE h == pending.frame
  <1>1. StreamShape /\ connected /\ pending \in [frame : Ldfl!Frame \cup {Ldfl!None}, offset : Nat]
    BY DEF TcpShape, Tcp!WriteChunk
  <1>2. /\ UNCHANGED <<connected, out, in, sent, slot, peerSent, flight, delivered, inbound>>
        /\ pc' = "read" /\ pending # Tcp!NoWrite
    BY DEF Tcp!WriteChunk
  <1>3. h \in Ldfl!Frame
    BY <1>1, <1>2 DEF TcpShape
  <1>4. CASE pending.offset + 1 = pending.frame.size
    <2>1. wire' = Append(wire, h) /\ pending' = Tcp!NoWrite
      BY <1>4 DEF Tcp!WriteChunk
    <2>2. pending'.frame = Ldfl!None /\ pending' \in [frame : Ldfl!Frame \cup {Ldfl!None}, offset : Nat]
      BY <2>1, TcpIsLdfl DEF Tcp!NoWrite
    <2> HIDE DEF h
    <2>3. StreamShape' /\ OutMoves(h, Ldfl!None) /\ InMoves
      BY <1>1, <1>2, <1>3, <2>1, WriteMoves
    <2>4. TcpShape'
      BY <1>1, <1>2, <2>1, <2>2, <2>3 DEF TcpShape, Tcp!NoWrite, Tcp!None
    <2>5. OutMoves(pending.frame, pending'.frame)
      BY <2>2, <2>3 DEF h
    <2> QED BY <2>3, <2>4, <2>5 DEF TcpMoves
  <1>5. CASE pending.offset + 1 # pending.frame.size
    <2>1. pending' = [pending EXCEPT !.offset = @ + 1] /\ wire' = wire
      BY <1>5 DEF Tcp!WriteChunk
    <2>2. pending' \in [frame : Ldfl!Frame \cup {Ldfl!None}, offset : Nat] /\ pending'.frame = h
      BY <1>1, <2>1
    <2>3. h # Ldfl!None
      BY <1>3, FrameFacts
    <2> HIDE DEF h
    <2>4. StreamShape' /\ OutMoves(h, h) /\ InMoves
      BY <1>1, <1>2, <2>1, NothingMoves
    <2>5. TcpShape'
      BY <1>1, <1>2, <2>2, <2>3, <2>4 DEF TcpShape, Tcp!NoWrite, Tcp!None
    <2>6. OutMoves(pending.frame, pending'.frame)
      BY <2>2, <2>4 DEF h
    <2> QED BY <2>4, <2>5, <2>6 DEF TcpMoves
  <1> QED BY <1>4, <1>5

\* The disconnect.
LEMMA TcpDisconnects ==
  ASSUME TcpShape, Tcp!Disconnect
  PROVE  TcpMoves
  <1> DEFINE h == pending.frame
  <1>1. StreamShape /\ connected
    BY DEF TcpShape, Tcp!Disconnect
  <1>2. /\ connected' = FALSE /\ pc' = "report" /\ pending' = pending
        /\ out' = [l \in Ldfl!Lane |-> Ldfl!EmptyQueue]
        /\ in' = [l \in Ldfl!Lane |-> Ldfl!EmptyQueue]
        /\ UNCHANGED <<sent, slot, wire, peerSent, flight, delivered, inbound>>
    BY TcpIsLdfl DEF Tcp!Disconnect, Tcp!LinkDisconnect
  <1> HIDE DEF h
  <1>3. StreamShape' /\ OutMoves(h, h) /\ InMoves
    BY <1>1, <1>2, DisconnectMoves
  <1>4. TcpShape'
    BY <1>2, <1>3 DEF TcpShape, Tcp!NoWrite, Tcp!None
  <1>5. OutMoves(pending.frame, pending'.frame)
    BY <1>2, <1>3 DEF h
  <1> QED BY <1>3, <1>4, <1>5 DEF TcpMoves

\* Every step of the TCP transport.
LEMMA TcpStep ==
  ASSUME {MaxFrames, MaxPeerFrames} \subseteq Nat, TcpShape, [Tcp!Next]_Tcp!vars
  PROVE  TcpMoves
  <1>1. CASE Tcp!Application \/ Tcp!Shutdown \/ Tcp!Peer
    BY <1>1, TcpCallers
  <1>2. CASE Tcp!Drain \/ Tcp!Read
    BY <1>2, TcpReads
  <1>3. CASE Tcp!MuxControl \/ Tcp!MuxMedia
    BY <1>3, TcpMux
  <1>4. CASE Tcp!WriteChunk
    BY <1>4, TcpWrites
  <1>5. CASE Tcp!Disconnect
    BY <1>5, TcpDisconnects
  <1>6. CASE Tcp!Top \/ Tcp!WriteBlocked \/ Tcp!WriteFails \/ Tcp!ReadEndOfStream \/ Tcp!ReadFails
             \/ Tcp!Report
    <2>1. UNCHANGED Tcp!streamVars /\ UNCHANGED <<inbound, pending>>
      BY <1>6 DEF Tcp!Top, Tcp!WriteBlocked, Tcp!WriteFails, Tcp!ReadEndOfStream, Tcp!ReadFails,
                  Tcp!Report
    <2>2. (connected <=> pc' \notin {"report", "done"}) /\ pc' # "muxMedia"
      BY <1>6 DEF TcpShape, Tcp!Top, Tcp!WriteBlocked, Tcp!WriteFails, Tcp!ReadEndOfStream,
                  Tcp!ReadFails, Tcp!Report, Tcp!Fail
    <2> QED BY <2>1, <2>2, TcpQuiet
  <1>7. CASE UNCHANGED Tcp!vars
    <2>1. UNCHANGED Tcp!streamVars /\ UNCHANGED <<inbound, pending>> /\ pc' = pc
      BY <1>7 DEF Tcp!vars, Tcp!workerVars
    <2>2. connected <=> pc' \notin {"report", "done"}
      BY <2>1 DEF TcpShape
    <2> QED BY <2>1, <2>2, TcpQuiet
  <1> QED BY <1>1, <1>2, <1>3, <1>4, <1>5, <1>6, <1>7 DEF Tcp!Next, Tcp!Worker

\* For every limit, frame size and bound, the TCP transport implements
\* OrderedLanes towards the peer: whatever the socket accepts of a write and
\* however the application, shutdown and the worker interleave, each lane
\* reaches the wire in order, whole, once and without a hole.
THEOREM TcpOutboundOrdered ==
  ASSUME {MaxFrames, MaxPeerFrames} \subseteq Nat
  PROVE  Tcp!Spec => Tcp!OutboundIsOrdered
  <1>1. Tcp!Init => TcpShape /\ Tcp!Outbound!Init
    BY TcpStarts
  <1>2. TcpShape /\ [Tcp!Next]_Tcp!vars => TcpShape' /\ [Tcp!Outbound!Next]_Tcp!Outbound!laneVars
    BY TcpStep, TcpSimulates DEF TcpMoves
  <1> QED BY <1>1, <1>2, PTL DEF Tcp!Spec, Tcp!OutboundIsOrdered, Tcp!Outbound!Spec

\* And from the peer: what the application receives of a lane is what the
\* peer put on it, in order and without a hole, through reads of any length
\* and a drain that full queues hold up.
THEOREM TcpInboundOrdered ==
  ASSUME {MaxFrames, MaxPeerFrames} \subseteq Nat
  PROVE  Tcp!Spec => Tcp!InboundIsOrdered
  <1>1. Tcp!Init => TcpShape /\ Tcp!Inbound!Init
    BY TcpStarts
  <1>2. TcpShape /\ [Tcp!Next]_Tcp!vars => TcpShape' /\ [Tcp!Inbound!Next]_Tcp!Inbound!laneVars
    BY TcpStep, TcpSimulates DEF TcpMoves
  <1> QED BY <1>1, <1>2, PTL DEF Tcp!Spec, Tcp!InboundIsOrdered, Tcp!Inbound!Spec

-----------------------------------------------------------------------------
(***************************************************************************)
(* The USB worker.                                                         *)
(***************************************************************************)
\* A frame is chosen only when none is being written, a transfer is read only
\* when the last one is delivered, and the stream is up until the worker has
\* disconnected it.
UsbShape ==
    /\ StreamShape
    /\ writing \in Ldfl!Frame \cup {Ldfl!None}
    /\ pc \in {"top", "mux", "muxMedia", "read", "deliver"} => writing = Ldfl!None
    /\ pc = "write" => writing \in Ldfl!Frame
    /\ pc \in {"top", "mux", "muxMedia", "write", "read"} => inbound = <<>>
    /\ connected <=> pc \notin {"release", "done"}

\* What a step of the worker, of the application or of the peer does.
UsbMoves == UsbShape' /\ OutMoves(writing, writing') /\ InMoves

\* The worker starts in a state that maps to an initial one.
LEMMA UsbStarts ==
  ASSUME Usb!Init
  PROVE  UsbShape /\ Usb!Outbound!Init /\ Usb!Inbound!Init
  <1>1. /\ connected = TRUE /\ out = [l \in Ldfl!Lane |-> Ldfl!EmptyQueue]
        /\ in = [l \in Ldfl!Lane |-> Ldfl!EmptyQueue] /\ sent = <<>>
        /\ slot = [l \in Ldfl!Lane |-> Ldfl!None] /\ wire = <<>> /\ peerSent = <<>>
        /\ flight = <<>> /\ delivered = <<>> /\ inbound = <<>>
    BY UsbIsLdfl DEF Usb!Init, Usb!StreamInit
  <1>2. writing = Ldfl!None /\ pc = "top"
    BY UsbIsLdfl DEF Usb!Init
  <1>3. /\ StreamShape
        /\ Ldfl!PerLane(<<>>) = [l \in Ldfl!Lane |-> <<>>]
        /\ Ldfl!OutTransit(TRUE, Ldfl!None, slot, out) = [l \in Ldfl!Lane |-> <<>>]
        /\ Ldfl!InTransit(TRUE, in, <<>>, <<>>) = [l \in Ldfl!Lane |-> <<>>]
    BY <1>1, NothingYet
  <1>4. UsbShape
    BY <1>1, <1>2, <1>3 DEF UsbShape
  <1>5. Usb!Outbound!Init
    <2>1. Usb!PerLane(sent) = [l \in Usb!Lane |-> <<>>] /\ Usb!PerLane(wire) = [l \in Usb!Lane |-> <<>>]
      BY <1>1, <1>3, UsbIsLdfl
    <2>2. Usb!OutTransit(connected, writing, slot, out) = [l \in Usb!Lane |-> <<>>]
      BY <1>1, <1>2, <1>3, UsbIsLdfl
    <2> QED BY <1>1, <2>1, <2>2 DEF Usb!Outbound!Init
  <1>6. Usb!Inbound!Init
    <2>1. Usb!PerLane(peerSent) = [l \in Usb!Lane |-> <<>>]
          /\ Usb!PerLane(delivered) = [l \in Usb!Lane |-> <<>>]
      BY <1>1, <1>3, UsbIsLdfl
    <2>2. Usb!InTransit(connected, in, inbound, flight) = [l \in Usb!Lane |-> <<>>]
      BY <1>1, <1>3, UsbIsLdfl
    <2> QED BY <1>1, <2>1, <2>2 DEF Usb!Inbound!Init
  <1> QED BY <1>4, <1>5, <1>6

\* Between the steps of the worker its own state is kept.
LEMMA UsbKept ==
  ASSUME UsbShape, StreamShape', OutMoves(writing, writing), InMoves,
         pc' = pc, writing' = writing, inbound' = inbound, connected' = connected
  PROVE  UsbMoves
  <1>1. UsbShape'
    BY DEF UsbShape
  <1> QED BY <1>1 DEF UsbMoves

\* The application's and the peer's steps.
LEMMA UsbCallers ==
  ASSUME {MaxFrames, MaxPeerFrames} \subseteq Nat, UsbShape,
         Usb!Application \/ Usb!Stop \/ Usb!Peer
  PROVE  UsbMoves
  <1>1. StreamShape /\ writing \in Ldfl!Frame \cup {Ldfl!None}
    BY DEF UsbShape
  <1>2. pc' = pc /\ writing' = writing /\ inbound' = inbound /\ connected' = connected
    BY DEF Usb!Application, Usb!Stop, Usb!Peer, Usb!workerVars,
           Usb!AppSend, Usb!AppReceive, Usb!PeerSend
  <1>3. StreamShape' /\ OutMoves(writing, writing) /\ InMoves
    <2>1. CASE \E l \in Usb!Lane, z \in Size : Usb!AppSend(l, z)
      <3>1. PICK l \in Usb!Lane, z \in Size : Usb!AppSend(l, z)
        BY <2>1
      <3>2. l \in Ldfl!Lane /\ z \in Size /\ Ldfl!AppSend(l, z)
        BY <3>1, UsbIsLdfl, UsbCalls
      <3> QED BY <1>1, <1>2, <3>2, SendMoves
    <2>2. CASE \E l \in Usb!Lane : Usb!AppReceive(l)
      <3>1. PICK l \in Usb!Lane : Usb!AppReceive(l)
        BY <2>2
      <3>2. l \in Ldfl!Lane /\ Ldfl!AppReceive(l)
        BY <3>1, UsbIsLdfl, UsbCalls
      <3> QED BY <1>1, <1>2, <3>2, ReceiveMoves
    <2>3. CASE Usb!Stop
      <3>1. UNCHANGED <<connected, out, in, sent, slot, wire, peerSent, flight, delivered, inbound>>
        BY <1>2, <2>3 DEF Usb!Stop
      <3> QED BY <1>1, <3>1, NothingMoves
    <2>4. CASE \E l \in Usb!Lane : Usb!PeerSend(l)
      <3>1. PICK l \in Usb!Lane : Usb!PeerSend(l)
        BY <2>4
      <3>2. l \in Ldfl!Lane /\ Ldfl!PeerSend(l)
        BY <3>1, UsbIsLdfl, UsbCalls
      <3> QED BY <1>1, <1>2, <3>2, PeerMoves
    <2> QED BY <2>1, <2>2, <2>3, <2>4 DEF Usb!Application, Usb!Peer
  <1> QED BY <1>2, <1>3, UsbKept

\* The multiplexer.
LEMMA UsbMux ==
  ASSUME UsbShape, Usb!MuxControl \/ Usb!MuxMedia
  PROVE  UsbMoves
  <1>1. StreamShape /\ connected /\ writing = Ldfl!None /\ inbound = <<>>
    BY DEF UsbShape, Usb!MuxControl, Usb!MuxMedia
  <1>2. UNCHANGED <<connected, in, sent, wire, peerSent, flight, delivered, inbound>>
    BY DEF Usb!MuxControl, Usb!MuxMedia
  <1>3. "Control" \in Ldfl!Lane /\ "Media" \in Ldfl!Lane
        /\ Ldfl!None \in Ldfl!Frame \cup {Ldfl!None}
    BY DEF Ldfl!Lane
  <1>4. CASE Usb!MuxControl
    <2>1. slot' = Ldfl!SlotAfter("Control") /\ out' = Ldfl!OutAfter("Control") /\ pc' = "muxMedia"
          /\ writing' = writing
      BY <1>4, UsbCalls DEF Usb!MuxControl
    <2>2. StreamShape' /\ OutMoves(Ldfl!None, Ldfl!None) /\ InMoves
      BY <1>1, <1>2, <1>3, <2>1, TakeMoves
    <2>3. UsbShape'
      BY <1>1, <1>2, <2>1, <2>2 DEF UsbShape
    <2> QED BY <1>1, <2>1, <2>2, <2>3 DEF UsbMoves
  <1>5. CASE Usb!MuxMedia
    <2> DEFINE e == Ldfl!Earliest(Ldfl!SlotAfter("Media"))
    <2>1. /\ writing' = e /\ pc' = IF e = Ldfl!None THEN "read" ELSE "write"
          /\ slot' = Ldfl!Without(Ldfl!SlotAfter("Media"), e) /\ out' = Ldfl!OutAfter("Media")
      BY <1>5, UsbCalls, UsbIsLdfl DEF Usb!MuxMedia
    <2>2. ASSUME NEW x, x = e
          PROVE  StreamShape' /\ OutMoves(Ldfl!None, x) /\ InMoves
                 /\ x \in Ldfl!Frame \cup {Ldfl!None}
      BY <1>1, <1>2, <1>3, <2>1, <2>2, ChooseMoves
    <2>3. StreamShape' /\ OutMoves(Ldfl!None, e) /\ InMoves /\ e \in Ldfl!Frame \cup {Ldfl!None}
      BY <2>2
    <2> HIDE DEF e
    <2>4. UsbShape'
      BY <1>1, <1>2, <2>1, <2>3 DEF UsbShape
    <2> QED BY <1>1, <2>1, <2>3, <2>4 DEF UsbMoves
  <1> QED BY <1>4, <1>5

\* A chunk of the frame in writing.
LEMMA UsbWrites ==
  ASSUME UsbShape, Usb!WriteChunk
  PROVE  UsbMoves
  <1>1. StreamShape /\ connected /\ writing \in Ldfl!Frame /\ pc = "write" /\ inbound = <<>>
    BY DEF UsbShape, Usb!WriteChunk
  <1>2. UNCHANGED <<connected, out, in, sent, slot, peerSent, flight, delivered, inbound>>
    BY DEF Usb!WriteChunk
  <1>3. CASE written + 1 = writing.size
    <2>1. wire' = Append(wire, writing) /\ writing' = Ldfl!None /\ pc' = "read"
      BY <1>3, UsbIsLdfl DEF Usb!WriteChunk
    <2>2. StreamShape' /\ OutMoves(writing, Ldfl!None) /\ InMoves
      BY <1>1, <1>2, <2>1, WriteMoves
    <2>3. UsbShape'
      BY <1>1, <1>2, <2>1, <2>2 DEF UsbShape
    <2> QED BY <2>1, <2>2, <2>3 DEF UsbMoves
  <1>4. CASE written + 1 # writing.size
    <2>1. wire' = wire /\ writing' = writing /\ pc' = pc
      BY <1>4 DEF Usb!WriteChunk
    <2>2. StreamShape' /\ OutMoves(writing, writing) /\ InMoves
      BY <1>1, <1>2, <2>1, NothingMoves
    <2> QED BY <1>2, <2>1, <2>2, UsbKept
  <1> QED BY <1>3, <1>4

\* A transfer, and the delivery of its frames.
LEMMA UsbReads ==
  ASSUME UsbShape, Usb!Read \/ Usb!Deliver
  PROVE  UsbMoves
  <1>1. StreamShape /\ connected /\ writing = Ldfl!None
    BY DEF UsbShape, Usb!Read, Usb!Deliver
  <1>2. writing' = writing /\ connected' = connected
    BY DEF Usb!Read, Usb!Deliver
  <1>3. StreamShape' /\ OutMoves(writing, writing) /\ InMoves
    <2>1. CASE Usb!Read
      <3>1. inbound = <<>> /\ UNCHANGED <<connected, out, in, sent, slot, wire, peerSent, delivered>>
        BY <2>1 DEF UsbShape, Usb!Read
      <3>2. PICK n \in 0 .. MaxRead : /\ n <= Len(flight)
                                      /\ inbound' = SubSeq(flight, 1, n)
                                      /\ flight' = SubSeq(flight, n + 1, Len(flight))
        BY <2>1 DEF Usb!Read
      <3>3. n \in 0 .. Len(flight) /\ flight \in Seq(Ldfl!Frame)
        <4>1. Len(flight) \in Nat /\ flight \in Seq(Ldfl!Frame)
          BY <1>1 DEF StreamShape
        <4> QED BY <3>2, <4>1
      <3>4. inbound' = inbound \o SubSeq(flight, 1, n)
        <4> DEFINE g == SubSeq(flight, 1, n)
        <4>1. g \in Seq(Ldfl!Frame)
          BY <3>3, SplitAnywhere
        <4> HIDE DEF g
        <4>2. <<>> \o g = g
          BY <4>1, LawsHold DEF SequenceLaws
        <4> QED BY <3>1, <3>2, <4>2 DEF g
      <3> QED BY <1>1, <3>1, <3>2, <3>3, <3>4, ReadMoves
    <2>2. CASE Usb!Deliver
      <3>1. UNCHANGED <<connected, out, sent, slot, wire, peerSent, flight, delivered>>
        BY <2>2 DEF Usb!Deliver
      <3>2. CASE UNCHANGED <<in, inbound>>
        <4>1. UNCHANGED <<connected, out, in, sent, slot, wire, peerSent, flight, delivered, inbound>>
          BY <3>1, <3>2
        <4> QED BY <1>1, <4>1, NothingMoves
      <3>3. CASE ~UNCHANGED <<in, inbound>>
        <4>1. inbound # <<>> /\ inbound' = Tail(inbound) /\ in' = AfterPush(in, Head(inbound))
          BY <2>2, <3>3, UsbIsLdfl DEF Usb!Deliver, AfterPush
        <4> QED BY <1>1, <3>1, <4>1, DeliverMoves
      <3> QED BY <3>2, <3>3
    <2> QED BY <2>1, <2>2
  <1>4. /\ pc' \in {"deliver", "top", "disconnect"}
        /\ pc' = "top" => inbound' = <<>>
    BY DEF Usb!Read, Usb!Deliver
  <1>5. UsbShape'
    BY <1>1, <1>2, <1>3, <1>4 DEF UsbShape
  <1> QED BY <1>2, <1>3, <1>5 DEF UsbMoves

\* The end of the loop.
LEMMA UsbEnds ==
  ASSUME UsbShape, Usb!Top \/ Usb!TransferFails \/ Usb!Disconnect \/ \E r \in BOOLEAN : Usb!Release(r)
  PROVE  UsbMoves
  <1>1. StreamShape
    BY DEF UsbShape
  <1>2. CASE Usb!Disconnect
    <2>1. /\ connected /\ connected' = FALSE /\ pc' = "release" /\ writing' = writing
          /\ out' = [l \in Ldfl!Lane |-> Ldfl!EmptyQueue]
          /\ in' = [l \in Ldfl!Lane |-> Ldfl!EmptyQueue]
          /\ UNCHANGED <<sent, slot, wire, peerSent, flight, delivered, inbound>>
      BY <1>2, UsbIsLdfl DEF UsbShape, Usb!Disconnect, Usb!LinkDisconnect
    <2>2. StreamShape' /\ OutMoves(writing, writing) /\ InMoves
      BY <1>1, <2>1, DisconnectMoves
    <2>3. UsbShape'
      BY <2>1, <2>2 DEF UsbShape
    <2> QED BY <2>1, <2>2, <2>3 DEF UsbMoves
  <1>3. CASE ~Usb!Disconnect
    <2>1. UNCHANGED Usb!streamVars /\ UNCHANGED <<inbound, writing>>
      BY <1>3 DEF Usb!Top, Usb!TransferFails, Usb!Release
    <2>2. UNCHANGED <<connected, out, in, sent, slot, wire, peerSent, flight, delivered, inbound>>
      BY <2>1 DEF Usb!streamVars
    <2>3. StreamShape' /\ OutMoves(writing, writing) /\ InMoves
      BY <1>1, <2>2, NothingMoves
    <2>4. \/ pc = "top" /\ pc' \in {"disconnect", "mux"}
          \/ pc \in {"write", "read"} /\ pc' = "disconnect"
          \/ pc = "release" /\ pc' = "done"
      BY <1>3 DEF Usb!Top, Usb!TransferFails, Usb!Release
    <2>5. UsbShape'
      BY <2>1, <2>2, <2>3, <2>4 DEF UsbShape
    <2> QED BY <2>1, <2>3, <2>5 DEF UsbMoves
  <1> QED BY <1>2, <1>3

\* Every step of the accessory session.
LEMMA UsbStep ==
  ASSUME {MaxFrames, MaxPeerFrames} \subseteq Nat, UsbShape, [Usb!Next]_Usb!vars
  PROVE  UsbMoves
  <1>1. CASE Usb!Application \/ Usb!Stop \/ Usb!Peer
    BY <1>1, UsbCallers
  <1>2. CASE Usb!MuxControl \/ Usb!MuxMedia
    BY <1>2, UsbMux
  <1>3. CASE Usb!WriteChunk
    BY <1>3, UsbWrites
  <1>4. CASE Usb!Read \/ Usb!Deliver
    BY <1>4, UsbReads
  <1>5. CASE Usb!Top \/ Usb!TransferFails \/ Usb!Disconnect \/ \E r \in BOOLEAN : Usb!Release(r)
    BY <1>5, UsbEnds
  <1>6. CASE UNCHANGED Usb!vars
    <2>1. UNCHANGED <<connected, out, in, sent, slot, wire, peerSent, flight, delivered, inbound>>
          /\ pc' = pc /\ writing' = writing
      BY <1>6 DEF Usb!vars, Usb!streamVars, Usb!workerVars
    <2>2. StreamShape' /\ OutMoves(writing, writing) /\ InMoves
      BY <2>1, NothingMoves DEF UsbShape
    <2> QED BY <2>1, <2>2, UsbKept
  <1> QED BY <1>1, <1>2, <1>3, <1>4, <1>5, <1>6 DEF Usb!Next, Usb!Worker

\* For every limit, frame size and bound, the bulk pump implements
\* OrderedLanes towards the accessory: whichever transfer fails and whenever
\* the session is stopped, each lane reaches the wire in order, whole, once
\* and without a hole.
THEOREM UsbOutboundOrdered ==
  ASSUME {MaxFrames, MaxPeerFrames} \subseteq Nat
  PROVE  Usb!Spec => Usb!OutboundIsOrdered
  <1>1. Usb!Init => UsbShape /\ Usb!Outbound!Init
    BY UsbStarts
  <1>2. UsbShape /\ [Usb!Next]_Usb!vars => UsbShape' /\ [Usb!Outbound!Next]_Usb!Outbound!laneVars
    BY UsbStep, UsbSimulates DEF UsbMoves
  <1> QED BY <1>1, <1>2, PTL DEF Usb!Spec, Usb!OutboundIsOrdered, Usb!Outbound!Spec

\* And from the accessory: a frame that finds its lane full costs the link,
\* and the application never receives a later frame of that lane.
THEOREM UsbInboundOrdered ==
  ASSUME {MaxFrames, MaxPeerFrames} \subseteq Nat
  PROVE  Usb!Spec => Usb!InboundIsOrdered
  <1>1. Usb!Init => UsbShape /\ Usb!Inbound!Init
    BY UsbStarts
  <1>2. UsbShape /\ [Usb!Next]_Usb!vars => UsbShape' /\ [Usb!Inbound!Next]_Usb!Inbound!laneVars
    BY UsbStep, UsbSimulates DEF UsbMoves
  <1> QED BY <1>1, <1>2, PTL DEF Usb!Spec, Usb!InboundIsOrdered, Usb!Inbound!Spec
=============================================================================
