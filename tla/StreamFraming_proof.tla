------------------------- MODULE StreamFraming_proof -------------------------
(***************************************************************************)
(* Proofs about StreamFraming, for any number of messages and every way to *)
(* tear them into reads.                                                   *)
(***************************************************************************)
EXTENDS StreamFraming, WellFoundedInduction, SequenceTheorems,
        FiniteSetTheorems, TLAPS

------------------------------------------------------------------------------
(* Induction, as the existence of a least counterexample. *)

(* Every set of naturals has a least element. *)
LEMMA Least ==
  ASSUME NEW T, T \subseteq Nat, T # {}
  PROVE  \E x \in T : \A y \in T : x <= y
  <1> DEFINE R == OpToRel(<, Nat)
  <1>1. IsWellFoundedOn(R, Nat)
    BY NatLessThanWellFounded
  <1>2. \A x, y \in Nat : y < x => <<y, x>> \in R
    BY DEF OpToRel
  <1> HIDE DEF R
  <1>3. PICK x \in T : \A y \in T : ~(<<y, x>> \in R)
    BY <1>1, WFMin
  <1>4. ASSUME NEW y \in T PROVE x <= y
    <2>1. x \in Nat /\ y \in Nat
      OBVIOUS
    <2>2. ~(y < x)
      BY <2>1, <1>2, <1>3
    <2> QED BY <2>1, <2>2
  <1> QED BY <1>4

(* Where some natural number is bad, there is a first bad one. *)
LEMMA FirstBad ==
  ASSUME NEW Bad, Bad \subseteq Nat, Bad # {}
  PROVE  \E n \in Bad : \A k \in 0 .. n - 1 : k \notin Bad
  <1>1. PICK n \in Bad : \A k \in Bad : n <= k
    BY Least
  <1>2. ASSUME NEW k \in 0 .. n - 1 PROVE k \notin Bad
    <2>1. n \in Nat /\ k \in Nat /\ ~(n <= k)
      OBVIOUS
    <2> QED BY <2>1, <1>1
  <1> QED BY <1>2

(* A bounded set of naturals has a greatest element, too. *)
LEMMA Greatest ==
  ASSUME NEW N \in Nat, NEW T, T \subseteq 0 .. N, T # {}
  PROVE  \E x \in T : \A y \in T : y <= x
  <1> DEFINE D == {N - x : x \in T}
  <1>1. D \subseteq Nat /\ D # {}
    <2>1. \A x \in T : x \in 0 .. N
      OBVIOUS
    <2>2. \A x \in T : N - x \in Nat
      BY <2>1
    <2> QED BY <2>2
  <1>2. PICK d \in D : \A e \in D : d <= e
    BY <1>1, Least
  <1>3. PICK x \in T : d = N - x
    OBVIOUS
  <1>4. ASSUME NEW y \in T PROVE y <= x
    <2>1. N - y \in D
      OBVIOUS
    <2>2. d <= N - y
      BY <1>2, <2>1
    <2>3. x \in 0 .. N /\ y \in 0 .. N
      OBVIOUS
    <2> QED BY <1>3, <2>2, <2>3
  <1> QED BY <1>4

(* Min and Max are what they are called. *)
LEMMA MinIsLeast ==
  ASSUME NEW T, T \subseteq Nat, T # {}
  PROVE  Min(T) \in T /\ \A y \in T : Min(T) <= y
  BY Least DEF Min

(* Max(T) is the greatest element of a bounded set. *)
LEMMA MaxIsGreatest ==
  ASSUME NEW N \in Nat, NEW T, T \subseteq 0 .. N, T # {}
  PROVE  Max(T) \in T /\ \A y \in T : y <= Max(T)
  <1>1. PICK x \in T : \A y \in T : y <= x
    BY Greatest
  <1>2. \A a \in T : a \in Int
    OBVIOUS
  <1>3. \A y \in T : x >= y
    BY <1>1, <1>2
  <1>4. Max(T) \in T /\ \A y \in T : Max(T) >= y
    BY <1>3 DEF Max
  <1> QED BY <1>2, <1>4
------------------------------------------------------------------------------
(* Subsequences. *)

(* A function on 1 .. n is a sequence of length n. *)
LEMMA IsSequence ==
  ASSUME NEW V, NEW n \in Nat, NEW f \in [1 .. n -> V]
  PROVE  f \in Seq(V) /\ Len(f) = n
  OBVIOUS

(* A sequence is one of whatever set its elements are from. *)
LEMMA SequenceFrom ==
  ASSUME NEW V, NEW seq \in Seq(V), NEW W,
         \A i \in 1 .. Len(seq) : seq[i] \in W
  PROVE  seq \in Seq(W)
  <1> DEFINE n == Len(seq)
  <1>1. n \in Nat /\ seq \in [1 .. n -> W]
    OBVIOUS
  <1> HIDE DEF n
  <1> QED BY <1>1, IsSequence

(* Up to two of the same. *)
LEMMA ShortSequences ==
  ASSUME NEW x
  PROVE  << >> \in Seq({x}) /\ <<x>> \in Seq({x}) /\ <<x, x>> \in Seq({x})
  OBVIOUS

(* The recursion of Picks has a solution. *)
LEMMA PicksUnfolds ==
  ASSUME NEW seq, Len(seq) \in Nat, NEW S
  PROVE  Picks(seq, S) =
           [i \in 0 .. Len(seq) |->
              IF i = 0 THEN <<>>
              ELSE IF i \in S THEN Append(Picks(seq, S)[i - 1], seq[i])
                   ELSE Picks(seq, S)[i - 1]]
  <1> DEFINE Stage(f, N) ==
               [i \in 0 .. N |->
                  IF i = 0 THEN <<>>
                  ELSE IF i \in S THEN Append(f[i - 1], seq[i]) ELSE f[i - 1]]
             Bad == {N \in 0 .. Len(seq) : ~\E f : f = Stage(f, N)}
  <1>1. Bad = {}
    <2> SUFFICES ASSUME Bad # {} PROVE FALSE
      OBVIOUS
    <2>1. PICK N \in Bad : \A k \in 0 .. N - 1 : k \notin Bad
      <3> Bad \subseteq Nat
        OBVIOUS
      <3> HIDE DEF Bad
      <3> QED BY FirstBad
    <2>2. N \in 0 .. Len(seq) /\ ~\E f : f = Stage(f, N)
      OBVIOUS
    <2>3. CASE N = 0
      <3> DEFINE f == [i \in 0 .. 0 |-> <<>>]
      <3>1. f = Stage(f, 0)
        OBVIOUS
      <3> QED BY <2>2, <2>3, <3>1
    <2>4. CASE N # 0
      <3>1. N - 1 \in 0 .. N - 1 /\ N - 1 \in 0 .. Len(seq)
        BY <2>2, <2>4
      <3>2. PICK g : g = Stage(g, N - 1)
        BY <2>1, <3>1
      <3> DEFINE last == IF N \in S THEN Append(g[N - 1], seq[N]) ELSE g[N - 1]
                 f == [i \in 0 .. N |-> IF i = N THEN last ELSE g[i]]
      <3>3. \A i \in 0 .. N - 1 : f[i] = g[i]
        BY <2>2
      <3>4. f = Stage(f, N)
        <4>1. \A i \in 0 .. N : f[i] = Stage(f, N)[i]
          <5> SUFFICES ASSUME NEW i \in 0 .. N PROVE f[i] = Stage(f, N)[i]
            OBVIOUS
          <5>1. CASE i = N
            BY <2>2, <2>4, <5>1, <3>1, <3>3
          <5>2. CASE i # N
            <6>1. i \in 0 .. N - 1
              BY <2>2, <5>2
            <6>2. i # 0 => i - 1 \in 0 .. N - 1
              BY <6>1, <2>2
            <6>3. f[i] = Stage(g, N - 1)[i]
              BY <3>2, <3>3, <6>1
            <6> QED BY <6>1, <6>2, <6>3, <3>3
          <5> QED BY <5>1, <5>2
        <4> HIDE DEF last
        <4> QED BY <4>1
      <3> HIDE DEF f
      <3> QED BY <2>2, <3>4
    <2> QED BY <2>3, <2>4
  <1>2. \E f : f = Stage(f, Len(seq))
    BY <1>1
  <1>3. Picks(seq, S) = CHOOSE f : f = Stage(f, Len(seq))
    BY DEF Picks
  <1> QED BY <1>2, <1>3

(* e lists the positions that Picks has picked of the first N, in order.   *)
Lists(e, seq, S, N) ==
  LET out == Picks(seq, S)[N] IN
  /\ e \in [1 .. Len(out) -> 1 .. N]
  /\ \A k \in 1 .. Len(out) : e[k] \in S /\ out[k] = seq[e[k]]
  /\ \A j, k \in 1 .. Len(out) : j < k => e[j] < e[k]
  /\ \A i \in 1 .. N : i \in S => \E k \in 1 .. Len(out) : e[k] = i

(* Every stage of Picks is a sequence that comes with such a list. *)
LEMMA StagesListed ==
  ASSUME NEW V, NEW seq \in Seq(V), NEW S
  PROVE  \A N \in 0 .. Len(seq) : /\ Picks(seq, S)[N] \in Seq(V)
                                  /\ \E e : Lists(e, seq, S, N)
  <1> DEFINE P == Picks(seq, S)
             Good(N) == P[N] \in Seq(V) /\ \E e : Lists(e, seq, S, N)
             Bad == {N \in 0 .. Len(seq) : ~Good(N)}
  <1>1. \A N \in 0 .. Len(seq) :
          P[N] = IF N = 0 THEN <<>>
                 ELSE IF N \in S THEN Append(P[N - 1], seq[N]) ELSE P[N - 1]
    <2>1. Len(seq) \in Nat
      OBVIOUS
    <2>2. P = [i \in 0 .. Len(seq) |->
                 IF i = 0 THEN <<>>
                 ELSE IF i \in S THEN Append(P[i - 1], seq[i]) ELSE P[i - 1]]
      BY <2>1, PicksUnfolds
    <2> HIDE DEF P
    <2> QED BY <2>2
  <1>2. Bad = {}
    <2> SUFFICES ASSUME Bad # {} PROVE FALSE
      OBVIOUS
    <2>1. PICK N \in Bad : \A k \in 0 .. N - 1 : k \notin Bad
      <3> Bad \subseteq Nat
        OBVIOUS
      <3> HIDE DEF Bad
      <3> QED BY FirstBad
    <2>2. N \in 0 .. Len(seq) /\ ~Good(N)
      OBVIOUS
    <2>3. CASE N = 0
      <3>1. P[0] = <<>>
        BY <1>1
      <3>2. Lists(<<>>, seq, S, 0)
        BY <3>1 DEF Lists
      <3> QED BY <2>2, <2>3, <3>1, <3>2
    <2>4. CASE N # 0
      <3>1. N - 1 \in 0 .. N - 1 /\ N - 1 \in 0 .. Len(seq)
        BY <2>2, <2>4
      <3>2. Good(N - 1)
        BY <2>1, <3>1
      <3>3. PICK e : Lists(e, seq, S, N - 1)
        BY <3>2
      <3> DEFINE before == P[N - 1]
      <3>4. before \in Seq(V) /\ Len(before) \in Nat
        BY <3>2
      <3>5. /\ e \in [1 .. Len(before) -> 1 .. N - 1]
            /\ \A k \in 1 .. Len(before) : e[k] \in S /\ before[k] = seq[e[k]]
            /\ \A j, k \in 1 .. Len(before) : j < k => e[j] < e[k]
            /\ \A i \in 1 .. N - 1 :
                 i \in S => \E k \in 1 .. Len(before) : e[k] = i
        BY <3>3 DEF Lists
      <3>6. CASE N \in S
        <4> DEFINE M == Len(before) + 1
                   f == [k \in 1 .. M |-> IF k = M THEN N ELSE e[k]]
        <4>1. P[N] = Append(before, seq[N])
          BY <1>1, <2>2, <2>4, <3>6
        <4>2. seq[N] \in V
          BY <2>2, <2>4
        <4> HIDE DEF before
        <4>3. /\ P[N] \in Seq(V) /\ Len(P[N]) = M
              /\ P[N][M] = seq[N]
              /\ \A k \in 1 .. Len(before) : P[N][k] = before[k]
          BY <4>1, <4>2, <3>4, AppendProperties
        <4>4. M \in 1 .. M /\ f[M] = N
              /\ \A k \in 1 .. Len(before) : k \in 1 .. M /\ f[k] = e[k]
          BY <3>4
        <4>5. f \in [1 .. M -> 1 .. N]
          BY <2>2, <2>4, <3>4, <3>5
        <4>6. \A k \in 1 .. M : k = M \/ k \in 1 .. Len(before)
          BY <3>4
        <4>7. \A k \in 1 .. M : f[k] \in S /\ P[N][k] = seq[f[k]]
          BY <3>5, <3>6, <4>3, <4>4, <4>6
        <4>8. ASSUME NEW j \in 1 .. M, NEW k \in 1 .. M, j < k
              PROVE  f[j] < f[k]
          <5>1. j \in 1 .. Len(before)
            BY <4>8, <3>4
          <5>2. CASE k = M
            BY <5>1, <5>2, <4>4, <3>5, <2>2, SMTT(30)
          <5>3. CASE k # M
            BY <5>1, <5>3, <4>4, <4>6, <3>5, <4>8
          <5> QED BY <5>2, <5>3
        <4>9. ASSUME NEW i \in 1 .. N, i \in S
              PROVE  \E k \in 1 .. M : f[k] = i
          <5>1. CASE i = N
            BY <5>1, <4>4
          <5>2. CASE i # N
            <6>1. i \in 1 .. N - 1
              BY <5>2, <2>2
            <6>2. PICK k \in 1 .. Len(before) : e[k] = i
              BY <6>1, <4>9, <3>5
            <6> QED BY <6>2, <4>4
          <5> QED BY <5>1, <5>2
        <4> HIDE DEF M, f, P
        <4>10. Lists(f, seq, S, N)
          <5>1. Picks(seq, S)[N] = P[N]
            BY DEF P
          <5> QED BY <5>1, <4>3, <4>5, <4>7, <4>8, <4>9 DEF Lists
        <4> QED BY <2>2, <4>3, <4>10
      <3>7. CASE N \notin S
        <4>1. P[N] = before
          BY <1>1, <2>2, <2>4, <3>7
        <4>2. e \in [1 .. Len(before) -> 1 .. N]
          BY <3>5, <2>2
        <4>3. \A i \in 1 .. N : i \in S => i \in 1 .. N - 1
          BY <3>7, <2>2
        <4>4. Lists(e, seq, S, N)
          <5> HIDE DEF P
          <5>1. Picks(seq, S)[N] = P[N]
            BY DEF P
          <5> HIDE DEF before
          <5> QED BY <5>1, <3>5, <4>1, <4>2, <4>3 DEF Lists
        <4> QED BY <2>2, <3>4, <4>1, <4>4
      <3> QED BY <3>6, <3>7
    <2> QED BY <2>3, <2>4
  <1> QED BY <1>2

(* Picked keeps the elements at the positions of S, and their order. *)
LEMMA PickedListed ==
  ASSUME NEW V, NEW seq \in Seq(V), NEW S
  PROVE  /\ Picked(seq, S) \in Seq(V)
         /\ \E e \in [1 .. Len(Picked(seq, S)) -> 1 .. Len(seq)] :
              /\ \A k \in 1 .. Len(Picked(seq, S)) :
                   e[k] \in S /\ Picked(seq, S)[k] = seq[e[k]]
              /\ \A j, k \in 1 .. Len(Picked(seq, S)) : j < k => e[j] < e[k]
              /\ \A i \in 1 .. Len(seq) :
                   i \in S => \E k \in 1 .. Len(Picked(seq, S)) : e[k] = i
  <1>1. Len(seq) \in 0 .. Len(seq)
    OBVIOUS
  <1>2. PICK e : Lists(e, seq, S, Len(seq))
    BY <1>1, StagesListed
  <1>3. Picked(seq, S) \in Seq(V)
    BY <1>1, StagesListed DEF Picked
  <1> QED BY <1>2, <1>3 DEF Lists, Picked

(* e lists S, as far as it goes up to M, in ascending order. *)
Ascends(e, L, S, M) ==
  /\ L \in Nat /\ M \in Nat
  /\ e \in [1 .. L -> 1 .. M]
  /\ \A k \in 1 .. L : e[k] \in S
  /\ \A j, k \in 1 .. L : j < k => e[j] < e[k]
  /\ \A i \in 1 .. M : i \in S => \E k \in 1 .. L : e[k] = i

(* The entry after e[k] is the next element of S. *)
LEMMA NextEntry ==
  ASSUME NEW e, NEW L, NEW S, NEW M, Ascends(e, L, S, M),
         NEW k \in 1 .. L, NEW b \in 1 .. M, b \in S, e[k] < b,
         \A i \in 1 .. M : e[k] < i /\ i < b => i \notin S
  PROVE  k + 1 \in 1 .. L /\ e[k + 1] = b
  <1> USE DEF Ascends
  <1>1. PICK j \in 1 .. L : e[j] = b
    OBVIOUS
  <1>2. j > k
    <2>1. e[j] \in 1 .. M /\ e[k] \in 1 .. M /\ j \in Int /\ k \in Int
      OBVIOUS
    <2>2. CASE j < k
      BY <1>1, <2>1, <2>2
    <2> QED BY <1>1, <2>1, <2>2
  <1>3. k + 1 \in 1 .. L
    BY <1>2
  <1>4. ASSUME j > k + 1 PROVE FALSE
    <2>1. e[k] < e[k + 1] /\ e[k + 1] < e[j]
      BY <1>3, <1>4
    <2>2. e[k + 1] \in S /\ e[k + 1] \in 1 .. M
      BY <1>3
    <2> QED BY <1>1, <2>1, <2>2
  <1> QED BY <1>1, <1>2, <1>3, <1>4

(* The entry before e[k] is the previous element of S. *)
LEMMA EntryBefore ==
  ASSUME NEW e, NEW L, NEW S, NEW M, Ascends(e, L, S, M),
         NEW k \in 1 .. L, NEW b \in 1 .. M, b \in S, b < e[k],
         \A i \in 1 .. M : b < i /\ i < e[k] => i \notin S
  PROVE  k - 1 \in 1 .. L /\ e[k - 1] = b
  <1> USE DEF Ascends
  <1>1. PICK j \in 1 .. L : e[j] = b
    OBVIOUS
  <1>2. j < k
    <2>1. e[j] \in 1 .. M /\ e[k] \in 1 .. M /\ j \in Int /\ k \in Int
      OBVIOUS
    <2>2. CASE k < j
      BY <1>1, <2>1, <2>2
    <2> QED BY <1>1, <2>1, <2>2
  <1>3. k - 1 \in 1 .. L
    BY <1>2
  <1>4. ASSUME j < k - 1 PROVE FALSE
    <2>1. e[k - 1] < e[k] /\ e[j] < e[k - 1]
      BY <1>3, <1>4
    <2>2. e[k - 1] \in S /\ e[k - 1] \in 1 .. M
      BY <1>3
    <2> QED BY <1>1, <2>1, <2>2
  <1> QED BY <1>1, <1>2, <1>3, <1>4

(* An entry with nothing of S below it is the first, with nothing above it *)
(* the last.                                                               *)
LEMMA EndEntries ==
  ASSUME NEW e, NEW L, NEW S, NEW M, Ascends(e, L, S, M), NEW k \in 1 .. L
  PROVE  /\ (\A i \in 1 .. M : i < e[k] => i \notin S) => k = 1
         /\ (\A i \in 1 .. M : e[k] < i => i \notin S) => k = L
  <1> USE DEF Ascends
  <1>1. ASSUME \A i \in 1 .. M : i < e[k] => i \notin S, k # 1 PROVE FALSE
    <2>1. k - 1 \in 1 .. L /\ k - 1 < k
      BY <1>1
    <2> QED BY <1>1, <2>1
  <1>2. ASSUME \A i \in 1 .. M : e[k] < i => i \notin S, k # L PROVE FALSE
    <2>1. k + 1 \in 1 .. L /\ k < k + 1
      BY <1>2
    <2> QED BY <1>2, <2>1
  <1> QED BY <1>1, <1>2

(* Picked by its list. *)
LEMMA PickedAscends ==
  ASSUME NEW V, NEW seq \in Seq(V), NEW S
  PROVE  /\ Picked(seq, S) \in Seq(V)
         /\ \E e : /\ Ascends(e, Len(Picked(seq, S)), S, Len(seq))
                   /\ \A k \in 1 .. Len(Picked(seq, S)) :
                        Picked(seq, S)[k] = seq[e[k]]
  <1>1. Picked(seq, S) \in Seq(V)
    BY PickedListed
  <1> DEFINE out == Picked(seq, S)
  <1>2. PICK e \in [1 .. Len(out) -> 1 .. Len(seq)] :
          /\ \A k \in 1 .. Len(out) : e[k] \in S /\ out[k] = seq[e[k]]
          /\ \A j, k \in 1 .. Len(out) : j < k => e[j] < e[k]
          /\ \A i \in 1 .. Len(seq) :
               i \in S => \E k \in 1 .. Len(out) : e[k] = i
    BY PickedListed
  <1>3. Len(out) \in Nat /\ Len(seq) \in Nat
    BY <1>1
  <1>4. Ascends(e, Len(out), S, Len(seq))
    BY <1>2, <1>3 DEF Ascends
  <1> QED BY <1>1, <1>2, <1>4

(* Picked positions are their own list. *)
LEMMA PositionsAscend ==
  ASSUME NEW V, NEW seq \in Seq(V), NEW S
  PROVE  LET out == Picked(Positions(seq), S)
         IN  out \in Seq(Nat) /\ Ascends(out, Len(out), S, Len(seq))
  <1> DEFINE out == Picked(Positions(seq), S)
  <1>1. Positions(seq) \in Seq(Nat) /\ Len(Positions(seq)) = Len(seq)
          /\ \A i \in 1 .. Len(seq) : Positions(seq)[i] = i
    BY DEF Positions
  <1>2. PICK e : /\ Ascends(e, Len(out), S, Len(seq))
                 /\ \A k \in 1 .. Len(out) : out[k] = Positions(seq)[e[k]]
    BY <1>1, PickedAscends
  <1>3. out \in Seq(Nat)
    BY <1>1, PickedAscends
  <1> HIDE DEF out
  <1>4. \A k \in 1 .. Len(out) : out[k] = e[k]
    BY <1>1, <1>2 DEF Ascends
  <1>5. out = e
    BY <1>2, <1>3, <1>4 DEF Ascends
  <1> QED BY <1>2, <1>3, <1>5 DEF out
------------------------------------------------------------------------------
(* Tokens. *)

Token == Nat \X {"{", "}", "\n", "header", "payload", "value", "end of value"}

Header(n) == Text(n, "header")

(* Braces and white space are tokens. *)
LEMMA BracesAreTokens ==
  Open \in Token /\ Close \in Token /\ Newline \in Token
  BY DEF Open, Close, Newline, Text, Token

(* The text of a message, token by token. *)
LEMMA MessageTokens ==
  ASSUME NEW n \in Nat
  PROVE  /\ Message(n) \in Seq(Token)
         /\ Len(Message(n)) = 12
         /\ Message(n)[1] = Open /\ Message(n)[2] = Newline
         /\ Message(n)[3] = Header(n)
         /\ Message(n)[4] = Text(n, "payload")
         /\ Message(n)[5] = Open
         /\ Message(n)[6] = Text(n, "value")
         /\ Message(n)[7] = Text(n, "end of value")
         /\ Message(n)[8] = Newline /\ Message(n)[9] = Close
         /\ Message(n)[10] = Newline /\ Message(n)[11] = Close
         /\ Message(n)[12] = Newline
  <1>1. /\ Open \in Token /\ Close \in Token /\ Newline \in Token
        /\ Text(n, "header") \in Token /\ Text(n, "payload") \in Token
        /\ Text(n, "value") \in Token /\ Text(n, "end of value") \in Token
    BY DEF Open, Close, Newline, Text, Token
  <1> DEFINE h == Text(n, "header")
             y == Text(n, "payload")
             v == Text(n, "value")
             ev == Text(n, "end of value")
             o == Open
             c == Close
             w == Newline
  <1>2. Message(n) = <<o, w, h, y, o, v, ev, w, c, w, c, w>>
    BY DEF Message
  <1>3. h = Header(n)
    BY DEF Header
  <1> HIDE DEF h, y, v, ev, o, c, w
  <1>4. Len(Message(n)) = 12
    BY <1>2
  <1>5. Message(n)[1] = o /\ Message(n)[2] = w /\ Message(n)[3] = h
    BY <1>2
  <1>6. Message(n)[4] = y /\ Message(n)[5] = o /\ Message(n)[6] = v
    BY <1>2
  <1>7. Message(n)[7] = ev /\ Message(n)[8] = w /\ Message(n)[9] = c
    BY <1>2
  <1>8. Message(n)[10] = w /\ Message(n)[11] = c /\ Message(n)[12] = w
    BY <1>2
  <1>9. Message(n) \in Seq(Token)
    <2>1. /\ h \in Token /\ y \in Token /\ v \in Token /\ ev \in Token
          /\ o \in Token /\ c \in Token /\ w \in Token
      BY <1>1 DEF h, y, v, ev, o, c, w
    <2> HIDE DEF Token
    <2>2. \A i \in 1 .. 12 : Message(n)[i] \in Token
      BY <2>1, <1>5, <1>6, <1>7, <1>8
    <2>3. Message(n) = [i \in 1 .. 12 |-> Message(n)[i]]
      BY <1>2
    <2> QED BY <2>2, <2>3
  <1> QED
    BY <1>3, <1>4, <1>5, <1>6, <1>7, <1>8, <1>9 DEF h, y, v, ev, o, c, w

(* The messages of the stream follow one another. *)
LEMMA StreamTokens ==
  /\ MessageLen = 12
  /\ \A m \in Nat : \A k \in 1 .. 12 : TokenAt(12 * m + k) = Message(m + 1)[k]
  /\ \A p \in Nat \ {0} : \E m \in Nat : \E k \in 1 .. 12 : p = 12 * m + k
  /\ \A p \in Nat \ {0} : TokenAt(p) \in Token
  <1>1. MessageLen = 12
    BY MessageTokens DEF MessageLen
  <1>2. ASSUME NEW m \in Nat, NEW k \in 1 .. 12
        PROVE  TokenAt(12 * m + k) = Message(m + 1)[k]
    <2>1. (12 * m + k - 1) \div 12 = m /\ (12 * m + k - 1) % 12 = k - 1
      OBVIOUS
    <2>2. (k - 1) + 1 = k
      OBVIOUS
    <2> QED BY <1>1, <2>1, <2>2 DEF TokenAt
  <1>3. ASSUME NEW p \in Nat \ {0}
        PROVE  \E m \in Nat : \E k \in 1 .. 12 : p = 12 * m + k
    <2>1. /\ (p - 1) \div 12 \in Nat /\ ((p - 1) % 12) + 1 \in 1 .. 12
          /\ p = 12 * ((p - 1) \div 12) + (((p - 1) % 12) + 1)
      OBVIOUS
    <2> QED BY <2>1
  <1>4. ASSUME NEW p \in Nat \ {0} PROVE TokenAt(p) \in Token
    <2>1. PICK m \in Nat, k \in 1 .. 12 : p = 12 * m + k
      BY <1>3
    <2>2. TokenAt(p) = Message(m + 1)[k]
      BY <1>2, <2>1
    <2>3. Message(m + 1) \in Seq(Token) /\ Len(Message(m + 1)) = 12
      <3>1. m + 1 \in Nat
        OBVIOUS
      <3> QED BY <3>1, MessageTokens
    <2> QED BY <2>2, <2>3
  <1> QED BY <1>1, <1>2, <1>3, <1>4

(* A header is none of the other tokens, and tells its message. *)
LEMMA Headers ==
  /\ Open # Close /\ Open # Newline /\ Close # Newline
  /\ \A n \in Nat : /\ Header(n) \in Token
                    /\ Header(n) # Open
                    /\ Header(n) # Close
                    /\ Header(n) # Newline
  /\ \A n, m \in Nat : /\ Header(n) = Header(m) => n = m
                       /\ Header(n) # Text(m, "payload")
                       /\ Header(n) # Text(m, "value")
                       /\ Header(n) # Text(m, "end of value")
  BY DEF Header, Text, Open, Close, Newline, Token

(* A header in the stream stands in its own message. *)
LEMMA HeaderPlace ==
  ASSUME NEW q \in Nat \ {0}, NEW n \in Nat, TokenAt(q) = Header(n)
  PROVE  q = 12 * (n - 1) + 3
  <1>1. PICK m \in Nat, k \in 1 .. 12 : q = 12 * m + k
    BY StreamTokens
  <1>2. TokenAt(q) = Message(m + 1)[k]
    BY <1>1, StreamTokens
  <1>3. m + 1 \in Nat
    OBVIOUS
  <1>4. k = 3
    <2> SUFFICES ASSUME k # 3 PROVE FALSE
      OBVIOUS
    <2> DEFINE M == m + 1
               token == Message(M)[k]
    <2>0. M \in Nat /\ token = Header(n)
      BY <1>2
    <2>a. /\ Message(M)[1] = Open /\ Message(M)[5] = Open
          /\ Message(M)[2] = Newline /\ Message(M)[8] = Newline
          /\ Message(M)[10] = Newline /\ Message(M)[12] = Newline
          /\ Message(M)[9] = Close /\ Message(M)[11] = Close
          /\ Message(M)[4] = Text(M, "payload")
          /\ Message(M)[6] = Text(M, "value")
          /\ Message(M)[7] = Text(M, "end of value")
      BY <2>0, MessageTokens
    <2> HIDE DEF M
    <2>1. CASE k \in {1, 5}
      BY <2>1, <2>0, <2>a, Headers, ZenonT(30)
    <2>2. CASE k \in {2, 8, 10, 12}
      BY <2>2, <2>0, <2>a, Headers, ZenonT(30)
    <2>3. CASE k \in {9, 11}
      BY <2>3, <2>0, <2>a, Headers, ZenonT(30)
    <2>4. CASE k \in {4, 6, 7}
      <3>1. /\ Header(n) # Text(M, "payload") /\ Header(n) # Text(M, "value")
            /\ Header(n) # Text(M, "end of value")
        BY <2>0, Headers
      <3> QED BY <3>1, <2>4, <2>0, <2>a
    <2>5. k \in {1, 5} \/ k \in {2, 8, 10, 12} \/ k \in {9, 11}
            \/ k \in {4, 6, 7}
      BY <1>1
    <2> QED BY <2>1, <2>2, <2>3, <2>4, <2>5
  <1>5. Header(m + 1) = Header(n)
    BY <1>2, <1>3, <1>4, MessageTokens
  <1>6. m + 1 = n
    BY <1>3, <1>5, Headers
  <1> QED BY <1>1, <1>4, <1>6

(* The braces of the stream: where the closing ones stand. *)
LEMMA ClosePlaces ==
  ASSUME NEW m \in Nat
  PROVE  /\ TokenAt(12 * m + 9) = Close /\ TokenAt(12 * m + 11) = Close
         /\ \A k \in 1 .. 12 : TokenAt(12 * m + k) = Close => k \in {9, 11}
  <1> DEFINE M == m + 1
  <1>1. M \in Nat /\ \A k \in 1 .. 12 : TokenAt(12 * m + k) = Message(M)[k]
    BY StreamTokens
  <1>2. /\ \A k \in {1, 5} : Message(M)[k] = Open
        /\ \A k \in {2, 8, 10, 12} : Message(M)[k] = Newline
        /\ Message(M)[3] = Header(M) /\ Message(M)[4] = Text(M, "payload")
        /\ Message(M)[6] = Text(M, "value")
        /\ Message(M)[7] = Text(M, "end of value")
        /\ Message(M)[9] = Close /\ Message(M)[11] = Close
    BY <1>1, MessageTokens, ZenonT(30)
  <1>3. /\ Close # Open /\ Close # Newline /\ Close # Header(M)
        /\ Close # Text(M, "payload") /\ Close # Text(M, "value")
        /\ Close # Text(M, "end of value")
    BY DEF Close, Open, Newline, Header, Text
  <1> HIDE DEF M
  <1>4. ASSUME NEW k \in 1 .. 12, Message(M)[k] = Close
        PROVE  k \in {9, 11}
    <2>1. k \notin {1, 5} /\ k \notin {2, 8, 10, 12}
      BY <1>2, <1>3, <1>4
    <2>2. k # 3 /\ k # 4 /\ k # 6 /\ k # 7
      BY <1>2, <1>3, <1>4
    <2> QED BY <2>1, <2>2
  <1>5. 9 \in 1 .. 12 /\ 11 \in 1 .. 12
    OBVIOUS
  <1> QED BY <1>1, <1>2, <1>4, <1>5

(* And where the opening ones do. *)
LEMMA OpenPlaces ==
  ASSUME NEW m \in Nat
  PROVE  /\ TokenAt(12 * m + 1) = Open
         /\ \A k \in 1 .. 12 : TokenAt(12 * m + k) = Open => k \in {1, 5}
  <1> DEFINE M == m + 1
  <1>1. M \in Nat /\ \A k \in 1 .. 12 : TokenAt(12 * m + k) = Message(M)[k]
    BY StreamTokens
  <1>2. /\ \A k \in {9, 11} : Message(M)[k] = Close
        /\ \A k \in {2, 8, 10, 12} : Message(M)[k] = Newline
        /\ Message(M)[3] = Header(M) /\ Message(M)[4] = Text(M, "payload")
        /\ Message(M)[6] = Text(M, "value")
        /\ Message(M)[7] = Text(M, "end of value")
        /\ Message(M)[1] = Open
    BY <1>1, MessageTokens, ZenonT(30)
  <1>3. /\ Open # Close /\ Open # Newline /\ Open # Header(M)
        /\ Open # Text(M, "payload") /\ Open # Text(M, "value")
        /\ Open # Text(M, "end of value")
    BY DEF Close, Open, Newline, Header, Text
  <1> HIDE DEF M
  <1>4. ASSUME NEW k \in 1 .. 12, Message(M)[k] = Open
        PROVE  k \in {1, 5}
    <2>1. k \notin {9, 11} /\ k \notin {2, 8, 10, 12}
      BY <1>2, <1>3, <1>4
    <2>2. k # 3 /\ k # 4 /\ k # 6 /\ k # 7
      BY <1>2, <1>3, <1>4
    <2> QED BY <2>1, <2>2
  <1>5. 1 \in 1 .. 12
    OBVIOUS
  <1> QED BY <1>1, <1>2, <1>4, <1>5

------------------------------------------------------------------------------
(* What the pieces of a text have of it. *)

(* The header of message n is in the text, or comes before that of m. *)
Has(text, n) == \E i \in 1 .. Len(text) : text[i] = Header(n)
Before(text, n, m) ==
  \E i, j \in 1 .. Len(text) :
    i < j /\ text[i] = Header(n) /\ text[j] = Header(m)

(* The pieces have the headers of the text, in their order. *)
PiecesOf(pieces, text) ==
  /\ \A p \in 1 .. Len(pieces) : \A n \in Nat :
       Has(pieces[p], n) => Has(text, n)
  /\ \A p, q \in 1 .. Len(pieces) : \A n, m \in Nat :
       p < q /\ Has(pieces[p], n) /\ Has(pieces[q], m) => Before(text, n, m)

(* A part of a sequence, also an empty one. *)
LEMMA PartOf ==
  ASSUME NEW V, NEW seq \in Seq(V), NEW lo \in Nat \ {0},
         NEW hi \in 0 .. Len(seq)
  PROVE  /\ SubSeq(seq, lo, hi) \in Seq(V)
         /\ Len(SubSeq(seq, lo, hi)) = IF lo <= hi THEN hi - lo + 1 ELSE 0
         /\ \A i \in 1 .. Len(SubSeq(seq, lo, hi)) :
              /\ lo + i - 1 \in lo .. hi
              /\ SubSeq(seq, lo, hi)[i] = seq[lo + i - 1]
  <1>1. CASE lo <= hi
    BY <1>1
  <1>2. CASE hi < lo
    <2>1. SubSeq(seq, lo, hi) = << >>
      BY <1>2
    <2>2. << >> \in Seq(V) /\ Len(<< >>) = 0
      OBVIOUS
    <2>3. ~(lo <= hi)
      BY <1>2
    <2> HIDE <1>2
    <2>4. \A i \in 1 .. 0 : FALSE
      OBVIOUS
    <2> QED BY ONLY <2>1, <2>2, <2>3, <2>4
  <1>3. lo <= hi \/ hi < lo
    OBVIOUS
  <1> QED BY <1>1, <1>2, <1>3, Zenon

(* NoSpace keeps the headers and their order. *)
LEMMA NoSpaceHas ==
  ASSUME NEW text \in Seq(Token)
  PROVE  /\ NoSpace(text) \in Seq(Token)
         /\ \A n \in Nat : Has(NoSpace(text), n) <=> Has(text, n)
         /\ \A n, m \in Nat : Before(NoSpace(text), n, m) => Before(text, n, m)
  <1> DEFINE S == {i \in DOMAIN text : text[i] # Newline}
             out == NoSpace(text)
  <1>1. out = Picked(text, S)
    BY DEF NoSpace
  <1> HIDE DEF out, S
  <1>2. PICK e : /\ Ascends(e, Len(out), S, Len(text))
                 /\ \A k \in 1 .. Len(out) : out[k] = text[e[k]]
    BY <1>1, PickedAscends
  <1>3. out \in Seq(Token)
    BY <1>1, PickedAscends
  <1>4. \A k \in 1 .. Len(out) : e[k] \in 1 .. Len(text)
    BY <1>2 DEF Ascends
  <1>5. \A n \in Nat : Has(out, n) => Has(text, n)
    BY <1>2, <1>4 DEF Has
  <1>6. ASSUME NEW n \in Nat, Has(text, n) PROVE Has(out, n)
    <2>1. PICK i \in 1 .. Len(text) : text[i] = Header(n)
      BY <1>6 DEF Has
    <2>2. i \in S
      <3>1. text[i] # Newline
        BY <2>1, Headers
      <3>2. i \in DOMAIN text
        BY <2>1
      <3> QED BY <3>1, <3>2 DEF S
    <2>3. PICK k \in 1 .. Len(out) : e[k] = i
      BY <1>2, <2>2 DEF Ascends
    <2> QED BY <1>2, <2>1, <2>3 DEF Has
  <1>7. ASSUME NEW n \in Nat, NEW m \in Nat, Before(out, n, m)
        PROVE  Before(text, n, m)
    <2>1. PICK i, j \in 1 .. Len(out) :
            i < j /\ out[i] = Header(n) /\ out[j] = Header(m)
      BY <1>7 DEF Before
    <2>2. e[i] < e[j]
      BY <1>2, <2>1 DEF Ascends
    <2> QED BY <1>2, <1>4, <2>1, <2>2 DEF Before
  <1> QED BY <1>3, <1>5, <1>6, <1>7 DEF out

(* A message has its header. *)
LEMMA MessageHas ==
  ASSUME NEW n \in Nat
  PROVE  Message(n) \in Seq(Token) /\ Has(Message(n), n)
  <1>1. Message(n) \in Seq(Token) /\ Len(Message(n)) = 12
    BY MessageTokens
  <1>2. Message(n)[3] = Header(n)
    BY MessageTokens
  <1>3. 3 \in 1 .. Len(Message(n))
    BY <1>1
  <1> QED BY <1>1, <1>2, <1>3 DEF Has

(* What parses as a message has its header. *)
LEMMA ParsedHas ==
  ASSUME NEW text \in Seq(Token), Parsed(text) # NotParsed
  PROVE  /\ Parsed(text) \in 1 .. MaxMessages
         /\ NoSpace(text) = NoSpace(Message(Parsed(text)))
         /\ Has(text, Parsed(text))
  <1> DEFINE found == {n \in 1 .. MaxMessages :
                         NoSpace(text) = NoSpace(Message(n))}
  <1>1. found # {} /\ Parsed(text) = CHOOSE n \in found : TRUE
    BY DEF Parsed
  <1>2. Parsed(text) \in found
    BY <1>1
  <1> DEFINE n == Parsed(text)
  <1>3. n \in 1 .. MaxMessages /\ NoSpace(text) = NoSpace(Message(n))
    BY <1>2
  <1>4. n \in Nat
    BY <1>3, FramingAssumption
  <1> HIDE DEF n
  <1>5. Has(Message(n), n) /\ Message(n) \in Seq(Token)
    BY <1>4, MessageHas
  <1>6. Has(text, n)
    BY <1>3, <1>4, <1>5, NoSpaceHas
  <1> QED BY <1>3, <1>6 DEF n

(* A text parses as at most one message, and a message as itself. *)
LEMMA MessageParses ==
  ASSUME NEW text \in Seq(Token), NEW n \in 1 .. MaxMessages,
         NoSpace(text) = NoSpace(Message(n))
  PROVE  Parsed(text) = n
  <1> DEFINE found == {k \in 1 .. MaxMessages :
                         NoSpace(text) = NoSpace(Message(k))}
  <1>1. n \in found /\ n \in Nat
    BY FramingAssumption
  <1>2. ASSUME NEW k \in found PROVE k = n
    <2>1. k \in Nat /\ k \in 1 .. MaxMessages
          /\ NoSpace(Message(k)) = NoSpace(Message(n))
      BY FramingAssumption
    <2>2. Has(Message(k), k) /\ Message(k) \in Seq(Token)
      BY <2>1, MessageHas
    <2>3. Message(n) \in Seq(Token)
      BY <1>1, MessageTokens
    <2>4. Has(Message(n), k)
      BY <2>1, <2>2, <2>3, NoSpaceHas
    <2>5. PICK i \in 1 .. 12 : Message(n)[i] = Header(k)
      BY <1>1, <2>4, MessageTokens DEF Has
    <2>6. TokenAt(12 * (n - 1) + i) = Header(k)
      <3>1. n - 1 \in Nat /\ (n - 1) + 1 = n
        BY <1>1
      <3> QED BY <3>1, <2>5, StreamTokens
    <2>7. 12 * (n - 1) + i = 12 * (k - 1) + 3
      <3>1. 12 * (n - 1) + i \in Nat \ {0}
        BY <1>1
      <3> QED BY <3>1, <2>1, <2>6, HeaderPlace
    <2> QED BY <1>1, <2>1, <2>7
  <1>3. Parsed(text) = CHOOSE k \in found : TRUE
    BY <1>1 DEF Parsed
  <1> HIDE DEF found
  <1> QED BY <1>1, <1>2, <1>3

------------------------------------------------------------------------------
(* Split. *)

(* Where a separator begins, the list of those places, and the first and   *)
(* the last position of piece p.                                           *)
CutSet(text, sep) ==
  {i \in 1 .. Len(text) + 1 - Len(sep) :
     SubSeq(text, i, i + Len(sep) - 1) = sep}
Cuts(text, sep) == Picked(Positions(text), CutSet(text, sep))
From(text, sep, p) == IF p = 1 THEN 1 ELSE Cuts(text, sep)[p - 1] + Len(sep)
Upto(text, sep, p) ==
  IF p = Len(Cuts(text, sep)) + 1 THEN Len(text) ELSE Cuts(text, sep)[p] - 1

(* A split is made of parts of the text that follow one another. *)
LEMMA SplitParts ==
  ASSUME NEW text \in Seq(Token), NEW sep, Len(sep) \in Nat \ {0}
  PROVE  LET c == Cuts(text, sep)
             pieces == Split(text, sep)
         IN  /\ Ascends(c, Len(c), CutSet(text, sep), Len(text))
             /\ Len(pieces) = Len(c) + 1 /\ Len(pieces) \in Nat
             /\ DOMAIN pieces = 1 .. Len(pieces)
             /\ \A p \in 1 .. Len(pieces) :
                  /\ pieces[p] = SubSeq(text, From(text, sep, p),
                                              Upto(text, sep, p))
                  /\ From(text, sep, p) \in Nat \ {0}
                  /\ Upto(text, sep, p) \in 0 .. Len(text)
                  /\ pieces[p] \in Seq(Token)
             /\ \A p, q \in 1 .. Len(pieces) :
                  p < q => Upto(text, sep, p) < From(text, sep, q)
  <1> DEFINE c == Cuts(text, sep)
             pieces == Split(text, sep)
             L == Len(c) + 1
             lo(p) == From(text, sep, p)
             hi(p) == Upto(text, sep, p)
  <1>1. Ascends(c, Len(c), CutSet(text, sep), Len(text)) /\ c \in Seq(Nat)
    BY PositionsAscend DEF Cuts
  <1>2. L \in Nat /\ Len(text) \in Nat /\ 1 <= L
    BY <1>1 DEF Ascends
  <1>3. pieces = [p \in 1 .. L |-> SubSeq(text, lo(p), hi(p))]
    BY DEF Split, From, Upto, Cuts, CutSet
  <1>4. /\ DOMAIN pieces = 1 .. L
        /\ \A p \in 1 .. L : pieces[p] = SubSeq(text, lo(p), hi(p))
    BY <1>3
  <1>5. \A k \in 1 .. Len(c) : c[k] \in 1 .. Len(text)
    BY <1>1 DEF Ascends
  <1>6. ASSUME NEW p \in 1 .. L
        PROVE  /\ lo(p) \in Nat \ {0}
               /\ hi(p) \in 0 .. Len(text)
    <2> HIDE DEF c
    <2>1. p # 1 => p - 1 \in 1 .. Len(c)
      BY <1>2
    <2>2. p # L => p \in 1 .. Len(c)
      BY <1>2
    <2>3. lo(p) = IF p = 1 THEN 1 ELSE c[p - 1] + Len(sep)
      BY DEF From, c
    <2>4. hi(p) = IF p = L THEN Len(text) ELSE c[p] - 1
      BY DEF Upto, c
    <2> HIDE DEF lo, hi, L
    <2>5. lo(p) \in Nat \ {0}
      BY <2>1, <2>3, <1>5
    <2>6. hi(p) \in 0 .. Len(text)
      BY <2>2, <2>4, <1>2, <1>5
    <2> QED BY <2>5, <2>6
  <1>7. ASSUME NEW p \in 1 .. L, NEW q \in 1 .. L, p < q
        PROVE  hi(p) < lo(q)
    <2> HIDE DEF c
    <2>1. p \in 1 .. Len(c) /\ q - 1 \in 1 .. Len(c) /\ q # 1 /\ p # L
          /\ (p = q - 1 \/ p < q - 1)
      BY <1>2, <1>7
    <2>2. c[p] <= c[q - 1]
      BY <1>1, <1>5, <2>1 DEF Ascends
    <2>3. lo(q) = c[q - 1] + Len(sep) /\ hi(p) = c[p] - 1
      BY <2>1 DEF From, Upto, c
    <2>4. c[p] \in Nat /\ c[q - 1] \in Nat
      BY <2>1, <1>5
    <2> HIDE DEF lo, hi
    <2> QED BY <2>2, <2>3, <2>4
  <1>8. ASSUME NEW p \in 1 .. L PROVE pieces[p] \in Seq(Token)
    <2>1. pieces[p] = SubSeq(text, lo(p), hi(p))
      BY <1>4
    <2>2. lo(p) \in Nat \ {0} /\ hi(p) \in 0 .. Len(text)
      BY <1>6
    <2> DEFINE a == lo(p)
               b == hi(p)
    <2> HIDE DEF a, b, pieces
    <2>3. a \in Nat \ {0} /\ b \in 0 .. Len(text)
            /\ pieces[p] = SubSeq(text, a, b)
      BY <2>1, <2>2 DEF a, b
    <2> QED BY <2>3, PartOf
  <1>9. Len(pieces) = L
    <2>1. pieces \in [1 .. L -> Seq(Token)]
      BY <1>3, <1>8
    <2> HIDE DEF L, pieces
    <2> QED BY <2>1, <1>2
  <1> HIDE DEF pieces, c
  <1> QED BY <1>1, <1>2, <1>4, <1>6, <1>7, <1>8, <1>9 DEF pieces, c

(* So its pieces have the headers of the text in their order. *)
LEMMA SplitPieces ==
  ASSUME NEW text \in Seq(Token), NEW sep, Len(sep) \in Nat \ {0}
  PROVE  PiecesOf(Split(text, sep), text)
  <1> DEFINE pieces == Split(text, sep)
             lo(p) == From(text, sep, p)
             hi(p) == Upto(text, sep, p)
  <1>1. /\ \A p \in 1 .. Len(pieces) :
             /\ pieces[p] = SubSeq(text, lo(p), hi(p))
             /\ lo(p) \in Nat \ {0}
             /\ hi(p) \in 0 .. Len(text)
        /\ \A p, q \in 1 .. Len(pieces) : p < q => hi(p) < lo(q)
    BY SplitParts
  <1> HIDE DEF pieces, lo, hi
  <1>2. ASSUME NEW p \in 1 .. Len(pieces), NEW n \in Nat, Has(pieces[p], n)
        PROVE  \E i \in 1 .. Len(text) :
                 lo(p) <= i /\ i <= hi(p) /\ text[i] = Header(n)
    <2>1. PICK i \in 1 .. Len(pieces[p]) : pieces[p][i] = Header(n)
      BY <1>2 DEF Has
    <2>2. /\ lo(p) + i - 1 \in lo(p) .. hi(p)
          /\ pieces[p][i] = text[lo(p) + i - 1]
      <3>1. lo(p) \in Nat \ {0} /\ hi(p) \in 0 .. Len(text)
        BY <1>1
      <3> DEFINE a == lo(p)
                 b == hi(p)
      <3> HIDE DEF a, b
      <3>2. a \in Nat \ {0} /\ b \in 0 .. Len(text)
              /\ pieces[p] = SubSeq(text, a, b)
        BY <3>1, <1>1 DEF a, b
      <3>3. a + i - 1 \in a .. b /\ pieces[p][i] = text[a + i - 1]
        BY <3>2, <2>1, PartOf
      <3> QED BY <3>3 DEF a, b
    <2>3. lo(p) \in Nat \ {0} /\ hi(p) \in 0 .. Len(text)
      BY <1>1
    <2>4. lo(p) + i - 1 \in 1 .. Len(text)
      BY <2>2, <2>3
    <2>5. lo(p) <= lo(p) + i - 1 /\ lo(p) + i - 1 <= hi(p)
      BY <2>2, <2>3
    <2> QED BY <2>1, <2>2, <2>4, <2>5
  <1>3. ASSUME NEW p \in 1 .. Len(pieces), NEW q \in 1 .. Len(pieces), p < q,
               NEW n \in Nat, NEW m \in Nat,
               Has(pieces[p], n), Has(pieces[q], m)
        PROVE  Before(text, n, m)
    <2>1. PICK i \in 1 .. Len(text) : i <= hi(p) /\ text[i] = Header(n)
      BY <1>2, <1>3
    <2>2. PICK j \in 1 .. Len(text) : lo(q) <= j /\ text[j] = Header(m)
      BY <1>2, <1>3
    <2>3. hi(p) < lo(q) /\ hi(p) \in Nat /\ lo(q) \in Nat
      BY <1>1, <1>3
    <2>4. i < j
      BY <2>1, <2>2, <2>3
    <2> QED BY <2>1, <2>2, <2>4 DEF Before
  <1>4. \A p \in 1 .. Len(pieces) : \A n \in Nat :
          Has(pieces[p], n) => Has(text, n)
    <2> SUFFICES ASSUME NEW p \in 1 .. Len(pieces), NEW n \in Nat,
                        Has(pieces[p], n)
                 PROVE  Has(text, n)
      OBVIOUS
    <2>1. PICK i \in 1 .. Len(text) : text[i] = Header(n)
      BY <1>2
    <2> QED BY <2>1 DEF Has
  <1>5. \A p, q \in 1 .. Len(pieces) : \A n, m \in Nat :
          p < q /\ Has(pieces[p], n) /\ Has(pieces[q], m)
            => Before(text, n, m)
    BY <1>3
  <1>6. PiecesOf(pieces, text)
    BY <1>4, <1>5 DEF PiecesOf
  <1> QED BY <1>6 DEF pieces

(* Pieces that gain no header still are pieces of the text. *)
LEMMA PiecesShrink ==
  ASSUME NEW text, NEW pieces, NEW less, PiecesOf(pieces, text),
         Len(less) = Len(pieces),
         \A p \in 1 .. Len(less) : \A n \in Nat :
           Has(less[p], n) => Has(pieces[p], n)
  PROVE  PiecesOf(less, text)
  BY DEF PiecesOf

(* Braces around a text add no header. *)
LEMMA BracesHas ==
  ASSUME NEW text \in Seq(Token), NEW left \in Seq({Open}),
         NEW right \in Seq({Close})
  PROVE  /\ left \o text \o right \in Seq(Token)
         /\ \A n \in Nat : Has(left \o text \o right, n) => Has(text, n)
  <1> DEFINE out == left \o text \o right
  <1>1. Open \in Token /\ Close \in Token
    BY DEF Open, Close, Text, Token
  <1>2. left \in Seq(Token) /\ right \in Seq(Token)
    BY <1>1
  <1> HIDE DEF Token
  <1>3. /\ out \in Seq(Token)
        /\ Len(out) = Len(left) + Len(text) + Len(right)
        /\ \A i \in 1 .. Len(left) : out[i] = Open
        /\ \A i \in Len(left) + 1 .. Len(left) + Len(text) :
             out[i] = text[i - Len(left)]
        /\ \A i \in Len(left) + Len(text) + 1 .. Len(out) : out[i] = Close
    BY <1>2
  <1> HIDE DEF out
  <1>4. ASSUME NEW n \in Nat, Has(out, n) PROVE Has(text, n)
    <2>1. PICK i \in 1 .. Len(out) : out[i] = Header(n)
      BY <1>4 DEF Has
    <2>2. Len(left) \in Nat /\ Len(text) \in Nat /\ Len(right) \in Nat
      OBVIOUS
    <2>3. i \notin 1 .. Len(left)
      BY <2>1, <1>3, Headers
    <2>4. i \notin Len(left) + Len(text) + 1 .. Len(out)
      BY <2>1, <1>3, Headers
    <2>5. i \in Len(left) + 1 .. Len(left) + Len(text)
      BY <1>3, <2>2, <2>3, <2>4
    <2>6. i - Len(left) \in 1 .. Len(text)
      BY <2>2, <2>5
    <2> QED BY <1>3, <2>1, <2>5, <2>6 DEF Has
  <1> QED BY <1>3, <1>4 DEF out

------------------------------------------------------------------------------
(* The two readers. *)

(* Pieces that can be parsed, one after the other. *)
Pieces(pieces, text) ==
  /\ Len(pieces) \in Nat
  /\ DOMAIN pieces = 1 .. Len(pieces)
  /\ \A p \in 1 .. Len(pieces) : pieces[p] \in Seq(Token)
  /\ PiecesOf(pieces, text)

(* A split has pieces. *)
LEMMA SplitIsPieces ==
  ASSUME NEW text \in Seq(Token), NEW sep, Len(sep) \in Nat \ {0}
  PROVE  Pieces(Split(text, sep), text) /\ Len(Split(text, sep)) # 0
  <1>1. PiecesOf(Split(text, sep), text)
    BY SplitPieces
  <1> DEFINE pieces == Split(text, sep)
  <1>2. /\ Len(pieces) = Len(Cuts(text, sep)) + 1
        /\ Len(Cuts(text, sep)) \in Nat
        /\ DOMAIN pieces = 1 .. Len(pieces)
        /\ \A p \in 1 .. Len(pieces) : pieces[p] \in Seq(Token)
    BY SplitParts DEF Ascends
  <1> HIDE DEF pieces
  <1>3. Len(pieces) \in Nat /\ Len(pieces) # 0
    BY <1>2
  <1> QED BY <1>1, <1>2, <1>3 DEF Pieces, pieces

(* Pieces made one by one of others. *)
LEMMA PiecesMade ==
  ASSUME NEW text, NEW pieces, Pieces(pieces, text), NEW made,
         DOMAIN made = 1 .. Len(pieces),
         \A p \in 1 .. Len(pieces) :
           /\ made[p] \in Seq(Token)
           /\ \A n \in Nat : Has(made[p], n) => Has(pieces[p], n),
         made = [p \in 1 .. Len(pieces) |-> made[p]]
  PROVE  Pieces(made, text) /\ Len(made) = Len(pieces)
  <1>1. Len(pieces) \in Nat
    BY DEF Pieces
  <1>2. Len(made) = Len(pieces)
    <2>1. made \in [1 .. Len(pieces) -> Seq(Token)]
      OBVIOUS
    <2> DEFINE L == Len(pieces)
    <2>2. L \in Nat /\ made \in [1 .. L -> Seq(Token)]
      BY <1>1, <2>1
    <2> HIDE DEF L
    <2>3. Len(made) = L
      BY <2>2
    <2> QED BY <2>3 DEF L
  <1>3. PiecesOf(made, text)
    BY <1>2, PiecesShrink DEF Pieces
  <1> QED BY <1>1, <1>2, <1>3 DEF Pieces

(* The server's requests are pieces of what it read. *)
LEMMA ServerPieces ==
  ASSUME NEW text \in Seq(Token)
  PROVE  Pieces(ServerRequests(text), text)
  <1> DEFINE dense == NoSpace(text)
             sep == <<Close, Open>>
             pieces == Split(dense, sep)
             left(p) == IF p = 1 THEN << >> ELSE <<Open>>
             right(p) == IF p = Len(pieces) THEN << >> ELSE <<Close>>
             made == [p \in DOMAIN pieces |-> left(p) \o pieces[p] \o right(p)]
  <1>1. made = ServerRequests(text)
    BY DEF ServerRequests
  <1>2. dense \in Seq(Token)
    BY NoSpaceHas
  <1>3. Len(sep) \in Nat \ {0}
    OBVIOUS
  <1> HIDE DEF dense, sep
  <1>4. Pieces(pieces, dense)
    BY <1>2, <1>3, SplitIsPieces
  <1> HIDE DEF pieces
  <1>5. ASSUME NEW p \in 1 .. Len(pieces)
        PROVE  /\ made[p] \in Seq(Token)
               /\ \A n \in Nat : Has(made[p], n) => Has(pieces[p], n)
    <2>1. left(p) \in Seq({Open}) /\ right(p) \in Seq({Close})
      BY ShortSequences
    <2>2. pieces[p] \in Seq(Token) /\ p \in DOMAIN pieces
      BY <1>4 DEF Pieces
    <2>3. made[p] = left(p) \o pieces[p] \o right(p)
      BY <2>2
    <2> HIDE DEF made
    <2> DEFINE l == left(p)
               r == right(p)
               t == pieces[p]
    <2>4. l \in Seq({Open}) /\ r \in Seq({Close}) /\ t \in Seq(Token)
            /\ made[p] = l \o t \o r
      BY <2>1, <2>2, <2>3
    <2> HIDE DEF l, r, t
    <2>5. /\ l \o t \o r \in Seq(Token)
          /\ \A n \in Nat : Has(l \o t \o r, n) => Has(t, n)
      BY <2>4, BracesHas
    <2>6. made[p] \in Seq(Token) /\ \A n \in Nat : Has(made[p], n) => Has(t, n)
      BY <2>4, <2>5
    <2> QED BY <2>6 DEF t
  <1>6. DOMAIN made = 1 .. Len(pieces)
    BY <1>4 DEF Pieces
  <1>7. made = [p \in 1 .. Len(pieces) |-> made[p]]
    BY <1>6
  <1> HIDE DEF made
  <1>8. Pieces(made, dense)
    BY <1>4, <1>5, <1>6, <1>7, PiecesMade
  <1>9. PiecesOf(made, text)
    BY <1>8, NoSpaceHas DEF Pieces, PiecesOf, dense
  <1> QED BY <1>1, <1>8, <1>9 DEF Pieces

(* What removeExtraCurlyBrackets leaves is part of the piece. *)
LEMMA StrippedHas ==
  ASSUME NEW text \in Seq(Token)
  PROVE  /\ Stripped(text) \in Seq(Token)
         /\ \A n \in Nat : Has(Stripped(text), n) => Has(text, n)
  <1> DEFINE kept == {i \in DOMAIN text :
               /\ \E j \in 1 .. i : text[j] \notin {Open, Newline}
               /\ \E j \in i .. Len(text) : text[j] \notin {Close, Newline}}
  <1>1. Stripped(text) = IF kept = {} THEN << >>
                         ELSE SubSeq(text, Min(kept), Max(kept))
    BY DEF Stripped
  <1>2. kept \subseteq 1 .. Len(text) /\ Len(text) \in Nat
    OBVIOUS
  <1> HIDE DEF kept
  <1>3. CASE kept = {}
    <2>1. Stripped(text) = << >>
      BY <1>1, <1>3
    <2>2. \A n \in Nat : ~Has(<< >>, n)
      BY DEF Has
    <2> QED BY <2>1, <2>2
  <1>4. CASE kept # {}
    <2> DEFINE lo == Min(kept)
               hi == Max(kept)
               part == SubSeq(text, lo, hi)
    <2>1. lo \in 1 .. Len(text) /\ hi \in 1 .. Len(text)
      <3>1. kept \subseteq Nat /\ kept \subseteq 0 .. Len(text)
        BY <1>2
      <3> QED BY <3>1, <1>2, <1>4, MinIsLeast, MaxIsGreatest
    <2>2. Stripped(text) = part
      BY <1>1, <1>4
    <2> HIDE DEF lo, hi
    <2>3. lo \in Nat \ {0} /\ hi \in 0 .. Len(text)
      BY <2>1
    <2>4. /\ part \in Seq(Token)
          /\ \A i \in 1 .. Len(part) :
               /\ lo + i - 1 \in lo .. hi /\ part[i] = text[lo + i - 1]
      BY <2>3, PartOf
    <2> HIDE DEF part
    <2>5. ASSUME NEW n \in Nat, Has(part, n) PROVE Has(text, n)
      <3>1. PICK i \in 1 .. Len(part) : part[i] = Header(n)
        BY <2>5 DEF Has
      <3>2. lo + i - 1 \in 1 .. Len(text) /\ text[lo + i - 1] = Header(n)
        BY <2>3, <2>4, <3>1
      <3> QED BY <3>2 DEF Has
    <2> QED BY <2>2, <2>4, <2>5
  <1> QED BY <1>3, <1>4

(* A repaired piece, too, only gains braces. *)
LEMMA RepairedHas ==
  ASSUME NEW pieces, NEW p, pieces[p] \in Seq(Token)
  PROVE  /\ Repaired(pieces, p) \in Seq(Token)
         /\ \A n \in Nat : Has(Repaired(pieces, p), n) => Has(pieces[p], n)
  <1> DEFINE t == Stripped(pieces[p])
             l == IF t = Head(pieces) THEN << >> ELSE <<Open>>
             r == IF t = Last(pieces) THEN << >> ELSE <<Close, Close>>
  <1>1. Repaired(pieces, p) = l \o t \o r
    BY DEF Repaired
  <1>2. l \in Seq({Open}) /\ r \in Seq({Close})
    BY ShortSequences
  <1>3. t \in Seq(Token) /\ \A n \in Nat : Has(t, n) => Has(pieces[p], n)
    BY StrippedHas
  <1> HIDE DEF t, l, r
  <1> QED BY <1>1, <1>2, <1>3, BracesHas, ZenonT(30)

(* The client's updates are pieces of what it read. *)
LEMMA ClientPieces ==
  ASSUME NEW text \in Seq(Token)
  PROVE  Pieces(ClientUpdates(text), text)
  <1> DEFINE adjacent == Split(text, <<Close, Open>>)
             spaced == Split(text, <<Close, Newline, Open>>)
             pieces == IF Len(adjacent) > 1 THEN adjacent ELSE spaced
             made == [p \in DOMAIN pieces |-> Repaired(pieces, p)]
  <1>1. made = ClientUpdates(text)
    BY DEF ClientUpdates
  <1>2. Len(<<Close, Open>>) \in Nat \ {0}
          /\ Len(<<Close, Newline, Open>>) \in Nat \ {0}
    OBVIOUS
  <1>3. Pieces(adjacent, text) /\ Pieces(spaced, text)
    BY <1>2, SplitIsPieces
  <1> HIDE DEF adjacent, spaced
  <1>4. Pieces(pieces, text)
    BY <1>3
  <1> HIDE DEF pieces
  <1>5. DOMAIN made = 1 .. Len(pieces)
    BY <1>4 DEF Pieces
  <1>6. ASSUME NEW p \in 1 .. Len(pieces)
        PROVE  /\ made[p] \in Seq(Token)
               /\ \A n \in Nat : Has(made[p], n) => Has(pieces[p], n)
    <2>1. pieces[p] \in Seq(Token) /\ p \in DOMAIN pieces
      BY <1>4 DEF Pieces
    <2>2. made[p] = Repaired(pieces, p)
      BY <2>1
    <2> QED BY <2>1, <2>2, RepairedHas
  <1>7. made = [p \in 1 .. Len(pieces) |-> made[p]]
    BY <1>5
  <1> HIDE DEF made
  <1> QED BY <1>1, <1>4, <1>5, <1>6, <1>7, PiecesMade

(* The pieces of a read and what they parse as. *)
PiecesRead(text) ==
  IF reader = "server" THEN ServerRequests(text) ELSE ClientUpdates(text)

(* A read is handled message by message, each one by its header and in     *)
(* the order of the headers.                                               *)
LEMMA HandledOrdered ==
  ASSUME NEW text \in Seq(Token)
  PROVE  LET H == Handled(text)
         IN  /\ H \in Seq(1 .. MaxMessages)
             /\ \A k \in 1 .. Len(H) : Has(text, H[k])
             /\ \A j, k \in 1 .. Len(H) : j < k => Before(text, H[j], H[k])
             /\ \A p \in 1 .. Len(PiecesRead(text)) :
                  Parsed(PiecesRead(text)[p]) # NotParsed =>
                    \E k \in 1 .. Len(H) : H[k] = Parsed(PiecesRead(text)[p])
  <1> DEFINE pieces == PiecesRead(text)
             read == [p \in DOMAIN pieces |-> Parsed(pieces[p])]
             S == {p \in DOMAIN read : read[p] # NotParsed}
             H == Handled(text)
  <1>1. H = Picked(read, S)
    BY DEF Handled, PiecesRead
  <1>2. Pieces(pieces, text)
    BY ServerPieces, ClientPieces DEF PiecesRead
  <1> HIDE DEF pieces
  <1>3. \A p \in 1 .. Len(pieces) :
          Parsed(pieces[p]) # NotParsed =>
            /\ Parsed(pieces[p]) \in 1 .. MaxMessages
            /\ Has(pieces[p], Parsed(pieces[p]))
    BY <1>2, ParsedHas DEF Pieces
  <1>4. /\ read \in Seq(0 .. MaxMessages) /\ Len(read) = Len(pieces)
        /\ \A p \in 1 .. Len(pieces) : read[p] = Parsed(pieces[p])
        /\ DOMAIN read = 1 .. Len(pieces)
    <2>1. DOMAIN pieces = 1 .. Len(pieces) /\ Len(pieces) \in Nat
      BY <1>2 DEF Pieces
    <2>2. \A p \in 1 .. Len(pieces) : Parsed(pieces[p]) \in 0 .. MaxMessages
      BY <1>3, FramingAssumption DEF NotParsed
    <2>3. read \in [1 .. Len(pieces) -> 0 .. MaxMessages]
      BY <2>1, <2>2
    <2>4. DOMAIN read = 1 .. Len(pieces)
          /\ \A p \in 1 .. Len(pieces) : read[p] = Parsed(pieces[p])
      BY <2>1
    <2> DEFINE L == Len(pieces)
    <2>5. L \in Nat /\ read \in [1 .. L -> 0 .. MaxMessages]
      BY <2>1, <2>3
    <2> HIDE DEF L, read
    <2>6. read \in Seq(0 .. MaxMessages) /\ Len(read) = L
      BY <2>5, IsSequence
    <2> QED BY <2>4, <2>6 DEF L
  <1>5. \A p \in S : /\ p \in 1 .. Len(pieces)
                     /\ read[p] \in 1 .. MaxMessages
                     /\ Has(pieces[p], read[p])
    BY <1>3, <1>4
  <1> DEFINE dense == Picked(read, S)
  <1>6. PICK e : /\ Ascends(e, Len(dense), S, Len(read))
                 /\ \A k \in 1 .. Len(dense) : dense[k] = read[e[k]]
    <2> HIDE DEF read, S
    <2> QED BY <1>4, PickedAscends
  <1>7. dense \in Seq(0 .. MaxMessages)
    <2> HIDE DEF read, S
    <2> QED BY <1>4, PickedAscends
  <1>8. \A p \in 1 .. Len(pieces) : Parsed(pieces[p]) # NotParsed => p \in S
    BY <1>4
  <1> HIDE DEF dense, S, read
  <1>9. \A k \in 1 .. Len(dense) : e[k] \in S /\ dense[k] = read[e[k]]
    BY <1>6 DEF Ascends
  <1>10. \A k \in 1 .. Len(dense) : /\ dense[k] \in 1 .. MaxMessages
                                    /\ Has(text, dense[k])
    <2> SUFFICES ASSUME NEW k \in 1 .. Len(dense)
                 PROVE  dense[k] \in 1 .. MaxMessages /\ Has(text, dense[k])
      OBVIOUS
    <2>1. dense[k] \in 1 .. MaxMessages /\ Has(pieces[e[k]], dense[k])
            /\ e[k] \in 1 .. Len(pieces)
      BY <1>5, <1>9
    <2>2. dense[k] \in Nat
      BY <2>1, FramingAssumption
    <2> QED BY <2>1, <2>2, <1>2 DEF Pieces, PiecesOf
  <1>11. ASSUME NEW j \in 1 .. Len(dense), NEW k \in 1 .. Len(dense), j < k
         PROVE  Before(text, dense[j], dense[k])
    <2>1. e[j] < e[k]
      BY <1>6, <1>11 DEF Ascends
    <2>2. /\ dense[j] \in Nat /\ Has(pieces[e[j]], dense[j])
          /\ e[j] \in 1 .. Len(pieces)
          /\ dense[k] \in Nat /\ Has(pieces[e[k]], dense[k])
          /\ e[k] \in 1 .. Len(pieces)
      BY <1>5, <1>9, FramingAssumption, SMTT(30)
    <2> QED BY <2>1, <2>2, <1>2 DEF Pieces, PiecesOf
  <1>12. ASSUME NEW p \in 1 .. Len(pieces), Parsed(pieces[p]) # NotParsed
         PROVE  \E k \in 1 .. Len(dense) : dense[k] = Parsed(pieces[p])
    <2>1. p \in S /\ p \in 1 .. Len(read)
      BY <1>4, <1>8, <1>12
    <2>2. PICK k \in 1 .. Len(dense) : e[k] = p
      BY <1>6, <2>1 DEF Ascends
    <2> QED BY <1>4, <1>9, <2>2
  <1>13. dense \in Seq(1 .. MaxMessages)
    BY <1>7, <1>10, SequenceFrom
  <1>14. H = dense
    BY <1>1 DEF dense
  <1> HIDE DEF H
  <1> QED BY <1>10, <1>11, <1>12, <1>13, <1>14 DEF H, pieces

------------------------------------------------------------------------------
(* Every message is handled behind its header, and in order. *)

(* The length of the stream. *)
LEMMA StreamLength ==
  ASSUME sent \in Nat
  PROVE  Stream \in Seq(Token) /\ Len(Stream) = 12 * sent
  <1> DEFINE N == sent * MessageLen
  <1>1. N \in Nat /\ N = 12 * sent
    BY StreamTokens
  <1>2. Stream = [p \in 1 .. N |-> TokenAt(p)]
    BY DEF Stream
  <1>3. \A p \in 1 .. N : TokenAt(p) \in Token
    BY <1>1, StreamTokens
  <1> HIDE DEF N
  <1>4. Stream \in [1 .. N -> Token]
    BY <1>2, <1>3
  <1> QED BY <1>1, <1>4, IsSequence

(* What a read gets. *)
LEMMA PartOfStream ==
  ASSUME sent \in Nat, NEW from \in Nat, NEW to \in from + 1 .. Len(Stream)
  PROVE  LET text == SubSeq(Stream, from + 1, to)
         IN  /\ Len(Stream) = 12 * sent
             /\ text \in Seq(Token) /\ Len(text) = to - from
             /\ \A i \in 1 .. to - from : text[i] = TokenAt(from + i)
  <1> DEFINE N == sent * MessageLen
             text == SubSeq(Stream, from + 1, to)
  <1>1. N \in Nat /\ N = 12 * sent
    BY StreamTokens
  <1>2. Stream = [p \in 1 .. N |-> TokenAt(p)]
    BY DEF Stream
  <1>5. Stream \in Seq(Token) /\ Len(Stream) = N
    BY <1>1, StreamLength
  <1> HIDE DEF N
  <1>6. from + 1 \in Nat \ {0} /\ to \in 0 .. Len(Stream)
    BY <1>1, <1>5
  <1>7. /\ text \in Seq(Token)
        /\ Len(text) = IF from + 1 <= to THEN to - (from + 1) + 1 ELSE 0
        /\ \A i \in 1 .. Len(text) :
             /\ from + 1 + i - 1 \in from + 1 .. to
             /\ text[i] = Stream[from + 1 + i - 1]
    BY <1>5, <1>6, PartOf
  <1>8. Len(text) = to - from
    BY <1>6, <1>7
  <1>9. ASSUME NEW i \in 1 .. to - from PROVE text[i] = TokenAt(from + i)
    <2>1. from + i \in 1 .. N /\ from + 1 + i - 1 = from + i
      BY <1>1, <1>5, <1>6
    <2> QED BY <2>1, <1>2, <1>7, <1>8
  <1> HIDE DEF text
  <1> QED BY <1>1, <1>5, <1>7, <1>8, <1>9 DEF text

(* The messages whose headers a read gets, and in which order. *)
LEMMA ReadHas ==
  ASSUME sent \in Nat, NEW from \in Nat, NEW to \in from + 1 .. Len(Stream)
  PROVE  LET text == SubSeq(Stream, from + 1, to)
         IN  /\ \A n \in Nat : Has(text, n) => /\ from < 12 * (n - 1) + 3
                                               /\ 12 * (n - 1) + 3 <= to
             /\ \A n, m \in Nat : Before(text, n, m) => n < m
  <1> DEFINE text == SubSeq(Stream, from + 1, to)
  <1>1. /\ Len(text) = to - from
        /\ \A i \in 1 .. to - from : text[i] = TokenAt(from + i)
    BY PartOfStream
  <1>2. to \in Nat /\ Len(text) \in Nat
    BY <1>1, PartOfStream
  <1> HIDE DEF text
  <1>3. ASSUME NEW n \in Nat, NEW i \in 1 .. Len(text), text[i] = Header(n)
        PROVE  from + i = 12 * (n - 1) + 3
    <2>1. from + i \in Nat \ {0} /\ TokenAt(from + i) = Header(n)
      BY <1>1, <1>3
    <2> QED BY <2>1, HeaderPlace
  <1>4. ASSUME NEW n \in Nat, Has(text, n)
        PROVE  from < 12 * (n - 1) + 3 /\ 12 * (n - 1) + 3 <= to
    <2>1. PICK i \in 1 .. Len(text) : text[i] = Header(n)
      BY <1>4 DEF Has
    <2>2. from + i = 12 * (n - 1) + 3
      BY <1>3, <2>1
    <2> QED BY <2>2, <1>1, <1>2
  <1>5. ASSUME NEW n \in Nat, NEW m \in Nat, Before(text, n, m)
        PROVE  n < m
    <2>1. PICK i, j \in 1 .. Len(text) :
            i < j /\ text[i] = Header(n) /\ text[j] = Header(m)
      BY <1>5 DEF Before
    <2>2. from + i = 12 * (n - 1) + 3 /\ from + j = 12 * (m - 1) + 3
      BY <1>3, <2>1
    <2> QED BY <2>1, <2>2
  <1> QED BY <1>4, <1>5 DEF text

(* No message is handled before its header has been read. *)
Behind == \A k \in 1 .. Len(handled) : 12 * (handled[k] - 1) + 3 <= position

FramingInv == TypeOK /\ Behind /\ InOrder

(* The invariant in numbers. *)
LEMMA FramingFacts ==
  ASSUME FramingInv
  PROVE  /\ MaxMessages \in Nat /\ sent \in Nat /\ position \in Nat
         /\ position <= 12 * sent /\ sent <= MaxMessages
         /\ handled \in Seq(1 .. sent) /\ whole \subseteq 1 .. sent
         /\ \A k \in 1 .. Len(handled) :
              handled[k] \in 1 .. sent /\ 12 * (handled[k] - 1) + 3 <= position
         /\ \A i, j \in 1 .. Len(handled) : i < j => handled[i] < handled[j]
  <1>1. TypeOK /\ Behind /\ InOrder /\ MessageLen = 12
    BY StreamTokens DEF FramingInv
  <1>2. MaxMessages \in Nat /\ sent \in Nat /\ sent <= MaxMessages
    BY <1>1, FramingAssumption DEF TypeOK
  <1>3. position \in 0 .. sent * 12
    BY <1>1 DEF TypeOK
  <1>4. position \in Nat /\ position <= 12 * sent
    BY <1>2, <1>3
  <1>5. handled \in Seq(1 .. sent) /\ whole \subseteq 1 .. sent
    BY <1>1 DEF TypeOK
  <1>6. \A k \in 1 .. Len(handled) : handled[k] \in 1 .. sent
    BY <1>5, ElementOfSeq
  <1>7. \A k \in 1 .. Len(handled) : 12 * (handled[k] - 1) + 3 <= position
    BY <1>1 DEF Behind
  <1>8. DOMAIN handled = 1 .. Len(handled)
    BY <1>5
  <1>9. \A i, j \in 1 .. Len(handled) : i < j => handled[i] < handled[j]
    BY <1>1, <1>8 DEF InOrder
  <1> QED BY <1>2, <1>4, <1>5, <1>6, <1>7, <1>9

(* What is handled next comes after all that has been. *)
LEMMA HandledGrows ==
  ASSUME FramingInv, NEW from, from = position,
         NEW to \in from + 1 .. Len(Stream),
         NEW more \in Seq(1 .. MaxMessages),
         \A k \in 1 .. Len(more) : /\ from < 12 * (more[k] - 1) + 3
                                   /\ 12 * (more[k] - 1) + 3 <= to,
         \A j, k \in 1 .. Len(more) : j < k => more[j] < more[k],
         handled' = handled \o more, position' = to, sent' = sent
  PROVE  handled' \in Seq(1 .. sent) /\ Behind' /\ InOrder'
  <1> DEFINE old == handled
             new == handled \o more
  <1>1. /\ old \in Seq(1 .. sent) /\ sent \in Nat /\ from \in Nat
        /\ \A k \in 1 .. Len(old) : old[k] \in 1 .. sent
                                    /\ 12 * (old[k] - 1) + 3 <= from
        /\ \A i, j \in 1 .. Len(old) : i < j => old[i] < old[j]
    BY FramingFacts
  <1>2. Len(Stream) = 12 * sent /\ to \in Nat /\ from < to /\ to <= 12 * sent
    <2>1. Len(Stream) = 12 * sent
      BY <1>1, StreamLength
    <2> QED BY <1>1, <2>1
  <1>3. \A k \in 1 .. Len(more) : more[k] \in Nat /\ more[k] \in 1 .. sent
    <2> SUFFICES ASSUME NEW k \in 1 .. Len(more)
                 PROVE  more[k] \in Nat /\ more[k] \in 1 .. sent
      OBVIOUS
    <2> DEFINE m == more[k]
    <2>1. m \in 1 .. MaxMessages /\ 12 * (m - 1) + 3 <= to
      BY ElementOfSeq
    <2> HIDE DEF m
    <2>2. m \in Nat /\ m \in 1 .. sent
      BY <1>1, <1>2, <2>1, FramingFacts
    <2> QED BY <2>2 DEF m
  <1>4. more \in Seq(1 .. sent)
    BY <1>3, SequenceFrom
  <1>5. /\ new \in Seq(1 .. sent) /\ Len(new) = Len(old) + Len(more)
        /\ \A k \in 1 .. Len(old) : new[k] = old[k]
        /\ \A k \in Len(old) + 1 .. Len(new) :
             new[k] = more[k - Len(old)] /\ k - Len(old) \in 1 .. Len(more)
    BY <1>1, <1>4
  <1>6. Len(old) \in Nat /\ Len(more) \in Nat
    BY <1>1
  <1> HIDE DEF new
  <1>7. \A k \in 1 .. Len(new) : k \in 1 .. Len(old)
                                 \/ k \in Len(old) + 1 .. Len(new)
    BY <1>5, <1>6
  <1>8. ASSUME NEW k \in 1 .. Len(new)
        PROVE  12 * (new[k] - 1) + 3 <= to
    <2>1. CASE k \in 1 .. Len(old)
      <3> DEFINE a == old[k]
      <3>1. a \in 1 .. sent /\ 12 * (a - 1) + 3 <= from /\ new[k] = a
        BY <2>1, <1>1, <1>5
      <3> HIDE DEF a, old
      <3> QED BY <3>1, <1>1, <1>2
    <2>2. CASE k \in Len(old) + 1 .. Len(new)
      BY <2>2, <1>5
    <2> QED BY <1>7, <2>1, <2>2
  <1>9. ASSUME NEW i \in 1 .. Len(new), NEW j \in 1 .. Len(new), i < j
        PROVE  new[i] < new[j]
    <2>1. CASE j \in 1 .. Len(old)
      <3>1. i \in 1 .. Len(old)
        BY <1>6, <1>9, <2>1
      <3> QED BY <3>1, <2>1, <1>1, <1>5, <1>9
    <2>2. CASE j \in Len(old) + 1 .. Len(new) /\ i \in 1 .. Len(old)
      <3>1. new[i] = old[i] /\ new[j] = more[j - Len(old)]
            /\ j - Len(old) \in 1 .. Len(more)
        BY <2>2, <1>5
      <3> DEFINE a == old[i]
                 b == more[j - Len(old)]
      <3>2. a \in 1 .. sent /\ 12 * (a - 1) + 3 <= from
        BY <2>2, <1>1
      <3>3. b \in Nat /\ from < 12 * (b - 1) + 3
        BY <3>1, <1>3
      <3> HIDE DEF a, b
      <3>4. a < b
        BY <3>2, <3>3, <1>1
      <3> QED BY <3>1, <3>4 DEF a, b
    <2>3. CASE j \in Len(old) + 1 .. Len(new) /\ i \in Len(old) + 1 .. Len(new)
      <3>1. /\ new[i] = more[i - Len(old)] /\ i - Len(old) \in 1 .. Len(more)
            /\ new[j] = more[j - Len(old)] /\ j - Len(old) \in 1 .. Len(more)
        BY <2>3, <1>5
      <3>2. i - Len(old) < j - Len(old)
        BY <1>6, <1>9
      <3> QED BY <3>1, <3>2
    <2> QED BY <1>7, <2>1, <2>2, <2>3
  <1>10. handled' = new
    BY DEF new
  <1>11. DOMAIN new = 1 .. Len(new)
    BY <1>5
  <1>12. Behind'
    BY <1>8, <1>10 DEF Behind
  <1>13. InOrder'
    BY <1>9, <1>10, <1>11 DEF InOrder
  <1> QED BY <1>5, <1>10, <1>12, <1>13

(* The first state has handled nothing. *)
LEMMA FramingInit ==
  Init => FramingInv
  <1> SUFFICES ASSUME Init PROVE FramingInv
    OBVIOUS
  <1>1. 0 \in 0 .. MaxMessages /\ 0 * MessageLen = 0 /\ Len(handled) = 0
    BY FramingAssumption, StreamTokens DEF Init
  <1>2. TypeOK
    BY <1>1, StreamTokens DEF Init, TypeOK
  <1> QED BY <1>1, <1>2 DEF Init, FramingInv, Behind, InOrder

(* Every step keeps the order. *)
LEMMA FramingStep ==
  FramingInv /\ [Next]_vars => FramingInv'
  <1> SUFFICES ASSUME FramingInv, [Next]_vars PROVE FramingInv'
    OBVIOUS
  <1>0. /\ TypeOK /\ Behind /\ InOrder /\ MessageLen = 12
        /\ sent \in Nat /\ position \in Nat /\ MaxMessages \in Nat
    <2>1. TypeOK /\ MessageLen = 12
      BY StreamTokens DEF FramingInv
    <2>2. sent \in Nat /\ position \in Nat
      BY <2>1, FramingAssumption DEF TypeOK
    <2> QED BY <2>1, <2>2, FramingAssumption DEF FramingInv
  <1>1. CASE Write
    <2>1. sent' = sent + 1 /\ sent' \in 0 .. MaxMessages
      BY <1>0, <1>1 DEF Write
    <2>2. position' \in 0 .. sent' * MessageLen
      BY <1>0, <1>1, <2>1 DEF Write, TypeOK
    <2>3. handled' \in Seq(1 .. sent') /\ whole' \subseteq 1 .. sent'
      <3>1. handled' = handled /\ whole' = whole
        BY <1>1 DEF Write
      <3>2. handled \in Seq(1 .. sent) /\ whole \subseteq 1 .. sent
        BY <1>0 DEF TypeOK
      <3>3. 1 .. sent \subseteq 1 .. sent'
        BY <1>0, <2>1
      <3>4. ASSUME NEW k \in 1 .. Len(handled)
            PROVE  handled[k] \in 1 .. sent'
        <4>1. handled[k] \in 1 .. sent
          BY FramingFacts
        <4> QED BY <3>3, <4>1
      <3> QED BY <3>1, <3>2, <3>3, <3>4, SequenceFrom
    <2>4. TypeOK'
      BY <1>0, <1>1, <2>1, <2>2, <2>3 DEF Write, TypeOK
    <2>5. Behind' /\ InOrder'
      BY <1>0, <1>1 DEF Write, Behind, InOrder
    <2> QED BY <2>4, <2>5 DEF FramingInv
  <1>2. CASE Read
    <2>1. PICK to \in position + 1 .. Len(Stream) :
            /\ position' = to
            /\ handled' = handled \o Handled(SubSeq(Stream, position + 1, to))
            /\ whole' = whole \cup {n \in 1 .. sent : Inside(n, position, to)}
            /\ UNCHANGED <<reader, sent>>
      BY <1>2 DEF Read
    <2> DEFINE text == SubSeq(Stream, position + 1, to)
               H == Handled(text)
    <2>2. text \in Seq(Token) /\ Len(Stream) = 12 * sent
      BY <1>0, PartOfStream
    <2>3. /\ \A n \in Nat : Has(text, n) => /\ position < 12 * (n - 1) + 3
                                            /\ 12 * (n - 1) + 3 <= to
          /\ \A n, m \in Nat : Before(text, n, m) => n < m
      BY <1>0, ReadHas
    <2> HIDE DEF text
    <2>4. /\ H \in Seq(1 .. MaxMessages)
          /\ \A k \in 1 .. Len(H) : Has(text, H[k])
          /\ \A j, k \in 1 .. Len(H) : j < k => Before(text, H[j], H[k])
      BY <2>2, HandledOrdered
    <2> HIDE DEF H
    <2>5. \A k \in 1 .. Len(H) : H[k] \in Nat
      BY <1>0, <2>4
    <2>6. handled' \in Seq(1 .. sent) /\ Behind' /\ InOrder'
      <3>1. handled' = handled \o H /\ position' = to /\ sent' = sent
        BY <2>1 DEF H, text
      <3>2. \A k \in 1 .. Len(H) : /\ position < 12 * (H[k] - 1) + 3
                                   /\ 12 * (H[k] - 1) + 3 <= to
        BY <2>3, <2>4, <2>5
      <3>3. \A j, k \in 1 .. Len(H) : j < k => H[j] < H[k]
        BY <2>3, <2>4, <2>5
      <3> QED BY <2>4, <3>1, <3>2, <3>3, HandledGrows
    <2>7. position' \in 0 .. sent' * MessageLen
      BY <1>0, <2>1, <2>2
    <2>8. whole' \subseteq 1 .. sent'
      BY <1>0, <2>1 DEF TypeOK
    <2>9. sent' = sent /\ reader' = reader
      BY <2>1
    <2>10. TypeOK'
      BY <1>0, <2>6, <2>7, <2>8, <2>9 DEF TypeOK
    <2> QED BY <2>6, <2>10 DEF FramingInv
  <1>3. CASE UNCHANGED vars
    BY <1>0, <1>3 DEF vars, FramingInv, TypeOK, Behind, InOrder
  <1> QED BY <1>1, <1>2, <1>3 DEF Next

(* Messages handled were written and lie within what was read: the types   *)
(* of both readers, for any number of messages and every way to tear them. *)
THEOREM FramingTypeOK ==
  Spec => []TypeOK
  <1>1. FramingInv => TypeOK
    BY DEF FramingInv
  <1> QED BY <1>1, FramingInit, FramingStep, PTL DEF Spec

(* Server::readyRead and handleReceivedData handle messages in the order   *)
(* in which they were written and none twice, wherever the reads end and   *)
(* whatever the repair of a torn message puts back.                        *)
THEOREM FramingInOrder ==
  Spec => []InOrder
  <1>1. FramingInv => InOrder
    BY DEF FramingInv
  <1> QED BY <1>1, FramingInit, FramingStep, PTL DEF Spec

------------------------------------------------------------------------------
(* The text of a message without its white space. *)

Core(n) == << Open, Header(n), Text(n, "payload"), Open, Text(n, "value"),
              Text(n, "end of value"), Close, Close >>

(* Its tokens. *)
LEMMA CoreTokens ==
  ASSUME NEW n \in Nat
  PROVE  /\ Core(n) \in Seq(Token) /\ Len(Core(n)) = 8
         /\ Core(n)[1] = Open /\ Core(n)[2] = Header(n)
         /\ Core(n)[3] = Text(n, "payload") /\ Core(n)[4] = Open
         /\ Core(n)[5] = Text(n, "value")
         /\ Core(n)[6] = Text(n, "end of value")
         /\ Core(n)[7] = Close /\ Core(n)[8] = Close
         /\ \A k \in 1 .. 8 : Core(n)[k] # Newline
  <1> DEFINE h == Header(n)
             y == Text(n, "payload")
             v == Text(n, "value")
             ev == Text(n, "end of value")
             o == Open
             c == Close
             w == Newline
  <1>1. /\ h \in Token /\ y \in Token /\ v \in Token /\ ev \in Token
        /\ o \in Token /\ c \in Token
    BY DEF Header, Open, Close, Text, Token
  <1>2. h # w /\ y # w /\ v # w /\ ev # w /\ o # w /\ c # w
    BY DEF Header, Open, Close, Newline, Text
  <1>3. Core(n) = <<o, h, y, o, v, ev, c, c>>
    BY DEF Core
  <1> HIDE DEF h, y, v, ev, o, c, w, Token
  <1>4. Len(Core(n)) = 8
    BY <1>3
  <1>5. Core(n)[1] = o /\ Core(n)[2] = h /\ Core(n)[3] = y /\ Core(n)[4] = o
    BY <1>3
  <1>6. Core(n)[5] = v /\ Core(n)[6] = ev /\ Core(n)[7] = c /\ Core(n)[8] = c
    BY <1>3
  <1>7. \A k \in 1 .. 8 : Core(n)[k] \in Token /\ Core(n)[k] # w
    BY <1>1, <1>2, <1>5, <1>6
  <1>8. Core(n) = [k \in 1 .. 8 |-> Core(n)[k]]
    BY <1>3
  <1>9. Core(n) \in Seq(Token)
    BY <1>7, <1>8
  <1> QED BY <1>4, <1>5, <1>6, <1>7, <1>9 DEF h, y, v, ev, o, c, w

(* Text without white space stays as it is. *)
LEMMA NoSpaceDense ==
  ASSUME NEW text \in Seq(Token), \A i \in 1 .. Len(text) : text[i] # Newline
  PROVE  NoSpace(text) = text
  <1> DEFINE S == {i \in DOMAIN text : text[i] # Newline}
             out == NoSpace(text)
             N == Len(text)
             L == Len(out)
  <1>1. out = Picked(text, S) /\ S = 1 .. N
    BY DEF NoSpace
  <1>2. PICK e : /\ Ascends(e, L, S, N)
                 /\ \A k \in 1 .. L : out[k] = text[e[k]]
    <2> HIDE DEF S, out
    <2> QED BY <1>1, PickedAscends
  <1>3. out \in Seq(Token)
    BY <1>1, PickedAscends
  <1>4. N \in Nat /\ L \in Nat
    BY <1>2 DEF Ascends
  <1> HIDE DEF S, out, N, L
  <1>5. /\ e \in [1 .. L -> 1 .. N]
        /\ \A j, k \in 1 .. L : j < k => e[j] < e[k]
        /\ \A i \in 1 .. N : \E k \in 1 .. L : e[k] = i
    BY <1>1, <1>2 DEF Ascends
  <1> DEFINE Bad == {k \in 1 .. L : e[k] # k}
  <1>6. Bad = {}
    <2> SUFFICES ASSUME Bad # {} PROVE FALSE
      OBVIOUS
    <2>1. PICK k \in Bad : \A j \in 0 .. k - 1 : j \notin Bad
      <3> Bad \subseteq Nat
        OBVIOUS
      <3> HIDE DEF Bad
      <3> QED BY FirstBad
    <2>2. k \in 1 .. L /\ e[k] # k /\ e[k] \in 1 .. N
      BY <1>5
    <2>3. CASE k = 1
      <3>1. 1 \in 1 .. N
        BY <1>4, <2>2
      <3>2. PICK j \in 1 .. L : e[j] = 1
        BY <1>5, <3>1
      <3>3. j # 1
        BY <2>2, <2>3, <3>2
      <3>4. e[1] < e[j]
        BY <1>4, <1>5, <2>2, <2>3, <3>3
      <3> QED BY <2>2, <2>3, <3>2, <3>4
    <2>4. CASE k # 1
      <3>1. k - 1 \in 1 .. L /\ k - 1 \in 0 .. k - 1
        BY <1>4, <2>2, <2>4
      <3>2. e[k - 1] = k - 1
        BY <2>1, <3>1
      <3>3. e[k - 1] < e[k]
        BY <1>5, <2>2, <3>1
      <3>4. k \in 1 .. N /\ k - 1 < k
        BY <1>4, <2>2, <3>2, <3>3
      <3>5. k \in S /\ \A i \in 1 .. N : k - 1 < i /\ i < k => i \notin S
        BY <1>1, <1>4, <2>2, <3>4
      <3>6. k - 1 + 1 \in 1 .. L /\ e[k - 1 + 1] = k
        BY <1>2, <3>1, <3>2, <3>4, <3>5, NextEntry
      <3> QED BY <2>2, <3>6
    <2> QED BY <2>3, <2>4
  <1>7. \A k \in 1 .. L : e[k] = k
    BY <1>6
  <1>8. \A k \in 1 .. L : k \in 1 .. N
    BY <1>5, <1>7
  <1>9. \A i \in 1 .. N : i \in 1 .. L
    BY <1>5, <1>7
  <1>10. L = N
    <2>1. L # 0 => L \in 1 .. N
      BY <1>4, <1>8
    <2>2. N # 0 => N \in 1 .. L
      BY <1>4, <1>9
    <2> QED BY <1>4, <2>1, <2>2
  <1>11. \A k \in 1 .. L : out[k] = text[k]
    BY <1>2, <1>7
  <1>12. out = text
    BY <1>3, <1>10, <1>11 DEF L, N
  <1> QED BY <1>12 DEF out

(* After an entry comes the next position, or the one behind white space. *)
LEMMA NextOne ==
  ASSUME NEW e, NEW L, NEW S, NEW M, Ascends(e, L, S, M),
         NEW k \in 1 .. L, NEW a \in Nat, e[k] = a,
         a + 1 <= M, a + 1 \in S
  PROVE  k + 1 \in 1 .. L /\ e[k + 1] = a + 1
  <1>1. M \in Nat
    BY DEF Ascends
  <1>2. a + 1 \in 1 .. M /\ e[k] < a + 1
    BY <1>1
  <1>3. \A i \in 1 .. M : e[k] < i /\ i < a + 1 => i \notin S
    OBVIOUS
  <1> QED BY <1>2, <1>3, NextEntry

(* The next but one, when the one between is left out. *)
LEMMA NextTwo ==
  ASSUME NEW e, NEW L, NEW S, NEW M, Ascends(e, L, S, M),
         NEW k \in 1 .. L, NEW a \in Nat, e[k] = a,
         a + 2 <= M, a + 1 \notin S, a + 2 \in S
  PROVE  k + 1 \in 1 .. L /\ e[k + 1] = a + 2
  <1>1. M \in Nat
    BY DEF Ascends
  <1>2. a + 2 \in 1 .. M /\ e[k] < a + 2
    BY <1>1
  <1>3. \A i \in 1 .. M : e[k] < i /\ i < a + 2 => i = a + 1
    OBVIOUS
  <1>4. \A i \in 1 .. M : e[k] < i /\ i < a + 2 => i \notin S
    BY <1>3
  <1> QED BY <1>2, <1>4, NextEntry

(* And before it the one before the white space. *)
LEMMA BeforeTwo ==
  ASSUME NEW e, NEW L, NEW S, NEW M, Ascends(e, L, S, M),
         NEW k \in 1 .. L, NEW a \in Nat \ {0}, e[k] = a + 2,
         a + 1 \notin S, a \in S
  PROVE  k - 1 \in 1 .. L /\ e[k - 1] = a
  <1>1. M \in Nat /\ e[k] \in 1 .. M
    BY DEF Ascends
  <1>2. a \in 1 .. M /\ a < e[k]
    BY <1>1
  <1>3. \A i \in 1 .. M : a < i /\ i < e[k] => i = a + 1
    OBVIOUS
  <1>4. \A i \in 1 .. M : a < i /\ i < e[k] => i \notin S
    BY <1>3
  <1> QED BY <1>2, <1>4, EntryBefore

(* The entries of a message. *)
LEMMA MessageEntries ==
  ASSUME NEW e, NEW L, NEW S, NEW M, Ascends(e, L, S, M),
         NEW b \in Nat, b + 11 <= M,
         b + 1 \in S, b + 2 \notin S, b + 3 \in S, b + 4 \in S, b + 5 \in S,
         b + 6 \in S, b + 7 \in S, b + 8 \notin S, b + 9 \in S,
         b + 10 \notin S, b + 11 \in S
  PROVE  \E j \in 1 .. L :
           /\ j + 7 \in 1 .. L
           /\ e[j] = b + 1 /\ e[j + 1] = b + 3 /\ e[j + 2] = b + 4
           /\ e[j + 3] = b + 5 /\ e[j + 4] = b + 6 /\ e[j + 5] = b + 7
           /\ e[j + 6] = b + 9 /\ e[j + 7] = b + 11
  <1>1. M \in Nat /\ L \in Nat
    BY DEF Ascends
  <1>2. PICK j \in 1 .. L : e[j] = b + 1
    <2>1. b + 1 \in 1 .. M
      BY <1>1
    <2> QED BY <2>1 DEF Ascends
  <1>3. /\ (b + 1) + 1 = b + 2 /\ (b + 1) + 2 = b + 3 /\ (b + 3) + 1 = b + 4
        /\ (b + 4) + 1 = b + 5 /\ (b + 5) + 1 = b + 6 /\ (b + 6) + 1 = b + 7
        /\ (b + 7) + 1 = b + 8 /\ (b + 7) + 2 = b + 9 /\ (b + 9) + 1 = b + 10
        /\ (b + 9) + 2 = b + 11
    OBVIOUS
  <1>4. /\ b + 1 \in Nat /\ b + 3 \in Nat /\ b + 4 \in Nat /\ b + 5 \in Nat
        /\ b + 6 \in Nat /\ b + 7 \in Nat /\ b + 9 \in Nat
    OBVIOUS
  <1>5. /\ b + 3 <= M /\ b + 4 <= M /\ b + 5 <= M /\ b + 6 <= M
        /\ b + 7 <= M /\ b + 9 <= M /\ b + 11 <= M
    BY <1>1
  <1>6. PICK j1 : j1 = j + 1 /\ j1 \in 1 .. L /\ e[j1] = b + 3
    BY <1>2, <1>3, <1>4, <1>5, NextTwo
  <1>7. PICK j2 : j2 = j1 + 1 /\ j2 \in 1 .. L /\ e[j2] = b + 4
    BY <1>6, <1>3, <1>4, <1>5, NextOne
  <1>8. PICK j3 : j3 = j2 + 1 /\ j3 \in 1 .. L /\ e[j3] = b + 5
    BY <1>7, <1>3, <1>4, <1>5, NextOne
  <1>9. PICK j4 : j4 = j3 + 1 /\ j4 \in 1 .. L /\ e[j4] = b + 6
    BY <1>8, <1>3, <1>4, <1>5, NextOne
  <1>10. PICK j5 : j5 = j4 + 1 /\ j5 \in 1 .. L /\ e[j5] = b + 7
    BY <1>9, <1>3, <1>4, <1>5, NextOne
  <1>11. PICK j6 : j6 = j5 + 1 /\ j6 \in 1 .. L /\ e[j6] = b + 9
    BY <1>10, <1>3, <1>4, <1>5, NextTwo
  <1>12. PICK j7 : j7 = j6 + 1 /\ j7 \in 1 .. L /\ e[j7] = b + 11
    BY <1>11, <1>3, <1>4, <1>5, NextTwo
  <1>13. /\ j1 = j + 1 /\ j2 = j + 2 /\ j3 = j + 3 /\ j4 = j + 4
         /\ j5 = j + 5 /\ j6 = j + 6 /\ j7 = j + 7
    BY <1>2, <1>6, <1>7, <1>8, <1>9, <1>10, <1>11, <1>12
  <1> QED
    BY <1>2, <1>6, <1>7, <1>8, <1>9, <1>10, <1>11, <1>12, <1>13

(* The window of a message in a text. *)
Window(text, n, b) ==
  /\ b + 11 <= Len(text)
  /\ text[b + 1] = Open /\ text[b + 2] = Newline
  /\ text[b + 3] = Header(n) /\ text[b + 4] = Text(n, "payload")
  /\ text[b + 5] = Open /\ text[b + 6] = Text(n, "value")
  /\ text[b + 7] = Text(n, "end of value") /\ text[b + 8] = Newline
  /\ text[b + 9] = Close /\ text[b + 10] = Newline
  /\ text[b + 11] = Close

(* The core of message n is in out, next to what the text has next to the  *)
(* message.                                                                *)
CoreAt(out, text, n, b) ==
  \E j \in Nat \ {0} :
    /\ j + 7 <= Len(out)
    /\ \A k \in 1 .. 8 : out[j + (k - 1)] = Core(n)[k]
    /\ (\A i \in 1 .. b : text[i] = Newline) => j = 1
    /\ (b >= 2 /\ text[b] = Newline /\ text[b - 1] = Close)
         => j > 1 /\ out[j - 1] = Close
    /\ (\A i \in b + 12 .. Len(text) : text[i] = Newline)
         => j + 7 = Len(out)
    /\ (b + 13 <= Len(text) /\ text[b + 12] = Newline
          /\ text[b + 13] = Open)
         => j + 8 <= Len(out) /\ out[j + 8] = Open

(* A message in a text is, without the white space, its core.              *)
LEMMA DenseMessage ==
  ASSUME NEW text \in Seq(Token), NEW n \in Nat, NEW b \in Nat,
         Window(text, n, b)
  PROVE  CoreAt(NoSpace(text), text, n, b)
  <1> DEFINE out == NoSpace(text)
             S == {i \in DOMAIN text : text[i] # Newline}
             N == Len(text)
             L == Len(out)
  <1>1. out = Picked(text, S)
    BY DEF NoSpace
  <1>2. PICK e : /\ Ascends(e, L, S, N)
                 /\ \A k \in 1 .. L : out[k] = text[e[k]]
    <2> HIDE DEF S, out
    <2> QED BY <1>1, PickedAscends
  <1>3. \A i \in 1 .. N : i \in S <=> text[i] # Newline
    OBVIOUS
  <1>4. b + 11 <= N
    BY DEF Window
  <1> HIDE DEF S, out
  <1>5. N \in Nat /\ L \in Nat
    BY <1>2 DEF Ascends
  <1> HIDE DEF N, L
  <1>6. /\ Open # Newline /\ Close # Newline /\ Header(n) # Newline
        /\ Text(n, "payload") # Newline /\ Text(n, "value") # Newline
        /\ Text(n, "end of value") # Newline
    BY DEF Open, Close, Newline, Header, Text
  <1>7. \A k \in 1 .. 11 : b + k \in 1 .. N
    BY <1>4, <1>5
  <1>8. /\ b + 1 \in S /\ b + 2 \notin S /\ b + 3 \in S /\ b + 4 \in S
        /\ b + 5 \in S /\ b + 6 \in S /\ b + 7 \in S /\ b + 8 \notin S
        /\ b + 9 \in S /\ b + 10 \notin S /\ b + 11 \in S
    <2>1. /\ b + 1 \in 1 .. N /\ b + 2 \in 1 .. N /\ b + 3 \in 1 .. N
          /\ b + 4 \in 1 .. N /\ b + 5 \in 1 .. N /\ b + 6 \in 1 .. N
          /\ b + 7 \in 1 .. N /\ b + 8 \in 1 .. N /\ b + 9 \in 1 .. N
          /\ b + 10 \in 1 .. N /\ b + 11 \in 1 .. N
      BY <1>7
    <2> QED BY <1>3, <1>6, <2>1 DEF Window
  <1>9. PICK j \in 1 .. L :
          /\ j + 7 \in 1 .. L
          /\ e[j] = b + 1 /\ e[j + 1] = b + 3 /\ e[j + 2] = b + 4
          /\ e[j + 3] = b + 5 /\ e[j + 4] = b + 6 /\ e[j + 5] = b + 7
          /\ e[j + 6] = b + 9 /\ e[j + 7] = b + 11
    BY <1>2, <1>4, <1>8, MessageEntries
  <1>10. /\ out[j] = Open /\ out[j + 1] = Header(n)
         /\ out[j + 2] = Text(n, "payload") /\ out[j + 3] = Open
         /\ out[j + 4] = Text(n, "value")
         /\ out[j + 5] = Text(n, "end of value")
         /\ out[j + 6] = Close /\ out[j + 7] = Close
    <2>1. /\ j + 1 \in 1 .. L /\ j + 2 \in 1 .. L /\ j + 3 \in 1 .. L
          /\ j + 4 \in 1 .. L /\ j + 5 \in 1 .. L /\ j + 6 \in 1 .. L
      BY <1>5, <1>9
    <2> QED BY <1>2, <1>9, <2>1, ZenonT(30) DEF Window
  <1>11. \A k \in 1 .. 8 : out[j + (k - 1)] = Core(n)[k]
    <2> SUFFICES ASSUME NEW k \in 1 .. 8
                 PROVE  out[j + (k - 1)] = Core(n)[k]
      OBVIOUS
    <2>1. /\ j + (1 - 1) = j /\ j + (2 - 1) = j + 1 /\ j + (3 - 1) = j + 2
          /\ j + (4 - 1) = j + 3 /\ j + (5 - 1) = j + 4 /\ j + (6 - 1) = j + 5
          /\ j + (7 - 1) = j + 6 /\ j + (8 - 1) = j + 7
      OBVIOUS
    <2>2. k = 1 \/ k = 2 \/ k = 3 \/ k = 4 \/ k = 5 \/ k = 6 \/ k = 7 \/ k = 8
      OBVIOUS
    <2>3. /\ Core(n)[1] = Open /\ Core(n)[2] = Header(n)
          /\ Core(n)[3] = Text(n, "payload") /\ Core(n)[4] = Open
          /\ Core(n)[5] = Text(n, "value")
          /\ Core(n)[6] = Text(n, "end of value")
          /\ Core(n)[7] = Close /\ Core(n)[8] = Close
      BY CoreTokens
    <2> QED BY <1>10, <2>1, <2>2, <2>3
  <1>12. ASSUME \A i \in 1 .. b : text[i] = Newline PROVE j = 1
    <2>1. \A i \in 1 .. N : i < e[j] => i \in 1 .. b
      BY <1>5, <1>9
    <2>2. \A i \in 1 .. N : i < e[j] => i \notin S
      BY <1>3, <1>12, <2>1
    <2> QED BY <1>2, <2>2, EndEntries
  <1>13. ASSUME b >= 2, text[b] = Newline, text[b - 1] = Close
         PROVE  j > 1 /\ out[j - 1] = Close
    <2> DEFINE a == b - 1
    <2>1. a \in Nat \ {0} /\ a + 1 = b /\ a + 2 = b + 1
            /\ a \in 1 .. N /\ b \in 1 .. N
      BY <1>4, <1>5, <1>13
    <2>2. a \in S /\ a + 1 \notin S /\ text[a] = Close
      BY <1>3, <1>6, <1>13, <2>1
    <2> HIDE DEF a
    <2>3. e[j] = a + 2
      BY <1>9, <2>1
    <2>4. j - 1 \in 1 .. L /\ e[j - 1] = a
      BY <1>2, <2>1, <2>2, <2>3, BeforeTwo
    <2>5. j > 1
      BY <1>5, <2>4
    <2> QED BY <1>2, <2>2, <2>4, <2>5
  <1>14. ASSUME \A i \in b + 12 .. N : text[i] = Newline PROVE j + 7 = L
    <2>1. \A i \in 1 .. N : e[j + 7] < i => i \in b + 12 .. N
      BY <1>5, <1>9
    <2>2. \A i \in 1 .. N : e[j + 7] < i => i \notin S
      BY <1>3, <1>14, <2>1
    <2> DEFINE q == j + 7
    <2>3. q \in 1 .. L /\ \A i \in 1 .. N : e[q] < i => i \notin S
      BY <1>9, <2>2
    <2> HIDE DEF q
    <2>4. q = L
      BY <1>2, <2>3, EndEntries
    <2> QED BY <2>4 DEF q
  <1>15. ASSUME b + 13 <= N, text[b + 12] = Newline, text[b + 13] = Open
         PROVE  j + 8 <= L /\ out[j + 8] = Open
    <2>1. b + 12 \in 1 .. N /\ b + 13 \in 1 .. N
      BY <1>5, <1>15
    <2>2. b + 13 \in S /\ b + 12 \notin S
      BY <1>3, <1>6, <1>15, <2>1
    <2> DEFINE q == j + 7
               a == b + 11
    <2>3. a + 1 = b + 12 /\ a + 2 = b + 13 /\ a \in Nat /\ a + 2 <= N
      BY <1>5, <1>15
    <2>4. q \in 1 .. L /\ e[q] = a
      BY <1>9
    <2>5. q + 1 = j + 8
      OBVIOUS
    <2> HIDE DEF q, a
    <2>6. q + 1 \in 1 .. L /\ e[q + 1] = a + 2
      BY <1>2, <2>2, <2>3, <2>4, NextTwo
    <2>7. j + 8 \in 1 .. L /\ e[j + 8] = b + 13
      BY <2>3, <2>5, <2>6
    <2>8. j + 8 <= L
      BY <1>5, <2>7
    <2> QED BY <1>2, <1>15, <2>7, <2>8
  <1>16. j \in Nat \ {0} /\ j + 7 <= L
    BY <1>5, <1>9
  <1> QED
    BY <1>11, <1>12, <1>13, <1>14, <1>15, <1>16 DEF N, L, out, CoreAt

(* A core parses as its message. *)
LEMMA CoreParses ==
  ASSUME NEW n \in 1 .. MaxMessages
  PROVE  Parsed(Core(n)) = n
  <1>1. n \in Nat
    BY FramingAssumption
  <1>2. NoSpace(Core(n)) = Core(n) /\ Core(n) \in Seq(Token) /\ Len(Core(n)) = 8
    BY <1>1, CoreTokens, NoSpaceDense
  <1> DEFINE out == NoSpace(Message(n))
  <1>3. Message(n) \in Seq(Token) /\ Len(Message(n)) = 12
          /\ Message(n)[12] = Newline
    BY <1>1, MessageTokens
  <1>4. out \in Seq(Token)
    BY <1>3, NoSpaceHas
  <1>5. Window(Message(n), n, 0)
    <2>1. 0 + 11 <= Len(Message(n))
      BY <1>3
    <2> DEFINE msg == Message(n)
    <2>2. /\ msg[1] = Open /\ msg[2] = Newline /\ msg[3] = Header(n)
          /\ msg[4] = Text(n, "payload") /\ msg[5] = Open
          /\ msg[6] = Text(n, "value") /\ msg[7] = Text(n, "end of value")
          /\ msg[8] = Newline /\ msg[9] = Close /\ msg[10] = Newline
          /\ msg[11] = Close
      BY <1>1, MessageTokens
    <2>3. 0 + 11 <= Len(msg)
      BY <2>1
    <2> HIDE DEF msg
    <2>4. Window(msg, n, 0)
      <3>1. /\ 0 + 1 = 1 /\ 0 + 2 = 2 /\ 0 + 3 = 3 /\ 0 + 4 = 4 /\ 0 + 5 = 5
            /\ 0 + 6 = 6 /\ 0 + 7 = 7 /\ 0 + 8 = 8 /\ 0 + 9 = 9
            /\ 0 + 10 = 10 /\ 0 + 11 = 11
        OBVIOUS
      <3> QED BY <2>2, <2>3, <3>1, Zenon DEF Window
    <2> QED BY <2>4 DEF msg
  <1>6. (\A i \in 1 .. 0 : Message(n)[i] = Newline)
          /\ \A i \in 0 + 12 .. Len(Message(n)) : Message(n)[i] = Newline
    BY <1>3
  <1>7. PICK j \in Nat \ {0} :
          /\ j + 7 <= Len(out)
          /\ \A k \in 1 .. 8 : out[j + (k - 1)] = Core(n)[k]
          /\ j = 1
          /\ j + 7 = Len(out)
    <2> DEFINE msg == Message(n)
    <2>1. msg \in Seq(Token) /\ Window(msg, n, 0) /\ 0 \in Nat
      BY <1>3, <1>5
    <2>2. PICK j \in Nat \ {0} :
            /\ j + 7 <= Len(NoSpace(msg))
            /\ \A k \in 1 .. 8 : NoSpace(msg)[j + (k - 1)] = Core(n)[k]
            /\ (\A i \in 1 .. 0 : msg[i] = Newline) => j = 1
            /\ (\A i \in 0 + 12 .. Len(msg) : msg[i] = Newline)
                 => j + 7 = Len(NoSpace(msg))
      <3> DEFINE b == 0
      <3>1. b \in Nat /\ Window(msg, n, b) /\ b = 0
        BY <2>1
      <3> HIDE DEF msg, b
      <3>2. CoreAt(NoSpace(msg), msg, n, b)
        BY ONLY <1>1, <2>1, <3>1, DenseMessage
      <3> QED BY ONLY <3>1, <3>2 DEF CoreAt
    <2> QED BY <1>6, <2>2
  <1> HIDE DEF out
  <1>8. Len(out) = 8 /\ \A k \in 1 .. 8 : out[k] = Core(n)[k]
    BY <1>7
  <1>9. out = Core(n)
    BY <1>2, <1>4, <1>8
  <1> QED BY <1>2, <1>9, MessageParses DEF out

------------------------------------------------------------------------------
(* A message read whole is parsed. *)

(* Where two given tokens stand side by side. *)
LEMMA TwoAt ==
  ASSUME NEW text \in Seq(Token), NEW x, NEW y
  PROVE  \A i : i \in CutSet(text, <<x, y>>) <=>
                  i \in 1 .. Len(text) - 1 /\ text[i] = x /\ text[i + 1] = y
  <1> SUFFICES ASSUME NEW i
               PROVE  i \in CutSet(text, <<x, y>>) <=>
                        /\ i \in 1 .. Len(text) - 1
                        /\ text[i] = x /\ text[i + 1] = y
    OBVIOUS
  <1>1. Len(<<x, y>>) = 2 /\ Len(text) + 1 - 2 = Len(text) - 1
    OBVIOUS
  <1>2. i \in CutSet(text, <<x, y>>) <=>
          i \in 1 .. Len(text) - 1 /\ SubSeq(text, i, i + 1) = <<x, y>>
    <2>1. \A k \in 1 .. Len(text) - 1 : k + 2 - 1 = k + 1
      OBVIOUS
    <2> QED BY <1>1, <2>1 DEF CutSet
  <1>3. ASSUME i \in 1 .. Len(text) - 1
        PROVE  SubSeq(text, i, i + 1) = <<x, y>>
                 <=> text[i] = x /\ text[i + 1] = y
    <2> DEFINE part == SubSeq(text, i, i + 1)
    <2>1. i \in Nat \ {0} /\ i + 1 \in 0 .. Len(text)
      BY <1>3
    <2>2. /\ part \in Seq(Token) /\ Len(part) = 2
          /\ part[1] = text[i] /\ part[2] = text[i + 1]
      BY <2>1, PartOf
    <2> HIDE DEF part
    <2>3. part = <<part[1], part[2]>>
      BY <2>2
    <2>4. <<part[1], part[2]>> = <<x, y>> <=> part[1] = x /\ part[2] = y
      OBVIOUS
    <2>5. part = <<x, y>> <=> text[i] = x /\ text[i + 1] = y
      BY <2>2, <2>3, <2>4, Zenon
    <2> QED BY <2>5 DEF part
  <1> QED BY <1>2, <1>3

(* And where three do. *)
LEMMA ThreeAt ==
  ASSUME NEW text \in Seq(Token), NEW x, NEW y, NEW w
  PROVE  \A i : i \in CutSet(text, <<x, y, w>>) <=>
                  /\ i \in 1 .. Len(text) - 2
                  /\ text[i] = x /\ text[i + 1] = y /\ text[i + 2] = w
  <1> SUFFICES ASSUME NEW i
               PROVE  i \in CutSet(text, <<x, y, w>>) <=>
                        /\ i \in 1 .. Len(text) - 2
                        /\ text[i] = x /\ text[i + 1] = y /\ text[i + 2] = w
    OBVIOUS
  <1>1. Len(<<x, y, w>>) = 3 /\ Len(text) + 1 - 3 = Len(text) - 2
    OBVIOUS
  <1>2. i \in CutSet(text, <<x, y, w>>) <=>
          i \in 1 .. Len(text) - 2 /\ SubSeq(text, i, i + 2) = <<x, y, w>>
    <2>1. \A k \in 1 .. Len(text) - 2 : k + 3 - 1 = k + 2
      OBVIOUS
    <2> QED BY <1>1, <2>1, Zenon DEF CutSet
  <1>3. ASSUME i \in 1 .. Len(text) - 2
        PROVE  SubSeq(text, i, i + 2) = <<x, y, w>> <=>
                 text[i] = x /\ text[i + 1] = y /\ text[i + 2] = w
    <2> DEFINE part == SubSeq(text, i, i + 2)
    <2>1. i \in Nat \ {0} /\ i + 2 \in 0 .. Len(text)
      BY <1>3
    <2>2. /\ part \in Seq(Token) /\ Len(part) = 3
          /\ part[1] = text[i] /\ part[2] = text[i + 1] /\ part[3] = text[i + 2]
      <3>1. /\ part \in Seq(Token) /\ Len(part) = i + 2 + 1 - i
            /\ \A k \in 1 .. Len(part) : part[k] = text[i + k - 1]
        BY <2>1, PartOf
      <3>2. i + 2 + 1 - i = 3 /\ i + 1 - 1 = i /\ i + 2 - 1 = i + 1
              /\ i + 3 - 1 = i + 2
        BY <2>1
      <3>3. Len(part) = 3 /\ 1 \in 1 .. 3 /\ 2 \in 1 .. 3 /\ 3 \in 1 .. 3
        BY <3>1, <3>2
      <3> HIDE DEF part
      <3> QED BY <3>1, <3>2, <3>3, Zenon
    <2> HIDE DEF part
    <2>3. part = <<part[1], part[2], part[3]>>
      BY <2>2
    <2>4. <<part[1], part[2], part[3]>> = <<x, y, w>> <=>
            part[1] = x /\ part[2] = y /\ part[3] = w
      OBVIOUS
    <2>5. part = <<x, y, w>> <=>
            text[i] = x /\ text[i + 1] = y /\ text[i + 2] = w
      BY <2>2, <2>3, <2>4, Zenon
    <2> QED BY <2>5 DEF part
  <1> QED BY <1>2, <1>3

(* From a to z the text lies between two cuts, or an end of the text, and  *)
(* has no cut itself.                                                      *)
Between(text, sep, w, a, z) ==
  /\ text \in Seq(Token) /\ w \in Nat \ {0} /\ Len(sep) = w
  /\ a \in Nat \ {0} /\ z \in 0 .. Len(text) /\ a <= z + 1
  /\ a = 1 \/ a - w \in CutSet(text, sep)
  /\ z = Len(text) \/ z + 1 \in CutSet(text, sep)
  /\ \A i \in CutSet(text, sep) : i <= a - w \/ z < i

(* Such a part of a text is a piece.                                       *)
LEMMA PieceBetween ==
  ASSUME NEW text, NEW sep, NEW w, NEW a, NEW z, Between(text, sep, w, a, z)
  PROVE  \E p \in 1 .. Len(Split(text, sep)) :
           /\ Split(text, sep)[p] = SubSeq(text, a, z)
           /\ p = 1 <=> a = 1
           /\ p = Len(Split(text, sep)) <=> z = Len(text)
  <1> USE DEF Between
  <1> DEFINE C == CutSet(text, sep)
             c == Cuts(text, sep)
             L == Len(c)
             N == Len(text)
             pieces == Split(text, sep)
  <1>1. /\ Ascends(c, L, C, N) /\ Len(pieces) = L + 1
        /\ \A p \in 1 .. Len(pieces) :
             pieces[p] = SubSeq(text, From(text, sep, p), Upto(text, sep, p))
    BY SplitParts
  <1>2. L \in Nat /\ N \in Nat
    BY <1>1 DEF Ascends
  <1>3. \A i \in C : i \in Nat /\ 1 <= i /\ i <= N + 1 - w
    BY DEF CutSet
  <1>4. \A p \in 1 .. L + 1 :
          /\ From(text, sep, p) = IF p = 1 THEN 1 ELSE c[p - 1] + w
          /\ Upto(text, sep, p) = IF p = L + 1 THEN N ELSE c[p] - 1
    BY DEF From, Upto
  <1>5. /\ a = 1 \/ a - w \in C
        /\ z = N \/ z + 1 \in C
        /\ \A i \in C : i <= a - w \/ z < i
    OBVIOUS
  <1> HIDE DEF C, c, L, N, pieces
  <1>6. c \in [1 .. L -> 1 .. N] /\ \A k \in 1 .. L : c[k] \in C
    BY <1>1 DEF Ascends
  <1>7. a = 1 <=> ~(a - w \in C)
    BY <1>3, <1>5
  <1>8. z = N <=> ~(z + 1 \in C)
    BY <1>2, <1>3, <1>5
  <1>9. CASE a = 1
    <2>1. 1 \in 1 .. L + 1 /\ From(text, sep, 1) = 1
      BY <1>2, <1>4
    <2>2. \A i \in C : z < i
      BY <1>3, <1>5, <1>9
    <2>3. CASE z = N
      <3>1. L = 0
        <4>1. ASSUME 1 \in 1 .. L PROVE FALSE
          BY <1>2, <1>3, <1>6, <2>2, <2>3, <4>1
        <4> QED BY <1>2, <4>1
      <3>2. Upto(text, sep, 1) = N
        BY <1>4, <2>1, <3>1
      <3>3. 1 \in 1 .. Len(pieces) /\ Len(pieces) = 1
        BY <1>1, <3>1
      <3>4. pieces[1] = SubSeq(text, a, z)
        BY <1>1, <1>9, <2>1, <2>3, <3>2, <3>3
      <3> QED BY <1>9, <2>3, <3>3, <3>4 DEF N, pieces
    <2>4. CASE z # N
      <3>1. z + 1 \in C /\ z + 1 \in 1 .. N
        BY <1>2, <1>3, <1>5, <2>4
      <3>2. PICK k \in 1 .. L : c[k] = z + 1
        BY <1>1, <3>1 DEF Ascends
      <3>3. \A i \in 1 .. N : i < c[k] => i \notin C
        BY <2>2, <3>2
      <3>4. k = 1
        BY <1>1, <3>2, <3>3, EndEntries
      <3>5. Upto(text, sep, 1) = z /\ 1 # L + 1
        BY <1>2, <1>4, <2>1, <3>2, <3>4
      <3> QED BY <1>1, <1>9, <2>1, <2>4, <3>5 DEF N, pieces
    <2> QED BY <2>3, <2>4
  <1>10. CASE a # 1
    <2>1. a - w \in C /\ a - w \in 1 .. N /\ a - w \in Nat
      BY <1>2, <1>3, <1>5, <1>10
    <2>2. PICK k \in 1 .. L : c[k] = a - w
      BY <1>1, <2>1 DEF Ascends
    <2> DEFINE p == k + 1
    <2>3. p \in 1 .. L + 1 /\ p # 1 /\ p - 1 = k
      BY <1>2
    <2>4. From(text, sep, p) = a
      <3>1. From(text, sep, p) = c[k] + w
        BY <1>4, <2>3
      <3> QED BY <2>1, <2>2, <3>1
    <2>5. CASE z = N
      <3>1. \A i \in 1 .. N : c[k] < i => i \notin C
        BY <1>5, <2>1, <2>2, <2>5
      <3>2. k = L
        BY <1>1, <2>2, <3>1, EndEntries
      <3>3. p = L + 1 /\ Upto(text, sep, p) = N
        BY <1>4, <2>3, <3>2
      <3> HIDE DEF p
      <3> QED BY <1>1, <1>10, <2>3, <2>4, <2>5, <3>3 DEF N, pieces
    <2>6. CASE z # N
      <3>1. z + 1 \in C /\ z + 1 \in 1 .. N
        BY <1>2, <1>3, <1>5, <2>6
      <3>2. c[k] < z + 1
        <4>1. PICK m \in 1 .. L : c[m] = z + 1
          BY <1>1, <3>1 DEF Ascends
        <4>2. a - w < z + 1
          BY <1>2, <2>1
        <4> QED BY <2>2, <4>2
      <3>3. \A i \in 1 .. N : c[k] < i /\ i < z + 1 => i \notin C
        BY <1>2, <1>5, <2>1, <2>2
      <3>4. k + 1 \in 1 .. L /\ c[k + 1] = z + 1
        BY <1>1, <2>2, <3>1, <3>2, <3>3, NextEntry
      <3>5. p # L + 1 /\ Upto(text, sep, p) = z
        BY <1>2, <1>4, <2>3, <3>4
      <3> HIDE DEF p
      <3> QED BY <1>1, <1>10, <2>3, <2>4, <2>6, <3>5 DEF N, pieces
    <2> QED BY <2>5, <2>6
  <1> QED BY <1>9, <1>10

(* What stands around the window of a message in the stream. *)
Edges(text, b) ==
  /\ b >= 1 => text[b] = Newline
  /\ b >= 2 => text[b - 1] = Close
  /\ b + 12 <= Len(text) => text[b + 12] = Newline
  /\ b + 13 <= Len(text) => text[b + 13] = Open

(* A read that gets all of a message has its window. *)
LEMMA ReadWindow ==
  ASSUME sent \in Nat, NEW from \in Nat, NEW to \in from + 1 .. Len(Stream),
         NEW n \in Nat \ {0}, Inside(n, from, to)
  PROVE  LET text == SubSeq(Stream, from + 1, to) IN
         \E b \in Nat : /\ from + b = 12 * (n - 1)
                        /\ Window(text, n, b)
                        /\ Edges(text, b)
  <1> DEFINE text == SubSeq(Stream, from + 1, to)
             m == n - 1
             b == 12 * m - from
  <1>0. /\ Len(text) = to - from
        /\ \A i \in 1 .. to - from : text[i] = TokenAt(from + i)
    BY PartOfStream
  <1>a. to \in Nat /\ n \in Nat
    BY PartOfStream
  <1>1. /\ Len(text) = to - from /\ to \in Nat
        /\ \A i \in 1 .. to - from : text[i] = TokenAt(from + i)
    BY <1>0, <1>a
  <1>2. m \in Nat /\ m + 1 = n
    OBVIOUS
  <1>3. from <= m * 12 /\ n * 12 - 1 <= to
    BY StreamTokens DEF Inside
  <1>4. b \in Nat /\ from + b = 12 * m /\ b + 11 <= to - from
    BY <1>1, <1>2, <1>3
  <1> HIDE DEF text, m, b
  <1>5. \A k \in 1 .. 13 :
          b + k <= to - from => text[b + k] = TokenAt(12 * m + k)
    <2> SUFFICES ASSUME NEW k \in 1 .. 13, b + k <= to - from
                 PROVE  text[b + k] = TokenAt(12 * m + k)
      OBVIOUS
    <2>1. b + k \in 1 .. to - from /\ from + (b + k) = 12 * m + k
      BY <1>1, <1>2, <1>4
    <2> QED BY <1>1, <2>1
  <1>6. \A k \in 1 .. 12 : TokenAt(12 * m + k) = Message(n)[k]
    BY <1>2, StreamTokens
  <1>7. \A k \in 1 .. 11 : text[b + k] = Message(n)[k]
    <2> SUFFICES ASSUME NEW k \in 1 .. 11
                 PROVE  text[b + k] = Message(n)[k]
      OBVIOUS
    <2>1. b + k <= to - from /\ k \in 1 .. 12 /\ k \in 1 .. 13
      BY <1>1, <1>4
    <2>2. text[b + k] = TokenAt(12 * m + k)
      BY <1>5, <2>1, Zenon
    <2>3. TokenAt(12 * m + k) = Message(n)[k]
      BY <1>6, <2>1, Zenon
    <2> QED BY <2>2, <2>3
  <1>8. Window(text, n, b)
    <2>1. /\ text[b + 1] = Message(n)[1] /\ text[b + 2] = Message(n)[2]
          /\ text[b + 3] = Message(n)[3] /\ text[b + 4] = Message(n)[4]
          /\ text[b + 5] = Message(n)[5] /\ text[b + 6] = Message(n)[6]
          /\ text[b + 7] = Message(n)[7] /\ text[b + 8] = Message(n)[8]
          /\ text[b + 9] = Message(n)[9] /\ text[b + 10] = Message(n)[10]
          /\ text[b + 11] = Message(n)[11]
      BY <1>7
    <2>2. b + 11 <= Len(text)
      BY <1>1, <1>4
    <2>3. n \in Nat
      OBVIOUS
    <2> QED BY <2>1, <2>2, <2>3, MessageTokens, Zenon DEF Window
  <1>9. b + 12 <= Len(text) => text[b + 12] = Newline
    <2>1. 12 \in 1 .. 12 /\ 12 \in 1 .. 13
      OBVIOUS
    <2>2. TokenAt(12 * m + 12) = Message(n)[12]
      BY <1>6, <2>1, Zenon
    <2>3. Message(n)[12] = Newline
      BY <1>a, MessageTokens, Zenon
    <2> QED BY <1>1, <1>5, <2>1, <2>2, <2>3, Zenon
  <1>10. b + 13 <= Len(text) => text[b + 13] = Open
    <2> DEFINE q == m + 1
    <2>1. q \in Nat /\ 12 * q + 1 = 12 * m + 13 /\ 13 \in 1 .. 13
      BY <1>2
    <2> HIDE DEF q
    <2>2. TokenAt(12 * q + 1) = Open
      BY <2>1, OpenPlaces
    <2> QED BY <1>1, <1>5, <2>1, <2>2
  <1>11. b >= 1 => text[b] = Newline /\ (b >= 2 => text[b - 1] = Close)
    <2> SUFFICES ASSUME b >= 1
                 PROVE  text[b] = Newline /\ (b >= 2 => text[b - 1] = Close)
      OBVIOUS
    <2> DEFINE q == m - 1
    <2>1. q \in Nat /\ 12 * m = 12 * q + 12 /\ 12 * m - 1 = 12 * q + 11
      BY <1>2, <1>4
    <2>2. TokenAt(12 * m) = Newline
      <3>0. q + 1 \in Nat /\ 12 \in 1 .. 12
        BY <2>1
      <3> HIDE DEF q
      <3>1. TokenAt(12 * q + 12) = Message(q + 1)[12]
        BY <2>1, <3>0, StreamTokens, Zenon
      <3>2. Message(q + 1)[12] = Newline
        BY <3>0, MessageTokens, Zenon
      <3> QED BY <2>1, <3>1, <3>2
    <2>3. TokenAt(12 * m - 1) = Close
      <3> HIDE DEF q
      <3> QED BY <2>1, ClosePlaces
    <2>4. b \in 1 .. to - from /\ from + b = 12 * m
      BY <1>1, <1>4
    <2>5. b >= 2 => b - 1 \in 1 .. to - from /\ from + (b - 1) = 12 * m - 1
      BY <1>1, <1>4
    <2> QED BY <1>1, <2>2, <2>3, <2>4, <2>5
  <1>12. Edges(text, b)
    BY <1>4, <1>9, <1>10, <1>11 DEF Edges
  <1>13. b \in Nat /\ from + b = 12 * (n - 1)
    BY <1>4 DEF m
  <1> QED BY ONLY <1>8, <1>12, <1>13, Zenon DEF text

(* A part of a sequence that is not empty. *)
LEMMA PartWithin ==
  ASSUME NEW V, NEW seq \in Seq(V), NEW lo \in Nat \ {0},
         NEW hi \in 0 .. Len(seq), lo <= hi
  PROVE  /\ SubSeq(seq, lo, hi) \in Seq(V)
         /\ Len(SubSeq(seq, lo, hi)) = hi - lo + 1
         /\ \A i \in 1 .. Len(SubSeq(seq, lo, hi)) :
              SubSeq(seq, lo, hi)[i] = seq[lo + i - 1]
  OBVIOUS

(* The elements of three sequences joined. *)
LEMMA Joined ==
  ASSUME NEW V, NEW left \in Seq(V), NEW mid \in Seq(V), NEW right \in Seq(V)
  PROVE  LET new == left \o mid \o right IN
         /\ new \in Seq(V) /\ Len(new) = Len(left) + Len(mid) + Len(right)
         /\ \A i \in 1 .. Len(left) : new[i] = left[i]
         /\ \A i \in Len(left) + 1 .. Len(left) + Len(mid) :
              new[i] = mid[i - Len(left)]
         /\ \A i \in Len(left) + Len(mid) + 1 .. Len(new) :
              new[i] = right[i - Len(left) - Len(mid)]
  <1> DEFINE l == Len(left)
             m == Len(mid)
             r == Len(right)
             new == left \o mid \o right
  <1> DEFINE two == left \o mid
  <1>1. l \in Nat /\ m \in Nat /\ r \in Nat
    OBVIOUS
  <1>2. /\ two \in Seq(V) /\ Len(two) = l + m
        /\ \A i \in 1 .. l + m :
             two[i] = IF i <= l THEN left[i] ELSE mid[i - l]
    BY ConcatProperties, Zenon
  <1>3. new = two \o right
    OBVIOUS
  <1>a. r = Len(right)
    OBVIOUS
  <1> HIDE DEF two, l, m, r, new
  <1>4. /\ two \o right \in Seq(V)
        /\ Len(two \o right) = Len(two) + Len(right)
        /\ \A i \in 1 .. Len(two) + Len(right) :
             (two \o right)[i]
               = IF i <= Len(two) THEN two[i] ELSE right[i - Len(two)]
    <2>1. two \in Seq(V) /\ right \in Seq(V)
      BY <1>2
    <2> QED BY ONLY <2>1, ConcatProperties
  <1>5. /\ new \in Seq(V) /\ Len(new) = l + m + r
        /\ \A i \in 1 .. l + m + r :
             new[i] = IF i <= l + m THEN two[i] ELSE right[i - (l + m)]
    BY <1>2, <1>3, <1>4, <1>a, Zenon
  <1>6. \A i \in 1 .. l : new[i] = left[i]
    BY <1>1, <1>2, <1>5
  <1>7. \A i \in l + 1 .. l + m : new[i] = mid[i - l]
    BY <1>1, <1>2, <1>5
  <1>8. \A i \in l + m + 1 .. l + m + r : new[i] = right[i - l - m]
    <2> SUFFICES ASSUME NEW i \in l + m + 1 .. l + m + r
                 PROVE  new[i] = right[i - l - m]
      OBVIOUS
    <2>1. i - (l + m) = i - l - m /\ i \in 1 .. l + m + r /\ ~(i <= l + m)
      BY <1>1
    <2> QED BY <1>5, <2>1
  <1>9. \A i \in l + m + 1 .. Len(new) : new[i] = right[i - l - m]
    BY <1>5, <1>8
  <1> QED BY <1>5, <1>6, <1>7, <1>9 DEF l, m, r, new

(* A core that a text has behind s, with its first l and last r tokens     *)
(* apart.                                                                  *)
Frames(out, core, N, s, left, l, right, r) ==
  /\ out \in Seq(Token) /\ core \in Seq(Token) /\ N \in Nat /\ Len(core) = N
  /\ s \in Nat /\ s + N <= Len(out)
  /\ \A k \in 1 .. N : out[s + k] = core[k]
  /\ left \in Seq(Token) /\ l \in Nat /\ Len(left) = l
  /\ right \in Seq(Token) /\ r \in Nat /\ Len(right) = r /\ l + r < N
  /\ \A i \in 1 .. l : left[i] = core[i]
  /\ \A i \in 1 .. r : right[i] = core[N - r + i]

(* The text between those ends with the ends put back. *)
Framed(out, N, s, left, l, right, r) ==
  left \o SubSeq(out, s + l + 1, s + N - r) \o right

(* It is the core. *)
LEMMA Wrapped ==
  ASSUME NEW out, NEW core, NEW N, NEW s, NEW left, NEW l, NEW right, NEW r,
         Frames(out, core, N, s, left, l, right, r)
  PROVE  Framed(out, N, s, left, l, right, r) = core
  <1> DEFINE V == Token
  <1> HIDE DEF V
  <1>0. /\ out \in Seq(V) /\ core \in Seq(V) /\ N \in Nat /\ Len(core) = N
        /\ s \in Nat /\ s + N <= Len(out)
        /\ \A k \in 1 .. N : out[s + k] = core[k]
        /\ left \in Seq(V) /\ l \in Nat /\ Len(left) = l
        /\ right \in Seq(V) /\ r \in Nat /\ Len(right) = r /\ l + r < N
        /\ \A i \in 1 .. l : left[i] = core[i]
        /\ \A i \in 1 .. r : right[i] = core[N - r + i]
    BY DEF Frames, V
  <1> USE <1>0
  <1> DEFINE lo == s + l + 1
             hi == s + N - r
             mid == SubSeq(out, lo, hi)
             new == left \o mid \o right
  <1>1. lo \in Nat \ {0} /\ hi \in 0 .. Len(out) /\ lo <= hi
    BY LenProperties
  <1>2. hi - lo + 1 = N - l - r /\ N - l - r \in Nat
    OBVIOUS
  <1>3. \A i \in Nat : lo + i - 1 = s + (l + i)
    OBVIOUS
  <1> HIDE DEF lo, hi
  <1>4. /\ mid \in Seq(V) /\ Len(mid) = hi - lo + 1
        /\ \A i \in 1 .. Len(mid) : mid[i] = out[lo + i - 1]
    <2>1. out \in Seq(V)
      BY <1>0
    <2> QED BY ONLY <1>1, <2>1, PartWithin
  <1> HIDE DEF mid
  <1>5. Len(mid) = N - l - r
    BY <1>2, <1>4
  <1>6. /\ new \in Seq(V) /\ Len(new) = l + Len(mid) + r
        /\ \A i \in 1 .. l : new[i] = left[i]
        /\ \A i \in l + 1 .. l + Len(mid) : new[i] = mid[i - l]
        /\ \A i \in l + Len(mid) + 1 .. Len(new) :
             new[i] = right[i - l - Len(mid)]
    <2>1. /\ new \in Seq(V) /\ Len(new) = Len(left) + Len(mid) + Len(right)
          /\ \A i \in 1 .. Len(left) : new[i] = left[i]
          /\ \A i \in Len(left) + 1 .. Len(left) + Len(mid) :
               new[i] = mid[i - Len(left)]
          /\ \A i \in Len(left) + Len(mid) + 1 .. Len(new) :
               new[i] = right[i - Len(left) - Len(mid)]
      <3>1. left \in Seq(V) /\ mid \in Seq(V) /\ right \in Seq(V)
        BY <1>4
      <3> QED BY ONLY <3>1, Joined
    <2>2. Len(left) = l /\ Len(right) = r
      OBVIOUS
    <2> HIDE DEF new
    <2> QED BY <2>1, <2>2, Zenon
  <1>7. Len(new) = N
    BY <1>5, <1>6
  <1> HIDE DEF new
  <1>8. ASSUME NEW k \in 1 .. N PROVE new[k] = core[k]
    <2>1. CASE k \in 1 .. l
      BY <1>6, <2>1
    <2>2. CASE k \in l + 1 .. N - r
      <3> DEFINE i == k - l
      <3>1. i \in 1 .. Len(mid) /\ k \in l + 1 .. l + Len(mid) /\ i \in Nat
              /\ l + i = k
        BY <1>2, <1>5, <2>2
      <3>2. new[k] = mid[i]
        BY <1>6, <3>1
      <3> HIDE DEF i
      <3>3. mid[i] = out[s + k]
        <4>1. mid[i] = out[lo + i - 1]
          BY ONLY <1>4, <3>1, Zenon
        <4>2. lo + i - 1 = s + (l + i)
          BY ONLY <1>3, <3>1, Zenon
        <4>3. l + i = k
          BY ONLY <3>1, Zenon
        <4> QED BY ONLY <4>1, <4>2, <4>3, Zenon
      <3> QED BY <3>2, <3>3
    <2>3. CASE k \in N - r + 1 .. N
      <3> DEFINE i == k - l - Len(mid)
      <3>1. i \in 1 .. r /\ k \in l + Len(mid) + 1 .. Len(new) /\ N - r + i = k
        BY <1>2, <1>5, <1>7, <2>3
      <3>2. new[k] = right[i]
        BY <1>6, <3>1
      <3> HIDE DEF i
      <3> QED BY <3>1, <3>2
    <2> QED BY <1>2, <2>1, <2>2, <2>3
  <1>9. new = core
    <2>1. new \in Seq(V) /\ core \in Seq(V) /\ Len(core) = N
      BY <1>0, <1>6
    <2> QED BY ONLY <1>7, <1>8, <2>1
  <1> QED BY <1>9 DEF new, mid, lo, hi, Framed

(* What may be put back: one brace at most. *)
LEMMA Brace ==
  ASSUME NEW brace, NEW seq, seq = << >> \/ seq = <<brace>>, brace \in Token
  PROVE  /\ seq \in Seq(Token) /\ Len(seq) \in 0 .. 1
         /\ \A i \in 1 .. Len(seq) : i = 1 /\ seq[i] = brace
  <1> HIDE DEF Token
  <1>1. CASE seq = << >>
    BY <1>1
  <1>2. CASE seq = <<brace>>
    BY <1>2
  <1> QED BY <1>1, <1>2

(* Server::readyRead makes the core of a message out of its window.  No    *)
(* cut lies inside the core, and each end of it is a cut or an end of the  *)
(* text.                                                                   *)
LEMMA ServerWhole ==
  ASSUME NEW text \in Seq(Token), NEW n \in Nat, NEW b \in Nat,
         Window(text, n, b), Edges(text, b)
  PROVE  \E p \in 1 .. Len(ServerRequests(text)) :
           ServerRequests(text)[p] = Core(n)
  <1> DEFINE out == NoSpace(text)
             L == Len(out)
             sep == <<Close, Open>>
             pieces == Split(out, sep)
             left(p) == IF p = 1 THEN << >> ELSE <<Open>>
             right(p) == IF p = Len(pieces) THEN << >> ELSE <<Close>>
             made == [p \in DOMAIN pieces |-> left(p) \o pieces[p] \o right(p)]
  <1>1. made = ServerRequests(text)
    BY DEF ServerRequests
  <1>2. out \in Seq(Token)
    BY NoSpaceHas
  <1>3. Len(sep) = 2
    OBVIOUS
  <1>4. /\ b = 0 \/ (\A i \in 1 .. b : text[i] = Newline)
           \/ (b >= 2 /\ text[b] = Newline /\ text[b - 1] = Close)
        /\ (\A i \in b + 12 .. Len(text) : text[i] = Newline)
           \/ (b + 13 <= Len(text) /\ text[b + 12] = Newline
                 /\ text[b + 13] = Open)
    BY DEF Edges
  <1>5. PICK j \in Nat \ {0} :
          /\ j + 7 <= L
          /\ \A k \in 1 .. 8 : out[j + (k - 1)] = Core(n)[k]
          /\ j = 1 \/ (j > 1 /\ out[j - 1] = Close)
          /\ j + 7 = L \/ (j + 8 <= L /\ out[j + 8] = Open)
    <2>1. PICK j \in Nat \ {0} :
           /\ j + 7 <= Len(out)
           /\ \A k \in 1 .. 8 : out[j + (k - 1)] = Core(n)[k]
           /\ (\A i \in 1 .. b : text[i] = Newline) => j = 1
           /\ (b >= 2 /\ text[b] = Newline /\ text[b - 1] = Close)
                => j > 1 /\ out[j - 1] = Close
           /\ (\A i \in b + 12 .. Len(text) : text[i] = Newline)
                => j + 7 = Len(out)
           /\ (b + 13 <= Len(text) /\ text[b + 12] = Newline
                 /\ text[b + 13] = Open)
                => j + 8 <= Len(out) /\ out[j + 8] = Open
      BY DenseMessage DEF CoreAt
    <2>2. b = 0 => \A i \in 1 .. b : text[i] = Newline
      OBVIOUS
    <2> QED BY <1>4, <2>1, <2>2, Zenon
  <1> DEFINE core(k) == Core(n)[k]
  <1>6. /\ Core(n)[1] = Open /\ Core(n)[8] = Close /\ Core(n)[7] = Close
        /\ \A k \in 1 .. 6 : Core(n)[k] # Close
        /\ Core(n) \in Seq(Token) /\ Len(Core(n)) = 8
    <2>1. /\ Open # Close /\ Header(n) # Close /\ Text(n, "payload") # Close
          /\ Text(n, "value") # Close /\ Text(n, "end of value") # Close
      BY DEF Open, Close, Header, Text
    <2> DEFINE co == Core(n)
    <2>2. /\ co \in Seq(Token) /\ Len(co) = 8
          /\ co[1] = Open /\ co[2] = Header(n)
          /\ co[3] = Text(n, "payload") /\ co[4] = Open
          /\ co[5] = Text(n, "value") /\ co[6] = Text(n, "end of value")
          /\ co[7] = Close /\ co[8] = Close
      BY CoreTokens
    <2> HIDE DEF co
    <2>3. ASSUME NEW k \in 1 .. 6 PROVE co[k] # Close
      <3>1. k = 1 \/ k = 2 \/ k = 3 \/ k = 4 \/ k = 5 \/ k = 6
        OBVIOUS
      <3> QED BY ONLY <2>1, <2>2, <3>1, Zenon
    <2> QED BY <2>2, <2>3 DEF co
  <1>7. \A i : i \in CutSet(out, sep) <=>
                 i \in 1 .. L - 1 /\ out[i] = Close /\ out[i + 1] = Open
    BY <1>2, TwoAt
  <1>8. Open # Close
    BY Headers
  <1>9. L \in Nat
    BY <1>2
  <1> HIDE DEF out, L, sep, pieces, core
  <1>10. \A i \in CutSet(out, sep) : i < j \/ j + 7 <= i
    <2> SUFFICES ASSUME NEW i \in CutSet(out, sep), j <= i, i < j + 7
                 PROVE  FALSE
      BY <1>7, <1>9
    <2> DEFINE k == i - j + 1
    <2>a. i \in 1 .. L - 1 /\ out[i] = Close /\ out[i + 1] = Open
      BY <1>7
    <2>b. i \in Nat /\ k \in 1 .. 7 /\ j + (k - 1) = i /\ k \in 1 .. 8
      BY <1>9, <2>a
    <2> HIDE DEF k
    <2>1. i \in Nat /\ k \in 1 .. 7 /\ j + (k - 1) = i
          /\ k \in 1 .. 8 /\ out[i] = Close /\ out[i + 1] = Open
      BY <2>a, <2>b
    <2>2. out[i] = Core(n)[k]
      BY <1>5, <2>1
    <2>3. k = 7
      <3>1. ~(k \in 1 .. 6)
        BY <1>6, <2>1, <2>2
      <3> QED BY <2>1, <3>1
    <2>4. i + 1 = j + (8 - 1) /\ 8 \in 1 .. 8
      BY <2>1, <2>3
    <2>5. out[i + 1] = Core(n)[8]
      BY <1>5, <2>4
    <2> QED BY <1>6, <1>8, <2>1, <2>5
  <1> DEFINE a == IF j = 1 THEN 1 ELSE j + 1
             z == IF j + 7 = L THEN L ELSE j + 6
  <1>11. a \in Nat \ {0} /\ z \in 0 .. L /\ a <= z + 1
    BY <1>5, <1>9, SMTT(30)
  <1>12. a = 1 \/ a - 2 \in CutSet(out, sep)
    <2> SUFFICES ASSUME j # 1 PROVE a - 2 \in CutSet(out, sep)
      OBVIOUS
    <2>1. a - 2 = j - 1 /\ j - 1 \in 1 .. L - 1 /\ (j - 1) + 1 = j
            /\ j + (1 - 1) = j /\ 1 \in 1 .. 8
      BY <1>5, <1>9
    <2>2. out[j] = Open
      BY <1>5, <1>6, <2>1
    <2> QED BY <1>5, <1>7, <2>1, <2>2
  <1>13. z = L \/ z + 1 \in CutSet(out, sep)
    <2> SUFFICES ASSUME j + 7 # L PROVE z + 1 \in CutSet(out, sep)
      OBVIOUS
    <2>1. z + 1 = j + 7 /\ j + 7 \in 1 .. L - 1 /\ (j + 7) + 1 = j + 8
            /\ j + (8 - 1) = j + 7 /\ 8 \in 1 .. 8
      BY <1>5, <1>9
    <2>2. out[j + 7] = Close
      BY <1>5, <1>6, <2>1
    <2> QED BY <1>5, <1>7, <2>1, <2>2
  <1>14. \A i \in CutSet(out, sep) : i <= a - 2 \/ z < i
    <2> SUFFICES ASSUME NEW i \in CutSet(out, sep)
                 PROVE  i <= a - 2 \/ z < i
      OBVIOUS
    <2>1. i \in Nat /\ 1 <= i /\ i <= L - 1 /\ (i < j \/ j + 7 <= i)
      BY <1>7, <1>9, <1>10
    <2> QED BY <1>5, <1>9, <2>1, SMTT(30)
  <1>15. (a = 1 <=> j = 1) /\ (z = L <=> j + 7 = L)
    BY <1>5, <1>9, SMTT(30)
  <1>16. a = IF j = 1 THEN j ELSE j + 1
    OBVIOUS
  <1>17. z = IF j + 7 = L THEN j + 7 ELSE j + 6
    OBVIOUS
  <1> HIDE DEF a, z
  <1>18. PICK p \in 1 .. Len(pieces) :
           /\ pieces[p] = SubSeq(out, a, z)
           /\ p = 1 <=> a = 1
           /\ p = Len(pieces) <=> z = Len(out)
    <2>1. /\ a \in Nat \ {0} /\ z \in 0 .. Len(out) /\ a <= z + 1
          /\ z = Len(out) \/ z + 1 \in CutSet(out, sep)
      BY <1>11, <1>13 DEF L
    <2>2. \E p \in 1 .. Len(Split(out, sep)) :
            /\ Split(out, sep)[p] = SubSeq(out, a, z)
            /\ p = 1 <=> a = 1
            /\ p = Len(Split(out, sep)) <=> z = Len(out)
      <3> DEFINE w == 2
      <3>1. w \in Nat \ {0} /\ Len(sep) = w
        BY <1>3
      <3>2. (a = 1 \/ a - w \in CutSet(out, sep))
              /\ \A i \in CutSet(out, sep) : i <= a - w \/ z < i
        BY <1>12, <1>14
      <3> HIDE DEF w
      <3>3. Between(out, sep, w, a, z)
        BY <1>2, <2>1, <3>1, <3>2 DEF Between
      <3> QED BY <3>3, PieceBetween
    <2> QED BY <2>2 DEF pieces
  <1>19. DOMAIN pieces = 1 .. Len(pieces) /\ Len(pieces) \in Nat
    BY <1>2, <1>3, SplitParts DEF pieces
  <1>20. made[p] = left(p) \o SubSeq(out, a, z) \o right(p)
    BY <1>18, <1>19
  <1>21. Len(made) = Len(pieces)
    <2> DEFINE N == Len(pieces)
    <2>1. made = [q \in 1 .. N |-> made[q]] /\ N \in Nat
      BY <1>19
    <2> HIDE DEF N, made
    <2>2. Len(made) = N
      BY <2>1
    <2> QED BY <2>2 DEF N
  <1> DEFINE l == Len(left(p))
             r == Len(right(p))
  <1>22. /\ left(p) \in Seq(Token) /\ l = (IF j = 1 THEN 0 ELSE 1)
         /\ \A i \in 1 .. l : left(p)[i] = Core(n)[i]
    <2>1. CASE j = 1
      <3>1. left(p) = << >>
        BY <1>15, <1>18, <2>1
      <3> QED BY <2>1, <3>1
    <2>2. CASE j # 1
      <3>1. left(p) = <<Open>>
        BY <1>15, <1>18, <2>2
      <3>2. Open \in Token
        BY BracesAreTokens
      <3> HIDE DEF Token
      <3> QED BY <1>6, <2>2, <3>1, <3>2
    <2> QED BY <2>1, <2>2
  <1>23. /\ right(p) \in Seq(Token) /\ r = (IF j + 7 = L THEN 0 ELSE 1)
         /\ \A i \in 1 .. r : right(p)[i] = Core(n)[8 - r + i]
    <2>1. CASE j + 7 = L
      <3>1. right(p) = << >>
        BY <1>15, <1>18, <2>1 DEF L
      <3> QED BY <2>1, <3>1
    <2>2. CASE j + 7 # L
      <3>1. right(p) = <<Close>>
        BY <1>15, <1>18, <2>2 DEF L
      <3>2. Close \in Token
        BY BracesAreTokens
      <3> HIDE DEF Token
      <3>3. right(p) \in Seq(Token) /\ r = 1 /\ right(p)[1] = Close
        BY <3>1, <3>2
      <3> HIDE DEF r
      <3>4. \A i \in 1 .. r : i = 1 /\ 8 - r + i = 8
        BY <3>3
      <3> QED BY <1>6, <2>2, <3>3, <3>4
    <2> QED BY <2>1, <2>2
  <1>24. made[p] = Core(n)
    <2> DEFINE le == left(p)
               ri == right(p)
               s == j - 1
               co == Core(n)
    <2>1. s \in Nat /\ s + 8 <= Len(out) /\ \A k \in 1 .. 8 : out[s + k] = co[k]
      <3>1. \A k \in 1 .. 8 : s + k = j + (k - 1)
        OBVIOUS
      <3> QED BY <1>5, <3>1 DEF L
    <2>2. /\ l \in Nat /\ r \in Nat /\ l + r < 8
          /\ a = s + l + 1 /\ z = s + 8 - r
      BY <1>16, <1>17, <1>22, <1>23
    <2>3. co \in Seq(Token) /\ Len(co) = 8 /\ 8 \in Nat
      BY <1>6
    <2>4. /\ le \in Seq(Token) /\ Len(le) = l
          /\ \A i \in 1 .. l : le[i] = co[i]
          /\ ri \in Seq(Token) /\ Len(ri) = r
          /\ \A i \in 1 .. r : ri[i] = co[8 - r + i]
      BY <1>22, <1>23
    <2>5. made[p] = le \o SubSeq(out, s + l + 1, s + 8 - r) \o ri
      BY <1>20, <2>2
    <2> DEFINE N == 8
    <2> HIDE DEF le, ri, s, co, l, r, made
    <2>6. /\ N \in Nat /\ Len(co) = N /\ s + N <= Len(out) /\ l + r < N
          /\ \A k \in 1 .. N : out[s + k] = co[k]
          /\ \A i \in 1 .. r : ri[i] = co[N - r + i]
      BY <2>1, <2>2, <2>3, <2>4
    <2>7. s \in Nat /\ l \in Nat /\ r \in Nat
      BY <2>1, <2>2
    <2>8. made[p] = Framed(out, N, s, le, l, ri, r)
      BY <2>5 DEF Framed
    <2> HIDE DEF N
    <2>9. Framed(out, N, s, le, l, ri, r) = co
      <3>1. Frames(out, co, N, s, le, l, ri, r)
        <4>1. out \in Seq(Token) /\ co \in Seq(Token)
          BY <1>2, <2>3
        <4>2. /\ le \in Seq(Token) /\ Len(le) = l
              /\ ri \in Seq(Token) /\ Len(ri) = r
          BY <2>4
        <4>3. \A i \in 1 .. l : le[i] = co[i]
          BY <2>4
        <4> HIDE DEF Token
        <4> QED BY ONLY <4>1, <4>2, <4>3, <2>6, <2>7 DEF Frames
      <3> HIDE DEF left, right
      <3> QED BY <3>1, Wrapped
    <2> QED BY <2>8, <2>9 DEF co
  <1> QED BY <1>1, <1>18, <1>21, <1>24

(* The text of a message without its outer braces and its white space. *)
Bare(n) == << Header(n), Text(n, "payload"), Open, Text(n, "value"),
              Text(n, "end of value") >>

(* Its tokens. *)
LEMMA BareTokens ==
  ASSUME NEW n \in Nat
  PROVE  /\ Bare(n) \in Seq(Token) /\ Len(Bare(n)) = 5
         /\ Bare(n)[1] = Header(n) /\ Bare(n)[2] = Text(n, "payload")
         /\ Bare(n)[3] = Open /\ Bare(n)[4] = Text(n, "value")
         /\ Bare(n)[5] = Text(n, "end of value")
         /\ \A k \in 1 .. 5 : Bare(n)[k] # Newline
  <1> DEFINE h == Header(n)
             y == Text(n, "payload")
             v == Text(n, "value")
             ev == Text(n, "end of value")
             o == Open
             w == Newline
  <1>1. h \in Token /\ y \in Token /\ v \in Token /\ ev \in Token /\ o \in Token
    BY DEF Header, Open, Text, Token
  <1>2. h # w /\ y # w /\ v # w /\ ev # w /\ o # w
    BY DEF Header, Open, Newline, Text
  <1>3. Bare(n) = <<h, y, o, v, ev>>
    BY DEF Bare
  <1> HIDE DEF h, y, v, ev, o, w, Token
  <1>4. /\ Len(Bare(n)) = 5 /\ Bare(n)[1] = h /\ Bare(n)[2] = y
        /\ Bare(n)[3] = o /\ Bare(n)[4] = v /\ Bare(n)[5] = ev
    BY <1>3
  <1>5. \A k \in 1 .. 5 : Bare(n)[k] \in Token /\ Bare(n)[k] # w
    BY <1>1, <1>2, <1>4
  <1>6. Bare(n) = [k \in 1 .. 5 |-> Bare(n)[k]]
    BY <1>3
  <1>7. Bare(n) \in Seq(Token)
    BY <1>5, <1>6
  <1> QED BY <1>4, <1>5, <1>7 DEF h, y, v, ev, o, w

(* With three braces put back it is the core. *)
LEMMA BareToCore ==
  ASSUME NEW n \in Nat
  PROVE  <<Open>> \o Bare(n) \o <<Close, Close>> = Core(n)
  <1> DEFINE le == <<Open>>
             ri == <<Close, Close>>
             ba == Bare(n)
             co == Core(n)
             new == le \o ba \o ri
  <1>1. /\ le \in Seq(Token) /\ Len(le) = 1 /\ le[1] = Open
        /\ ri \in Seq(Token) /\ Len(ri) = 2 /\ ri[1] = Close /\ ri[2] = Close
    <2>1. Open \in Token /\ Close \in Token
      BY BracesAreTokens
    <2> HIDE DEF Token
    <2> QED BY <2>1
  <1>2. /\ ba \in Seq(Token) /\ Len(ba) = 5
        /\ ba[1] = Header(n) /\ ba[2] = Text(n, "payload") /\ ba[3] = Open
        /\ ba[4] = Text(n, "value") /\ ba[5] = Text(n, "end of value")
    BY BareTokens
  <1>3. /\ co \in Seq(Token) /\ Len(co) = 8
        /\ co[1] = Open /\ co[2] = Header(n) /\ co[3] = Text(n, "payload")
        /\ co[4] = Open /\ co[5] = Text(n, "value")
        /\ co[6] = Text(n, "end of value") /\ co[7] = Close /\ co[8] = Close
    BY CoreTokens
  <1> HIDE DEF le, ri, ba, co
  <1>4. /\ new \in Seq(Token) /\ Len(new) = Len(le) + Len(ba) + Len(ri)
        /\ \A i \in 1 .. Len(le) : new[i] = le[i]
        /\ \A i \in Len(le) + 1 .. Len(le) + Len(ba) : new[i] = ba[i - Len(le)]
        /\ \A i \in Len(le) + Len(ba) + 1 .. Len(new) :
             new[i] = ri[i - Len(le) - Len(ba)]
    <2>1. le \in Seq(Token) /\ ba \in Seq(Token) /\ ri \in Seq(Token)
      BY <1>1, <1>2
    <2> QED BY ONLY <2>1, Joined
  <1> HIDE DEF new
  <1>5. /\ Len(new) = 8
        /\ new[1] = le[1] /\ new[2] = ba[1] /\ new[3] = ba[2]
        /\ new[4] = ba[3] /\ new[5] = ba[4] /\ new[6] = ba[5]
        /\ new[7] = ri[1] /\ new[8] = ri[2]
    <2>1. Len(le) = 1 /\ Len(ba) = 5 /\ Len(ri) = 2
      BY <1>1, <1>2
    <2>2. Len(new) = 8
      BY <1>4, <2>1
    <2>3. \A i \in 1 .. 1 : new[i] = le[i]
      BY <1>4, <2>1
    <2>4. \A i \in 2 .. 6 : new[i] = ba[i - 1]
      BY <1>4, <2>1
    <2>5. \A i \in 7 .. 8 : new[i] = ri[i - 6]
      <3> SUFFICES ASSUME NEW i \in 7 .. 8 PROVE new[i] = ri[i - 6]
        OBVIOUS
      <3>1. i \in 1 + 5 + 1 .. 8 /\ i - 1 - 5 = i - 6
        OBVIOUS
      <3> QED BY <1>4, <2>1, <2>2, <3>1
    <2>6. new[1] = le[1] /\ new[2] = ba[1] /\ new[3] = ba[2] /\ new[4] = ba[3]
      BY <2>3, <2>4
    <2>7. new[5] = ba[4] /\ new[6] = ba[5]
      BY <2>4
    <2>8. new[7] = ri[1] /\ new[8] = ri[2]
      BY <2>5
    <2> QED BY <2>2, <2>6, <2>7, <2>8
  <1>6. \A i \in 1 .. 8 : new[i] = co[i]
    <2> SUFFICES ASSUME NEW i \in 1 .. 8 PROVE new[i] = co[i]
      OBVIOUS
    <2>1. i = 1 \/ i = 2 \/ i = 3 \/ i = 4 \/ i = 5 \/ i = 6 \/ i = 7 \/ i = 8
      OBVIOUS
    <2> QED BY <1>1, <1>2, <1>3, <1>5, <2>1, Zenon
  <1>7. new = co
    <2>1. new \in Seq(Token) /\ co \in Seq(Token) /\ Len(co) = 8
      BY <1>3, <1>4
    <2> QED BY ONLY <1>5, <1>6, <2>1
  <1> QED BY <1>7 DEF new, le, ri, ba, co

(* A piece has the text of a message behind h, and around it only what     *)
(* removeExtraCurlyBrackets takes off.                                     *)
Holds(piece, n, h) ==
  /\ piece \in Seq(Token) /\ h \in Nat /\ h + 5 <= Len(piece)
  /\ piece[h + 1] = Header(n) /\ piece[h + 2] = Text(n, "payload")
  /\ piece[h + 3] = Open /\ piece[h + 4] = Text(n, "value")
  /\ piece[h + 5] = Text(n, "end of value")
  /\ \A i \in 1 .. h : piece[i] \in {Open, Newline}
  /\ \A i \in h + 6 .. Len(piece) : piece[i] \in {Close, Newline}

(* It leaves that text. *)
LEMMA StrippedToBare ==
  ASSUME NEW n \in Nat, NEW piece, NEW h, Holds(piece, n, h)
  PROVE  Stripped(piece) = Bare(n)
  <1> DEFINE kept == {i \in DOMAIN piece :
               /\ \E j \in 1 .. i : piece[j] \notin {Open, Newline}
               /\ \E j \in i .. Len(piece) : piece[j] \notin {Close, Newline}}
             L == Len(piece)
  <1>1. Stripped(piece) = IF kept = {} THEN << >>
                          ELSE SubSeq(piece, Min(kept), Max(kept))
    BY DEF Stripped
  <1>2. /\ piece \in Seq(Token) /\ h \in Nat /\ L \in Nat /\ h + 5 <= L
        /\ DOMAIN piece = 1 .. L
    <2>1. piece \in Seq(Token) /\ h \in Nat /\ h + 5 <= Len(piece)
      BY DEF Holds
    <2> HIDE DEF Token
    <2> QED BY <2>1
  <1>3. /\ \A i \in 1 .. h : piece[i] \in {Open, Newline}
        /\ \A i \in h + 6 .. L : piece[i] \in {Close, Newline}
    BY DEF Holds
  <1>4. /\ piece[h + 1] \notin {Open, Newline}
        /\ piece[h + 5] \notin {Close, Newline}
    <2>1. /\ Header(n) # Open /\ Header(n) # Newline
          /\ Text(n, "end of value") # Close
          /\ Text(n, "end of value") # Newline
      BY DEF Header, Text, Open, Close, Newline
    <2> QED BY <2>1 DEF Holds
  <1>5. \A i : i \in kept <=>
          /\ i \in 1 .. L
          /\ \E j \in 1 .. i : piece[j] \notin {Open, Newline}
          /\ \E j \in i .. L : piece[j] \notin {Close, Newline}
    BY <1>2
  <1> HIDE DEF kept, L
  <1>6. ASSUME NEW i \in kept PROVE i \in h + 1 .. h + 5
    <2>1. i \in 1 .. L
      BY <1>5
    <2>2. PICK j \in 1 .. i : piece[j] \notin {Open, Newline}
      BY <1>5
    <2>3. PICK k \in i .. L : piece[k] \notin {Close, Newline}
      BY <1>5
    <2>4. j \notin 1 .. h /\ k \notin h + 6 .. L
      BY <1>3, <2>2, <2>3
    <2> QED BY <1>2, <2>1, <2>2, <2>3, <2>4
  <1>7. h + 1 \in kept /\ h + 5 \in kept
    <2>1. /\ h + 1 \in 1 .. L /\ h + 5 \in 1 .. L
          /\ h + 1 \in 1 .. h + 1 /\ h + 5 \in h + 1 .. L
          /\ h + 1 \in 1 .. h + 5 /\ h + 5 \in h + 5 .. L
      BY <1>2
    <2>2. h + 1 \in kept
      BY <1>4, <1>5, <2>1
    <2>3. h + 5 \in kept
      BY <1>4, <1>5, <2>1
    <2> QED BY <2>2, <2>3
  <1>8. Min(kept) = h + 1 /\ Max(kept) = h + 5
    <2> DEFINE lo == Min(kept)
               hi == Max(kept)
    <2>1. kept \subseteq Nat /\ kept \subseteq 0 .. h + 5 /\ kept # {}
            /\ h + 5 \in Nat
      BY <1>2, <1>6, <1>7
    <2>2. lo \in kept /\ \A y \in kept : lo <= y
      BY <2>1, MinIsLeast
    <2>3. hi \in kept /\ \A y \in kept : y <= hi
      BY <2>1, MaxIsGreatest
    <2> HIDE DEF lo, hi
    <2>4. lo \in h + 1 .. h + 5 /\ lo <= h + 1
      BY <1>6, <1>7, <2>2
    <2>5. hi \in h + 1 .. h + 5 /\ h + 5 <= hi
      BY <1>6, <1>7, <2>3
    <2> QED BY <1>2, <2>4, <2>5 DEF lo, hi
  <1> DEFINE a == h + 1
             z == h + 5
             part == SubSeq(piece, a, z)
  <1>9. Stripped(piece) = part
    BY <1>1, <1>7, <1>8
  <1>10. a \in Nat \ {0} /\ z \in 0 .. Len(piece) /\ a <= z
    BY <1>2 DEF L
  <1>11. /\ part \in Seq(Token) /\ Len(part) = z - a + 1
         /\ \A i \in 1 .. Len(part) : part[i] = piece[a + i - 1]
    <2> HIDE DEF a, z
    <2> QED BY ONLY <1>2, <1>10, PartWithin, SMTT(30)
  <1>12. /\ z - a + 1 = 5 /\ a + 1 - 1 = h + 1 /\ a + 2 - 1 = h + 2
         /\ a + 3 - 1 = h + 3 /\ a + 4 - 1 = h + 4 /\ a + 5 - 1 = h + 5
    BY <1>2
  <1> HIDE DEF a, z, part
  <1>13. /\ 1 \in 1 .. 5 /\ 2 \in 1 .. 5 /\ 3 \in 1 .. 5 /\ 4 \in 1 .. 5
         /\ 5 \in 1 .. 5
    OBVIOUS
  <1>14. /\ part[1] = piece[h + 1] /\ part[2] = piece[h + 2]
         /\ part[3] = piece[h + 3] /\ part[4] = piece[h + 4]
         /\ part[5] = piece[h + 5]
    BY <1>11, <1>12, <1>13, Zenon
  <1>15. /\ part[1] = Header(n) /\ part[2] = Text(n, "payload")
         /\ part[3] = Open /\ part[4] = Text(n, "value")
         /\ part[5] = Text(n, "end of value")
    BY <1>14 DEF Holds
  <1>16. part = Bare(n)
    <2> DEFINE ba == Bare(n)
    <2>1. ba \in Seq(Token) /\ Len(ba) = 5
      BY BareTokens
    <2>2. /\ part[1] = ba[1] /\ part[2] = ba[2] /\ part[3] = ba[3]
          /\ part[4] = ba[4] /\ part[5] = ba[5]
      BY <1>15, BareTokens
    <2>3. part \in Seq(Token) /\ Len(part) = 5
      BY <1>11, <1>12
    <2> HIDE DEF ba
    <2>4. \A i \in 1 .. 5 : part[i] = ba[i]
      BY <2>2
    <2>5. part = ba
      BY ONLY <2>1, <2>3, <2>4
    <2> QED BY <2>5 DEF ba
  <1> QED BY <1>9, <1>16

(* In the stream two messages are never adjacent: "}{" is never cut at. *)
LEMMA NeverAdjacent ==
  ASSUME sent \in Nat, NEW from \in Nat, NEW to \in from + 1 .. Len(Stream)
  PROVE  Len(Split(SubSeq(Stream, from + 1, to), <<Close, Open>>)) = 1
  <1> DEFINE text == SubSeq(Stream, from + 1, to)
             sep == <<Close, Open>>
             N == Len(text)
  <1>1. /\ text \in Seq(Token) /\ N = to - from
        /\ \A i \in 1 .. to - from : text[i] = TokenAt(from + i)
    BY PartOfStream
  <1>2. Len(sep) \in Nat \ {0}
    OBVIOUS
  <1>3. \A i : i \in CutSet(text, sep) <=>
                 i \in 1 .. N - 1 /\ text[i] = Close /\ text[i + 1] = Open
    <2>1. text \in Seq(Token)
      BY <1>1
    <2> HIDE DEF text
    <2> QED BY ONLY <2>1, TwoAt
  <1> HIDE DEF text, sep, N
  <1>4. CutSet(text, sep) = {}
    <2> SUFFICES ASSUME NEW i \in CutSet(text, sep) PROVE FALSE
      OBVIOUS
    <2>1. i \in 1 .. N - 1 /\ text[i] = Close /\ text[i + 1] = Open
      BY <1>3
    <2>2. /\ i \in 1 .. to - from /\ i + 1 \in 1 .. to - from
          /\ from + i \in Nat \ {0} /\ from + (i + 1) = (from + i) + 1
      BY <1>1, <2>1
    <2> DEFINE p == from + i
    <2>3. TokenAt(p) = Close /\ TokenAt(p + 1) = Open /\ p \in Nat \ {0}
      BY <1>1, <2>1, <2>2
    <2> HIDE DEF p
    <2>4. PICK m \in Nat, k \in 1 .. 12 : p = 12 * m + k
      BY <2>3, StreamTokens
    <2>5. k \in {9, 11}
      BY <2>3, <2>4, ClosePlaces
    <2> DEFINE q == k + 1
    <2>6. q \in 1 .. 12 /\ q \in {10, 12} /\ p + 1 = 12 * m + q
      BY <2>3, <2>4, <2>5
    <2> HIDE DEF q
    <2>7. q \in {1, 5}
      BY <2>3, <2>6, OpenPlaces
    <2> QED BY <2>6, <2>7
  <1> DEFINE c == Cuts(text, sep)
             P == Split(text, sep)
  <1>5. Ascends(c, Len(c), CutSet(text, sep), Len(text)) /\ Len(P) = Len(c) + 1
    BY <1>1, <1>2, SplitParts
  <1> HIDE DEF c, P
  <1>6. Len(c) \in Nat /\ \A k \in 1 .. Len(c) : c[k] \in CutSet(text, sep)
    BY <1>5 DEF Ascends
  <1>7. Len(c) = 0
    <2>1. ~(1 \in 1 .. Len(c))
      BY <1>4, <1>6
    <2> QED BY <1>6, <2>1
  <1> QED BY <1>5, <1>7 DEF P, text, sep

(* The client cuts between messages. *)
LEMMA SpacedCuts ==
  ASSUME sent \in Nat, NEW from \in Nat, NEW to \in from + 1 .. Len(Stream)
  PROVE  LET text == SubSeq(Stream, from + 1, to)
             cuts == CutSet(text, <<Close, Newline, Open>>)
         IN  \A i : i \in cuts <=>
               /\ i \in 1 .. Len(text) - 2
               /\ \E m \in Nat : from + i = 12 * m + 11
  <1> DEFINE text == SubSeq(Stream, from + 1, to)
             sep == <<Close, Newline, Open>>
             N == Len(text)
  <1>1. /\ text \in Seq(Token) /\ N = to - from
        /\ \A i \in 1 .. to - from : text[i] = TokenAt(from + i)
    BY PartOfStream
  <1>2. \A i : i \in CutSet(text, sep) <=>
          /\ i \in 1 .. N - 2
          /\ text[i] = Close /\ text[i + 1] = Newline /\ text[i + 2] = Open
    <2>1. text \in Seq(Token)
      BY <1>1
    <2> HIDE DEF text
    <2> QED BY ONLY <2>1, ThreeAt
  <1> HIDE DEF text, sep, N
  <1>3. ASSUME NEW i \in 1 .. N - 2
        PROVE  text[i] = Close /\ text[i + 1] = Newline /\ text[i + 2] = Open
                 <=> \E m \in Nat : from + i = 12 * m + 11
    <2> DEFINE p == from + i
    <2>1. /\ i \in 1 .. to - from /\ i + 1 \in 1 .. to - from
          /\ i + 2 \in 1 .. to - from
          /\ from + (i + 1) = p + 1 /\ from + (i + 2) = p + 2
          /\ p \in Nat \ {0}
      BY <1>1
    <2>2. /\ text[i] = TokenAt(p) /\ text[i + 1] = TokenAt(p + 1)
          /\ text[i + 2] = TokenAt(p + 2)
      BY <1>1, <2>1
    <2> HIDE DEF p
    <2>3. PICK m \in Nat, k \in 1 .. 12 : p = 12 * m + k
      BY <2>1, StreamTokens
    <2>4. ASSUME TokenAt(p) = Close, TokenAt(p + 2) = Open
          PROVE  k = 11
      <3>1. k \in {9, 11}
        BY <2>3, <2>4, ClosePlaces
      <3>2. ASSUME k = 9 PROVE FALSE
        <4> DEFINE q == k + 2
        <4>1. q \in 1 .. 12 /\ q = 11 /\ p + 2 = 12 * m + q
          BY <2>1, <2>3, <3>2
        <4> HIDE DEF q
        <4>2. q \in {1, 5}
          BY <2>3, <2>4, <4>1, OpenPlaces
        <4> QED BY <4>1, <4>2
      <3> QED BY <3>1, <3>2
    <2>5. ASSUME NEW M \in Nat, p = 12 * M + 11
          PROVE  TokenAt(p) = Close /\ TokenAt(p + 1) = Newline
                   /\ TokenAt(p + 2) = Open
      <3>1. TokenAt(p) = Close
        BY <2>5, ClosePlaces
      <3>2. TokenAt(p + 1) = Newline
        <4>1. 12 \in 1 .. 12 /\ p + 1 = 12 * M + 12 /\ M + 1 \in Nat
          BY <2>5
        <4>2. TokenAt(12 * M + 12) = Message(M + 1)[12]
          BY <4>1, StreamTokens, Zenon
        <4>3. Message(M + 1)[12] = Newline
          BY <4>1, MessageTokens, Zenon
        <4> QED BY <4>1, <4>2, <4>3
      <3>3. TokenAt(p + 2) = Open
        <4> DEFINE Q == M + 1
        <4>1. Q \in Nat /\ p + 2 = 12 * Q + 1
          BY <2>5
        <4> HIDE DEF Q
        <4> QED BY <4>1, OpenPlaces
      <3> QED BY <3>1, <3>2, <3>3
    <2>6. ASSUME TokenAt(p) = Close, TokenAt(p + 2) = Open
          PROVE  \E M \in Nat : p = 12 * M + 11
      BY <2>3, <2>4, <2>6
    <2>7. (TokenAt(p) = Close /\ TokenAt(p + 1) = Newline
             /\ TokenAt(p + 2) = Open) <=> \E M \in Nat : p = 12 * M + 11
      BY <2>5, <2>6
    <2> QED BY <2>2, <2>7 DEF p
  <1> QED BY <1>2, <1>3 DEF text, sep, N

(* The piece of a message in its window ends up as its core: no piece is   *)
(* the bare text, since each that has the header has a newline, too.       *)
LEMMA RepairedWhole ==
  ASSUME NEW text, NEW pieces \in Seq(Seq(Token)), Pieces(pieces, text),
         NEW n \in Nat, ~Before(text, n, n),
         NEW p \in 1 .. Len(pieces), NEW h, Holds(pieces[p], n, h),
         h # 0, pieces[p][h] = Newline
  PROVE  Repaired(pieces, p) = Core(n)
  <1>1. /\ pieces[p] \in Seq(Token) /\ h \in Nat /\ h + 5 <= Len(pieces[p])
        /\ pieces[p][h + 1] = Header(n)
    BY DEF Holds
  <1>2. Stripped(pieces[p]) = Bare(n)
    BY StrippedToBare
  <1>3. Bare(n) \in Seq(Token) /\ Len(Bare(n)) = 5 /\ Bare(n)[1] = Header(n)
          /\ \A k \in 1 .. 5 : Bare(n)[k] # Newline
    BY BareTokens
  <1>4. Has(pieces[p], n)
    <2> DEFINE t == pieces[p]
               i == h + 1
    <2>1. i \in 1 .. Len(t) /\ t[i] = Header(n)
      BY <1>1
    <2> QED BY <2>1 DEF Has
  <1>5. ASSUME NEW q \in 1 .. Len(pieces), pieces[q] = Bare(n) PROVE FALSE
    <2>1. Has(pieces[q], n)
      <3> DEFINE t == pieces[q]
      <3>0. 1 \in 1 .. 5 /\ t = Bare(n)
        BY <1>5
      <3> HIDE DEF t
      <3>1. 1 \in 1 .. Len(t) /\ t[1] = Header(n)
        BY ONLY <1>3, <3>0, Zenon
      <3> QED BY <3>1 DEF Has, t
    <2>2. \A i, j \in 1 .. Len(pieces) :
            i < j /\ Has(pieces[i], n) /\ Has(pieces[j], n)
              => Before(text, n, n)
      BY DEF Pieces, PiecesOf
    <2>3. p \in Nat /\ q \in Nat
      BY DEF Pieces
    <2>4. p = q
      BY <1>4, <2>1, <2>2, <2>3
    <2>5. h \in 1 .. Len(pieces[q]) /\ pieces[q][h] = Newline
      BY <1>1, <2>4
    <2> QED BY <1>3, <1>5, <2>5
  <1>6. Len(pieces) \in Nat /\ 1 \in 1 .. Len(pieces)
          /\ Len(pieces) \in 1 .. Len(pieces)
    BY DEF Pieces
  <1>7. Head(pieces) = pieces[1] /\ Last(pieces) = pieces[Len(pieces)]
    <2>1. pieces \in Seq(Seq(Token))
      OBVIOUS
    <2> HIDE DEF Token
    <2> QED BY <1>6, <2>1 DEF Last
  <1>8. Bare(n) # Head(pieces) /\ Bare(n) # Last(pieces)
    BY <1>5, <1>6, <1>7
  <1>9. Repaired(pieces, p) = <<Open>> \o Bare(n) \o <<Close, Close>>
    BY <1>2, <1>8 DEF Repaired
  <1> QED BY <1>9, BareToCore

(* handleReceivedData makes the core of a message out of its window.       *)
LEMMA ClientWhole ==
  ASSUME sent \in Nat, NEW from \in Nat, NEW to \in from + 1 .. Len(Stream),
         NEW n \in Nat \ {0}, Inside(n, from, to)
  PROVE  LET text == SubSeq(Stream, from + 1, to) IN
         \E p \in 1 .. Len(ClientUpdates(text)) :
           ClientUpdates(text)[p] = Core(n)
  <1> DEFINE text == SubSeq(Stream, from + 1, to)
             sep == <<Close, Newline, Open>>
             adjacent == Split(text, <<Close, Open>>)
             pieces == Split(text, sep)
             made == [p \in DOMAIN pieces |-> Repaired(pieces, p)]
             N == Len(text)
  <1>1. text \in Seq(Token)
    BY PartOfStream
  <1>2. PICK b \in Nat : /\ from + b = 12 * (n - 1)
                         /\ Window(text, n, b)
                         /\ Edges(text, b)
    BY ReadWindow
  <1>3. Len(adjacent) = 1
    BY NeverAdjacent
  <1>4. made = ClientUpdates(text)
    <2>1. ~(Len(adjacent) > 1)
      BY <1>3, SMTT(30)
    <2> HIDE DEF adjacent, pieces
    <2>2. ClientUpdates(text) =
            LET ps == IF Len(adjacent) > 1 THEN adjacent ELSE pieces
            IN  [p \in DOMAIN ps |-> Repaired(ps, p)]
      BY DEF ClientUpdates, adjacent, pieces
    <2> QED BY <2>1, <2>2
  <1>5. \A i : i \in CutSet(text, sep) <=>
          /\ i \in 1 .. N - 2
          /\ \E m \in Nat : from + i = 12 * m + 11
    BY SpacedCuts
  <1>6. ~Before(text, n, n)
    <2>1. \A k, m \in Nat : Before(text, k, m) => k < m
      BY ReadHas
    <2>2. n \in Nat /\ ~(n < n)
      OBVIOUS
    <2> QED BY <2>1, <2>2, Zenon
  <1>7. Pieces(pieces, text) /\ pieces \in Seq(Seq(Token))
    <2>1. Len(sep) \in Nat \ {0}
      OBVIOUS
    <2> HIDE DEF sep, text
    <2>2. Pieces(pieces, text)
      BY <1>1, <2>1, SplitIsPieces
    <2>3. pieces \in Seq(Seq(Token))
      <3>1. pieces = [p \in DOMAIN pieces |-> pieces[p]]
        BY DEF Split
      <3>2. /\ DOMAIN pieces = 1 .. Len(pieces) /\ Len(pieces) \in Nat
            /\ \A p \in 1 .. Len(pieces) : pieces[p] \in Seq(Token)
        BY <2>2 DEF Pieces
      <3> DEFINE L == Len(pieces)
      <3> HIDE DEF pieces, Token
      <3>3. L \in Nat /\ pieces \in [1 .. L -> Seq(Token)]
        BY <3>1, <3>2
      <3> HIDE DEF L
      <3> QED BY <3>3, IsSequence
    <2> QED BY <2>2, <2>3
  <1>8. Len(sep) = 3 /\ N \in Nat
    BY <1>1
  <1>9. b + 11 <= N
    BY <1>2 DEF Window
  <1> DEFINE a == IF b >= 2 THEN b + 2 ELSE 1
             z == IF b + 13 <= N THEN b + 10 ELSE N
             w == 3
  <1> HIDE DEF text, sep, adjacent, pieces, made, N
  <1>10. Between(text, sep, w, a, z)
    <2>1. a \in Nat \ {0} /\ z \in 0 .. N /\ a <= z + 1
      BY <1>8, <1>9
    <2> DEFINE m == n - 1
    <2>2. m \in Nat /\ from + b = 12 * m
      BY <1>2
    <2> HIDE DEF m
    <2>3. a = 1 \/ a - w \in CutSet(text, sep)
      <3> SUFFICES ASSUME b >= 2 PROVE a - w \in CutSet(text, sep)
        OBVIOUS
      <3>1. a - w = b - 1 /\ b - 1 \in 1 .. N - 2
        BY <1>8, <1>9
      <3> DEFINE q == m - 1
      <3>2. q \in Nat /\ from + (b - 1) = 12 * q + 11
        BY <2>2
      <3> HIDE DEF q
      <3> QED BY <1>5, <3>1, <3>2
    <2>4. z = N \/ z + 1 \in CutSet(text, sep)
      <3> SUFFICES ASSUME b + 13 <= N PROVE z + 1 \in CutSet(text, sep)
        OBVIOUS
      <3>1. z + 1 = b + 11 /\ b + 11 \in 1 .. N - 2
              /\ from + (b + 11) = 12 * m + 11
        BY <1>8, <2>2
      <3> QED BY <1>5, <2>2, <3>1
    <2>5. ASSUME NEW i \in CutSet(text, sep)
          PROVE  i <= a - w \/ z < i
      <3>1. i \in 1 .. N - 2
        BY <1>5
      <3>2. PICK q \in Nat : from + i = 12 * q + 11
        BY <1>5
      <3>3. CASE q < m
        <4>1. i <= b - 1
          BY <1>8, <2>2, <3>1, <3>2, <3>3
        <4> QED BY <1>8, <3>1, <4>1
      <3>4. CASE m <= q
        <4>1. b + 11 <= i
          BY <1>8, <2>2, <3>1, <3>2, <3>4
        <4> QED BY <1>8, <3>1, <4>1
      <3> QED BY <2>2, <3>3, <3>4
    <2> HIDE DEF a, z
    <2>6. w \in Nat \ {0} /\ Len(sep) = w
      BY <1>8
    <2> HIDE DEF w
    <2> QED BY ONLY <1>1, <2>1, <2>3, <2>4, <2>5, <2>6 DEF Between, N
  <1>11. PICK p \in 1 .. Len(pieces) : pieces[p] = SubSeq(text, a, z)
    <2> HIDE DEF a, z, w
    <2> QED BY <1>10, PieceBetween DEF pieces
  <1> DEFINE piece == pieces[p]
             h == b + 2 - (a - 1)
  <1>12. /\ piece \in Seq(Token) /\ Len(piece) = z - a + 1
         /\ \A i \in 1 .. Len(piece) : piece[i] = text[a + i - 1]
    <2>1. a \in Nat \ {0} /\ z \in 0 .. Len(text) /\ a <= z
      BY <1>8, <1>9 DEF N
    <2> HIDE DEF a, z
    <2> QED BY <1>1, <1>11, <2>1, PartWithin, SMTT(30)
  <1>13. (a = 1 /\ b < 2) \/ (a = b + 2 /\ b >= 2)
    OBVIOUS
  <1>14. (z = b + 10 /\ b + 13 <= N) \/ (z = N /\ N < b + 13)
    BY <1>8
  <1> HIDE DEF piece, a, z, h
  <1>15. /\ h \in Nat /\ h # 0 /\ h + 5 <= Len(piece) /\ a \in Nat /\ z \in Nat
         /\ h + a = b + 3
    <2>1. a \in Nat /\ a # 0 /\ a < b + 3
      BY <1>13
    <2>2. z \in Nat /\ b + 8 <= z
      BY <1>8, <1>9, <1>14
    <2>3. h \in Nat /\ h # 0 /\ h + a = b + 3
      BY <2>1 DEF h
    <2>4. Len(piece) = z - a + 1
      BY <1>12
    <2>5. h + 5 <= Len(piece)
      BY ONLY <2>1, <2>2, <2>3, <2>4
    <2> QED BY <2>1, <2>2, <2>3, <2>5
  <1>16. \A i \in 1 .. Len(piece) :
           /\ piece[i] = text[a + i - 1] /\ a + i - 1 \in 1 .. N
           /\ a + i - 1 <= z
    BY <1>8, <1>12, <1>13, <1>14, <1>15, SMTT(30)
  <1>17. \A k \in 0 .. 5 : piece[h + k] = text[b + 2 + k]
    <2> SUFFICES ASSUME NEW k \in 0 .. 5 PROVE piece[h + k] = text[b + 2 + k]
      OBVIOUS
    <2>1. h + k \in 1 .. Len(piece) /\ a + (h + k) - 1 = b + 2 + k
      BY <1>12, <1>15
    <2> QED BY <1>16, <2>1
  <1>18. \A i \in 1 .. h : piece[i] \in {Open, Newline}
    <2> SUFFICES ASSUME NEW i \in 1 .. h PROVE piece[i] \in {Open, Newline}
      OBVIOUS
    <2>1. i \in 1 .. Len(piece)
      BY <1>12, <1>15
    <2> DEFINE q == a + i - 1
    <2>2. piece[i] = text[q] /\ q \in 1 .. N /\ q <= b + 2
            /\ (q = b + 2 \/ q = b + 1 \/ (q = b /\ b = 1))
      BY <1>13, <1>15, <1>16, <2>1
    <2> HIDE DEF q
    <2>3. /\ text[b + 1] = Open /\ text[b + 2] = Newline
          /\ b >= 1 => text[b] = Newline
      BY <1>2 DEF Window, Edges
    <2> QED BY <2>2, <2>3
  <1>19. \A i \in h + 6 .. Len(piece) : piece[i] \in {Close, Newline}
    <2> SUFFICES ASSUME NEW i \in h + 6 .. Len(piece)
                 PROVE  piece[i] \in {Close, Newline}
      OBVIOUS
    <2>1. i \in 1 .. Len(piece)
      BY <1>12, <1>15
    <2> DEFINE q == a + i - 1
    <2>a. piece[i] = text[q] /\ q \in 1 .. N /\ q <= z
      BY <1>16, <2>1
    <2>b. q \in Nat /\ b + 8 <= q
      BY <1>15
    <2> HIDE DEF q
    <2>2. piece[i] = text[q] /\ q \in 1 .. N /\ q <= z /\ b + 8 <= q
      BY <2>a, <2>b
    <2>3. q = b + 8 \/ q = b + 9 \/ q = b + 10 \/ q = b + 11
            \/ (q = b + 12 /\ b + 12 <= N)
      BY <1>8, <1>14, <2>2
    <2>4. /\ text[b + 8] = Newline /\ text[b + 9] = Close
          /\ text[b + 10] = Newline /\ text[b + 11] = Close
          /\ b + 12 <= N => text[b + 12] = Newline
      BY <1>2 DEF Window, Edges, N
    <2> QED BY <2>2, <2>3, <2>4
  <1>20. Holds(piece, n, h) /\ piece[h] = Newline
    <2>1. /\ piece[h + 0] = text[b + 2 + 0] /\ piece[h + 1] = text[b + 2 + 1]
          /\ piece[h + 2] = text[b + 2 + 2] /\ piece[h + 3] = text[b + 2 + 3]
          /\ piece[h + 4] = text[b + 2 + 4] /\ piece[h + 5] = text[b + 2 + 5]
      BY <1>17
    <2>2. /\ h + 0 = h /\ b + 2 + 0 = b + 2 /\ b + 2 + 1 = b + 3
          /\ b + 2 + 2 = b + 4 /\ b + 2 + 3 = b + 5 /\ b + 2 + 4 = b + 6
          /\ b + 2 + 5 = b + 7
      BY <1>15
    <2>3. /\ piece[h] = text[b + 2] /\ piece[h + 1] = text[b + 3]
          /\ piece[h + 2] = text[b + 4] /\ piece[h + 3] = text[b + 5]
          /\ piece[h + 4] = text[b + 6] /\ piece[h + 5] = text[b + 7]
      BY ONLY <2>1, <2>2, Zenon
    <2>4. /\ piece[h] = Newline
          /\ piece[h + 1] = Header(n) /\ piece[h + 2] = Text(n, "payload")
          /\ piece[h + 3] = Open /\ piece[h + 4] = Text(n, "value")
          /\ piece[h + 5] = Text(n, "end of value")
      BY <1>2, <2>3, Zenon DEF Window
    <2>5. piece \in Seq(Token)
      BY <1>12
    <2> QED BY ONLY <1>15, <1>18, <1>19, <2>4, <2>5, Zenon DEF Holds
  <1>21. Repaired(pieces, p) = Core(n)
    <2>1. n \in Nat
      OBVIOUS
    <2> QED BY <1>6, <1>7, <1>15, <1>20, <2>1, RepairedWhole DEF piece
  <1>22. DOMAIN pieces = 1 .. Len(pieces) /\ Len(pieces) \in Nat
    BY <1>7 DEF Pieces
  <1>23. made[p] = Core(n)
    BY <1>21, <1>22 DEF made
  <1>24. Len(made) = Len(pieces)
    <2> DEFINE L == Len(pieces)
    <2>1. made = [q \in 1 .. L |-> made[q]] /\ L \in Nat
      BY <1>22 DEF made
    <2> HIDE DEF L
    <2>2. Len(made) = L
      BY <2>1
    <2> QED BY <2>2 DEF L
  <1> QED BY <1>4, <1>23, <1>24 DEF text

(* A message that a read gets whole is handled, by either reader. *)
LEMMA ReadHandles ==
  ASSUME sent \in Nat, sent <= MaxMessages,
         NEW from \in Nat, NEW to \in from + 1 .. Len(Stream),
         NEW n \in 1 .. sent, Inside(n, from, to)
  PROVE  LET H == Handled(SubSeq(Stream, from + 1, to)) IN
         \E k \in 1 .. Len(H) : H[k] = n
  <1> DEFINE text == SubSeq(Stream, from + 1, to)
  <1>1. n \in Nat \ {0} /\ n \in Nat /\ n \in 1 .. MaxMessages
    BY FramingAssumption
  <1>2. text \in Seq(Token)
    BY PartOfStream
  <1>3. PICK p \in 1 .. Len(PiecesRead(text)) : PiecesRead(text)[p] = Core(n)
    <2>1. CASE reader = "server"
      <3>1. PICK b \in Nat : Window(text, n, b) /\ Edges(text, b)
        BY <1>1, ReadWindow
      <3> HIDE DEF text
      <3>2. \E p \in 1 .. Len(ServerRequests(text)) :
              ServerRequests(text)[p] = Core(n)
        BY <1>1, <1>2, <3>1, ServerWhole
      <3>3. PiecesRead(text) = ServerRequests(text)
        BY <2>1 DEF PiecesRead
      <3> QED BY <3>2, <3>3
    <2>2. CASE reader # "server"
      <3>1. \E p \in 1 .. Len(ClientUpdates(text)) :
              ClientUpdates(text)[p] = Core(n)
        BY <1>1, ClientWhole
      <3> HIDE DEF text
      <3>2. PiecesRead(text) = ClientUpdates(text)
        BY <2>2 DEF PiecesRead
      <3> QED BY <3>1, <3>2
    <2> QED BY <2>1, <2>2
  <1> HIDE DEF text
  <1>4. Parsed(PiecesRead(text)[p]) = n /\ n # NotParsed
    BY <1>1, <1>3, CoreParses DEF NotParsed
  <1> DEFINE H == Handled(text)
  <1>5. \A q \in 1 .. Len(PiecesRead(text)) :
          Parsed(PiecesRead(text)[q]) # NotParsed =>
            \E k \in 1 .. Len(H) : H[k] = Parsed(PiecesRead(text)[q])
    BY <1>2, HandledOrdered
  <1> HIDE DEF H
  <1>6. \E k \in 1 .. Len(H) : H[k] = n
    BY <1>4, <1>5
  <1> QED BY <1>6 DEF H, text

(* What a read adds to the messages handled. *)
Adds(old, more, new) ==
  old \in Seq(Nat) /\ more \in Seq(Nat) /\ new = old \o more

(* What is handled stays handled. *)
LEMMA HandledStays ==
  ASSUME NEW old, NEW more, NEW new, Adds(old, more, new), NEW n,
         (\E i \in DOMAIN old : old[i] = n)
           \/ (\E i \in 1 .. Len(more) : more[i] = n)
  PROVE  \E i \in DOMAIN new : new[i] = n
  <1> DEFINE l == Len(old)
  <1>1. /\ DOMAIN new = 1 .. l + Len(more) /\ DOMAIN old = 1 .. l
        /\ l \in Nat /\ Len(more) \in Nat
        /\ \A i \in 1 .. l : new[i] = old[i]
        /\ \A i \in 1 .. Len(more) : new[l + i] = more[i]
    BY DEF Adds
  <1> HIDE DEF l
  <1>2. ASSUME NEW i \in DOMAIN old, old[i] = n
        PROVE  \E k \in DOMAIN new : new[k] = n
    <2>1. i \in DOMAIN new /\ new[i] = n
      BY <1>1, <1>2
    <2> QED BY <2>1
  <1>3. ASSUME NEW i \in 1 .. Len(more), more[i] = n
        PROVE  \E k \in DOMAIN new : new[k] = n
    <2>1. l + i \in DOMAIN new /\ new[l + i] = n
      BY <1>1, <1>3
    <2> QED BY <2>1
  <1> QED BY <1>2, <1>3

(* A read keeps WholeHandled. *)
LEMMA WholeRead ==
  ASSUME FramingInv, WholeHandled, Read
  PROVE  WholeHandled'
  <1>1. /\ sent \in Nat /\ sent <= MaxMessages /\ position \in Nat
        /\ handled \in Seq(1 .. sent)
    BY FramingFacts
  <1>2. PICK to \in position + 1 .. Len(Stream) :
          /\ handled' = handled \o Handled(SubSeq(Stream, position + 1, to))
          /\ whole' = whole \cup {n \in 1 .. sent : Inside(n, position, to)}
    BY DEF Read
  <1> DEFINE text == SubSeq(Stream, position + 1, to)
             H == Handled(text)
             old == handled
  <1>3. text \in Seq(Token)
    BY <1>1, PartOfStream
  <1>4. H \in Seq(1 .. MaxMessages)
    <2> HIDE DEF text
    <2> QED BY <1>3, HandledOrdered
  <1>5. \A n \in 1 .. sent : Inside(n, position, to) =>
          \E k \in 1 .. Len(H) : H[k] = n
    BY <1>1, ReadHandles
  <1>6. handled' = old \o H
    BY <1>2
  <1>7. \A n \in whole : \E i \in DOMAIN old : old[i] = n
    BY DEF WholeHandled
  <1> HIDE DEF H, old, text
  <1>8. old \in Seq(Nat) /\ H \in Seq(Nat)
    <2>1. \A i \in 1 .. Len(old) : old[i] \in Nat
      <3>1. \A i \in 1 .. Len(old) : old[i] \in 1 .. sent
        BY <1>1, ElementOfSeq DEF old
      <3> QED BY <1>1, <3>1
    <2>2. \A i \in 1 .. Len(H) : H[i] \in Nat
      <3>1. \A i \in 1 .. Len(H) : H[i] \in 1 .. MaxMessages
        BY <1>4, ElementOfSeq
      <3> QED BY <3>1, FramingAssumption
    <2> QED BY <1>1, <1>4, <2>1, <2>2, SequenceFrom DEF old
  <1>9. ASSUME NEW n \in whole'
        PROVE  \E i \in DOMAIN handled' : handled'[i] = n
    <2>a. ((\E i \in DOMAIN old : old[i] = n)
             \/ (\E i \in 1 .. Len(H) : H[i] = n))
          => \E i \in DOMAIN handled' : handled'[i] = n
      <3>1. Adds(old, H, handled')
        BY <1>6, <1>8 DEF Adds
      <3> QED BY <3>1, HandledStays
    <2>1. n \in whole \/ (n \in 1 .. sent /\ Inside(n, position, to))
      BY <1>2
    <2>2. CASE n \in whole
      BY <1>7, <2>2, <2>a
    <2>3. CASE n \in 1 .. sent /\ Inside(n, position, to)
      BY <1>5, <2>3, <2>a
    <2> QED BY <2>1, <2>2, <2>3
  <1> QED BY <1>6, <1>9 DEF WholeHandled

(* A message that arrives in one piece is handled by the server and the    *)
(* client, whatever fragments of its neighbours the same read brings.      *)
THEOREM FramingWhole ==
  Spec => []WholeHandled
  <1>1. Init => FramingInv /\ WholeHandled
    BY FramingInit DEF Init, WholeHandled
  <1>2. FramingInv /\ WholeHandled /\ [Next]_vars
          => (FramingInv /\ WholeHandled)'
    <2> SUFFICES ASSUME FramingInv, WholeHandled, [Next]_vars
                 PROVE  WholeHandled'
      BY FramingStep
    <2>1. CASE Read
      BY <2>1, WholeRead
    <2>2. CASE Write \/ UNCHANGED vars
      BY <2>2 DEF Write, vars, WholeHandled
    <2> QED BY <2>1, <2>2 DEF Next
  <1> QED BY <1>1, <1>2, PTL DEF Spec
==============================================================================
