--------------------------- MODULE HttpBridge_proof ---------------------------
(***************************************************************************)
(* Proofs about HttpBridge, for any number of messages and every way to    *)
(* tear them into reads.                                                   *)
(***************************************************************************)
EXTENDS HttpBridge, StreamFraming_proof

(* The last message whose inner closing brace lies within the first p      *)
(* tokens of the stream.                                                   *)
Ended(p) == (p + 3) \div 12

(* That message, as bounds for the position. *)
LEMMA EndedBounds ==
  ASSUME NEW p \in Nat
  PROVE  /\ Ended(p) \in Nat
         /\ 12 * Ended(p) <= p + 3 /\ p + 3 < 12 * Ended(p) + 12
  BY DEF Ended

(* It grows with the position. *)
LEMMA EndedGrows ==
  ASSUME NEW p \in Nat, NEW q \in Nat, p <= q
  PROVE  Ended(p) <= Ended(q)
  <1>1. /\ Ended(p) \in Nat /\ 12 * Ended(p) <= p + 3
        /\ Ended(q) \in Nat /\ q + 3 < 12 * Ended(q) + 12
    BY EndedBounds
  <1> QED BY <1>1

(* What the buffer starts with: nothing is cut before message 1 has        *)
(* ended, and after that the cut is at one of the two closing braces of    *)
(* the last message that has.                                              *)
CutFits(m) == cut = IF m = 0 THEN 0
                    ELSE IF "between" \in ends[m] THEN 12 * m - 3
                    ELSE 12 * m - 1

(* As bounds. *)
LEMMA CutBounds ==
  ASSUME NEW m \in Nat, CutFits(m)
  PROVE  /\ cut \in Nat /\ cut <= 12 * m
         /\ m = 0 => cut = 0
         /\ m # 0 => cut = 12 * m - 3 \/ cut = 12 * m - 1
  BY DEF CutFits

(* The closing braces a read finds: none new, or up to those of the last   *)
(* message it has seen the end of.                                         *)
LEMMA LastCloseOf ==
  ASSUME NEW m \in Nat, CutFits(m), NEW to \in Nat, Ended(to) > m
  PROVE  /\ Where(Close, cut + 1, to) # {}
         /\ LastClose(to) = IF to < 12 * Ended(to) - 1 THEN 12 * Ended(to) - 3
                            ELSE 12 * Ended(to) - 1
  <1> DEFINE M == Ended(to)
             W == Where(Close, cut + 1, to)
             last == IF to < 12 * M - 1 THEN 12 * M - 3 ELSE 12 * M - 1
  <1>1. M \in Nat /\ 12 * M <= to + 3 /\ to + 3 < 12 * M + 12 /\ m < M
    BY EndedBounds
  <1>2. cut \in Nat /\ cut <= 12 * m
    BY CutBounds
  <1>3. W = {p \in cut + 1 .. to : TokenAt(p) = Close}
    BY DEF Where
  <1>4. LastClose(to) = Max(W)
    BY DEF LastClose
  <1> HIDE DEF M, W
  <1>5. M - 1 \in Nat /\ 12 * (M - 1) + 9 = 12 * M - 3
          /\ 12 * (M - 1) + 11 = 12 * M - 1
    BY <1>1
  <1>6. TokenAt(12 * M - 3) = Close /\ TokenAt(12 * M - 1) = Close
    BY <1>5, ClosePlaces
  <1>7. last \in cut + 1 .. to
    BY <1>1, <1>2
  <1>8. last \in W
    BY <1>3, <1>6, <1>7
  <1>9. ASSUME NEW p \in W PROVE p <= last
    <2>1. p \in cut + 1 .. to /\ TokenAt(p) = Close /\ p \in Nat \ {0}
      BY <1>2, <1>3
    <2>2. PICK q \in Nat, k \in 1 .. 12 : p = 12 * q + k
      BY <2>1, StreamTokens
    <2>3. k \in {9, 11}
      BY <2>1, <2>2, ClosePlaces
    <2>4. q <= M - 1
      BY <1>1, <2>1, <2>2, <2>3
    <2> QED BY <1>1, <2>1, <2>2, <2>3, <2>4
  <1>10. W \subseteq 0 .. to
    BY <1>2, <1>3
  <1>11. Max(W) \in W /\ \A y \in W : y <= Max(W)
    BY <1>8, <1>10, MaxIsGreatest
  <1>12. Max(W) = last
    <2>1. Max(W) <= last /\ last <= Max(W)
      BY <1>8, <1>9, <1>11
    <2>2. Max(W) \in 0 .. to /\ last \in 0 .. to
      <3> HIDE DEF last
      <3> QED BY <1>8, <1>10, <1>11
    <2> QED BY <2>1, <2>2
  <1> QED BY <1>4, <1>8, <1>12 DEF M, W

(* The first opening brace in the buffer is that of the next message. *)
LEMMA FirstOpenOf ==
  ASSUME NEW m \in Nat, CutFits(m), NEW to \in Nat
  PROVE  /\ 12 * m + 1 <= to => /\ Where(Open, cut + 1, to) # {}
                                /\ Min(Where(Open, cut + 1, to)) = 12 * m + 1
         /\ to < 12 * m + 1 => Where(Open, cut + 1, to) = {}
  <1> DEFINE W == Where(Open, cut + 1, to)
  <1>1. /\ cut \in Nat /\ cut <= 12 * m
        /\ m = 0 => cut = 0
        /\ m # 0 => cut = 12 * m - 3 \/ cut = 12 * m - 1
    BY CutBounds
  <1>2. W = {p \in cut + 1 .. to : TokenAt(p) = Open}
    BY DEF Where
  <1> HIDE DEF W
  <1>3. ASSUME NEW p \in W PROVE p \in Nat /\ 12 * m + 1 <= p /\ p <= to
    <2>1. p \in cut + 1 .. to /\ TokenAt(p) = Open /\ p \in Nat \ {0}
      BY <1>1, <1>2
    <2>2. PICK q \in Nat, k \in 1 .. 12 : p = 12 * q + k
      BY <2>1, StreamTokens
    <2>3. k \in {1, 5}
      BY <2>1, <2>2, OpenPlaces
    <2>4. q >= m
      BY <1>1, <2>1, <2>2, <2>3
    <2> QED BY <2>1, <2>2, <2>3, <2>4
  <1>4. ASSUME 12 * m + 1 <= to
        PROVE  W # {} /\ Min(W) = 12 * m + 1
    <2>1. 12 * m + 1 \in W
      <3>1. 12 * m + 1 \in cut + 1 .. to
        BY <1>1, <1>4
      <3> QED BY <1>2, <3>1, OpenPlaces
    <2>2. W \subseteq Nat
      BY <1>3
    <2>3. Min(W) \in W /\ \A y \in W : Min(W) <= y
      BY <2>1, <2>2, MinIsLeast
    <2>4. Min(W) \in Nat /\ Min(W) <= 12 * m + 1 /\ 12 * m + 1 <= Min(W)
      BY <1>3, <2>1, <2>3
    <2> QED BY <2>1, <2>4
  <1>5. ASSUME to < 12 * m + 1 PROVE W = {}
    BY <1>3, <1>5
  <1> QED BY <1>4, <1>5 DEF W

(* A read that sees no further message end finds no object. *)
LEMMA NoObject ==
  ASSUME NEW m \in Nat, CutFits(m), NEW to \in Nat, Ended(to) = m
  PROVE  ~HasObject(to)
  <1> SUFFICES ASSUME HasObject(to) PROVE FALSE
    OBVIOUS
  <1>1. 12 * m <= to + 3 /\ to + 3 < 12 * m + 12
    BY EndedBounds
  <1>2. /\ cut \in Nat
        /\ m = 0 => cut = 0
        /\ m # 0 => cut = 12 * m - 3 \/ cut = 12 * m - 1
    BY CutBounds
  <1> DEFINE W == Where(Close, cut + 1, to)
  <1>3. W = {p \in cut + 1 .. to : TokenAt(p) = Close}
    BY DEF Where
  <1>4. W # {} /\ Where(Open, cut + 1, to) # {}
          /\ Min(Where(Open, cut + 1, to)) < Max(W)
    BY DEF HasObject, LastClose
  <1> HIDE DEF W
  <1>5. Min(Where(Open, cut + 1, to)) = 12 * m + 1
    BY <1>1, <1>4, FirstOpenOf
  <1>6. W \subseteq 0 .. to
    BY <1>2, <1>3
  <1>7. Max(W) \in W
    BY <1>4, <1>6, MaxIsGreatest
  <1> DEFINE p == Max(W)
  <1>8. p \in cut + 1 .. to /\ TokenAt(p) = Close /\ p \in Nat \ {0}
    BY <1>2, <1>3, <1>7
  <1> HIDE DEF p
  <1>9. PICK q \in Nat, k \in 1 .. 12 : p = 12 * q + k
    BY <1>8, StreamTokens
  <1>10. k \in {9, 11}
    BY <1>8, <1>9, ClosePlaces
  <1>11. p <= 12 * m
    BY <1>1, <1>8, <1>9, <1>10
  <1>12. 12 * m + 1 < p
    BY <1>4, <1>5 DEF p
  <1> QED BY <1>8, <1>11, <1>12

(* One that does finds one, and a message if it is the next one with both  *)
(* of its closing braces.                                                  *)
LEMMA ObjectFound ==
  ASSUME NEW m \in Nat, CutFits(m), NEW to \in Nat, Ended(to) > m,
         sent \in Nat, to <= 12 * sent
  PROVE  /\ HasObject(to)
         /\ Objects(to) = IF Ended(to) = m + 1 /\ 12 * Ended(to) - 1 <= to
                          THEN {m + 1} ELSE {}
  <1> DEFINE M == Ended(to)
             last == LastClose(to)
             first == Min(Where(Open, cut + 1, to))
  <1>1. M \in Nat /\ 12 * M <= to + 3 /\ to + 3 < 12 * M + 12 /\ m < M
    BY EndedBounds
  <1>2. Where(Close, cut + 1, to) # {}
          /\ last = IF to < 12 * M - 1 THEN 12 * M - 3 ELSE 12 * M - 1
    BY LastCloseOf
  <1>3. 12 * m + 1 <= to
    BY <1>1
  <1>4. Where(Open, cut + 1, to) # {} /\ first = 12 * m + 1
    BY <1>3, FirstOpenOf
  <1>5. first < last
    <2> HIDE DEF first, last, M
    <2> QED BY <1>1, <1>2, <1>4
  <1>6. HasObject(to)
    BY <1>2, <1>4, <1>5 DEF HasObject
  <1>7. Objects(to) = {n \in 1 .. sent : first = Begin(n)
                                         /\ last = OuterClose(n)}
    BY <1>6 DEF Objects
  <1> HIDE DEF first, last, M
  <1>8. \A n \in 1 .. sent : Begin(n) = 12 * (n - 1) + 1
                             /\ OuterClose(n) = 12 * (n - 1) + 11
    BY StreamTokens DEF Begin, OuterClose
  <1>9. CASE M = m + 1 /\ 12 * M - 1 <= to
    <2>1. m + 1 \in 1 .. sent
      BY <1>1, <1>9
    <2>2. last = 12 * m + 11
      BY <1>1, <1>2, <1>9
    <2>3. \A n \in 1 .. sent :
            (first = Begin(n) /\ last = OuterClose(n)) <=> n = m + 1
      BY <1>4, <1>8, <2>2
    <2>4. Objects(to) = {m + 1}
      BY <1>7, <2>1, <2>3
    <2> QED BY <1>6, <1>9, <2>4 DEF M
  <1>10. CASE ~(M = m + 1 /\ 12 * M - 1 <= to)
    <2>1. ASSUME NEW n \in 1 .. sent, first = Begin(n), last = OuterClose(n)
          PROVE  FALSE
      <3>1. n = m + 1 /\ last = 12 * (n - 1) + 11
        BY <1>4, <1>8, <2>1
      <3> QED BY <1>1, <1>2, <1>10, <3>1
    <2>2. Objects(to) = {}
      BY <1>7, <2>1
    <2> QED BY <1>6, <1>10, <2>2 DEF M
  <1> QED BY <1>9, <1>10

(* No message, or one, as what is handled. *)
LEMMA FewToSeq ==
  /\ SetToSeq({}) = << >>
  /\ \A n : SetToSeq({n}) = <<n>>
  <1>1. SetToSeq({}) = << >>
    <2>1. Cardinality({}) = 0
      BY FS_EmptySet
    <2>2. \A f : f \in [1 .. 0 -> {}] <=> f = << >>
      <3>1. ASSUME NEW f \in [1 .. 0 -> {}] PROVE f = << >>
        <4>1. f \in Seq({}) /\ Len(f) = 0
          BY IsSequence
        <4> QED BY <4>1, EmptySeq
      <3>2. << >> \in Seq({}) /\ Len(<< >>) = 0
        OBVIOUS
      <3>3. << >> \in [1 .. 0 -> {}]
        BY <3>2
      <3> QED BY <3>1, <3>3
    <2>3. IsInjective(<< >>)
      BY DEF IsInjective
    <2> QED BY <2>1, <2>2, <2>3 DEF SetToSeq
  <1>2. ASSUME NEW n PROVE SetToSeq({n}) = <<n>>
    <2>1. Cardinality({n}) = 1
      BY FS_Singleton
    <2>2. \A f : f \in [1 .. 1 -> {n}] <=> f = <<n>>
      OBVIOUS
    <2>3. IsInjective(<<n>>)
      BY DEF IsInjective
    <2> QED BY <2>1, <2>2, <2>3 DEF SetToSeq
  <1> QED BY <1>1, <1>2

------------------------------------------------------------------------------
(* The receiving thread. *)

(* Near which message's end a read ended. *)
LEMMA EndKindOf ==
  ASSUME NEW n \in Nat \ {0}, NEW to \in Nat
  PROVE  EndKind(n, to) = IF n # Ended(to) THEN {}
                          ELSE IF to < 12 * n - 1 THEN {"between"}
                          ELSE {"after"}
  <1>1. /\ Ended(to) \in Nat
        /\ 12 * Ended(to) <= to + 3 /\ to + 3 < 12 * Ended(to) + 12
    BY EndedBounds
  <1>2. /\ MessageLen = 12 /\ InnerClose(n) = 12 * n - 3
        /\ OuterClose(n) = 12 * n - 1
    BY StreamTokens DEF InnerClose, OuterClose, Begin
  <1>3. EndKind(n, to) = IF to < 12 * n - 3 \/ to >= 12 * n - 3 + 12 THEN {}
                         ELSE IF to < 12 * n - 1 THEN {"between"} ELSE {"after"}
    BY <1>2 DEF EndKind
  <1>4. (to < 12 * n - 3 \/ to >= 12 * n - 3 + 12) <=> n # Ended(to)
    <2> DEFINE M == Ended(to)
    <2>1. M \in Nat /\ 12 * M <= to + 3 /\ to + 3 < 12 * M + 12
      BY <1>1
    <2> HIDE DEF M
    <2>2. ASSUME n = M PROVE ~(to < 12 * n - 3 \/ to >= 12 * n - 3 + 12)
      BY <2>1, <2>2
    <2>3. ASSUME n < M PROVE to >= 12 * n - 3 + 12
      BY <2>1, <2>3
    <2>4. ASSUME n > M PROVE to < 12 * n - 3
      BY <2>1, <2>4
    <2>5. n = M \/ n < M \/ n > M
      BY <2>1
    <2>6. n < M \/ n > M => n # M
      BY <2>1
    <2> QED BY <2>2, <2>3, <2>4, <2>5, <2>6 DEF M
  <1> QED BY <1>3, <1>4

(* While the thread runs: m is the last message whose inner closing brace  *)
(* has been read, the buffer starts behind one of its braces, and reads    *)
(* have ended near the ends of messages up to m only.                      *)
TrackingUpTo(m) ==
  /\ CutFits(m)
  /\ \A n \in 1 .. MaxMessages : m < n => ends[n] = {}
  /\ m # 0 => ends[m] # {}
  /\ m # 0 /\ "after" \in ends[m] => 12 * m - 1 <= position

Tracking == TrackingUpTo(Ended(position))

(* The updates that StoredExactly expects. *)
Stored(n) == ends[n] = {"after"} /\ (n = 1 \/ ends[n - 1] # {})

(* A read within the same message stores nothing and cuts nothing. *)
LEMMA SameMessage ==
  ASSUME NEW m \in 1 .. MaxMessages, TrackingUpTo(m),
         NEW to, position \in Nat, position <= to, to \in Nat,
         Ended(to) = m,
         ends \in [1 .. MaxMessages -> SUBSET {"between", "after"}],
         ends' = [n \in DOMAIN ends |-> ends[n] \cup EndKind(n, to)],
         cut' = cut, position' = to
  PROVE  /\ TrackingUpTo(m)'
         /\ \A n \in 1 .. MaxMessages : Stored(n)' <=> Stored(n)
  <1> DEFINE kind == IF to < 12 * m - 1 THEN "between" ELSE "after"
  <1>1. m \in Nat \ {0} /\ MaxMessages \in Nat
    BY FramingAssumption
  <1>2. \A n \in 1 .. MaxMessages :
          ends'[n] = IF n = m THEN ends[n] \cup {kind} ELSE ends[n]
    <2> SUFFICES ASSUME NEW n \in 1 .. MaxMessages
                 PROVE  ends'[n] = IF n = m THEN ends[n] \cup {kind}
                                           ELSE ends[n]
      OBVIOUS
    <2>1. n \in Nat \ {0} /\ n \in DOMAIN ends
      BY FramingAssumption
    <2>2. EndKind(n, to) = IF n # m THEN {} ELSE {kind}
      BY <2>1, EndKindOf
    <2>3. ends'[n] = ends[n] \cup EndKind(n, to)
      BY <2>1
    <2> HIDE DEF kind
    <2> QED BY <2>2, <2>3
  <1>3. /\ cut = IF "between" \in ends[m] THEN 12 * m - 3 ELSE 12 * m - 1
        /\ \A n \in 1 .. MaxMessages : m < n => ends[n] = {}
        /\ ends[m] # {}
        /\ "after" \in ends[m] => 12 * m - 1 <= position
        /\ ends[m] \subseteq {"between", "after"}
    BY <1>1 DEF TrackingUpTo, CutFits
  <1>4. "between" \in ends'[m] <=> "between" \in ends[m]
    <2>1. kind = "between" => "after" \notin ends[m]
      BY <1>1, <1>3
    <2>2. kind = "between" => "between" \in ends[m]
      BY <1>3, <2>1
    <2>3. ends'[m] = ends[m] \cup {kind}
      BY <1>2
    <2>4. kind = "between" \/ kind = "after"
      OBVIOUS
    <2> HIDE DEF kind
    <2> QED BY <2>2, <2>3, <2>4
  <1>5. "after" \in ends'[m] => 12 * m - 1 <= to
    <2>1. kind = "after" => 12 * m - 1 <= to
      BY <1>1
    <2>2. "after" \in ends[m] => 12 * m - 1 <= to
      BY <1>1, <1>3
    <2>3. ends'[m] = ends[m] \cup {kind}
      BY <1>2
    <2> HIDE DEF kind
    <2> QED BY <2>1, <2>2, <2>3
  <1>6. ends'[m] # {}
    BY <1>2
  <1>7. \A n \in 1 .. MaxMessages : m < n => ends'[n] = {}
    BY <1>1, <1>2, <1>3
  <1>8. TrackingUpTo(m)'
    BY <1>1, <1>3, <1>4, <1>5, <1>6, <1>7 DEF TrackingUpTo, CutFits
  <1>9. ends'[m] = {"after"} <=> ends[m] = {"after"}
    <2>1. ends'[m] = ends[m] \cup {kind}
      BY <1>2
    <2>2. ASSUME ends[m] = {"after"} PROVE ends'[m] = {"after"}
      <3>1. 12 * m - 1 <= to
        BY <1>1, <1>3, <2>2
      <3>2. kind = "after"
        BY <1>1, <3>1
      <3> QED BY <2>1, <2>2, <3>2
    <2>3. ASSUME ends'[m] = {"after"} PROVE ends[m] = {"after"}
      <3>1. ends[m] \subseteq {"after"}
        BY <2>1, <2>3
      <3> QED BY <1>3, <3>1
    <2> QED BY <2>2, <2>3
  <1>10. ASSUME NEW n \in 1 .. MaxMessages
         PROVE  Stored(n)' <=> Stored(n)
    <2>1. ends'[n] = {"after"} <=> ends[n] = {"after"}
      BY <1>2, <1>9
    <2>2. n = 1 \/ (ends'[n - 1] # {} <=> ends[n - 1] # {})
      <3>1. CASE n = 1
        BY <3>1
      <3>2. CASE n # 1
        <4>1. n - 1 \in 1 .. MaxMessages
          BY <1>1, <3>2
        <4>2. n - 1 = m => ends'[n - 1] # {} /\ ends[n - 1] # {}
          BY <1>3, <1>6
        <4>3. n - 1 # m => ends'[n - 1] = ends[n - 1]
          BY <1>2, <4>1
        <4> QED BY <4>2, <4>3
      <3> QED BY <3>1, <3>2
    <2> QED BY <2>1, <2>2 DEF Stored
  <1> QED BY <1>8, <1>10

(* A read beyond it stores the next message if the read ends behind it and *)
(* before the end of another.                                              *)
LEMMA LaterMessage ==
  ASSUME NEW m \in Nat, TrackingUpTo(m), NEW M \in 1 .. MaxMessages, m < M,
         NEW to \in Nat, Ended(to) = M,
         ends \in [1 .. MaxMessages -> SUBSET {"between", "after"}],
         ends' = [n \in DOMAIN ends |-> ends[n] \cup EndKind(n, to)],
         cut' = (IF to < 12 * M - 1 THEN 12 * M - 3 ELSE 12 * M - 1),
         position' = to
  PROVE  /\ TrackingUpTo(M)'
         /\ \A n \in 1 .. MaxMessages :
              Stored(n)' <=> \/ Stored(n)
                             \/ n = m + 1 /\ M = m + 1 /\ 12 * M - 1 <= to
         /\ m + 1 <= MaxMessages /\ ~Stored(m + 1)
  <1> DEFINE kind == IF to < 12 * M - 1 THEN "between" ELSE "after"
  <1>1. M \in Nat \ {0} /\ MaxMessages \in Nat
    BY FramingAssumption
  <1>2. /\ \A n \in 1 .. MaxMessages : m < n => ends[n] = {}
        /\ m # 0 => ends[m] # {}
    BY DEF TrackingUpTo
  <1>3. \A n \in 1 .. MaxMessages :
          ends'[n] = IF n = M THEN {kind} ELSE ends[n]
    <2> SUFFICES ASSUME NEW n \in 1 .. MaxMessages
                 PROVE  ends'[n] = IF n = M THEN {kind} ELSE ends[n]
      OBVIOUS
    <2>1. n \in Nat \ {0} /\ n \in DOMAIN ends
      BY FramingAssumption
    <2>2. EndKind(n, to) = IF n # M THEN {} ELSE {kind}
      BY <2>1, EndKindOf
    <2>3. ends'[n] = ends[n] \cup EndKind(n, to)
      BY <2>1
    <2>4. n = M => ends[n] = {}
      BY <1>2
    <2> HIDE DEF kind
    <2> QED BY <2>2, <2>3, <2>4
  <1>4. ends'[M] = {kind}
    BY <1>3
  <1>5. /\ "between" \in ends'[M] <=> to < 12 * M - 1
        /\ "after" \in ends'[M] <=> 12 * M - 1 <= to
        /\ ends'[M] = {"after"} <=> 12 * M - 1 <= to
    <2>1. ends'[M] = IF to < 12 * M - 1 THEN {"between"} ELSE {"after"}
      BY <1>4
    <2>2. to < 12 * M - 1 <=> ~(12 * M - 1 <= to)
      BY <1>1
    <2> QED BY <2>1, <2>2
  <1>6. TrackingUpTo(M)'
    <2>1. cut' = IF M = 0 THEN 0
                 ELSE IF "between" \in ends'[M] THEN 12 * M - 3
                 ELSE 12 * M - 1
      BY <1>1, <1>5
    <2>2. \A n \in 1 .. MaxMessages : M < n => ends'[n] = {}
      BY <1>1, <1>2, <1>3
    <2>3. ends'[M] # {}
      BY <1>4
    <2>4. "after" \in ends'[M] => 12 * M - 1 <= position'
      BY <1>5
    <2> QED BY <2>1, <2>2, <2>3, <2>4 DEF TrackingUpTo, CutFits
  <1>7. m + 1 \in 1 .. MaxMessages /\ m + 1 <= M
    BY <1>1
  <1>8. ends[m + 1] = {} /\ ends[M] = {}
    BY <1>2, <1>7
  <1>9. ~Stored(m + 1)
    BY <1>8 DEF Stored
  <1>10. ASSUME NEW n \in 1 .. MaxMessages
         PROVE  Stored(n)' <=> \/ Stored(n)
                               \/ n = m + 1 /\ M = m + 1 /\ 12 * M - 1 <= to
    <2>1. CASE n < M
      <3>1. n # M /\ n - 1 # M
        BY <1>1, <2>1
      <3>2. n = 1 \/ n - 1 \in 1 .. MaxMessages
        BY <1>1
      <3>3. ends'[n] = ends[n] /\ (n = 1 \/ ends'[n - 1] = ends[n - 1])
        BY <1>3, <3>1, <3>2
      <3>4. Stored(n)' <=> Stored(n)
        BY <3>3 DEF Stored
      <3> QED BY <3>1, <3>4
    <2>2. CASE n = M
      <3>1. ~Stored(n)
        BY <1>8, <2>2 DEF Stored
      <3>2. ends'[n] = {"after"} <=> 12 * M - 1 <= to
        BY <1>5, <2>2
      <3>3. (n = 1 \/ ends'[n - 1] # {}) <=> M = m + 1
        <4>1. CASE n = 1
          BY <4>1, <2>2, <1>1
        <4>2. CASE n # 1
          <5>1. n - 1 \in 1 .. MaxMessages /\ n - 1 # M
            BY <1>1, <2>2, <4>2
          <5>2. ends'[n - 1] = ends[n - 1]
            BY <1>3, <5>1
          <5>3. ASSUME n - 1 = m PROVE ends[n - 1] # {} /\ M = m + 1
            BY <1>1, <1>2, <2>2, <4>2, <5>3
          <5>4. ASSUME n - 1 # m PROVE ends[n - 1] = {} /\ M # m + 1
            <6>1. m < n - 1
              BY <1>1, <2>2, <5>4
            <6> QED BY <1>2, <2>2, <5>1, <6>1
          <5> QED BY <4>2, <5>2, <5>3, <5>4
        <4> QED BY <4>1, <4>2
      <3>4. Stored(n)' <=> ends'[n] = {"after"} /\ (n = 1 \/ ends'[n - 1] # {})
        BY DEF Stored
      <3> QED BY <2>2, <3>1, <3>2, <3>3, <3>4
    <2>3. CASE n > M
      <3>1. ends[n] = {} /\ ends'[n] = {} /\ n # m + 1
        BY <1>1, <1>2, <1>3, <2>3
      <3> QED BY <3>1 DEF Stored
    <2> QED BY <1>1, <2>1, <2>2, <2>3
  <1> QED BY <1>1, <1>6, <1>7, <1>9, <1>10

------------------------------------------------------------------------------
(* The store. *)

(* What is added to the end of a sequence is added to its elements. *)
LEMMA OneMore ==
  ASSUME NEW V, NEW seq \in Seq(V), NEW x \in V
  PROVE  /\ seq \o <<x>> \in Seq(V)
         /\ ToSet(seq \o <<x>>) = ToSet(seq) \cup {x}
         /\ Len(seq \o <<x>>) = Len(seq) + 1
         /\ (seq \o <<x>>)[Len(seq) + 1] = x
         /\ \A i \in 1 .. Len(seq) : (seq \o <<x>>)[i] = seq[i]
  <1> DEFINE new == seq \o <<x>>
  <1>1. /\ new \in Seq(V) /\ Len(new) = Len(seq) + 1
        /\ new[Len(seq) + 1] = x
        /\ \A i \in 1 .. Len(seq) : new[i] = seq[i]
    OBVIOUS
  <1>2. Len(seq) \in Nat /\ DOMAIN seq = 1 .. Len(seq)
          /\ DOMAIN new = 1 .. Len(seq) + 1
    BY <1>1
  <1> HIDE DEF new
  <1>3. ASSUME NEW y \in ToSet(new) PROVE y \in ToSet(seq) \cup {x}
    <2>1. PICK i \in 1 .. Len(seq) + 1 : y = new[i]
      BY <1>2 DEF ToSet
    <2>2. CASE i \in 1 .. Len(seq)
      BY <1>1, <1>2, <2>1, <2>2 DEF ToSet
    <2>3. CASE i = Len(seq) + 1
      BY <1>1, <2>1, <2>3
    <2> QED BY <1>2, <2>2, <2>3
  <1>4. ASSUME NEW i \in DOMAIN seq PROVE seq[i] \in ToSet(new)
    <2>1. i \in DOMAIN new /\ new[i] = seq[i]
      BY <1>1, <1>2
    <2> QED BY <2>1 DEF ToSet
  <1>5. x \in ToSet(new)
    <2>1. Len(seq) + 1 \in DOMAIN new
      BY <1>2
    <2> QED BY <1>1, <2>1 DEF ToSet
  <1>6. ToSet(new) = ToSet(seq) \cup {x}
    BY <1>3, <1>4, <1>5 DEF ToSet
  <1> QED BY <1>1, <1>6 DEF new

(* The store has the latest message of each field. *)
LEMMA DataStoreIs ==
  ASSUME FramingInv, NEW f
  PROVE  /\ DataStore(f) \in 0 .. MaxMessages
         /\ \/ DataStore(f) = NoValue
            \/ DataStore(f) \in ToSet(handled) /\ FieldOf(DataStore(f)) = f
         /\ \A n \in ToSet(handled) : FieldOf(n) = f => n <= DataStore(f)
  <1> DEFINE T == {NoValue} \cup {n \in ToSet(handled) : FieldOf(n) = f}
  <1>1. ToSet(handled) \subseteq 0 .. MaxMessages
    <2>1. /\ handled \in Seq(1 .. sent)
          /\ sent \in Nat /\ MaxMessages \in Nat /\ sent <= MaxMessages
      BY FramingFacts
    <2>2. \A k \in 1 .. Len(handled) : handled[k] \in 1 .. sent
      BY FramingFacts
    <2>3. \A k \in 1 .. Len(handled) : handled[k] \in 0 .. MaxMessages
      BY <2>1, <2>2
    <2>4. DOMAIN handled = 1 .. Len(handled)
      BY <2>1
    <2> QED BY <2>3, <2>4 DEF ToSet
  <1>2. T \subseteq 0 .. MaxMessages /\ T # {} /\ MaxMessages \in Nat
    BY <1>1, FramingAssumption DEF NoValue
  <1>3. DataStore(f) = Max(T)
    BY DEF DataStore
  <1>4. DataStore(f) \in T /\ \A y \in T : y <= DataStore(f)
    <2> HIDE DEF T
    <2> QED BY <1>2, <1>3, MaxIsGreatest
  <1> QED BY <1>2, <1>4

(* A longitude read or answered is one of the store, and where the         *)
(* latitude before it was stored, too, the answer has that or a later one. *)
SkewInv ==
  /\ \/ firstRead \in {NoRequest, NoValue}
     \/ firstRead \in ToSet(handled) /\ FieldOf(firstRead) = "lon"
  /\ location["lon"] = NoValue \/ location["lon"] \in ToSet(handled)
  /\ location["lon"] - 1 \in ToSet(handled)
       => location["lat"] >= location["lon"] - 1

BridgeInv ==
  /\ FramingInv
  /\ BridgeTypeOK
  /\ StoredExactly
  /\ reader = "bridge" /\ receiving => Tracking
  /\ reader = "bridge" => SkewInv
  /\ reader = "bridge" => whole = {}

(* The elements of handled are messages written. *)
LEMMA HandledElements ==
  ASSUME FramingInv
  PROVE  /\ ToSet(handled) \subseteq 1 .. sent
         /\ \A k \in 1 .. Len(handled) : handled[k] \in ToSet(handled)
  <1>1. handled \in Seq(1 .. sent) /\ DOMAIN handled = 1 .. Len(handled)
    BY FramingFacts
  <1>2. \A k \in 1 .. Len(handled) : handled[k] \in 1 .. sent
    BY FramingFacts
  <1> QED BY <1>1, <1>2 DEF ToSet

(* Storing a message later than all others keeps the order and the answers.*)
LEMMA StoreOne ==
  ASSUME BridgeInv, reader = "bridge", NEW x \in 1 .. sent,
         \A n \in ToSet(handled) : n < x,
         NEW to \in position .. 12 * sent, 12 * (x - 1) + 3 <= to,
         handled' = handled \o <<x>>, position' = to,
         UNCHANGED <<reader, sent, whole, firstRead, location>>
  PROVE  /\ FramingInv' /\ SkewInv'
         /\ ToSet(handled') = ToSet(handled) \cup {x}
  <1>1. /\ MaxMessages \in Nat /\ sent \in Nat /\ position \in Nat
        /\ sent <= MaxMessages
        /\ handled \in Seq(1 .. sent) /\ whole \subseteq 1 .. sent
        /\ \A k \in 1 .. Len(handled) :
             handled[k] \in 1 .. sent /\ 12 * (handled[k] - 1) + 3 <= position
        /\ \A i, j \in 1 .. Len(handled) : i < j => handled[i] < handled[j]
    BY FramingFacts DEF BridgeInv
  <1>2. /\ handled' \in Seq(1 .. sent)
        /\ ToSet(handled') = ToSet(handled) \cup {x}
        /\ Len(handled') = Len(handled) + 1
        /\ handled'[Len(handled) + 1] = x
        /\ \A i \in 1 .. Len(handled) : handled'[i] = handled[i]
    BY <1>1, OneMore
  <1>3. Len(handled) \in Nat /\ DOMAIN handled' = 1 .. Len(handled) + 1
    BY <1>1, <1>2
  <1>4. \A k \in 1 .. Len(handled) + 1 :
          k \in 1 .. Len(handled) \/ k = Len(handled) + 1
    BY <1>3
  <1>5. \A k \in 1 .. Len(handled) : handled[k] < x
    BY HandledElements DEF BridgeInv
  <1>6. InOrder'
    <2> SUFFICES ASSUME NEW i \in 1 .. Len(handled) + 1,
                        NEW j \in 1 .. Len(handled) + 1, i < j
                 PROVE  handled'[i] < handled'[j]
      BY <1>3 DEF InOrder
    <2>1. i \in 1 .. Len(handled)
      BY <1>3
    <2>2. CASE j \in 1 .. Len(handled)
      BY <1>1, <1>2, <2>1, <2>2
    <2>3. CASE j = Len(handled) + 1
      BY <1>2, <1>5, <2>1, <2>3
    <2> QED BY <1>4, <2>2, <2>3
  <1>7. Behind'
    <2> SUFFICES ASSUME NEW k \in 1 .. Len(handled) + 1
                 PROVE  12 * (handled'[k] - 1) + 3 <= to
      BY <1>2 DEF Behind
    <2>1. CASE k \in 1 .. Len(handled)
      <3> DEFINE h == handled[k]
      <3>1. h \in 1 .. sent /\ 12 * (h - 1) + 3 <= position /\ handled'[k] = h
        BY <1>1, <1>2, <2>1
      <3> HIDE DEF h
      <3>2. 12 * (h - 1) + 3 <= to
        BY <1>1, <3>1
      <3> QED BY <3>1, <3>2
    <2>2. CASE k = Len(handled) + 1
      BY <1>2, <2>2
    <2> QED BY <1>4, <2>1, <2>2
  <1>8. TypeOK'
    <2>1. position' \in 0 .. sent' * MessageLen
      BY <1>1, StreamTokens
    <2>2. TypeOK
      BY DEF BridgeInv, FramingInv
    <2> QED BY <1>2, <2>1, <2>2 DEF TypeOK
  <1>9. SkewInv'
    <2>1. SkewInv
      BY DEF BridgeInv
    <2>2. location["lon"] - 1 \in ToSet(handled')
            => location["lon"] - 1 \in ToSet(handled)
      <3> SUFFICES ASSUME location["lon"] - 1 = x PROVE FALSE
        BY <1>2
      <3>1. CASE location["lon"] = NoValue
        BY <3>1 DEF NoValue
      <3>2. CASE location["lon"] \in ToSet(handled)
        <4>1. location["lon"] < x /\ location["lon"] \in 1 .. sent
          BY <3>2, HandledElements DEF BridgeInv
        <4> QED BY <4>1
      <3> QED BY <2>1, <3>1, <3>2 DEF SkewInv
    <2> QED BY <1>2, <2>1, <2>2 DEF SkewInv
  <1> QED BY <1>2, <1>6, <1>7, <1>8, <1>9 DEF FramingInv

(* A read that stores nothing keeps them, too. *)
LEMMA StoreNone ==
  ASSUME BridgeInv, reader = "bridge", NEW to \in position .. 12 * sent,
         handled' = handled, position' = to,
         UNCHANGED <<reader, sent, whole, firstRead, location>>
  PROVE  FramingInv' /\ SkewInv'
  <1>1. /\ sent \in Nat /\ position \in Nat
        /\ \A k \in 1 .. Len(handled) :
             handled[k] \in 1 .. sent /\ 12 * (handled[k] - 1) + 3 <= position
    BY FramingFacts DEF BridgeInv
  <1>2. TypeOK /\ InOrder /\ SkewInv
    BY DEF BridgeInv, FramingInv
  <1>3. position' \in 0 .. sent' * MessageLen
    BY <1>1, StreamTokens
  <1>4. TypeOK'
    BY <1>2, <1>3 DEF TypeOK
  <1>5. Behind'
    <2> SUFFICES ASSUME NEW k \in 1 .. Len(handled)
                 PROVE  12 * (handled[k] - 1) + 3 <= to
      BY DEF Behind
    <2> DEFINE h == handled[k]
    <2>1. h \in 1 .. sent /\ 12 * (h - 1) + 3 <= position
      BY <1>1
    <2> HIDE DEF h
    <2>2. 12 * (h - 1) + 3 <= to
      BY <1>1, <2>1
    <2> QED BY <2>2 DEF h
  <1>6. InOrder' /\ SkewInv'
    BY <1>2 DEF InOrder, SkewInv
  <1> QED BY <1>4, <1>5, <1>6 DEF FramingInv

(* What the thread has stored it has seen the end of. *)
LEMMA StoredEnded ==
  ASSUME BridgeInv, reader = "bridge", receiving, NEW n \in ToSet(handled)
  PROVE  n \in 1 .. MaxMessages /\ n <= Ended(position)
  <1>1. n \in 1 .. MaxMessages /\ ends[n] = {"after"}
    BY DEF BridgeInv, StoredExactly
  <1>2. Ended(position) \in Nat
    BY FramingFacts, EndedBounds DEF BridgeInv
  <1>3. ~(Ended(position) < n)
    BY <1>1 DEF BridgeInv, Tracking, TrackingUpTo
  <1> QED BY <1>1, <1>2, <1>3, FramingAssumption

------------------------------------------------------------------------------
(* The steps. *)

(* A read whose last character is whole. *)
LEMMA ReceiveWhole ==
  ASSUME BridgeInv, reader = "bridge", receiving,
         NEW to \in position + 1 .. sent * MessageLen,
         handled' = handled \o SetToSeq(Objects(to)),
         cut' = CutAfter(to),
         ends' = [n \in DOMAIN ends |-> ends[n] \cup EndKind(n, to)],
         position' = to,
         UNCHANGED <<reader, sent, whole, firstRead, location>>
  PROVE  /\ FramingInv' /\ SkewInv' /\ StoredExactly' /\ Tracking'
         /\ cut' \in 0 .. position'
  <1> DEFINE m == Ended(position)
             M == Ended(to)
  <1>1. /\ MaxMessages \in Nat /\ sent \in Nat /\ position \in Nat
        /\ sent <= MaxMessages /\ MessageLen = 12
        /\ handled \in Seq(1 .. sent)
    BY FramingFacts, StreamTokens DEF BridgeInv
  <1>2. to \in Nat /\ position < to /\ to <= 12 * sent
          /\ to \in position .. 12 * sent
    BY <1>1
  <1>3. /\ m \in Nat /\ M \in Nat /\ m <= M
        /\ 12 * m <= position + 3 /\ position + 3 < 12 * m + 12
        /\ 12 * M <= to + 3 /\ to + 3 < 12 * M + 12
    <2>1. /\ m \in Nat
          /\ 12 * m <= position + 3 /\ position + 3 < 12 * m + 12
      BY <1>1, EndedBounds
    <2>2. /\ M \in Nat
          /\ 12 * M <= to + 3 /\ to + 3 < 12 * M + 12
      BY <1>2, EndedBounds
    <2> HIDE DEF m, M
    <2>3. m <= M
      BY <1>1, <1>2, <2>1, <2>2
    <2> QED BY <2>1, <2>2, <2>3
  <1>4. TrackingUpTo(m) /\ CutFits(m)
    BY DEF BridgeInv, Tracking, TrackingUpTo
  <1>5. ends \in [1 .. MaxMessages -> SUBSET {"between", "after"}]
    BY DEF BridgeInv, BridgeTypeOK
  <1>6. ToSet(handled) = {n \in 1 .. MaxMessages : Stored(n)}
    BY DEF BridgeInv, StoredExactly, Stored
  <1>7. TrackingUpTo(M)' => Tracking'
    BY DEF Tracking
  <1>8. ToSet(handled)' = {n \in 1 .. MaxMessages : Stored(n)'}
          => StoredExactly'
    BY DEF StoredExactly, Stored
  <1>9. M <= sent
    BY <1>1, <1>2, <1>3
  <1>10. cut \in Nat /\ cut <= 12 * m
           /\ (m = 0 => cut = 0)
           /\ (m # 0 => cut = 12 * m - 3 \/ cut = 12 * m - 1)
    BY <1>3, <1>4, CutBounds
  <1>11. cut \in 0 .. position
    BY DEF BridgeInv, BridgeTypeOK
  <1>12. CASE M = m
    <2>1. ~HasObject(to)
      BY <1>2, <1>3, <1>4, <1>12, NoObject
    <2>2. Objects(to) = {} /\ cut' = cut
      BY <2>1 DEF Objects, CutAfter
    <2>3. handled' = handled
      <3>1. handled' = handled \o << >>
        BY <2>2, FewToSeq
      <3> QED BY <1>1, <3>1
    <2>4. FramingInv' /\ SkewInv'
      BY <1>2, <2>3, StoreNone
    <2>5. /\ TrackingUpTo(M)'
          /\ \A n \in 1 .. MaxMessages : Stored(n)' <=> Stored(n)
      <3>1. CASE m = 0
        <4>1. \A n \in 1 .. MaxMessages : ends'[n] = ends[n]
          <5> SUFFICES ASSUME NEW n \in 1 .. MaxMessages
                       PROVE  ends'[n] = ends[n]
            OBVIOUS
          <5>1. n \in Nat \ {0} /\ n # Ended(to) /\ n \in DOMAIN ends
            BY <1>1, <1>5, <1>12, <3>1
          <5>2. EndKind(n, to) = {}
            BY <1>2, <5>1, EndKindOf
          <5> QED BY <5>1, <5>2
        <4>2. DOMAIN ends' = 1 .. MaxMessages /\ DOMAIN ends = 1 .. MaxMessages
          BY <1>5
        <4>3. ends' = ends
          BY <1>5, <4>1, <4>2
        <4>4. M = 0
          BY <1>12, <3>1
        <4> HIDE DEF M, m
        <4>5. TrackingUpTo(0)
          BY <1>4, <3>1
        <4>6. TrackingUpTo(0)'
          BY <2>2, <4>3, <4>5 DEF TrackingUpTo, CutFits
        <4>7. \A n \in 1 .. MaxMessages : Stored(n)' <=> Stored(n)
          BY <4>3 DEF Stored
        <4>8. TrackingUpTo(M)'
          BY <4>4, <4>6 DEF TrackingUpTo, CutFits
        <4> QED BY <4>7, <4>8
      <3>2. CASE m # 0
        <4>0. m \in 1 .. MaxMessages
          <5> HIDE DEF m, M
          <5> QED BY <1>1, <1>3, <1>9, <1>12, <3>2
        <4>1. PICK k \in 1 .. MaxMessages :
                k = m /\ TrackingUpTo(k) /\ Ended(to) = k /\ M = k
          BY <4>0, <1>4, <1>12
        <4>2. TrackingUpTo(k)' /\ \A n \in 1 .. MaxMessages :
                                    Stored(n)' <=> Stored(n)
          <5> HIDE DEF m, M
          <5>1. position <= to
            BY <1>1, <1>2
          <5>2. TrackingUpTo(k) /\ Ended(to) = k
            BY <4>1
          <5> QED BY <5>1, <5>2, <1>1, <1>2, <1>5, <2>2, SameMessage
        <4> HIDE DEF M
        <4>3. TrackingUpTo(M)'
          BY <4>1, <4>2 DEF TrackingUpTo, CutFits
        <4> QED BY <4>2, <4>3
      <3> QED BY <3>1, <3>2
    <2>6. ToSet(handled)' = {n \in 1 .. MaxMessages : Stored(n)'}
      BY <1>6, <2>3, <2>5
    <2>7. cut' \in 0 .. position'
      BY <1>1, <1>2, <1>11, <2>2
    <2> QED BY <1>7, <1>8, <2>4, <2>5, <2>6, <2>7
  <1>13. CASE m < M
    <2> DEFINE last == IF to < 12 * M - 1 THEN 12 * M - 3 ELSE 12 * M - 1
               next == M = m + 1 /\ 12 * M - 1 <= to
    <2>1. HasObject(to) /\ Objects(to) = IF next THEN {m + 1} ELSE {}
      BY <1>1, <1>2, <1>3, <1>4, <1>13, ObjectFound
    <2>2. cut' = last
      <3>1. cut' = LastClose(to)
        BY <2>1 DEF CutAfter
      <3>2. LastClose(to) = last
        BY <1>2, <1>3, <1>4, <1>13, LastCloseOf
      <3> QED BY <3>1, <3>2
    <2> DEFINE k == m
               K == M
    <2>3. k \in Nat /\ TrackingUpTo(k) /\ K \in 1 .. MaxMessages /\ k < K
            /\ Ended(to) = K
      BY <1>1, <1>3, <1>4, <1>9, <1>13, SMTT(30)
    <2>4. cut' = IF to < 12 * K - 1 THEN 12 * K - 3 ELSE 12 * K - 1
      BY <2>2
    <2>5. next <=> K = k + 1 /\ 12 * K - 1 <= to
      OBVIOUS
    <2> HIDE DEF k, K, last, next
    <2>6. /\ TrackingUpTo(K)'
          /\ \A n \in 1 .. MaxMessages :
               Stored(n)' <=> \/ Stored(n)
                              \/ n = k + 1 /\ K = k + 1 /\ 12 * K - 1 <= to
          /\ k + 1 <= MaxMessages /\ ~Stored(k + 1)
      BY <1>2, <1>5, <2>3, <2>4, LaterMessage
    <2>7. TrackingUpTo(M)'
      BY <2>3, <2>6 DEF TrackingUpTo, CutFits
    <2>8. cut' \in 0 .. position'
      BY <1>2, <1>3, <1>13, <2>2, SMTT(30) DEF last
    <2>9. CASE next
      <3>1. handled' = handled \o <<m + 1>>
        BY <2>1, <2>9, FewToSeq
      <3>2. m + 1 \in 1 .. sent /\ 12 * (m + 1 - 1) + 3 <= to
        BY <1>1, <1>3, <1>9, <2>9, SMTT(30) DEF next
      <3>3. \A n \in ToSet(handled) : n < m + 1
        <4> SUFFICES ASSUME NEW n \in ToSet(handled) PROVE n < m + 1
          OBVIOUS
        <4>1. n \in 1 .. MaxMessages /\ n <= m
          BY StoredEnded
        <4> HIDE DEF m
        <4> QED BY <1>3, <4>1
      <3> DEFINE x == m + 1
      <3>4. x \in 1 .. sent /\ 12 * (x - 1) + 3 <= to
              /\ handled' = handled \o <<x>> /\ \A n \in ToSet(handled) : n < x
        <4>1. x = m + 1
          OBVIOUS
        <4> HIDE DEF m, M, x
        <4>2. x \in 1 .. sent /\ 12 * (x - 1) + 3 <= to
          BY <1>3, <3>2, <4>1
        <4>3. handled' = handled \o <<x>>
          BY <3>1, <4>1
        <4>4. \A n \in ToSet(handled) : n < x
          BY <3>3, <4>1
        <4> QED BY <4>2, <4>3, <4>4
      <3>5. x = k + 1
        BY DEF k
      <3> HIDE DEF x
      <3>6. /\ FramingInv' /\ SkewInv'
            /\ ToSet(handled') = ToSet(handled) \cup {x}
        BY <1>2, <3>4, StoreOne
      <3>7. x \in 1 .. MaxMessages
        BY <1>1, <3>4
      <3>8. \A n \in 1 .. MaxMessages : Stored(n)' <=> Stored(n) \/ n = x
        BY <2>5, <2>6, <2>9, <3>5
      <3>9. ToSet(handled)' = {n \in 1 .. MaxMessages : Stored(n)'}
        BY <1>6, <3>6, <3>7, <3>8
      <3> QED BY <1>7, <1>8, <2>7, <2>8, <3>6, <3>9
    <2>10. CASE ~next
      <3>1. handled' = handled \o << >>
        BY <2>1, <2>10, FewToSeq
      <3>2. handled' = handled
        BY <1>1, <3>1
      <3>3. FramingInv' /\ SkewInv'
        BY <1>2, <3>2, StoreNone
      <3>4. \A n \in 1 .. MaxMessages : Stored(n)' <=> Stored(n)
        BY <2>5, <2>6, <2>10
      <3>5. ToSet(handled)' = {n \in 1 .. MaxMessages : Stored(n)'}
        BY <1>6, <3>2, <3>4
      <3> QED BY <1>7, <1>8, <2>7, <2>8, <3>3, <3>5
    <2> QED BY <2>9, <2>10
  <1>14. M = m \/ m < M
    <2> HIDE DEF M, m
    <2> QED BY <1>3
  <1> QED BY <1>12, <1>13, <1>14

(* receive_data, a torn character included. *)
LEMMA ReceiveStep ==
  ASSUME BridgeInv, Receive
  PROVE  BridgeInv'
  <1>1. PICK to \in position + 1 .. sent * MessageLen :
          /\ position' = to
          /\ receiving' = ~Torn(to)
          /\ IF Torn(to)
             THEN UNCHANGED <<handled, cut, ends>>
             ELSE /\ handled' = handled \o SetToSeq(Objects(to))
                  /\ cut' = CutAfter(to)
                  /\ ends' = [n \in DOMAIN ends |-> ends[n] \cup EndKind(n, to)]
    BY DEF Receive
  <1>2. reader = "bridge" /\ receiving
          /\ UNCHANGED <<reader, sent, whole, firstRead, location>>
    BY DEF Receive
  <1>3. /\ sent \in Nat /\ position \in Nat /\ MessageLen = 12
    BY FramingFacts, StreamTokens DEF BridgeInv
  <1>4. to \in position .. 12 * sent
    BY <1>3
  <1>5. BridgeTypeOK /\ whole = {}
    BY <1>2 DEF BridgeInv
  <1>6. receiving' \in BOOLEAN
    BY <1>1 DEF Torn
  <1>7. CASE Torn(to)
    <2>1. FramingInv' /\ SkewInv'
      BY <1>1, <1>2, <1>4, <1>7, StoreNone
    <2>2. StoredExactly'
      BY <1>1, <1>2, <1>7 DEF BridgeInv, StoredExactly
    <2>3. cut' \in 0 .. position'
      BY <1>1, <1>3, <1>4, <1>5, <1>7 DEF BridgeTypeOK
    <2>4. BridgeTypeOK'
      BY <1>1, <1>2, <1>5, <1>6, <1>7, <2>1, <2>3
         DEF BridgeTypeOK, FramingInv
    <2>5. ~receiving' /\ whole' = {}
      BY <1>1, <1>2, <1>5, <1>7
    <2> QED BY <2>1, <2>2, <2>4, <2>5 DEF BridgeInv
  <1>8. CASE ~Torn(to)
    <2>1. /\ handled' = handled \o SetToSeq(Objects(to))
          /\ cut' = CutAfter(to)
          /\ ends' = [n \in DOMAIN ends |-> ends[n] \cup EndKind(n, to)]
      BY <1>1, <1>8
    <2>2. /\ FramingInv' /\ SkewInv' /\ StoredExactly' /\ Tracking'
          /\ cut' \in 0 .. position'
      BY <1>1, <1>2, <2>1, ReceiveWhole
    <2>3. ends' \in [1 .. MaxMessages -> SUBSET {"between", "after"}]
      <3>1. \A n \in 1 .. MaxMessages :
              EndKind(n, to) \subseteq {"between", "after"}
        BY DEF EndKind
      <3>2. ends \in [1 .. MaxMessages -> SUBSET {"between", "after"}]
        BY <1>5 DEF BridgeTypeOK
      <3> QED BY <2>1, <3>1, <3>2
    <2>4. BridgeTypeOK'
      BY <1>2, <1>5, <1>6, <2>2, <2>3 DEF BridgeTypeOK, FramingInv
    <2>5. whole' = {}
      BY <1>2, <1>5
    <2> QED BY <2>2, <2>4, <2>5 DEF BridgeInv
  <1> QED BY <1>7, <1>8

(* The first state. *)
LEMMA BridgeStart ==
  BridgeInit => BridgeInv
  <1> SUFFICES ASSUME BridgeInit PROVE BridgeInv
    OBVIOUS
  <1>1. /\ Init /\ receiving = TRUE /\ cut = 0
        /\ ends = [n \in 1 .. MaxMessages |-> {}]
        /\ firstRead = NoRequest /\ location = [f \in Fields |-> NoValue]
    BY DEF BridgeInit
  <1>2. FramingInv
    BY <1>1, FramingInit
  <1>3. handled = << >> /\ whole = {} /\ position = 0
    BY <1>1 DEF Init
  <1>4. ToSet(handled) = {} /\ \A n \in 1 .. MaxMessages : ends[n] = {}
    BY <1>1, <1>3 DEF ToSet
  <1>5. BridgeTypeOK
    <2>1. TypeOK
      BY <1>2 DEF FramingInv
    <2>2. /\ cut \in 0 .. position
          /\ firstRead \in 0 .. MaxMessages \cup {NoRequest}
      BY <1>1, <1>3
    <2>3. location \in [Fields -> 0 .. MaxMessages]
      BY <1>1, FramingAssumption DEF NoValue
    <2>4. ends \in [1 .. MaxMessages -> SUBSET {"between", "after"}]
      BY <1>1
    <2> QED BY <1>1, <2>1, <2>2, <2>3, <2>4 DEF BridgeTypeOK
  <1>6. StoredExactly
    BY <1>4 DEF StoredExactly
  <1>7. Tracking
    <2>1. Ended(position) = 0
      BY <1>3 DEF Ended
    <2>2. TrackingUpTo(0)
      BY <1>1, <1>4 DEF TrackingUpTo, CutFits
    <2> QED BY <2>1, <2>2 DEF Tracking
  <1>8. SkewInv
    <2>1. "lon" \in Fields
      BY DEF Fields
    <2>2. location["lon"] = NoValue
      BY <1>1, <2>1
    <2> QED BY <1>1, <1>4, <2>2 DEF SkewInv
  <1> QED BY <1>2, <1>3, <1>5, <1>6, <1>7, <1>8 DEF BridgeInv

(* Every step of the bridge, the server and the other readers. *)
LEMMA BridgeStep ==
  BridgeInv /\ [BridgeNext]_bridgeVars => BridgeInv'
  <1> SUFFICES ASSUME BridgeInv, [BridgeNext]_bridgeVars PROVE BridgeInv'
    OBVIOUS
  <1>1. FramingInv /\ BridgeTypeOK /\ StoredExactly
    BY DEF BridgeInv
  <1>2. CASE ServerWrites
    <2>1. Write /\ UNCHANGED <<receiving, cut, ends, firstRead, location>>
      BY <1>2 DEF ServerWrites
    <2>2. FramingInv'
      BY <1>1, <2>1, FramingStep DEF Next
    <2>3. UNCHANGED <<reader, position, handled, whole>>
      BY <2>1 DEF Write
    <2>4. BridgeTypeOK'
      BY <1>1, <2>1, <2>2, <2>3 DEF BridgeTypeOK, FramingInv
    <2>5. StoredExactly'
      BY <1>1, <2>1, <2>3 DEF StoredExactly
    <2>6. reader' = "bridge" /\ receiving' => Tracking'
      BY <2>1, <2>3 DEF BridgeInv, Tracking, TrackingUpTo, CutFits
    <2>7. reader' = "bridge" => SkewInv' /\ whole' = {}
      BY <2>1, <2>3 DEF BridgeInv, SkewInv
    <2> QED BY <2>2, <2>4, <2>5, <2>6, <2>7 DEF BridgeInv
  <1>3. CASE OtherReads
    <2>1. Read /\ UNCHANGED <<receiving, cut, ends, firstRead, location>>
      BY <1>3 DEF OtherReads
    <2>2. FramingInv'
      BY <1>1, <2>1, FramingStep DEF Next
    <2>3. /\ reader # "bridge" /\ reader' = reader
          /\ position \in Nat /\ position' \in Nat /\ position <= position'
      <3>1. position \in Nat
        BY <1>1, FramingFacts
      <3>2. PICK to \in position + 1 .. Len(Stream) :
              position' = to /\ reader' = reader
        BY <2>1 DEF Read
      <3> QED BY <2>1, <3>1, <3>2 DEF Read
    <2>4. cut' \in 0 .. position'
      BY <1>1, <2>1, <2>3 DEF BridgeTypeOK
    <2>5. BridgeTypeOK'
      BY <1>1, <2>1, <2>2, <2>4 DEF BridgeTypeOK, FramingInv
    <2>6. StoredExactly'
      BY <2>3 DEF StoredExactly
    <2> QED BY <2>2, <2>3, <2>5, <2>6 DEF BridgeInv
  <1>4. CASE Receive
    BY <1>4, ReceiveStep
  <1>5. CASE UNCHANGED <<reader, sent, position, handled, whole, cut, ends>>
             /\ receiving' \in BOOLEAN /\ (receiving' => receiving)
             /\ firstRead' \in 0 .. MaxMessages \cup {NoRequest}
             /\ location' \in [Fields -> 0 .. MaxMessages]
             /\ (reader = "bridge" => SkewInv')
    <2>1. FramingInv'
      BY <1>1, <1>5, FramingStep DEF vars
    <2>2. BridgeTypeOK'
      BY <1>1, <1>5, <2>1 DEF BridgeTypeOK, FramingInv
    <2>3. StoredExactly'
      BY <1>1, <1>5 DEF StoredExactly
    <2>4. reader' = "bridge" /\ receiving' => Tracking'
      BY <1>5 DEF BridgeInv, Tracking, TrackingUpTo, CutFits
    <2>5. reader' = "bridge" => SkewInv' /\ whole' = {}
      BY <1>5 DEF BridgeInv
    <2> QED BY <2>1, <2>2, <2>3, <2>4, <2>5 DEF BridgeInv
  <1>6. CASE ConnectionEnds
    <2>1. /\ UNCHANGED <<reader, sent, position, handled, whole, cut, ends>>
          /\ UNCHANGED <<firstRead, location>>
          /\ receiving' = FALSE
      BY <1>6 DEF ConnectionEnds
    <2>2. reader = "bridge" => SkewInv'
      BY <2>1 DEF BridgeInv, SkewInv
    <2> QED BY <1>1, <1>5, <2>1, <2>2 DEF BridgeTypeOK
  <1>7. CASE GetLocation
    <2>1. /\ UNCHANGED <<reader, sent, position, handled, whole, cut, ends>>
          /\ UNCHANGED <<receiving, location>>
          /\ firstRead' = DataStore("lon")
      BY <1>7 DEF GetLocation, FirstField
    <2>2. /\ DataStore("lon") \in 0 .. MaxMessages
          /\ \/ DataStore("lon") = NoValue
             \/ DataStore("lon") \in ToSet(handled)
                  /\ FieldOf(DataStore("lon")) = "lon"
      BY <1>1, DataStoreIs
    <2>3. reader = "bridge" => SkewInv'
      BY <2>1, <2>2 DEF BridgeInv, SkewInv
    <2> QED BY <1>1, <1>5, <2>1, <2>2, <2>3 DEF BridgeTypeOK
  <1>8. CASE AnswerLocation
    <2>1. /\ UNCHANGED <<reader, sent, position, handled, whole, cut, ends>>
          /\ UNCHANGED <<receiving>>
          /\ firstRead # NoRequest /\ firstRead' = NoRequest
          /\ location' = [f \in Fields |-> IF f = "lon" THEN firstRead
                                           ELSE DataStore("lat")]
      BY <1>8 DEF AnswerLocation, FirstField, SecondField
    <2>2. /\ DataStore("lat") \in 0 .. MaxMessages
          /\ \A n \in ToSet(handled) :
               FieldOf(n) = "lat" => n <= DataStore("lat")
      BY <1>1, DataStoreIs
    <2>3. firstRead \in 0 .. MaxMessages
      BY <1>1, <2>1 DEF BridgeTypeOK
    <2>4. /\ location' \in [Fields -> 0 .. MaxMessages]
          /\ location'["lon"] = firstRead /\ location'["lat"] = DataStore("lat")
      BY <2>1, <2>2, <2>3 DEF Fields
    <2>5. reader = "bridge" => SkewInv'
      <3> SUFFICES ASSUME reader = "bridge" PROVE SkewInv'
        OBVIOUS
      <3>1. \/ firstRead = NoValue
            \/ firstRead \in ToSet(handled) /\ FieldOf(firstRead) = "lon"
        BY <2>1 DEF BridgeInv, SkewInv
      <3>2. ASSUME firstRead - 1 \in ToSet(handled)
            PROVE  DataStore("lat") >= firstRead - 1
        <4>1. firstRead - 1 \in 1 .. sent
          BY <1>1, <3>2, HandledElements
        <4>2. firstRead # NoValue
          BY <4>1 DEF NoValue
        <4>3. firstRead % 2 = 1
          BY <3>1, <4>2 DEF FieldOf
        <4>4. (firstRead - 1) % 2 # 1
          BY <2>3, <4>3
        <4>5. FieldOf(firstRead - 1) = "lat"
          BY <4>4 DEF FieldOf
        <4>6. firstRead - 1 <= DataStore("lat")
          BY <2>2, <3>2, <4>5
        <4> QED BY <2>2, <2>3, <4>6
      <3> QED BY <2>1, <2>4, <3>1, <3>2 DEF SkewInv
    <2>6. receiving \in BOOLEAN
      BY <1>1 DEF BridgeTypeOK
    <2> QED BY <1>5, <2>1, <2>4, <2>5, <2>6
  <1>9. CASE UNCHANGED bridgeVars
    <2>1. UNCHANGED <<reader, sent, position, handled, whole, cut, ends>>
            /\ UNCHANGED <<receiving, firstRead, location>>
      BY <1>9 DEF bridgeVars
    <2>2. reader = "bridge" => SkewInv'
      BY <2>1 DEF BridgeInv, SkewInv
    <2> QED BY <1>1, <1>5, <2>1, <2>2 DEF BridgeTypeOK
  <1> QED
    BY <1>2, <1>3, <1>4, <1>6, <1>7, <1>8, <1>9 DEF BridgeNext

(* The invariant. *)
LEMMA BridgeInvariant ==
  BridgeSpec => []BridgeInv
  BY BridgeStart, BridgeStep, PTL DEF BridgeSpec

(* The types of the bridge's state. *)
THEOREM BridgeTypes ==
  BridgeSpec => []BridgeTypeOK
  <1>1. BridgeInv => BridgeTypeOK
    BY DEF BridgeInv
  <1> QED BY <1>1, BridgeInvariant, PTL

(* With server.py reading, too, messages are handled in the order in which *)
(* they were written.                                                      *)
THEOREM BridgeInOrder ==
  BridgeSpec => []InOrder
  <1>1. BridgeInv => InOrder
    BY DEF BridgeInv, FramingInv
  <1> QED BY <1>1, BridgeInvariant, PTL

(* receive_data stores exactly those updates whose end a read has to       *)
(* itself, however the stream is cut into reads.                           *)
THEOREM BridgeStoredExactly ==
  BridgeSpec => []StoredExactly
  <1>1. BridgeInv => StoredExactly
    BY DEF BridgeInv
  <1> QED BY <1>1, BridgeInvariant, PTL

(* The buffer of receive_data stays shorter than a message, whatever could *)
(* not be parsed.                                                          *)
THEOREM BridgeBuffer ==
  BridgeSpec => []BufferBounded
  <1>1. BridgeInv => BufferBounded
    <2> SUFFICES ASSUME BridgeInv, reader = "bridge", receiving
                 PROVE  position - cut < MessageLen
      BY DEF BufferBounded
    <2> DEFINE m == Ended(position)
    <2>1. CutFits(m) /\ position \in Nat /\ MessageLen = 12
      BY FramingFacts, StreamTokens DEF BridgeInv, Tracking, TrackingUpTo
    <2>2. m \in Nat /\ position + 3 < 12 * m + 12
      BY <2>1, EndedBounds
    <2> HIDE DEF m
    <2>3. /\ cut \in Nat
          /\ m = 0 => cut = 0
          /\ m # 0 => cut = 12 * m - 3 \/ cut = 12 * m - 1
      BY <2>1, <2>2, CutBounds
    <2> QED BY <2>1, <2>2, <2>3
  <1> QED BY <1>1, BridgeInvariant, PTL

(* As long as no update was lost, the latitude /api/location answers is at *)
(* most one fix older than its longitude, although get_location reads them *)
(* separately while receive_data stores.                                   *)
THEOREM BridgeLocation ==
  BridgeSpec => []LocationSkew
  <1>1. BridgeInv => LocationSkew
    <2> SUFFICES ASSUME BridgeInv, reader = "bridge",
                        \A n \in 1 .. location["lon"] : n \in ToSet(handled)
                 PROVE  location["lat"] >= location["lon"] - 1
      BY DEF LocationSkew
    <2>1. /\ location["lon"] \in 0 .. MaxMessages
          /\ location["lat"] \in 0 .. MaxMessages
      BY DEF BridgeInv, BridgeTypeOK, Fields
    <2>2. location["lon"] - 1 \in ToSet(handled)
            => location["lat"] >= location["lon"] - 1
      BY DEF BridgeInv, SkewInv
    <2>3. CASE location["lon"] <= 1
      BY <2>1, <2>3
    <2>4. CASE location["lon"] > 1
      <3>1. location["lon"] - 1 \in 1 .. location["lon"]
        BY <2>1, <2>4
      <3> QED BY <2>2, <3>1
    <2> QED BY <2>1, <2>3, <2>4
  <1> QED BY <1>1, BridgeInvariant, PTL

(* Beside server.py, too, the server and the client handle every message   *)
(* that reaches them in one piece.  (The history whole records nothing for *)
(* server.py, whose reads BridgeStoredExactly is about.)                   *)
THEOREM BridgeWhole ==
  BridgeSpec => []WholeHandled
  <1>1. BridgeInit => WholeHandled
    BY DEF BridgeInit, Init, WholeHandled
  <1>2. BridgeInv /\ WholeHandled /\ [BridgeNext]_bridgeVars => WholeHandled'
    <2> SUFFICES ASSUME BridgeInv, WholeHandled, [BridgeNext]_bridgeVars
                 PROVE  WholeHandled'
      OBVIOUS
    <2>1. CASE OtherReads
      BY <2>1, WholeRead DEF OtherReads, BridgeInv
    <2>2. CASE Receive
      <3>1. whole' = {}
        BY <2>2 DEF Receive, BridgeInv
      <3> QED BY <3>1 DEF WholeHandled
    <2>3. CASE \/ ServerWrites \/ ConnectionEnds \/ GetLocation
               \/ AnswerLocation \/ UNCHANGED bridgeVars
      <3>1. handled' = handled /\ whole' = whole
        BY <2>3 DEF ServerWrites, Write, ConnectionEnds, GetLocation,
                    AnswerLocation, bridgeVars
      <3> QED BY <3>1 DEF WholeHandled
    <2> QED BY <2>1, <2>2, <2>3 DEF BridgeNext
  <1> QED BY <1>1, <1>2, BridgeInvariant, PTL DEF BridgeSpec
==============================================================================
