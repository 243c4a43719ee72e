------------------------ MODULE MultiplexFifo_proof ------------------------
(***************************************************************************)
(* The safety of the multiplex FIFO, for every depth, size of the window,  *)
(* marking and set of thresholds.                                          *)
(*                                                                         *)
(* MuxInv says of the ring that its four areas lie apart and hold tokens   *)
(* exactly where they should, and of the readers that each counts the      *)
(* tokens of its colour in the window and has its events right for that    *)
(* count.  Neither is inductive alone: a reader trusts its event, so it    *)
(* finds its tokens only if the count is right, and the count stays right  *)
(* only if closing the gap leaves the tokens of the others as they were.   *)
(* Fits is the one condition on the marking: the run multiplex_initial     *)
(* shows what goes wrong without it.                                       *)
(*                                                                         *)
(* The order of the lemmas: induction; the tokens of some colours; the     *)
(* search for the n-th of a colour; counts and events; the gap; the        *)
(* invariant and what it implies; one lemma per action.                    *)
(***************************************************************************)
EXTENDS MultiplexFifo, RingStorage_proof, FiniteSetTheorems

(***************************************************************************)
(* Induction, with a set in the place of a predicate.                      *)
(***************************************************************************)

(* A set of numbers with 0, and with the successor of each, has them all:  *)
(* below a missing one, adding 1 would map a finite set into itself one to *)
(* one without ever reaching 0.                                            *)
LEMMA NatSet ==
  ASSUME NEW S, 0 \in S, \A n \in Nat : n \in S => n + 1 \in S
  PROVE  Nat \subseteq S
<1>1. SUFFICES ASSUME NEW x \in Nat, x \notin S PROVE FALSE
  OBVIOUS
<1> DEFINE A == S \cap (0 .. x)
           f == [n \in A |-> n + 1]
<1>2. IsFiniteSet(A)
  <2>1. IsFiniteSet(0 .. x)
    BY FS_Interval
  <2>2. A \in SUBSET (0 .. x)
    OBVIOUS
  <2> HIDE DEF A
  <2> QED
    BY <2>1, <2>2, FS_Subset
<1>3. \A n \in A : n \in Nat /\ n < x /\ n + 1 \in A
  BY <1>1
<1>4. f \in [A -> A]
  BY <1>3
<1>5. f \in Injection(A, A)
  BY <1>3, <1>4 DEF Injection, IsInjective
<1>6. f \in Surjection(A, A)
  <2> HIDE DEF A, f
  <2> QED
    BY <1>2, <1>5, FS_Injection
<1>7. 0 \in A
  BY <1>1
<1>8. \E n \in A : f[n] = 0
  <2> HIDE DEF A, f
  <2> QED
    BY <1>6, <1>7 DEF Surjection
<1> QED
  BY <1>3, <1>8

(* The same for sequences: they grow from the empty one by Append. *)
LEMMA SeqSet ==
  ASSUME NEW T, NEW Q, <<>> \in Q,
         \A s \in Seq(T), e \in T : s \in Q => Append(s, e) \in Q
  PROVE  Seq(T) \subseteq Q
<1> DEFINE S == {n \in Nat : \A s \in Seq(T) : Len(s) = n => s \in Q}
<1>1. 0 \in S
  <2>1. \A s \in Seq(T) : Len(s) = 0 => s = <<>>
    BY EmptySeq
  <2> QED
    BY <2>1
<1>2. ASSUME NEW n \in Nat, n \in S
      PROVE  n + 1 \in S
  <2>1. SUFFICES ASSUME NEW s \in Seq(T), Len(s) = n + 1
                 PROVE  s \in Q
    OBVIOUS
  <2> DEFINE u == SubSeq(s, 1, n)
             e == s[n + 1]
  <2>2. /\ u \in Seq(T) /\ Len(u) = n /\ e \in T
        /\ \A k \in 1 .. n : u[k] = s[k]
    <3>1. \A k \in 1 .. n : s[k] \in T
      BY <2>1
    <3>2. n + 1 \in 1 .. Len(s)
      BY <2>1
    <3> QED
      BY <3>1, <3>2, SubSeqProperties
  <2> HIDE DEF u, e
  <2>3. /\ Append(u, e) \in Seq(T) /\ Len(Append(u, e)) = n + 1
        /\ \A k \in 1 .. n : Append(u, e)[k] = u[k]
        /\ Append(u, e)[n + 1] = e
    BY <2>2, AppendProperties
  <2>4. \A k \in 1 .. n + 1 : Append(u, e)[k] = s[k]
    BY <2>2, <2>3 DEF e
  <2>5. Append(u, e) = s
    BY <2>1, <2>3, <2>4, SeqEqual
  <2>6. u \in Q
    BY <1>2, <2>2
  <2> QED
    BY <2>2, <2>5, <2>6
<1>3. Nat \subseteq S
  <2> HIDE DEF S
  <2> QED
    BY <1>1, <1>2, NatSet
<1> QED
  BY <1>3

(***************************************************************************)
(* The tokens of some colours among a sequence of tokens.                  *)
(***************************************************************************)

(* f is the recursive function that OfColors defines, for n tokens. *)
Scan(toks, C, n, f) ==
  f = [i \in 0 .. n |-> IF i = 0 THEN <<>>
                        ELSE IF toks[i].fifoId \in C THEN Append(f[i - 1], toks[i])
                        ELSE f[i - 1]]

(* There is such a function. *)
LEMMA ScanExists ==
  ASSUME NEW toks, NEW C, NEW n \in Nat
  PROVE  \E f : Scan(toks, C, n, f)
<1> DEFINE S == {m \in Nat : \E f : Scan(toks, C, m, f)}
<1>1. 0 \in S
  <2>1. Scan(toks, C, 0, [i \in 0 .. 0 |-> <<>>])
    BY DEF Scan
  <2> QED
    BY <2>1
<1>2. ASSUME NEW m \in Nat, m \in S
      PROVE  m + 1 \in S
  <2>1. PICK f : Scan(toks, C, m, f)
    BY <1>2
  <2>2. PICK v : v = IF toks[m + 1].fifoId \in C THEN Append(f[m], toks[m + 1]) ELSE f[m]
    OBVIOUS
  <2> DEFINE g == [i \in 0 .. m + 1 |-> IF i = m + 1 THEN v ELSE f[i]]
  <2>3. ASSUME NEW i \in 0 .. m + 1
        PROVE  g[i] = IF i = 0 THEN <<>>
                      ELSE IF toks[i].fifoId \in C THEN Append(g[i - 1], toks[i])
                      ELSE g[i - 1]
    <3>1. CASE i = m + 1
      <4>1. i - 1 \in 0 .. m + 1 /\ i - 1 # m + 1 /\ i - 1 = m /\ i # 0
        BY <3>1
      <4>2. g[i] = v /\ g[i - 1] = f[m]
        BY <3>1, <4>1
      <4> QED
        BY <2>2, <3>1, <4>1, <4>2
    <3>2. CASE i = 0
      <4>1. i # m + 1 /\ i \in 0 .. m
        BY <3>2
      <4> QED
        BY <2>1, <3>2, <4>1 DEF Scan
    <3>3. CASE i # 0 /\ i # m + 1
      <4>1. i \in 0 .. m /\ i - 1 \in 0 .. m + 1 /\ i - 1 # m + 1
        BY <3>3
      <4>2. g[i] = f[i] /\ g[i - 1] = f[i - 1]
        BY <3>3, <4>1
      <4>3. f[i] = IF toks[i].fifoId \in C THEN Append(f[i - 1], toks[i]) ELSE f[i - 1]
        BY <2>1, <3>3, <4>1 DEF Scan
      <4> QED
        BY <3>3, <4>2, <4>3
    <3> QED
      BY <3>1, <3>2, <3>3
  <2>4. DOMAIN g = 0 .. m + 1 /\ g = [i \in 0 .. m + 1 |-> g[i]]
    OBVIOUS
  <2>5. Scan(toks, C, m + 1, g)
    <3> HIDE DEF g
    <3> QED
      BY <2>3, <2>4 DEF Scan
  <2> QED
    BY <2>5
<1> HIDE DEF S
<1>3. Nat \subseteq S
  BY <1>1, <1>2, NatSet
<1> QED
  BY <1>3 DEF S

(* What it holds at n depends on the first n tokens only. *)
LEMMA ScanSame ==
  ASSUME NEW s, NEW u, NEW C, NEW n \in Nat, NEW k \in Nat, n <= k,
         \A i \in 1 .. n : s[i] = u[i],
         NEW f, NEW g, Scan(s, C, n, f), Scan(u, C, k, g)
  PROVE  f[n] = g[n]
<1> DEFINE S == {i \in Nat : i <= n => f[i] = g[i]}
<1>1. 0 \in S
  <2>1. 0 \in 0 .. n /\ 0 \in 0 .. k
    OBVIOUS
  <2> QED
    BY <2>1 DEF Scan
<1>2. ASSUME NEW i \in Nat, i \in S
      PROVE  i + 1 \in S
  <2>1. SUFFICES ASSUME i + 1 <= n PROVE f[i + 1] = g[i + 1]
    OBVIOUS
  <2>2. i + 1 \in 0 .. n /\ i + 1 \in 0 .. k /\ i + 1 # 0 /\ (i + 1) - 1 = i
        /\ i + 1 \in 1 .. n /\ i <= n
    BY <2>1
  <2>3. f[i + 1] = IF s[i + 1].fifoId \in C THEN Append(f[i], s[i + 1]) ELSE f[i]
    BY <2>2 DEF Scan
  <2>4. g[i + 1] = IF u[i + 1].fifoId \in C THEN Append(g[i], u[i + 1]) ELSE g[i]
    BY <2>2 DEF Scan
  <2>5. f[i] = g[i] /\ s[i + 1] = u[i + 1]
    BY <1>2, <2>2
  <2> QED
    BY <2>3, <2>4, <2>5
<1> HIDE DEF S
<1>3. Nat \subseteq S
  BY <1>1, <1>2, NatSet
<1> QED
  BY <1>3 DEF S

(* OfColors is the last value of such a function. *)
LEMMA OfColorsScan ==
  ASSUME NEW s, NEW C, Len(s) \in Nat
  PROVE  \E f : Scan(s, C, Len(s), f) /\ OfColors(s, C) = f[Len(s)]
<1> DEFINE f == CHOOSE g : Scan(s, C, Len(s), g)
<1>1. Scan(s, C, Len(s), f)
  BY ScanExists
<1>2. OfColors(s, C) = f[Len(s)]
  BY DEF OfColors, Scan
<1> QED
  BY <1>1, <1>2

(* One more token is kept or left out. *)
LEMMA OfColorsAppend ==
  ASSUME NEW T, NEW C, NEW s \in Seq(T), NEW e \in T
  PROVE  OfColors(Append(s, e), C) = IF e.fifoId \in C THEN Append(OfColors(s, C), e)
                                     ELSE OfColors(s, C)
<1> DEFINE n == Len(s)
           u == Append(s, e)
<1>1. /\ n \in Nat /\ Len(u) = n + 1 /\ u[n + 1] = e
      /\ \A i \in 1 .. n : s[i] = u[i]
  BY AppendProperties
<1> HIDE DEF n, u
<1>2. PICK f : Scan(s, C, n, f) /\ OfColors(s, C) = f[n]
  BY <1>1, OfColorsScan DEF n
<1>3. PICK g : Scan(u, C, n + 1, g) /\ OfColors(u, C) = g[n + 1]
  <2>1. Len(u) \in Nat
    BY <1>1
  <2>2. \E g : Scan(u, C, Len(u), g) /\ OfColors(u, C) = g[Len(u)]
    BY <2>1, OfColorsScan
  <2> QED
    BY <1>1, <2>2
<1>4. f[n] = g[n]
  <2>1. n + 1 \in Nat /\ n <= n + 1
    BY <1>1
  <2> QED
    BY <1>1, <1>2, <1>3, <2>1, ScanSame
<1>5. g[n + 1] = IF e.fifoId \in C THEN Append(g[n], e) ELSE g[n]
  <2>1. n + 1 \in 0 .. n + 1 /\ n + 1 # 0 /\ (n + 1) - 1 = n
    BY <1>1
  <2> QED
    BY <1>1, <1>3, <2>1 DEF Scan
<1> QED
  BY <1>2, <1>3, <1>4, <1>5 DEF u

(* No tokens, none of them of some colour. *)
LEMMA OfColorsEmpty ==
  ASSUME NEW C
  PROVE  OfColors(<<>>, C) = <<>>
<1>1. Len(<<>>) = 0
  OBVIOUS
<1>2. PICK f : Scan(<<>>, C, 0, f) /\ OfColors(<<>>, C) = f[0]
  BY <1>1, OfColorsScan
<1>3. f[0] = <<>>
  <2>1. 0 \in 0 .. 0
    OBVIOUS
  <2> QED
    BY <1>2, <2>1 DEF Scan
<1> QED
  BY <1>2, <1>3

(* They are tokens of the sequence, and not more. *)
LEMMA OfColorsType ==
  ASSUME NEW T, NEW C, NEW s \in Seq(T)
  PROVE  OfColors(s, C) \in Seq(T) /\ Len(OfColors(s, C)) <= Len(s)
<1> DEFINE Q == {u \in Seq(T) : OfColors(u, C) \in Seq(T) /\ Len(OfColors(u, C)) <= Len(u)}
<1>1. <<>> \in Q
  <2>1. OfColors(<<>>, C) = <<>>
    BY OfColorsEmpty
  <2>2. <<>> \in Seq(T) /\ Len(<<>>) <= Len(<<>>)
    OBVIOUS
  <2> QED
    BY <2>1, <2>2
<1>2. ASSUME NEW u \in Seq(T), NEW e \in T, u \in Q
      PROVE  Append(u, e) \in Q
  <2>1. PICK w \in Seq(T) : w = OfColors(u, C) /\ Len(w) <= Len(u)
    BY <1>2
  <2>2. /\ Append(u, e) \in Seq(T) /\ Len(Append(u, e)) = Len(u) + 1
        /\ Append(w, e) \in Seq(T) /\ Len(Append(w, e)) = Len(w) + 1
    BY AppendProperties
  <2>3. OfColors(Append(u, e), C) \in {w, Append(w, e)}
    BY <2>1, OfColorsAppend
  <2> QED
    BY <2>1, <2>2, <2>3
<1> HIDE DEF Q
<1>3. Seq(T) \subseteq Q
  BY <1>1, <1>2, SeqSet
<1> QED
  BY <1>3 DEF Q

(* Appending to the second of two sequences appends to both. *)
LEMMA ConcatAppend ==
  ASSUME NEW T, NEW s \in Seq(T), NEW w \in Seq(T), NEW e \in T
  PROVE  s \o Append(w, e) = Append(s \o w, e)
<1>1. PICK z \in Seq(T) : z = <<e>>
  <2>1. <<e>> \in Seq(T)
    OBVIOUS
  <2> QED
    BY <2>1
<1>2. PICK sw \in Seq(T) : sw = s \o w
  BY ConcatProperties
<1>3. Append(w, e) = w \o z /\ Append(sw, e) = sw \o z
  BY <1>1, AppendIsConcat
<1>4. (s \o w) \o z = s \o (w \o z)
  BY ConcatAssociative
<1> QED
  BY <1>2, <1>3, <1>4

(* They are taken from one part after another. *)
LEMMA OfColorsConcat ==
  ASSUME NEW T, NEW C, NEW s \in Seq(T), NEW u \in Seq(T)
  PROVE  OfColors(s \o u, C) = OfColors(s, C) \o OfColors(u, C)
<1> DEFINE Q == {w \in Seq(T) : OfColors(s \o w, C) = OfColors(s, C) \o OfColors(w, C)}
<1>1. <<>> \in Q
  <2>1. OfColors(s, C) \in Seq(T)
    BY OfColorsType
  <2>2. s \o <<>> = s /\ OfColors(s, C) \o <<>> = OfColors(s, C)
    BY <2>1, ConcatEmptySeq
  <2>3. OfColors(s \o <<>>, C) = OfColors(s, C) \o OfColors(<<>>, C)
    BY <2>2, OfColorsEmpty
  <2>4. <<>> \in Seq(T)
    OBVIOUS
  <2> QED
    BY <2>3, <2>4
<1>2. ASSUME NEW w \in Seq(T), NEW e \in T, w \in Q
      PROVE  Append(w, e) \in Q
  <2>1. PICK sc \in Seq(T) : sc = OfColors(s, C)
    BY OfColorsType
  <2>2. PICK wc \in Seq(T) : wc = OfColors(w, C)
    BY OfColorsType
  <2>3. OfColors(s \o w, C) = sc \o wc
    BY <1>2, <2>1, <2>2
  <2>4. /\ s \o Append(w, e) = Append(s \o w, e) /\ s \o w \in Seq(T)
        /\ sc \o Append(wc, e) = Append(sc \o wc, e)
        /\ Append(w, e) \in Seq(T)
    <3>1. s \o Append(w, e) = Append(s \o w, e)
      BY ConcatAppend
    <3>2. sc \o Append(wc, e) = Append(sc \o wc, e)
      BY ConcatAppend
    <3> QED
      BY <3>1, <3>2, ConcatProperties, AppendProperties
  <2>5. OfColors(Append(s \o w, e), C) = IF e.fifoId \in C THEN Append(sc \o wc, e) ELSE sc \o wc
    <3>1. PICK z \in Seq(T) : z = s \o w
      BY <2>4
    <3>2. OfColors(Append(z, e), C) = IF e.fifoId \in C THEN Append(OfColors(z, C), e)
                                      ELSE OfColors(z, C)
      BY OfColorsAppend
    <3> QED
      BY <2>3, <3>1, <3>2
  <2>6. OfColors(Append(w, e), C) = IF e.fifoId \in C THEN Append(wc, e) ELSE wc
    BY <2>2, OfColorsAppend
  <2>7. OfColors(s \o Append(w, e), C) = sc \o OfColors(Append(w, e), C)
    BY <2>4, <2>5, <2>6
  <2> QED
    BY <2>1, <2>4, <2>7
<1> HIDE DEF Q
<1>3. Seq(T) \subseteq Q
  BY <1>1, <1>2, SeqSet
<1> QED
  BY <1>3 DEF Q

(* Those of one colour and those of all others are all there are. *)
LEMMA OthersCount ==
  ASSUME NEW c \in Color, NEW s \in Seq(Token)
  PROVE  Len(OfColor(s, c)) + Len(OfColors(s, Color \ {c})) = Len(s)
<1> DEFINE Q == {u \in Seq(Token) :
                   Len(OfColors(u, {c})) + Len(OfColors(u, Color \ {c})) = Len(u)}
<1>1. <<>> \in Q
  BY OfColorsEmpty
<1>2. ASSUME NEW u \in Seq(Token), NEW e \in Token, u \in Q
      PROVE  Append(u, e) \in Q
  <2>1. PICK w \in Seq(Token) : w = OfColors(u, {c})
    BY OfColorsType
  <2>2. PICK y \in Seq(Token) : y = OfColors(u, Color \ {c})
    BY OfColorsType
  <2>3. Len(w) + Len(y) = Len(u)
    BY <1>2, <2>1, <2>2
  <2>4. /\ Append(u, e) \in Seq(Token) /\ Len(Append(u, e)) = Len(u) + 1
        /\ Len(Append(w, e)) = Len(w) + 1
        /\ Len(Append(y, e)) = Len(y) + 1
    BY AppendProperties
  <2>5. e.fifoId \in Color
    BY DEF Token
  <2>6. /\ OfColors(Append(u, e), {c}) = IF e.fifoId = c THEN Append(w, e) ELSE w
        /\ OfColors(Append(u, e), Color \ {c}) = IF e.fifoId = c THEN y ELSE Append(y, e)
    BY <2>1, <2>2, <2>5, OfColorsAppend
  <2> QED
    BY <2>3, <2>4, <2>6
<1> HIDE DEF Q
<1>3. Seq(Token) \subseteq Q
  BY <1>1, <1>2, SeqSet
<1> QED
  BY <1>3 DEF Q, OfColor

(* Without the tokens of c, those of any other colour are as before. *)
LEMMA OthersKeep ==
  ASSUME NEW c \in Color, NEW d \in Color, NEW s \in Seq(Token)
  PROVE  OfColor(OfColors(s, Color \ {c}), d) = IF d = c THEN <<>> ELSE OfColor(s, d)
<1> DEFINE Q == {u \in Seq(Token) :
                   OfColors(OfColors(u, Color \ {c}), {d}) =
                     IF d = c THEN <<>> ELSE OfColors(u, {d})}
<1>1. <<>> \in Q
  BY OfColorsEmpty
<1>2. ASSUME NEW u \in Seq(Token), NEW e \in Token, u \in Q
      PROVE  Append(u, e) \in Q
  <2>1. PICK y \in Seq(Token) : y = OfColors(u, Color \ {c})
    BY OfColorsType
  <2>2. OfColors(y, {d}) = IF d = c THEN <<>> ELSE OfColors(u, {d})
    BY <1>2, <2>1
  <2>3. e.fifoId \in Color /\ Append(u, e) \in Seq(Token)
    BY AppendProperties DEF Token
  <2>4. OfColors(Append(u, e), Color \ {c}) = IF e.fifoId = c THEN y ELSE Append(y, e)
    BY <2>1, <2>3, OfColorsAppend
  <2>5. \A w \in Seq(Token) :
          OfColors(Append(w, e), {d}) = IF e.fifoId = d THEN Append(OfColors(w, {d}), e)
                                                        ELSE OfColors(w, {d})
    <3> DEFINE D == {d}
    <3>1. \A x : x \in D <=> x = d
      OBVIOUS
    <3> HIDE DEF D
    <3>2. \A w \in Seq(Token) :
            OfColors(Append(w, e), D) = IF e.fifoId \in D THEN Append(OfColors(w, D), e)
                                                          ELSE OfColors(w, D)
      BY OfColorsAppend
    <3>3. \A w \in Seq(Token) :
            OfColors(Append(w, e), D) = IF e.fifoId = d THEN Append(OfColors(w, D), e)
                                                        ELSE OfColors(w, D)
      BY <3>1, <3>2
    <3> QED
      BY <3>3 DEF D
  <2>6. OfColors(OfColors(Append(u, e), Color \ {c}), {d}) =
          IF d = c THEN <<>> ELSE OfColors(Append(u, e), {d})
    BY <2>2, <2>4, <2>5
  <2> QED
    BY <2>3, <2>6
<1> HIDE DEF Q
<1>3. Seq(Token) \subseteq Q
  BY <1>1, <1>2, SeqSet
<1> QED
  BY <1>3 DEF Q, OfColor

(***************************************************************************)
(* The searches: how many tokens of c lie in the first m slots behind a.   *)
(***************************************************************************)
CountIn(st, a, m, c) == Len(OfColor(Slice(st, a, m), c))

(* A count of tokens is a number. *)
LEMMA CountInType ==
  ASSUME NEW T, NEW st \in Slots(T), NEW a \in Idx, NEW m \in 0 .. Depth, NEW c
  PROVE  /\ CountIn(st, a, m, c) \in 0 .. m
         /\ OfColor(Slice(st, a, m), c) \in Seq(Held(T))
<1>1. Slice(st, a, m) \in Seq(Held(T)) /\ Len(Slice(st, a, m)) = m
  BY SliceSeq
<1>2. /\ OfColors(Slice(st, a, m), {c}) \in Seq(Held(T))
      /\ Len(OfColors(Slice(st, a, m), {c})) <= Len(Slice(st, a, m))
  BY <1>1, OfColorsType
<1> QED
  BY <1>1, <1>2 DEF CountIn, OfColor

(* The tokens of c in m + n slots are those of the two parts. *)
LEMMA ColorSplit ==
  ASSUME NEW T, NEW st \in Slots(T), NEW a \in Idx, NEW m \in Nat, NEW n \in Nat,
         m + n <= Depth, NEW c
  PROVE  /\ OfColor(Slice(st, a, m + n), c) =
              OfColor(Slice(st, a, m), c) \o OfColor(Slice(st, Plus(a, m), n), c)
         /\ CountIn(st, a, m + n, c) = CountIn(st, a, m, c) + CountIn(st, Plus(a, m), n, c)
<1>1. m \in 0 .. Depth /\ n \in 0 .. Depth /\ Plus(a, m) \in Idx
  BY PlusType, DepthAssumption
<1>2. PICK x \in Seq(Held(T)) : x = Slice(st, a, m)
  BY <1>1, SliceSeq
<1>3. PICK y \in Seq(Held(T)) : y = Slice(st, Plus(a, m), n)
  BY <1>1, SliceSeq
<1>4. Slice(st, a, m + n) = x \o y
  BY <1>2, <1>3, SliceSplit
<1>5. OfColors(x \o y, {c}) = OfColors(x, {c}) \o OfColors(y, {c})
  BY OfColorsConcat
<1>6. PICK xc \in Seq(Held(T)) : xc = OfColors(x, {c})
  BY OfColorsType
<1>7. PICK yc \in Seq(Held(T)) : yc = OfColors(y, {c})
  BY OfColorsType
<1>8. Len(xc \o yc) = Len(xc) + Len(yc)
  BY ConcatProperties
<1> QED
  BY <1>2, <1>3, <1>4, <1>5, <1>6, <1>7, <1>8 DEF CountIn, OfColor

(* More slots hold no fewer of them. *)
LEMMA CountGrows ==
  ASSUME NEW T, NEW st \in Slots(T), NEW a \in Idx, NEW v \in 0 .. Depth, NEW w \in 0 .. v,
         NEW c
  PROVE  /\ CountIn(st, a, w, c) \in Nat /\ CountIn(st, a, v, c) \in Nat
         /\ CountIn(st, a, w, c) <= CountIn(st, a, v, c)
<1>1. PICK j \in Nat : v = w + j
  BY DepthAssumption
<1>2. w \in Nat /\ w + j <= Depth /\ w \in 0 .. Depth /\ j \in 0 .. Depth
  BY <1>1, DepthAssumption
<1>3. Plus(a, w) \in Idx
  BY <1>2, PlusType
<1>4. CountIn(st, a, w + j, c) = CountIn(st, a, w, c) + CountIn(st, Plus(a, w), j, c)
  BY <1>2, ColorSplit
<1>5. CountIn(st, a, w, c) \in Nat /\ CountIn(st, Plus(a, w), j, c) \in Nat
  BY <1>2, <1>3, CountInType
<1> QED
  BY <1>1, <1>4, <1>5

(* Every search that is asked for no more tokens than there are ends, on   *)
(* the shortest beginning that holds them.                                 *)
LEMMA ReachEnds ==
  ASSUME NEW T, NEW st \in Slots(T), NEW p \in Indices, NEW c, NEW n \in Nat,
         n <= CountIn(st, p.rindex, visibleCount(p), c)
  PROVE  LET m == Reach(st, p, c, n)
         IN  /\ m \in 0 .. visibleCount(p)
             /\ CountIn(st, p.rindex, m, c) = n
             /\ m > 0 => CountIn(st, p.rindex, m - 1, c) < n
<1> DEFINE v == visibleCount(p)
           a == p.rindex
           k(m) == CountIn(st, a, m, c)
           S == {m \in Nat : m <= v => k(m) < n}
<1>1. v \in 0 .. Depth /\ a \in Idx
  BY CountType DEF Indices
<1>2. \A m \in 0 .. v : k(m) \in 0 .. m
  <2>1. \A m \in 0 .. v : m \in 0 .. Depth
    BY <1>1, DepthAssumption
  <2> QED
    BY <1>1, <2>1, CountInType
<1>3. ASSUME NEW m \in Nat, m + 1 <= v
      PROVE  k(m + 1) <= k(m) + 1
  <2>1. m + 1 <= Depth /\ m \in 0 .. Depth /\ 1 \in Nat /\ 1 \in 0 .. Depth
    BY <1>1, <1>3, DepthAssumption
  <2>2. CountIn(st, a, m + 1, c) = CountIn(st, a, m, c) + CountIn(st, Plus(a, m), 1, c)
    BY <1>1, <2>1, ColorSplit
  <2>3. Plus(a, m) \in Idx
    BY <1>1, <2>1, PlusType
  <2>4. CountIn(st, Plus(a, m), 1, c) \in 0 .. 1 /\ CountIn(st, a, m, c) \in 0 .. m
    BY <1>1, <2>1, <2>3, CountInType
  <2> QED
    BY <2>2, <2>4
<1>4. \E m \in 0 .. v : k(m) = n /\ (m > 0 => k(m - 1) < n)
  <2>1. CASE n = 0
    <3>1. 0 \in 0 .. v /\ k(0) = 0
      BY <1>1, <1>2, DepthAssumption
    <3> QED
      BY <2>1, <3>1
  <2>2. CASE n # 0
    <3>1. 0 \in S
      BY <1>2, <2>2
    <3>2. v \in Nat /\ v \notin S
      <4>1. v \in Nat /\ k(v) \in 0 .. v /\ n <= k(v)
        BY <1>1, <1>2, DepthAssumption
      <4> HIDE DEF v, k
      <4> QED
        BY <4>1
    <3>3. PICK j \in Nat : j \in S /\ j + 1 \notin S
      <4> HIDE DEF S, v
      <4> QED
        BY <3>1, <3>2, NatSet
    <3>4. j + 1 <= v /\ k(j) < n /\ ~(k(j + 1) < n) /\ j \in 0 .. v /\ j + 1 \in 0 .. v
      <4> HIDE DEF v, k
      <4> QED
        BY <3>2, <3>3
    <3>5. k(j + 1) = n
      <4>1. k(j) \in 0 .. j /\ k(j + 1) \in 0 .. j + 1 /\ k(j + 1) <= k(j) + 1
        BY <1>2, <1>3, <3>4
      <4> HIDE DEF v, k
      <4> QED
        BY <3>4, <4>1
    <3>6. (j + 1) - 1 = j
      OBVIOUS
    <3> HIDE DEF v, k
    <3> QED
      BY <3>4, <3>5, <3>6
  <2> QED
    BY <2>1, <2>2
<1>5. Reach(st, p, c, n) = CHOOSE m \in 0 .. v : k(m) = n /\ (m > 0 => k(m - 1) < n)
  BY DEF Reach, CountIn
<1> HIDE DEF v, k
<1>6. /\ Reach(st, p, c, n) \in 0 .. v /\ k(Reach(st, p, c, n)) = n
      /\ Reach(st, p, c, n) > 0 => k(Reach(st, p, c, n) - 1) < n
  BY <1>4, <1>5
<1> QED
  BY <1>6 DEF v, k

(***************************************************************************)
(* The outlets.  A reset disables the event for no tokens at all as well,  *)
(* and only the next token enables it again, so that in(0), should anybody *)
(* wait for it, is not exact; the others are.                              *)
(***************************************************************************)
ExactAbove(T, ev, count) == \A n \in T : n > 0 => (ev[n] <=> n <= count)

Outlet == [countAvailable : Nat, emmAvailable : EventMaps(DataThresholds)]

Told(o) == ExactAbove(DataThresholds, o.emmAvailable, o.countAvailable)

(* A walk up over a map that is exact above 0 leaves such a map. *)
LEMMA IncreasedAbove ==
  ASSUME NEW T \in SUBSET Nat, NEW ev \in EventMaps(T),
         NEW c0 \in Nat, NEW c1 \in Nat, c0 <= c1, ExactAbove(T, ev, c0)
  PROVE  /\ increasedCount(ev, c1) \in EventMaps(T)
         /\ ExactAbove(T, increasedCount(ev, c1), c1)
<1>1. DOMAIN ev = T
  BY DEF EventMaps
<1>2. increasedCount(ev, c1) \in EventMaps(T)
  BY <1>1 DEF EventMaps, increasedCount
<1>3. ASSUME NEW n \in T, n > 0
      PROVE  increasedCount(ev, c1)[n] <=> n <= c1
  <2>1. increasedCount(ev, c1)[n] <=> (ev[n] \/ n \in notifiedBy(ev, c1))
    BY <1>1 DEF increasedCount
  <2>2. CASE n <= c0
    BY <1>3, <2>1, <2>2 DEF ExactAbove
  <2>3. CASE c0 < n /\ n <= c1
    <3>1. \A m \in T : n <= m /\ m <= c1 => ~ev[m]
      BY <1>3, <2>3 DEF ExactAbove
    <3> QED
      BY <1>1, <2>1, <2>3, <3>1 DEF notifiedBy
  <2>4. CASE c1 < n
    BY <1>3, <2>1, <2>4 DEF ExactAbove, notifiedBy
  <2> QED
    BY <2>2, <2>3, <2>4
<1> QED
  BY <1>2, <1>3 DEF ExactAbove

(* So does a walk down. *)
LEMMA DecreasedAbove ==
  ASSUME NEW T \in SUBSET Nat, NEW ev \in EventMaps(T),
         NEW c0 \in Nat, NEW c1 \in Nat, c1 <= c0, ExactAbove(T, ev, c0)
  PROVE  /\ decreasedCount(ev, c1) \in EventMaps(T)
         /\ ExactAbove(T, decreasedCount(ev, c1), c1)
<1>1. DOMAIN ev = T
  BY DEF EventMaps
<1>2. decreasedCount(ev, c1) \in EventMaps(T)
  BY <1>1 DEF EventMaps, decreasedCount
<1>3. ASSUME NEW n \in T, n > 0
      PROVE  decreasedCount(ev, c1)[n] <=> n <= c1
  <2>1. decreasedCount(ev, c1)[n] <=> (ev[n] /\ n \notin resetBy(ev, c1))
    BY <1>1 DEF decreasedCount
  <2>2. CASE n <= c1
    <3>1. n <= c0 /\ ~(c1 < n)
      BY <2>2
    <3> QED
      BY <1>3, <2>1, <2>2, <3>1 DEF ExactAbove, resetBy
  <2>3. CASE c1 < n /\ n <= c0
    <3>1. \A m \in T : c1 < m /\ m <= n => ev[m]
      BY <2>3 DEF ExactAbove
    <3>2. n \in resetBy(ev, c1)
      BY <1>1, <2>3, <3>1, Zenon DEF resetBy
    <3> QED
      BY <2>1, <2>3, <3>2
  <2>4. CASE c0 < n
    BY <1>3, <2>1, <2>4 DEF ExactAbove
  <2> QED
    BY <2>2, <2>3, <2>4
<1> QED
  BY <1>2, <1>3 DEF ExactAbove

(* One more: the count rises and the events follow. *)
LEMMA MoreData ==
  ASSUME NEW o \in Outlet, Told(o)
  PROVE  /\ moreData(o, 1) \in Outlet /\ Told(moreData(o, 1))
         /\ moreData(o, 1).countAvailable = o.countAvailable + 1
<1> DEFINE k == o.countAvailable
           ev == increasedCount(o.emmAvailable, k + 1)
<1>1. /\ k \in Nat /\ k + 1 \in Nat /\ k <= k + 1 /\ DataThresholds \in SUBSET Nat
      /\ o.emmAvailable \in EventMaps(DataThresholds)
      /\ ExactAbove(DataThresholds, o.emmAvailable, k)
  BY MultiplexAssumption DEF Outlet, Told
<1>2. ev \in EventMaps(DataThresholds) /\ ExactAbove(DataThresholds, ev, k + 1)
  <2> HIDE DEF k
  <2> QED
    BY <1>1, IncreasedAbove DEF ev
<1>3. moreData(o, 1) = [countAvailable |-> k + 1, emmAvailable |-> ev]
  BY DEF moreData
<1> HIDE DEF k, ev
<1>4. /\ moreData(o, 1).countAvailable = k + 1 /\ moreData(o, 1).emmAvailable = ev
      /\ moreData(o, 1) \in Outlet
  BY <1>1, <1>2, <1>3 DEF Outlet
<1> QED
  BY <1>2, <1>4 DEF Told, k

(* n fewer: the count falls by n and the events follow. *)
LEMMA LessData ==
  ASSUME NEW o \in Outlet, Told(o), NEW n \in Nat, n <= o.countAvailable
  PROVE  /\ lessData(o, n) \in Outlet /\ Told(lessData(o, n))
         /\ lessData(o, n).countAvailable = o.countAvailable - n
<1> DEFINE k == o.countAvailable
           ev == decreasedCount(o.emmAvailable, k - n)
<1>1. /\ k \in Nat /\ k - n \in Nat /\ k - n <= k /\ DataThresholds \in SUBSET Nat
      /\ o.emmAvailable \in EventMaps(DataThresholds)
      /\ ExactAbove(DataThresholds, o.emmAvailable, k)
  BY MultiplexAssumption DEF Outlet, Told
<1>2. ev \in EventMaps(DataThresholds) /\ ExactAbove(DataThresholds, ev, k - n)
  <2> HIDE DEF k
  <2> QED
    BY <1>1, DecreasedAbove DEF ev
<1>3. lessData(o, n) = [countAvailable |-> k - n, emmAvailable |-> ev]
  BY DEF lessData
<1> HIDE DEF k, ev
<1>4. /\ lessData(o, n).countAvailable = k - n /\ lessData(o, n).emmAvailable = ev
      /\ lessData(o, n) \in Outlet
  BY <1>1, <1>2, <1>3 DEF Outlet
<1> QED
  BY <1>2, <1>4 DEF Told, k

(* f is the recursive function that hears defines. *)
Telling(o, n, f) ==
  f = [i \in 0 .. n |-> IF i = 0 THEN o ELSE moreData(f[i - 1], 1)]

(* There is such a function. *)
LEMMA TellingExists ==
  ASSUME NEW o, NEW n \in Nat
  PROVE  \E f : Telling(o, n, f)
<1> DEFINE S == {m \in Nat : \E f : Telling(o, m, f)}
<1>1. 0 \in S
  <2>1. Telling(o, 0, [i \in 0 .. 0 |-> o])
    BY DEF Telling
  <2> QED
    BY <2>1
<1>2. ASSUME NEW m \in Nat, m \in S
      PROVE  m + 1 \in S
  <2>1. PICK f : Telling(o, m, f)
    BY <1>2
  <2>2. PICK v : v = moreData(f[m], 1)
    OBVIOUS
  <2> DEFINE g == [i \in 0 .. m + 1 |-> IF i = m + 1 THEN v ELSE f[i]]
  <2>3. ASSUME NEW i \in 0 .. m + 1
        PROVE  g[i] = IF i = 0 THEN o ELSE moreData(g[i - 1], 1)
    <3>1. CASE i = m + 1
      <4>1. i - 1 \in 0 .. m + 1 /\ i - 1 # m + 1 /\ i - 1 = m /\ i # 0
        BY <3>1
      <4>2. g[i] = v /\ g[i - 1] = f[m]
        BY <3>1, <4>1
      <4> QED
        BY <2>2, <3>1, <4>1, <4>2
    <3>2. CASE i = 0
      <4>1. i # m + 1 /\ i \in 0 .. m
        BY <3>2
      <4> QED
        BY <2>1, <3>2, <4>1 DEF Telling
    <3>3. CASE i # 0 /\ i # m + 1
      <4>1. i \in 0 .. m /\ i - 1 \in 0 .. m + 1 /\ i - 1 # m + 1
        BY <3>3
      <4>2. g[i] = f[i] /\ g[i - 1] = f[i - 1]
        BY <3>3, <4>1
      <4>3. f[i] = moreData(f[i - 1], 1)
        BY <2>1, <3>3, <4>1 DEF Telling
      <4> QED
        BY <3>3, <4>2, <4>3
    <3> QED
      BY <3>1, <3>2, <3>3
  <2>4. DOMAIN g = 0 .. m + 1 /\ g = [i \in 0 .. m + 1 |-> g[i]]
    OBVIOUS
  <2>5. Telling(o, m + 1, g)
    <3> HIDE DEF g
    <3> QED
      BY <2>3, <2>4 DEF Telling
  <2> QED
    BY <2>5
<1> HIDE DEF S
<1>3. Nat \subseteq S
  BY <1>1, <1>2, NatSet
<1> QED
  BY <1>3 DEF S

(* An outlet that has heard of n more tokens counts them and has its       *)
(* events right.                                                           *)
LEMMA Hears ==
  ASSUME NEW o \in Outlet, Told(o), NEW n \in Nat
  PROVE  /\ hears(o, n) \in Outlet /\ Told(hears(o, n))
         /\ hears(o, n).countAvailable = o.countAvailable + n
<1> DEFINE f == CHOOSE g : Telling(o, n, g)
           S == {i \in Nat : i <= n => /\ f[i] \in Outlet /\ Told(f[i])
                                       /\ f[i].countAvailable = o.countAvailable + i}
<1>1. Telling(o, n, f)
  BY TellingExists
<1>2. hears(o, n) = f[n]
  BY DEF hears, Telling
<1> HIDE DEF f
<1>3. 0 \in S
  <2>1. 0 \in 0 .. n /\ o.countAvailable + 0 = o.countAvailable
    BY DEF Outlet
  <2>2. f[0] = o
    BY <1>1, <2>1 DEF Telling
  <2> QED
    BY <2>1, <2>2
<1>4. ASSUME NEW i \in Nat, i \in S
      PROVE  i + 1 \in S
  <2>1. SUFFICES ASSUME i + 1 <= n
                 PROVE  /\ f[i + 1] \in Outlet /\ Told(f[i + 1])
                        /\ f[i + 1].countAvailable = o.countAvailable + (i + 1)
    OBVIOUS
  <2>2. i + 1 \in 0 .. n /\ i + 1 # 0 /\ (i + 1) - 1 = i /\ i <= n
    BY <2>1
  <2>3. f[i + 1] = moreData(f[i], 1)
    BY <1>1, <2>2 DEF Telling
  <2>4. /\ f[i] \in Outlet /\ Told(f[i])
        /\ f[i].countAvailable = o.countAvailable + i
    BY <1>4, <2>2
  <2>5. /\ moreData(f[i], 1) \in Outlet /\ Told(moreData(f[i], 1))
        /\ moreData(f[i], 1).countAvailable = f[i].countAvailable + 1
    BY <2>4, MoreData
  <2>6. o.countAvailable \in Nat
    BY DEF Outlet
  <2> QED
    BY <2>3, <2>4, <2>5, <2>6
<1> HIDE DEF S
<1>5. Nat \subseteq S
  BY <1>3, <1>4, NatSet
<1> QED
  BY <1>2, <1>5 DEF S

(* Every outlet counts the announced tokens of its colour. *)
LEMMA Announced ==
  ASSUME NEW C, NEW outs \in [C -> Outlet], \A c \in C : Told(outs[c]),
         NEW T, NEW toks \in Seq(T)
  PROVE  /\ Announce(outs, toks) \in [C -> Outlet]
         /\ \A c \in C : /\ Told(Announce(outs, toks)[c])
                         /\ Announce(outs, toks)[c].countAvailable =
                              outs[c].countAvailable + Len(OfColor(toks, c))
<1>1. ASSUME NEW c \in C
      PROVE  /\ hears(outs[c], Len(OfColor(toks, c))) \in Outlet
             /\ Told(hears(outs[c], Len(OfColor(toks, c))))
             /\ hears(outs[c], Len(OfColor(toks, c))).countAvailable =
                  outs[c].countAvailable + Len(OfColor(toks, c))
  <2>1. PICK k \in Nat : k = Len(OfColor(toks, c))
    <3>1. OfColors(toks, {c}) \in Seq(T)
      BY OfColorsType
    <3> QED
      BY <3>1 DEF OfColor
  <2>2. PICK o \in Outlet : o = outs[c] /\ Told(o)
    OBVIOUS
  <2>3. /\ hears(o, k) \in Outlet /\ Told(hears(o, k))
        /\ hears(o, k).countAvailable = o.countAvailable + k
    BY <2>2, Hears
  <2> QED
    BY <2>1, <2>2, <2>3
<1>2. Announce(outs, toks) = [c \in C |-> hears(outs[c], Len(OfColor(toks, c)))]
  BY DEF Announce
<1> QED
  BY <1>1, <1>2

(***************************************************************************)
(* The slots once a gap is closed.                                         *)
(***************************************************************************)

(* The slots in use hold tokens. *)
LEMMA SliceTokens ==
  ASSUME NEW T, NEW st \in Slots(T), NEW p \in Indices, InUse(st, p),
         usedCount(p) \in 0 .. Depth, NEW m \in 0 .. usedCount(p)
  PROVE  Slice(st, p.rindex, m) \in Seq(T) /\ Len(Slice(st, p.rindex, m)) = m
<1>1. p.rindex \in Idx /\ m \in 0 .. Depth /\ m \in Nat
  BY DepthAssumption DEF Indices
<1>2. ASSUME NEW k \in 1 .. m
      PROVE  st[Plus(p.rindex, k - 1)] \in T
  <2>1. k - 1 \in Nat /\ (k - 1) + 0 <= Depth /\ 0 \in Nat /\ k - 1 < usedCount(p)
    BY <1>1, DepthAssumption
  <2>2. /\ Plus(p.rindex, k - 1) \in Idx
        /\ Minus(Plus(p.rindex, k - 1), p.rindex) = k - 1
    BY <1>1, <2>1, SlotAt
  <2>3. st[Plus(p.rindex, k - 1)] # NoToken
    BY <2>1, <2>2 DEF InUse
  <2> QED
    BY <2>2, <2>3 DEF Slots
<1>3. Slice(st, p.rindex, m) \in [1 .. m -> T]
  BY <1>2 DEF Slice
<1> QED
  BY <1>1, <1>3, TokensSeq

(* What closeGap leaves: the n tokens read are gone, the m - n others among*)
(* the first m follow the new rindex in their order, and the rest is as before.*)
LEMMA CloseGapSlots ==
  ASSUME NEW st \in Slots(Token), NEW p \in Indices, Apart(p), InUse(st, p),
         NEW c \in Color, NEW n \in Nat,
         n <= CountIn(st, p.rindex, visibleCount(p), c)
  PROVE  LET m      == Reach(st, p, c, n)
             others == OfColors(Slice(st, p.rindex, m), Color \ {c})
             su     == closeGap(st, p, c, n)
         IN  /\ n <= m /\ m <= visibleCount(p)
             /\ others \in Seq(Token) /\ Len(others) = m - n
             /\ su \in Slots(Token)
             /\ InUse(su, rpp(p, n))
             /\ Slice(su, Plus(p.rindex, n), m - n) = others
             /\ \A k \in 0 .. usedCount(p) - m :
                  Slice(su, Plus(p.rindex, m), k) = Slice(st, Plus(p.rindex, m), k)
<1> DEFINE m      == Reach(st, p, c, n)
           others == OfColors(Slice(st, p.rindex, m), Color \ {c})
           iv     == Invalidate(st, p.rindex, n)
           su     == closeGap(st, p, c, n)
           a      == p.rindex
           b      == Plus(p.rindex, n)
           used   == usedCount(p)
<1>1. /\ a \in Idx /\ used \in 0 .. Depth /\ visibleCount(p) \in 0 .. Depth
      /\ visibleCount(p) <= used
  BY UsedCounts, CountType, DepthAssumption
<1>2. m \in 0 .. visibleCount(p) /\ CountIn(st, a, m, c) = n
  BY ReachEnds
<1>3. m \in 0 .. used /\ m \in 0 .. Depth /\ m \in Nat
  BY <1>1, <1>2, DepthAssumption
<1>4. Slice(st, a, m) \in Seq(Token) /\ Len(Slice(st, a, m)) = m
  BY <1>1, <1>3, SliceTokens
<1>5. others \in Seq(Token) /\ Len(others) = m - n /\ n <= m
  <2>1. PICK s \in Seq(Token) : s = Slice(st, a, m) /\ Len(s) = m
    BY <1>4
  <2>2. Len(OfColor(s, c)) + Len(OfColors(s, Color \ {c})) = Len(s)
    BY OthersCount
  <2>3. OfColors(s, Color \ {c}) \in Seq(Token)
    BY OfColorsType
  <2>4. Len(OfColor(s, c)) = n
    BY <1>2, <2>1 DEF CountIn
  <2>5. Len(OfColors(s, Color \ {c})) \in Nat
    BY <2>3
  <2>6. Len(OfColors(s, Color \ {c})) = m - n /\ n <= m
    BY <1>3, <2>1, <2>2, <2>4, <2>5
  <2> QED
    BY <2>1, <2>3, <2>6
<1>6. /\ n \in 0 .. Depth /\ b \in Idx /\ m - n \in Nat /\ m - n \in 0 .. Depth
      /\ n + (m - n) = m /\ n + (m - n) <= Depth /\ n + 0 <= Depth
  <2>1. n \in 0 .. Depth /\ m - n \in Nat /\ m - n \in 0 .. Depth
        /\ n + (m - n) = m /\ n + (m - n) <= Depth /\ n + 0 <= Depth
    BY <1>3, <1>5, DepthAssumption
  <2> QED
    BY <1>1, <2>1, PlusType
<1>7. su = PutAt(iv, b, others)
  BY DEF closeGap
<1>8. iv \in Slots(Token) /\ \A i \in Idx : iv[i] = IF Minus(i, a) < n THEN NoToken ELSE st[i]
  BY InvalidateType DEF Invalidate
<1> HIDE DEF m, others, iv, su, a, b, used
<1>9. su \in Slots(Token)
  BY <1>5, <1>6, <1>7, <1>8, PutAtType
<1>10. \A i \in Idx : su[i] = IF Minus(i, b) < m - n THEN others[Minus(i, b) + 1] ELSE iv[i]
  BY <1>5, <1>7 DEF PutAt
<1>11. \A i \in Idx : /\ Minus(i, a) < m <=> Minus(i, a) < n \/ Minus(i, b) < m - n
                      /\ ~(Minus(i, a) < n /\ Minus(i, b) < m - n)
  <2>1. \A i \in Idx : /\ Minus(i, a) < n + (m - n) <=> Minus(i, a) < n \/ Minus(i, b) < m - n
                       /\ ~(Minus(i, a) < n /\ Minus(i, b) < m - n)
    BY <1>1, <1>6, AreaSplit DEF a, b
  <2> QED
    BY <1>6, <2>1
<1>12. \A i \in Idx : Minus(i, b) < m - n => others[Minus(i, b) + 1] \in Token
  <2>1. SUFFICES ASSUME NEW i \in Idx, Minus(i, b) < m - n
                 PROVE  others[Minus(i, b) + 1] \in Token
    OBVIOUS
  <2>2. Minus(i, b) \in Nat
    BY <1>6, Distance, DepthAssumption
  <2>3. Minus(i, b) + 1 \in 1 .. Len(others)
    BY <1>5, <1>6, <2>1, <2>2
  <2> QED
    BY <1>5, <2>3
<1>13. InUse(su, rpp(p, n))
  <2>1. rpp(p, n).rindex = b /\ usedCount(rpp(p, n)) = used - n
    <3>1. rpp(p, n).rindex = b /\ rpp(p, n).windex = p.windex /\ p.windex \in Idx
      BY DEF rpp, Indices, b
    <3>2. n <= Minus(p.windex, p.rindex)
      BY <1>1, <1>3, <1>5, DepthAssumption DEF usedCount, used
    <3>3. Minus(p.windex, b) = Minus(p.windex, p.rindex) - n
      BY <1>1, <3>1, <3>2, Nearer DEF a, b
    <3> QED
      BY <3>1, <3>3 DEF usedCount, used
  <2>2. ASSUME NEW i \in Idx
        PROVE  su[i] # NoToken <=> Minus(i, b) < used - n
    <3>1. /\ Minus(i, a) < used <=> Minus(i, a) < n \/ Minus(i, b) < used - n
          /\ ~(Minus(i, a) < n /\ Minus(i, b) < used - n)
      <4>1. /\ a \in Idx /\ n \in Nat /\ used - n \in Nat
            /\ n + (used - n) <= Depth /\ n + (used - n) = used
        BY <1>1, <1>3, <1>5, DepthAssumption
      <4>2. /\ Minus(i, a) < n + (used - n) <=> Minus(i, a) < n \/ Minus(i, b) < used - n
            /\ ~(Minus(i, a) < n /\ Minus(i, b) < used - n)
        BY <4>1, AreaSplit DEF a, b
      <4> QED
        BY <4>1, <4>2
    <3>2. CASE Minus(i, a) < n
      BY <1>8, <1>10, <1>11, <3>1, <3>2
    <3>3. CASE Minus(i, b) < m - n
      <4>1. su[i] # NoToken
        BY <1>10, <1>12, <3>3, MultiplexAssumption
      <4>2. Minus(i, b) \in Nat
        BY <1>6, Distance, DepthAssumption
      <4>3. Minus(i, b) < used - n
        BY <1>1, <1>3, <3>3, <4>2, DepthAssumption
      <4> QED
        BY <4>1, <4>3
    <3>4. CASE ~(Minus(i, a) < n) /\ ~(Minus(i, b) < m - n)
      <4>1. su[i] = st[i]
        BY <1>8, <1>10, <3>4
      <4>2. st[i] # NoToken <=> Minus(i, a) < used
        BY DEF InUse, a, used
      <4> QED
        BY <3>1, <3>4, <4>1, <4>2
    <3> QED
      BY <3>2, <3>3, <3>4
  <2> QED
    BY <2>1, <2>2 DEF InUse
<1>14. Slice(su, b, m - n) = others
  <2>1. ASSUME NEW k \in 1 .. m - n
        PROVE  su[Plus(b, k - 1)] = others[k]
    <3>1. k - 1 \in Nat /\ 0 \in Nat /\ (k - 1) + 0 <= Depth /\ k - 1 < m - n /\ (k - 1) + 1 = k
      BY <1>6, DepthAssumption
    <3>2. Plus(b, k - 1) \in Idx /\ Minus(Plus(b, k - 1), b) = k - 1
      BY <1>6, <3>1, SlotAt
    <3> QED
      BY <1>10, <3>1, <3>2
  <2>2. /\ Slice(su, b, m - n) \in Seq(Held(Token)) /\ Len(Slice(su, b, m - n)) = m - n
        /\ \A k \in 1 .. m - n : Slice(su, b, m - n)[k] = su[Plus(b, k - 1)]
    BY <1>6, <1>9, SliceSeq
  <2>3. \A k \in 1 .. m - n : Slice(su, b, m - n)[k] = others[k]
    BY <2>1, <2>2
  <2>4. others \in Seq(Held(Token))
    BY <1>5 DEF Held
  <2> QED
    BY <1>5, <2>2, <2>3, <2>4, SeqEqual
<1>15. ASSUME NEW k \in 0 .. used - m
       PROVE  Slice(su, Plus(a, m), k) = Slice(st, Plus(a, m), k)
  <2>1. Plus(a, m) \in Idx /\ k \in 0 .. Depth
    BY <1>1, <1>3, PlusType, DepthAssumption
  <2>2. ASSUME NEW j \in 0 .. k - 1
        PROVE  su[Plus(Plus(a, m), j)] = st[Plus(Plus(a, m), j)]
    <3>1. j \in Nat /\ m + j <= Depth /\ m + j \in Nat /\ (m + j) + 0 <= Depth /\ 0 \in Nat
      BY <1>1, <1>3, DepthAssumption
    <3>2. Plus(Plus(a, m), j) = Plus(a, m + j)
      BY <1>1, <1>3, <3>1, SlotAt
    <3>3. PICK o \in Nat : o = m + j /\ o + 0 <= Depth
      BY <3>1
    <3>4. Plus(a, o) \in Idx /\ Minus(Plus(a, o), a) = o
      BY <1>1, <3>1, <3>3, SlotAt
    <3>5. ~(o < m) /\ ~(o < n)
      BY <1>3, <1>5, <3>1, <3>3
    <3>6. ~(Minus(Plus(a, o), b) < m - n)
      BY <1>11, <3>4, <3>5
    <3> QED
      BY <1>8, <1>10, <3>2, <3>3, <3>4, <3>5, <3>6
  <2> QED
    BY <1>9, <2>1, <2>2, SliceEqual
<1> QED
  <2>1. m <= visibleCount(p)
    BY <1>1, <1>2, DepthAssumption
  <2> QED
    BY <1>5, <1>9, <1>13, <1>14, <1>15, <2>1 DEF m, others, su, a, b, used

(***************************************************************************)
(* The inductive invariant, by the part of the state it is about.          *)
(***************************************************************************)

(* doReset announces every initial token, in the window or not: they have  *)
(* to fit into it wherever virtual FIFOs are read.                         *)
Fits == VOutlets = {} \/ Len(Marking) <= Window

SettingInv == VOutlets \in {{}, Color} /\ Fits

RingInv == /\ q \in Indices /\ Apart(q)
           /\ storage \in Slots(Token) /\ InUse(storage, q)
           /\ inFlight = invisibleCount(q)
           /\ inConsume = inconsumeCount(q)

WriterInv == /\ emmFree \in EventMaps(SpaceThresholds)
             /\ Exact(SpaceThresholds, emmFree, freeCount(q))

ReaderInv == /\ emmAvailable \in EventMaps(DataThresholds)
             /\ VOutlets = {} => Exact(DataThresholds, emmAvailable, visibleCount(q))
             /\ VOutlets # {} => \A n \in DataThresholds : ~emmAvailable[n]

InWindow(p) == Lesser(Window, visibleCount(p))

OutletInv == /\ outlets \in [VOutlets -> Outlet]
             /\ \A c \in VOutlets :
                  /\ Told(outlets[c])
                  /\ outlets[c].countAvailable =
                       CountIn(storage, q.rindex, InWindow(q), c)

MuxInv == SettingInv /\ RingInv /\ WriterInv /\ ReaderInv /\ OutletInv

(* The counts of the four areas, the window and the rest. *)
LEMMA RingFacts ==
  ASSUME RingInv
  PROVE  /\ q \in Indices /\ Apart(q) /\ storage \in Slots(Token) /\ InUse(storage, q)
         /\ inFlight = invisibleCount(q) /\ inConsume = inconsumeCount(q)
         /\ q.findex \in Idx /\ q.rindex \in Idx /\ q.vindex \in Idx /\ q.windex \in Idx
         /\ inconsumeCount(q) \in 0 .. Depth /\ visibleCount(q) \in 0 .. Depth
         /\ invisibleCount(q) \in 0 .. Depth /\ freeCount(q) \in 0 .. Depth
         /\ usedCount(q) \in 0 .. Depth
         /\ usedCount(q) = visibleCount(q) + invisibleCount(q)
<1>1. q \in Indices /\ Apart(q)
  BY DEF RingInv
<1> QED
  BY <1>1, CountType, UsedCounts DEF RingInv, Indices

(* The window reaches over all visible tokens or over Window of them. *)
LEMMA WindowType ==
  ASSUME NEW v \in 0 .. Depth
  PROVE  /\ Window \in 1 .. Depth
         /\ Lesser(Window, v) \in 0 .. Depth /\ Lesser(Window, v) \in Nat
         /\ Lesser(Window, v) <= v /\ Lesser(Window, v) <= Window
         /\ v <= Window => Lesser(Window, v) = v
         /\ Window <= v => Lesser(Window, v) = Window
BY MultiplexAssumption, DepthAssumption DEF Window, Lesser

(***************************************************************************)
(* What it implies.                                                        *)
(***************************************************************************)

(* An outlet counts no more tokens than the window holds. *)
LEMMA OutletCounts ==
  ASSUME RingInv, OutletInv, NEW c \in VOutlets
  PROVE  /\ outlets[c] \in Outlet /\ Told(outlets[c])
         /\ outlets[c].countAvailable = CountIn(storage, q.rindex, InWindow(q), c)
         /\ outlets[c].countAvailable \in 0 .. InWindow(q)
<1>1. InWindow(q) \in 0 .. Depth
  BY RingFacts, WindowType DEF InWindow
<1>2. CountIn(storage, q.rindex, InWindow(q), c) \in 0 .. InWindow(q)
  BY <1>1, RingFacts, CountInType
<1> QED
  BY <1>2 DEF OutletInv

(* Whoever waits for r tokens and is woken finds them in the window. *)
LEMMA WokenFor ==
  ASSUME RingInv, OutletInv, NEW c \in VOutlets, NEW r \in DataThresholds,
         outlets[c].emmAvailable[r]
  PROVE  r \in Nat /\ r <= outlets[c].countAvailable
<1>1. r \in Nat /\ outlets[c].countAvailable \in Nat
  BY OutletCounts, MultiplexAssumption DEF Outlet
<1>2. CASE r = 0
  BY <1>1, <1>2
<1>3. CASE r # 0
  <2>1. r > 0
    BY <1>1, <1>3
  <2> QED
    BY <1>1, <2>1, OutletCounts DEF Told, ExactAbove
<1> QED
  BY <1>2, <1>3

(* The invariant implies the types, *)
LEMMA InvTypes ==
  ASSUME MuxInv
  PROVE  TypeOK
<1>1. RingInv /\ OutletInv
  BY DEF MuxInv
<1>2. q \in Indices /\ storage \in [Idx -> Token \cup {NoToken}]
  BY <1>1, RingFacts DEF Slots
<1>3. inFlight \in 0 .. Depth /\ inConsume \in 0 .. Depth
  BY <1>1, RingFacts
<1>4. InWindow(q) \in 0 .. Depth
  BY <1>1, RingFacts, WindowType DEF InWindow
<1>5. ASSUME NEW c \in VOutlets
      PROVE  outlets[c] \in [countAvailable : 0 .. Depth,
                             emmAvailable   : EventMaps(DataThresholds)]
  <2>1. outlets[c].countAvailable \in 0 .. Depth
    BY <1>1, <1>4, OutletCounts, DepthAssumption
  <2> QED
    BY <1>1, <2>1, OutletCounts DEF Outlet
<1>6. outlets \in [VOutlets -> [countAvailable : 0 .. Depth,
                                emmAvailable   : EventMaps(DataThresholds)]]
  BY <1>1, <1>5 DEF OutletInv
<1> QED
  BY <1>2, <1>3, <1>6 DEF TypeOK, MuxInv, SettingInv, WriterInv, ReaderInv

(* that every reader counts what the window holds for it, *)
LEMMA InvWindow ==
  ASSUME MuxInv
  PROVE  WindowExact
BY DEF MuxInv, OutletInv, WindowExact, CountIn, InWindow

(* that events are exact, for whoever waits for a token at all, *)
LEMMA InvEvents ==
  ASSUME MuxInv, 0 \notin DataThresholds
  PROVE  EventsExact
<1>1. RingInv /\ OutletInv /\ WriterInv /\ ReaderInv
  BY DEF MuxInv
<1>2. \A n \in SpaceThresholds : emmFree[n] <=> n <= freeCount(q)
  BY <1>1 DEF WriterInv, Exact
<1>3. \A n \in DataThresholds : emmAvailable[n] <=> VOutlets = {} /\ n <= visibleCount(q)
  BY <1>1 DEF ReaderInv, Exact
<1>4. ASSUME NEW n \in DataThresholds, NEW c \in VOutlets
      PROVE  outlets[c].emmAvailable[n] <=> n <= outlets[c].countAvailable
  <2>1. n > 0
    BY MultiplexAssumption
  <2> QED
    BY <1>1, <2>1, OutletCounts DEF Told, ExactAbove
<1> QED
  BY <1>2, <1>3, <1>4 DEF EventsExact

(* that every search finds as many tokens as its event promised, *)
LEMMA InvSearch ==
  ASSUME MuxInv
  PROVE  SearchEnds
<1>1. RingInv /\ OutletInv
  BY DEF MuxInv
<1>2. ASSUME NEW c \in VOutlets
      PROVE  outlets[c].countAvailable <= Len(OfColor(Visible(storage, q), c))
  <2>1. visibleCount(q) \in 0 .. Depth /\ InWindow(q) \in 0 .. visibleCount(q)
    BY <1>1, RingFacts, WindowType, DepthAssumption DEF InWindow
  <2>2. CountIn(storage, q.rindex, InWindow(q), c) <= CountIn(storage, q.rindex, visibleCount(q), c)
    BY <1>1, <2>1, RingFacts, CountGrows
  <2> QED
    BY <1>1, <2>2, OutletCounts DEF CountIn, Visible
<1> QED
  BY <1>2 DEF SearchEnds

(* that the index moves find the counts their assertions ask for, *)
LEMMA InvAssertions ==
  ASSUME MuxInv
  PROVE  AssertionsHold
<1>1. RingInv /\ OutletInv /\ WriterInv
  BY DEF MuxInv
<1>2. \A n \in SpaceThresholds : emmFree[n] => wppAssert(q, n)
  BY <1>1 DEF WriterInv, Exact, wppAssert
<1>3. Between(q.vindex, q.rindex, q.windex)
  BY <1>1, RingFacts, DepthAssumption DEF Between, usedCount, visibleCount
<1>4. Between(q.findex, Plus(q.windex, 1), q.rindex)
  BY <1>1, RingFacts, DepthAssumption
     DEF Between, Apart, Idx, FSize, Plus, Minus, freeCount, inconsumeCount,
         visibleCount, invisibleCount
<1>5. inConsume + visibleCount(q) + inFlight + freeCount(q) = Depth
  BY <1>1, RingFacts DEF Apart
<1>6. ASSUME NEW c \in VOutlets, NEW n \in DataThresholds, outlets[c].emmAvailable[n]
      PROVE  n <= Window /\ rppAssert(q, n)
  <2>1. n \in Nat /\ n <= outlets[c].countAvailable
    BY <1>1, <1>6, WokenFor
  <2>2. outlets[c].countAvailable \in 0 .. InWindow(q)
    BY <1>1, OutletCounts
  <2>3. /\ InWindow(q) \in Nat /\ InWindow(q) <= Window /\ InWindow(q) <= visibleCount(q)
        /\ Window \in Nat /\ visibleCount(q) \in Nat
    BY <1>1, RingFacts, WindowType, DepthAssumption DEF InWindow
  <2> QED
    BY <2>1, <2>2, <2>3 DEF rppAssert
<1> QED
  BY <1>1, <1>2, <1>3, <1>4, <1>5, <1>6, RingFacts
     DEF AssertionsHold, vppAssert, fppAssert

(* and that tokens lie in the slots in use only. *)
LEMMA InvSlots ==
  ASSUME MuxInv
  PROVE  SlotsValid
BY DEF MuxInv, RingInv, InUse, SlotsValid

(***************************************************************************)
(* Resets.                                                                 *)
(***************************************************************************)

(* The ring and its slots after the initial tokens have been put. *)
LEMMA MarkedRing ==
  ASSUME NEW st \in Slots(Token), \A i \in Idx : st[i] = NoToken
  PROVE  LET su == PutAt(st, 0, Marking)
         IN  /\ MarkedQueue \in Indices /\ Apart(MarkedQueue)
             /\ su \in Slots(Token) /\ InUse(su, MarkedQueue)
             /\ inconsumeCount(MarkedQueue) = 0 /\ invisibleCount(MarkedQueue) = 0
             /\ visibleCount(MarkedQueue) = Len(Marking)
             /\ visibleCount(MarkedQueue) \in 0 .. Depth
             /\ freeCount(MarkedQueue) \in 0 .. Depth
             /\ Slice(su, MarkedQueue.rindex, visibleCount(MarkedQueue)) = Marking
<1>1. Marked(Token)
  BY MultiplexAssumption DEF Marked
<1>2. /\ Len(Marking) \in 0 .. Depth
      /\ MarkedQueue \in Indices
      /\ inconsumeCount(MarkedQueue) = 0
      /\ visibleCount(MarkedQueue) = Len(Marking)
      /\ invisibleCount(MarkedQueue) = 0
      /\ freeCount(MarkedQueue) = Depth - Len(Marking)
  BY <1>1, MarkedQueueCounts
<1>3. Apart(MarkedQueue) /\ freeCount(MarkedQueue) \in 0 .. Depth
  BY <1>2, DepthAssumption DEF Apart
<1>4. PutAt(st, 0, Marking) \in Slots(Token)
  <2>1. 0 \in Idx
    BY DepthAssumption DEF Idx
  <2> QED
    BY <2>1, PutAtType, MultiplexAssumption
<1>5. /\ InUse(PutAt(st, 0, Marking), MarkedQueue)
      /\ Slice(PutAt(st, 0, Marking), MarkedQueue.rindex, visibleCount(MarkedQueue)) = Marking
  BY <1>1, ResetSlots
<1> QED
  BY <1>2, <1>3, <1>4, <1>5

(* Outlets that have not been told of anything. *)
Silent == [c \in VOutlets |-> [countAvailable |-> 0, emmAvailable |-> Off]]

(* What Init and Restart make of the outlets: each has been told of the    *)
(* initial tokens of its colour, all of which lie in the window.           *)
LEMMA MarkedOutlets ==
  ASSUME SettingInv, NEW su, NEW outs,
         visibleCount(MarkedQueue) = Len(Marking), Len(Marking) \in 0 .. Depth,
         Slice(su, MarkedQueue.rindex, visibleCount(MarkedQueue)) = Marking,
         outs = Announce(Silent, IF VOutlets = {} THEN <<>> ELSE Marking)
  PROVE  /\ outs \in [VOutlets -> Outlet]
         /\ \A c \in VOutlets :
              /\ Told(outs[c])
              /\ outs[c].countAvailable =
                   CountIn(su, MarkedQueue.rindex, InWindow(MarkedQueue), c)
<1> DEFINE o == [countAvailable |-> 0, emmAvailable |-> Off]
           toks == IF VOutlets = {} THEN <<>> ELSE Marking
<1>1. Off \in EventMaps(DataThresholds) /\ \A n \in DataThresholds : ~Off[n]
  BY DEF Off, EventMaps
<1>2. o \in Outlet /\ Told(o)
  BY <1>1, MultiplexAssumption DEF Outlet, Told, ExactAbove
<1>3. /\ Silent \in [VOutlets -> Outlet]
      /\ \A c \in VOutlets : Told(Silent[c]) /\ Silent[c].countAvailable = 0
  BY <1>2 DEF Silent
<1>4. toks \in Seq(Token)
  BY MultiplexAssumption
<1>5. outs = Announce(Silent, toks)
  OBVIOUS
<1> HIDE DEF toks
<1>6. /\ Announce(Silent, toks) \in [VOutlets -> Outlet]
      /\ \A c \in VOutlets : /\ Told(Announce(Silent, toks)[c])
                             /\ Announce(Silent, toks)[c].countAvailable =
                                  Silent[c].countAvailable + Len(OfColor(toks, c))
  BY <1>3, <1>4, Announced
<1>7. ASSUME NEW c \in VOutlets
      PROVE  outs[c].countAvailable = CountIn(su, MarkedQueue.rindex, InWindow(MarkedQueue), c)
  <2>1. toks = Marking /\ Len(Marking) <= Window
    BY DEF toks, SettingInv, Fits
  <2>2. InWindow(MarkedQueue) = visibleCount(MarkedQueue)
    BY <2>1, WindowType DEF InWindow
  <2>3. CountIn(su, MarkedQueue.rindex, InWindow(MarkedQueue), c) = Len(OfColor(Marking, c))
    BY <2>2 DEF CountIn
  <2>4. OfColors(Marking, {c}) \in Seq(Token)
    BY OfColorsType, MultiplexAssumption
  <2>5. Len(OfColor(Marking, c)) \in Nat
    BY <2>4 DEF OfColor
  <2>6. outs[c].countAvailable = 0 + Len(OfColor(Marking, c))
    BY <1>3, <1>5, <1>6, <2>1
  <2> QED
    BY <2>3, <2>5, <2>6
<1> QED
  BY <1>5, <1>6, <1>7

(* The invariant holds at the start, *)
LEMMA InitMux ==
  ASSUME Init, Fits
  PROVE  MuxInv
<1> DEFINE st == [i \in Idx |-> NoToken]
<1>1. st \in Slots(Token) /\ \A i \in Idx : st[i] = NoToken
  BY DEF Slots
<1>2. q = MarkedQueue /\ storage = PutAt(st, 0, Marking)
  BY DEF Init
<1> HIDE DEF st
<1>3. SettingInv
  BY DEF Init, Elaborated, SettingInv
<1>4. /\ q \in Indices /\ Apart(q)
      /\ storage \in Slots(Token) /\ InUse(storage, q)
      /\ inconsumeCount(q) = 0 /\ invisibleCount(q) = 0
      /\ visibleCount(q) = Len(Marking)
      /\ visibleCount(q) \in 0 .. Depth /\ freeCount(q) \in 0 .. Depth
      /\ Slice(storage, q.rindex, visibleCount(q)) = Marking
  BY <1>1, <1>2, MarkedRing
<1>5. RingInv
  BY <1>4 DEF Init, RingInv
<1>6. ASSUME NEW T \in SUBSET Nat, NEW c \in Nat, NEW ev, ev = [n \in T |-> FALSE]
      PROVE  /\ increasedCount(ev, c) \in EventMaps(T)
             /\ Exact(T, increasedCount(ev, c), c)
  <2>1. ev \in EventMaps(T) /\ \A n \in T : ~ev[n]
    BY <1>6 DEF EventMaps
  <2> QED
    BY <2>1, DisabledExact
<1>7. visibleCount(q) \in Nat /\ freeCount(q) \in Nat
  BY <1>4, DepthAssumption
<1>8. WriterInv
  BY <1>2, <1>6, <1>7, MultiplexAssumption DEF Init, WriterInv
<1>9. ReaderInv
  <2>1. Off \in EventMaps(DataThresholds) /\ \A n \in DataThresholds : ~Off[n]
    BY DEF Off, EventMaps
  <2>2. CASE VOutlets = {}
    <3>1. emmAvailable = increasedCount(Off, visibleCount(q))
      BY <1>2, <2>2 DEF Init
    <3>2. /\ increasedCount(Off, visibleCount(q)) \in EventMaps(DataThresholds)
          /\ Exact(DataThresholds, increasedCount(Off, visibleCount(q)), visibleCount(q))
      BY <1>7, <2>1, DisabledExact, MultiplexAssumption
    <3> QED
      BY <2>2, <3>1, <3>2 DEF ReaderInv
  <2>3. CASE VOutlets # {}
    BY <2>1, <2>3 DEF Init, ReaderInv
  <2> QED
    BY <2>2, <2>3
<1>10. OutletInv
  <2>1. outlets = Announce(Silent, IF VOutlets = {} THEN <<>> ELSE Marking)
    BY DEF Init, Silent
  <2>2. /\ visibleCount(MarkedQueue) = Len(Marking) /\ Len(Marking) \in 0 .. Depth
        /\ Slice(storage, MarkedQueue.rindex, visibleCount(MarkedQueue)) = Marking
    BY <1>2, <1>4
  <2>3. /\ outlets \in [VOutlets -> Outlet]
        /\ \A c \in VOutlets :
             /\ Told(outlets[c])
             /\ outlets[c].countAvailable =
                  CountIn(storage, MarkedQueue.rindex, InWindow(MarkedQueue), c)
    BY <1>3, <2>1, <2>2, MarkedOutlets
  <2> QED
    BY <1>2, <2>3 DEF OutletInv
<1> QED
  BY <1>3, <1>5, <1>8, <1>9, <1>10 DEF MuxInv

(* and after a reset, which leaves just the marking. *)
LEMMA doResetMux ==
  ASSUME MuxInv, doReset, VOutlets' = VOutlets
  PROVE  /\ MuxInv'
         /\ Slice(storage', q'.rindex, usedCount(q')) = Marking
         /\ Slice(storage', q'.rindex, visibleCount(q')) = Marking
         /\ invisibleCount(q') = 0 /\ inconsumeCount(q') = 0
<1> DEFINE st == Invalidate(storage, q.rindex, usedCount(q))
<1>0. RingInv /\ SettingInv /\ WriterInv /\ ReaderInv
  BY DEF MuxInv
<1>1. st \in Slots(Token) /\ \A i \in Idx : st[i] = NoToken
  BY <1>0, RingFacts, InvalidateAll
<1>2. q' = MarkedQueue /\ storage' = PutAt(st, 0, Marking)
  BY DEF doReset, Restart, resetStorage
<1> HIDE DEF st
<1>3. SettingInv'
  BY <1>0 DEF SettingInv, Fits
<1>4. /\ q' \in Indices /\ Apart(q')
      /\ storage' \in Slots(Token) /\ InUse(storage', q')
      /\ inconsumeCount(q') = 0 /\ invisibleCount(q') = 0
      /\ visibleCount(q') = Len(Marking)
      /\ visibleCount(q') \in 0 .. Depth /\ freeCount(q') \in 0 .. Depth
      /\ Slice(storage', q'.rindex, visibleCount(q')) = Marking
  BY <1>1, <1>2, MarkedRing
<1>5. RingInv'
  BY <1>4 DEF doReset, RingInv
<1>6. ASSUME NEW T \in SUBSET Nat, NEW ev \in EventMaps(T)
      PROVE  reset(ev) \in EventMaps(T) /\ \A n \in T : ~reset(ev)[n]
  BY DEF EventMaps, reset
<1>7. visibleCount(q') \in Nat /\ freeCount(q') \in Nat
  BY <1>4, DepthAssumption
<1>8. WriterInv'
  <2>1. emmFree \in EventMaps(SpaceThresholds) /\ SpaceThresholds \in SUBSET Nat
    BY <1>0, MultiplexAssumption DEF WriterInv
  <2>2. reset(emmFree) \in EventMaps(SpaceThresholds) /\ \A n \in SpaceThresholds : ~reset(emmFree)[n]
    BY <1>6, <2>1
  <2>3. emmFree' = increasedCount(reset(emmFree), freeCount(q'))
    BY DEF doReset, Restart
  <2> QED
    BY <1>7, <2>1, <2>2, <2>3, DisabledExact DEF WriterInv
<1>9. ReaderInv'
  <2>1. emmAvailable \in EventMaps(DataThresholds) /\ DataThresholds \in SUBSET Nat
    BY <1>0, MultiplexAssumption DEF ReaderInv
  <2>2. reset(emmAvailable) \in EventMaps(DataThresholds) /\ \A n \in DataThresholds : ~reset(emmAvailable)[n]
    BY <1>6, <2>1
  <2>3. emmAvailable' = IF VOutlets = {}
                        THEN increasedCount(reset(emmAvailable), visibleCount(q'))
                        ELSE reset(emmAvailable)
    BY DEF doReset, Restart
  <2>4. /\ increasedCount(reset(emmAvailable), visibleCount(q')) \in EventMaps(DataThresholds)
        /\ Exact(DataThresholds, increasedCount(reset(emmAvailable), visibleCount(q')),
                 visibleCount(q'))
    BY <1>7, <2>1, <2>2, DisabledExact
  <2> QED
    BY <2>2, <2>3, <2>4 DEF ReaderInv
<1>10. OutletInv'
  <2>1. outlets' = Announce(Silent, IF VOutlets = {} THEN <<>> ELSE Marking)
    BY DEF doReset, Restart, Silent
  <2>2. /\ visibleCount(MarkedQueue) = Len(Marking) /\ Len(Marking) \in 0 .. Depth
        /\ Slice(storage', MarkedQueue.rindex, visibleCount(MarkedQueue)) = Marking
    BY <1>2, <1>4
  <2>3. /\ outlets' \in [VOutlets -> Outlet]
        /\ \A c \in VOutlets :
             /\ Told(outlets'[c])
             /\ outlets'[c].countAvailable =
                  CountIn(storage', MarkedQueue.rindex, InWindow(MarkedQueue), c)
    BY <1>0, <2>1, <2>2, MarkedOutlets
  <2> QED
    BY <1>2, <2>3 DEF OutletInv
<1>11. usedCount(q') = visibleCount(q')
  BY <1>4, UsedCounts, DepthAssumption
<1> QED
  BY <1>3, <1>4, <1>5, <1>8, <1>9, <1>10, <1>11 DEF MuxInv

(***************************************************************************)
(* Writes.                                                                 *)
(***************************************************************************)

(* What is equal in v slots is equal in the first w of them. *)
LEMMA SamePrefix ==
  ASSUME NEW T, NEW st \in Slots(T), NEW su \in Slots(T), NEW a \in Idx,
         NEW v \in 0 .. Depth, NEW w \in 0 .. v, Slice(su, a, v) = Slice(st, a, v)
  PROVE  Slice(su, a, w) = Slice(st, a, w)
<1>1. SubSeq(Slice(st, a, v), 1, w) = Slice(st, a, w)
  BY SliceParts
<1>2. SubSeq(Slice(su, a, v), 1, w) = Slice(su, a, w)
  BY SliceParts
<1> QED
  BY <1>1, <1>2

(* A write disturbs no visible token, so that no reader is concerned. *)
LEMMA EntryCommStartMux ==
  ASSUME MuxInv, NEW toks \in Seq(Token), EntryCommStart(toks), VOutlets' = VOutlets
  PROVE  /\ MuxInv'
         /\ Len(toks) <= freeCount(q)
         /\ q'.rindex = q.rindex /\ q'.vindex = q.vindex
         /\ inconsumeCount(q') = inconsumeCount(q)
         /\ visibleCount(q') = visibleCount(q)
         /\ invisibleCount(q') = invisibleCount(q) + Len(toks)
         /\ Slice(storage', q.rindex, visibleCount(q)) = Slice(storage, q.rindex, visibleCount(q))
         /\ Slice(storage', q.vindex, invisibleCount(q) + Len(toks))
              = Slice(storage, q.vindex, invisibleCount(q)) \o toks
<1> DEFINE n == Len(toks)
<1>0. RingInv /\ SettingInv /\ WriterInv /\ ReaderInv /\ OutletInv
  BY DEF MuxInv
<1>1. n \in Nat /\ n \in SpaceThresholds /\ n <= freeCount(q)
  BY <1>0 DEF EntryCommStart, WriterInv, Exact
<1>2. q' = wpp(q, n) /\ storage' = PutAt(storage, q.windex, toks)
  BY DEF EntryCommStart
<1>3. /\ q' \in Indices
      /\ inconsumeCount(q') = inconsumeCount(q)
      /\ visibleCount(q') = visibleCount(q)
      /\ invisibleCount(q') = invisibleCount(q) + n
      /\ freeCount(q') = freeCount(q) - n
      /\ q'.rindex = q.rindex /\ q'.vindex = q.vindex
  BY <1>0, <1>1, <1>2, RingFacts, WppCounts DEF wpp, Indices
<1>4. /\ InUse(storage', q')
      /\ Slice(storage', q.rindex, visibleCount(q)) = Slice(storage, q.rindex, visibleCount(q))
      /\ Slice(storage', q.vindex, invisibleCount(q) + n)
           = Slice(storage, q.vindex, invisibleCount(q)) \o toks
  BY <1>0, <1>1, <1>2, RingFacts, PutSlots, MultiplexAssumption
<1>5. storage' \in Slots(Token)
  BY <1>0, <1>2, RingFacts, PutAtType
<1>6. RingInv'
  <2>1. Apart(q')
    BY <1>0, <1>1, <1>3, RingFacts, DepthAssumption DEF Apart
  <2>2. inFlight' = inFlight + n /\ inConsume' = inConsume
    BY DEF EntryCommStart
  <2> QED
    BY <1>0, <1>3, <1>4, <1>5, <2>1, <2>2, RingFacts DEF RingInv
<1>7. WriterInv'
  <2>1. /\ freeCount(q) \in Nat /\ freeCount(q') \in Nat /\ freeCount(q') <= freeCount(q)
        /\ SpaceThresholds \in SUBSET Nat
    BY <1>0, <1>1, <1>3, RingFacts, DepthAssumption, MultiplexAssumption
  <2>2. emmFree' = decreasedCount(emmFree, freeCount(q'))
    BY DEF EntryCommStart
  <2> QED
    BY <1>0, <2>1, <2>2, DecreasedExact DEF WriterInv
<1>8. ReaderInv'
  BY <1>0, <1>3 DEF EntryCommStart, ReaderInv
<1>9. OutletInv'
  <2>1. InWindow(q') = InWindow(q) /\ InWindow(q) \in 0 .. visibleCount(q)
    BY <1>0, <1>3, RingFacts, WindowType, DepthAssumption DEF InWindow
  <2>2. Slice(storage', q.rindex, InWindow(q)) = Slice(storage, q.rindex, InWindow(q))
    BY <1>0, <1>4, <1>5, <2>1, RingFacts, SamePrefix
  <2>3. \A c : CountIn(storage', q'.rindex, InWindow(q'), c)
                 = CountIn(storage, q.rindex, InWindow(q), c)
    BY <1>3, <2>1, <2>2 DEF CountIn
  <2> QED
    BY <1>0, <2>3 DEF EntryCommStart, OutletInv
<1> QED
  BY <1>0, <1>1, <1>3, <1>4, <1>6, <1>7, <1>8, <1>9 DEF MuxInv, SettingInv, Fits

(* The tokens a virtual entry puts are tokens. *)
LEMMA Colored ==
  ASSUME NEW n \in Nat, NEW c \in Color, NEW data \in [1 .. n -> Data]
  PROVE  LET toks == [i \in DOMAIN data |-> [fifoId |-> c, data |-> data[i]]]
         IN  toks \in Seq(Token) /\ Len(toks) = n
<1> DEFINE toks == [i \in DOMAIN data |-> [fifoId |-> c, data |-> data[i]]]
<1>1. toks \in [1 .. n -> Token]
  BY DEF Token
<1> HIDE DEF toks
<1>2. toks \in Seq(Token) /\ Len(toks) = n
  BY <1>1, TokensSeq
<1> QED
  BY <1>2 DEF toks

(* The tokens whose latency expires enter the window as far as it is not   *)
(* full, and these are announced.                                          *)
LEMMA EntryCommFinishMux ==
  ASSUME MuxInv, NEW n \in 1 .. Depth, EntryCommFinish(n), VOutlets' = VOutlets
  PROVE  /\ MuxInv' /\ n <= invisibleCount(q)
         /\ storage' = storage
         /\ q'.rindex = q.rindex /\ q'.windex = q.windex /\ q'.vindex = Plus(q.vindex, n)
         /\ inconsumeCount(q') = inconsumeCount(q)
         /\ visibleCount(q') = visibleCount(q) + n
         /\ invisibleCount(q') = invisibleCount(q) - n
<1>0. RingInv /\ SettingInv /\ WriterInv /\ ReaderInv /\ OutletInv
  BY DEF MuxInv
<1>1. /\ n \in Nat /\ n <= inFlight /\ inFlight' = inFlight - n
      /\ latencyExpired(n) /\ inConsume' = inConsume
  BY DepthAssumption DEF EntryCommFinish
<1>2. n <= invisibleCount(q) /\ q' = vpp(q, n) /\ storage' = storage
  BY <1>0, <1>1, RingFacts DEF latencyExpired
<1>3. /\ q' \in Indices
      /\ inconsumeCount(q') = inconsumeCount(q)
      /\ visibleCount(q') = visibleCount(q) + n
      /\ invisibleCount(q') = invisibleCount(q) - n
      /\ freeCount(q') = freeCount(q)
      /\ q'.rindex = q.rindex /\ q'.windex = q.windex /\ q'.vindex = Plus(q.vindex, n)
  BY <1>0, <1>1, <1>2, RingFacts, VppCounts DEF vpp, Indices
<1>4. Apart(q')
  BY <1>0, <1>1, <1>3, RingFacts, DepthAssumption DEF Apart
<1>5. RingInv'
  BY <1>0, <1>1, <1>2, <1>3, <1>4, RingFacts DEF RingInv, InUse, usedCount
<1>6. WriterInv'
  BY <1>0, <1>1, <1>3 DEF latencyExpired, WriterInv
<1>7. /\ visibleCount(q) \in Nat /\ visibleCount(q') \in Nat /\ visibleCount(q') \in 0 .. Depth
      /\ visibleCount(q) <= visibleCount(q') /\ visibleCount(q') - n = visibleCount(q)
  BY <1>0, <1>1, <1>3, <1>5, RingFacts, CountType, DepthAssumption
<1>8. ReaderInv'
  <2>1. CASE VOutlets = {}
    <3>1. emmAvailable' = increasedCount(emmAvailable, visibleCount(q'))
      BY <1>1, <2>1 DEF latencyExpired
    <3>2. /\ emmAvailable \in EventMaps(DataThresholds) /\ DataThresholds \in SUBSET Nat
          /\ Exact(DataThresholds, emmAvailable, visibleCount(q))
      BY <1>0, <2>1, MultiplexAssumption DEF ReaderInv
    <3>3. /\ emmAvailable' \in EventMaps(DataThresholds)
          /\ Exact(DataThresholds, emmAvailable', visibleCount(q'))
      BY <1>7, <3>1, <3>2, IncreasedExact
    <3> QED
      BY <2>1, <3>3 DEF ReaderInv
  <2>2. CASE VOutlets # {}
    BY <1>0, <1>1, <2>2 DEF latencyExpired, ReaderInv
  <2> QED
    BY <2>1, <2>2
<1>9. OutletInv'
  <2>1. CASE VOutlets = {}
    <3>1. outlets' = outlets
      BY <1>1, <2>1 DEF latencyExpired
    <3> QED
      BY <1>0, <2>1, <3>1 DEF OutletInv
  <2>2. CASE VOutlets # {}
    <3> DEFINE x == InWindow(q)
               o == InWindow(q')
               toks == Slice(storage, Plus(q.rindex, x), o - x)
    <3>1. /\ x \in Nat /\ x \in 0 .. Depth /\ o \in 0 .. Depth /\ x <= o
          /\ o - x \in Nat /\ o - x \in 0 .. Depth /\ x + (o - x) = o /\ x + (o - x) <= Depth
      <4>1. x \in 0 .. Depth /\ o \in 0 .. Depth /\ x <= o
        BY <1>0, <1>7, RingFacts, MultiplexAssumption, DepthAssumption
           DEF InWindow, Window, Lesser
      <4> QED
        BY <4>1, DepthAssumption
    <3>2. outlets' = Announce(outlets, toks)
      BY <1>1, <1>3, <1>7, <2>2 DEF latencyExpired, Entering, InWindow
    <3> HIDE DEF x, o
    <3>3. Plus(q.rindex, x) \in Idx
      BY <1>0, <3>1, RingFacts, PlusType
    <3>4. toks \in Seq(Held(Token))
      BY <1>0, <3>1, <3>3, RingFacts, SliceSeq
    <3> HIDE DEF toks
    <3>5. /\ outlets \in [VOutlets -> Outlet]
          /\ \A c \in VOutlets : Told(outlets[c])
      BY <1>0 DEF OutletInv
    <3>6. /\ outlets' \in [VOutlets -> Outlet]
          /\ \A c \in VOutlets : /\ Told(outlets'[c])
                                 /\ outlets'[c].countAvailable =
                                      outlets[c].countAvailable + Len(OfColor(toks, c))
      BY <3>2, <3>4, <3>5, Announced
    <3>7. ASSUME NEW c \in VOutlets
          PROVE  outlets'[c].countAvailable = CountIn(storage', q'.rindex, InWindow(q'), c)
      <4>1. outlets[c].countAvailable = CountIn(storage, q.rindex, x, c)
        BY <1>0 DEF OutletInv, x
      <4>2. CountIn(storage, q.rindex, x + (o - x), c) =
              CountIn(storage, q.rindex, x, c) + CountIn(storage, Plus(q.rindex, x), o - x, c)
        BY <1>0, <3>1, RingFacts, ColorSplit
      <4>3. CountIn(storage, Plus(q.rindex, x), o - x, c) = Len(OfColor(toks, c))
        BY DEF CountIn, toks
      <4>4. CountIn(storage, q.rindex, o, c) =
              outlets[c].countAvailable + Len(OfColor(toks, c))
        BY <3>1, <4>1, <4>2, <4>3
      <4> QED
        BY <1>2, <1>3, <3>6, <4>4 DEF o
    <3> QED
      BY <3>6, <3>7 DEF OutletInv
  <2> QED
    BY <2>1, <2>2
<1> QED
  BY <1>0, <1>2, <1>3, <1>5, <1>6, <1>8, <1>9 DEF MuxInv, SettingInv, Fits

(***************************************************************************)
(* Reads.                                                                  *)
(***************************************************************************)

(* The plain reader: it is woken only where there are no others. *)
LEMMA OutletCommStartMux ==
  ASSUME MuxInv, NEW r \in DataThresholds, NEW n \in 0 .. r, OutletCommStart(n, r),
         VOutlets' = VOutlets
  PROVE  /\ MuxInv' /\ VOutlets = {} /\ n <= visibleCount(q)
         /\ q'.rindex = Plus(q.rindex, n) /\ q'.vindex = q.vindex
         /\ inconsumeCount(q') = inconsumeCount(q) + n
         /\ visibleCount(q') = visibleCount(q) - n
         /\ invisibleCount(q') = invisibleCount(q)
         /\ Slice(storage', Plus(q.rindex, n), visibleCount(q) - n)
              = Slice(storage, Plus(q.rindex, n), visibleCount(q) - n)
         /\ Slice(storage', q.vindex, invisibleCount(q))
              = Slice(storage, q.vindex, invisibleCount(q))
<1>0. RingInv /\ SettingInv /\ WriterInv /\ ReaderInv /\ OutletInv
  BY DEF MuxInv
<1>1. VOutlets = {}
  BY <1>0 DEF OutletCommStart, ReaderInv
<1>2. n \in Nat /\ n <= visibleCount(q)
  <2>1. r \in Nat /\ r <= visibleCount(q)
    BY <1>0, <1>1, MultiplexAssumption DEF OutletCommStart, ReaderInv, Exact
  <2> QED
    BY <1>0, <2>1, RingFacts, DepthAssumption
<1>3. q' = rpp(q, n) /\ storage' = Invalidate(storage, q.rindex, n)
  BY DEF OutletCommStart
<1>4. /\ q' \in Indices
      /\ inconsumeCount(q') = inconsumeCount(q) + n
      /\ visibleCount(q') = visibleCount(q) - n
      /\ invisibleCount(q') = invisibleCount(q)
      /\ freeCount(q') = freeCount(q)
      /\ q'.rindex = Plus(q.rindex, n) /\ q'.vindex = q.vindex
  BY <1>0, <1>2, <1>3, RingFacts, RppCounts DEF rpp, Indices
<1>5. /\ InUse(storage', q')
      /\ Slice(storage', Plus(q.rindex, n), visibleCount(q) - n)
           = Slice(storage, Plus(q.rindex, n), visibleCount(q) - n)
      /\ Slice(storage', q.vindex, invisibleCount(q))
           = Slice(storage, q.vindex, invisibleCount(q))
  BY <1>0, <1>2, <1>3, RingFacts, ReadSlots
<1>6. storage' \in Slots(Token)
  BY <1>0, <1>3, RingFacts, InvalidateType
<1>7. RingInv'
  <2>1. Apart(q')
    BY <1>0, <1>2, <1>4, RingFacts, DepthAssumption DEF Apart
  <2>2. inFlight' = inFlight /\ inConsume' = inConsume + n
    BY DEF OutletCommStart
  <2> QED
    BY <1>0, <1>4, <1>5, <1>6, <2>1, <2>2, RingFacts DEF RingInv
<1>8. WriterInv'
  BY <1>0, <1>4 DEF OutletCommStart, WriterInv
<1>9. ReaderInv'
  <2>1. /\ visibleCount(q) \in Nat /\ visibleCount(q') \in Nat
        /\ visibleCount(q') <= visibleCount(q)
    BY <1>0, <1>2, <1>4, RingFacts, DepthAssumption
  <2>2. /\ emmAvailable \in EventMaps(DataThresholds) /\ DataThresholds \in SUBSET Nat
        /\ Exact(DataThresholds, emmAvailable, visibleCount(q))
    BY <1>0, <1>1, MultiplexAssumption DEF ReaderInv
  <2>3. /\ emmAvailable' \in EventMaps(DataThresholds)
        /\ Exact(DataThresholds, emmAvailable', visibleCount(q'))
    BY <2>1, <2>2, DecreasedExact DEF OutletCommStart
  <2> QED
    BY <1>1, <2>3 DEF ReaderInv
<1>10. OutletInv'
  BY <1>0, <1>1 DEF OutletInv, OutletCommStart
<1> QED
  BY <1>0, <1>1, <1>2, <1>4, <1>5, <1>7, <1>8, <1>9, <1>10 DEF MuxInv, SettingInv, Fits

(* The reader of c takes n tokens from the window.  Those of others in     *)
(* front of the last one taken, m - n of the first m, close the gap.       *)
LEMMA VOutletReads ==
  ASSUME MuxInv, NEW r \in DataThresholds, NEW n \in 0 .. r, NEW c \in VOutlets,
         VOutletCommStart(c, n, r)
  PROVE  LET m      == Reach(storage, q, c, n)
             others == OfColors(Slice(storage, q.rindex, m), Color \ {c})
         IN  /\ n \in Nat /\ c \in Color /\ n <= outlets[c].countAvailable
             /\ m \in Nat /\ n <= m /\ m <= InWindow(q)
             /\ CountIn(storage, q.rindex, m, c) = n
             /\ others \in Seq(Token) /\ Len(others) = m - n
             /\ storage' \in Slots(Token) /\ InUse(storage', q')
             /\ q' = rpp(q, n) /\ q'.rindex = Plus(q.rindex, n)
             /\ q'.rindex \in Idx /\ q' \in Indices
             /\ inconsumeCount(q') = inconsumeCount(q) + n
             /\ visibleCount(q') = visibleCount(q) - n
             /\ invisibleCount(q') = invisibleCount(q)
             /\ freeCount(q') = freeCount(q)
             /\ Plus(q'.rindex, m - n) = Plus(q.rindex, m)
             /\ Slice(storage', q'.rindex, m - n) = others
             /\ \A k \in 0 .. usedCount(q) - m :
                  Slice(storage', Plus(q.rindex, m), k) = Slice(storage, Plus(q.rindex, m), k)
<1> DEFINE m      == Reach(storage, q, c, n)
           others == OfColors(Slice(storage, q.rindex, m), Color \ {c})
           w      == InWindow(q)
           v      == visibleCount(q)
<1>0. RingInv /\ SettingInv /\ OutletInv
  BY DEF MuxInv
<1>1. c \in Color
  BY <1>0 DEF SettingInv
<1>2. n \in Nat /\ n <= outlets[c].countAvailable
  <2>1. n <= r /\ outlets[c].emmAvailable[r] /\ n \in 0 .. r
    BY DEF VOutletCommStart
  <2>2. r \in Nat /\ r <= outlets[c].countAvailable
    BY <1>0, <2>1, WokenFor
  <2>3. outlets[c].countAvailable \in Nat
    BY <1>0, OutletCounts DEF Outlet
  <2> QED
    BY <2>1, <2>2, <2>3
<1>3. n <= CountIn(storage, q.rindex, v, c)
  BY DEF VOutletCommStart, CountIn, Visible
<1>4. q' = rpp(q, n) /\ storage' = closeGap(storage, q, c, n)
  BY DEF VOutletCommStart
<1>5. /\ m \in 0 .. v /\ CountIn(storage, q.rindex, m, c) = n
      /\ m > 0 => CountIn(storage, q.rindex, m - 1, c) < n
  BY <1>0, <1>2, <1>3, RingFacts, ReachEnds
<1>6. /\ n <= m /\ m <= v
      /\ others \in Seq(Token) /\ Len(others) = m - n
      /\ storage' \in Slots(Token)
      /\ InUse(storage', rpp(q, n))
      /\ Slice(storage', Plus(q.rindex, n), m - n) = others
      /\ \A k \in 0 .. usedCount(q) - m :
           Slice(storage', Plus(q.rindex, m), k) = Slice(storage, Plus(q.rindex, m), k)
  <2>1. /\ storage \in Slots(Token) /\ q \in Indices /\ Apart(q) /\ InUse(storage, q)
        /\ n <= CountIn(storage, q.rindex, visibleCount(q), c)
    BY <1>0, <1>3, RingFacts
  <2>2. /\ n <= m /\ m <= v
        /\ others \in Seq(Token) /\ Len(others) = m - n
        /\ closeGap(storage, q, c, n) \in Slots(Token)
        /\ InUse(closeGap(storage, q, c, n), rpp(q, n))
        /\ Slice(closeGap(storage, q, c, n), Plus(q.rindex, n), m - n) = others
        /\ \A k \in 0 .. usedCount(q) - m :
             Slice(closeGap(storage, q, c, n), Plus(q.rindex, m), k)
               = Slice(storage, Plus(q.rindex, m), k)
    BY <1>1, <1>2, <2>1, CloseGapSlots, Zenon
  <2> QED
    BY <1>4, <2>2
<1> HIDE DEF m, others
<1>7. v \in 0 .. Depth /\ w \in 0 .. Depth /\ w <= v /\ m \in Nat
  BY <1>0, <1>5, RingFacts, WindowType, DepthAssumption DEF InWindow
<1>8. n <= v
  BY <1>2, <1>6, <1>7, DepthAssumption
<1>9. /\ q' \in Indices
      /\ inconsumeCount(q') = inconsumeCount(q) + n
      /\ visibleCount(q') = visibleCount(q) - n
      /\ invisibleCount(q') = invisibleCount(q)
      /\ freeCount(q') = freeCount(q)
      /\ q'.rindex = Plus(q.rindex, n)
  BY <1>0, <1>2, <1>4, <1>8, RingFacts, RppCounts DEF rpp, Indices
<1>10. q'.rindex \in Idx
  BY <1>9 DEF Indices
<1>11. Plus(q'.rindex, m - n) = Plus(q.rindex, m)
  <2>1. m - n \in Nat /\ n + (m - n) = m /\ n + (m - n) <= Depth
    BY <1>2, <1>6, <1>7, DepthAssumption
  <2>2. Plus(Plus(q.rindex, n), m - n) = Plus(q.rindex, n + (m - n))
    BY <1>0, <1>2, <2>1, RingFacts, SlotAt
  <2> QED
    BY <1>9, <2>1, <2>2
<1>12. m <= w
  <2>1. SUFFICES ASSUME ~(m <= w) PROVE FALSE
    OBVIOUS
  <2>2. m > 0 /\ m - 1 \in 0 .. Depth /\ w \in 0 .. m - 1
    BY <1>6, <1>7, <2>1, DepthAssumption
  <2>3. /\ CountIn(storage, q.rindex, w, c) \in Nat
        /\ CountIn(storage, q.rindex, m - 1, c) \in Nat
        /\ CountIn(storage, q.rindex, w, c) <= CountIn(storage, q.rindex, m - 1, c)
    <3> HIDE DEF w
    <3> QED
      BY <1>0, <2>2, RingFacts, CountGrows
  <2>4. outlets[c].countAvailable = CountIn(storage, q.rindex, w, c)
    BY <1>0, OutletCounts
  <2>5. CountIn(storage, q.rindex, m - 1, c) < n
    BY <1>5, <2>2
  <2> QED
    BY <1>2, <2>3, <2>4, <2>5
<1> QED
  BY <1>1, <1>2, <1>4, <1>5, <1>6, <1>7, <1>9, <1>10, <1>11, <1>12 DEF m, others, w, v

(* What a reader of d finds in the first k slots behind rindex, if the     *)
(* gap lies within them: what it found in the first n + k before, without  *)
(* the n tokens read if they were its own.                                 *)
LEMMA VOutletKeeps ==
  ASSUME MuxInv, NEW r \in DataThresholds, NEW n \in 0 .. r, NEW c \in VOutlets,
         VOutletCommStart(c, n, r), NEW d \in Color,
         NEW k \in 0 .. usedCount(q), Reach(storage, q, c, n) <= k
  PROVE  /\ k - n \in Nat
         /\ CountIn(storage', q'.rindex, k - n, d) =
              IF d = c THEN CountIn(storage, q.rindex, k, d) - n
                       ELSE CountIn(storage, q.rindex, k, d)
         /\ OfColor(Slice(storage, q.rindex, k), d) =
              IF d = c THEN OfColor(Slice(storage, q.rindex, Reach(storage, q, c, n)), d)
                              \o OfColor(Slice(storage', q'.rindex, k - n), d)
              ELSE OfColor(Slice(storage', q'.rindex, k - n), d)
<1> DEFINE a == q.rindex
           b == q'.rindex
<1>0. RingInv
  BY DEF MuxInv
<1>1. PICK m : m = Reach(storage, q, c, n)
  OBVIOUS
<1>2. PICK others : others = OfColors(Slice(storage, q.rindex, m), Color \ {c})
  OBVIOUS
<1>3. /\ n \in Nat /\ c \in Color
      /\ m \in Nat /\ n <= m
      /\ CountIn(storage, a, m, c) = n
      /\ others \in Seq(Token) /\ Len(others) = m - n
      /\ storage' \in Slots(Token)
      /\ b \in Idx
      /\ Plus(b, m - n) = Plus(a, m)
      /\ Slice(storage', b, m - n) = others
      /\ \A j \in 0 .. usedCount(q) - m :
           Slice(storage', Plus(a, m), j) = Slice(storage, Plus(a, m), j)
  BY <1>1, <1>2, VOutletReads
<1>4. storage \in Slots(Token) /\ a \in Idx /\ usedCount(q) \in 0 .. Depth
      /\ q \in Indices /\ InUse(storage, q)
  BY <1>0, RingFacts
<1>5. m <= k
  BY <1>1
<1> HIDE DEF a, b
<1>6. PICK i \in Nat : i = m - n
  BY <1>3
<1>7. PICK j \in Nat : j = k - m
  BY <1>3, <1>4, <1>5, DepthAssumption
<1>8. /\ k - n = i + j /\ k - n \in Nat /\ i + j <= Depth /\ k = m + j /\ m + j <= Depth
      /\ j \in 0 .. usedCount(q) - m /\ m \in 0 .. usedCount(q) /\ j \in 0 .. Depth
      /\ m \in 0 .. Depth
  BY <1>3, <1>4, <1>5, <1>6, <1>7, DepthAssumption
<1> DEFINE x == OfColor(Slice(storage, a, m), d)
           y == OfColor(Slice(storage, Plus(a, m), j), d)
<1>9. OfColor(others, d) = IF d = c THEN <<>> ELSE x
  <2>1. PICK s \in Seq(Token) : s = Slice(storage, a, m)
    BY <1>4, <1>8, SliceTokens DEF a
  <2>2. OfColor(OfColors(s, Color \ {c}), d) = IF d = c THEN <<>> ELSE OfColor(s, d)
    BY <1>3, OthersKeep
  <2> QED
    BY <1>2, <2>1, <2>2 DEF a
<1>10. /\ OfColor(Slice(storage, a, m + j), d) = x \o y
       /\ CountIn(storage, a, m + j, d) = CountIn(storage, a, m, d) + Len(y)
  <2>1. m \in Nat /\ m + j <= Depth
    BY <1>3, <1>8
  <2>2. /\ OfColor(Slice(storage, a, m + j), d) =
             OfColor(Slice(storage, a, m), d) \o OfColor(Slice(storage, Plus(a, m), j), d)
        /\ CountIn(storage, a, m + j, d) =
             CountIn(storage, a, m, d) + CountIn(storage, Plus(a, m), j, d)
    BY <1>4, <2>1, ColorSplit
  <2> QED
    BY <2>2 DEF CountIn
<1>11. OfColor(Slice(storage', b, i + j), d) = OfColor(others, d) \o y
  <2>1. OfColor(Slice(storage', b, i + j), d) =
          OfColor(Slice(storage', b, i), d) \o OfColor(Slice(storage', Plus(b, i), j), d)
    BY <1>3, <1>8, ColorSplit
  <2>2. Slice(storage', b, i) = others
    BY <1>3, <1>6
  <2>3. Slice(storage', Plus(b, i), j) = Slice(storage, Plus(a, m), j)
    BY <1>3, <1>6, <1>8
  <2> QED
    BY <2>1, <2>2, <2>3
<1>12. x \in Seq(Held(Token)) /\ y \in Seq(Held(Token))
  <2>1. Plus(a, m) \in Idx
    BY <1>4, <1>8, PlusType
  <2> QED
    BY <1>4, <1>8, <2>1, CountInType
<1> HIDE DEF x, y
<1>13. CASE d = c
  <2>1. OfColor(Slice(storage', b, i + j), d) = y
    BY <1>9, <1>11, <1>12, <1>13, ConcatEmptySeq
  <2>2. CountIn(storage, a, m, d) = n /\ Len(y) \in Nat
    BY <1>3, <1>12, <1>13
  <2>3. Len(y) = CountIn(storage, a, m + j, d) - n
    BY <1>3, <1>10, <2>2
  <2> QED
    BY <1>1, <1>8, <1>10, <1>13, <2>1, <2>3 DEF CountIn, a, b, x
<1>14. CASE d # c
  <2>1. OfColor(Slice(storage', b, i + j), d) = x \o y
    BY <1>9, <1>11, <1>14
  <2> QED
    BY <1>8, <1>10, <1>14, <2>1 DEF CountIn, a, b
<1> QED
  BY <1>13, <1>14

(* The reader counts its tokens off, everyone keeps those still in the     *)
(* window, and what has slid into it is announced.                         *)
LEMMA VOutletCommStartMux ==
  ASSUME MuxInv, NEW r \in DataThresholds, NEW n \in 0 .. r, NEW c \in VOutlets,
         VOutletCommStart(c, n, r), VOutlets' = VOutlets
  PROVE  /\ MuxInv'
         /\ \A d \in VOutlets :
              outlets'[d].countAvailable >=
                IF d = c THEN outlets[d].countAvailable - n ELSE outlets[d].countAvailable
<1> DEFINE w == InWindow(q)
           o == InWindow(q')
           x == w - n
           toks == Slice(storage', Plus(q'.rindex, x), o - x)
           less == [outlets EXCEPT ![c] = lessData(@, n)]
<1>0. RingInv /\ SettingInv /\ WriterInv /\ ReaderInv /\ OutletInv
  BY DEF MuxInv
<1>1. /\ n \in Nat /\ c \in Color /\ n <= outlets[c].countAvailable
      /\ Reach(storage, q, c, n) <= w
      /\ storage' \in Slots(Token) /\ InUse(storage', q')
      /\ q' \in Indices /\ q'.rindex \in Idx
      /\ inconsumeCount(q') = inconsumeCount(q) + n
      /\ visibleCount(q') = visibleCount(q) - n
      /\ invisibleCount(q') = invisibleCount(q)
      /\ freeCount(q') = freeCount(q)
      /\ n <= w
  <2>1. PICK m : m = Reach(storage, q, c, n)
    OBVIOUS
  <2>2. m \in Nat /\ n <= m /\ m <= w /\ n \in Nat
    BY <2>1, VOutletReads
  <2>3. w \in Nat
    BY <1>0, RingFacts, WindowType DEF InWindow
  <2>4. n <= w
    BY <2>2, <2>3
  <2> QED
    BY <2>1, <2>2, <2>4, VOutletReads
<1>2. RingInv'
  <2>1. Apart(q')
    BY <1>0, <1>1, RingFacts, CountType, DepthAssumption DEF Apart
  <2>2. inFlight' = inFlight /\ inConsume' = inConsume + n
    BY DEF VOutletCommStart
  <2> QED
    BY <1>0, <1>1, <2>1, <2>2, RingFacts DEF RingInv
<1>3. WriterInv'
  BY <1>0, <1>1 DEF VOutletCommStart, WriterInv
<1>4. ReaderInv'
  <2>1. /\ emmAvailable \in EventMaps(DataThresholds)
        /\ \A k \in DataThresholds : ~emmAvailable[k]
    BY <1>0 DEF ReaderInv
  <2>2. emmAvailable' = decreasedCount(emmAvailable, visibleCount(q'))
    BY DEF VOutletCommStart
  <2>3. /\ emmAvailable' \in EventMaps(DataThresholds)
        /\ \A k \in DataThresholds : ~emmAvailable'[k]
    BY <2>1, <2>2 DEF decreasedCount, EventMaps
  <2> QED
    BY <2>3 DEF ReaderInv
<1>5. /\ visibleCount(q) \in 0 .. Depth /\ visibleCount(q') \in 0 .. Depth
      /\ w \in 0 .. Depth /\ w <= visibleCount(q)
      /\ o \in 0 .. Depth /\ x \in Nat /\ x <= o
      /\ Remaining(n, visibleCount(q')) = x
  <2>1. visibleCount(q) \in 0 .. Depth /\ visibleCount(q') \in 0 .. Depth
    BY <1>0, <1>1, RingFacts, CountType
  <2>2. /\ Window \in 1 .. Depth /\ w = Lesser(Window, visibleCount(q))
        /\ o = Lesser(Window, visibleCount(q) - n)
    BY <1>1, <2>1, WindowType DEF InWindow
  <2>3. n \in Nat /\ n <= w /\ visibleCount(q') = visibleCount(q) - n
    BY <1>1
  <2> HIDE DEF w, o
  <2> QED
    BY <2>1, <2>2, <2>3, DepthAssumption DEF Lesser, Remaining, x
<1>6. outlets' = Announce(less, toks)
  <2>1. outlets' = Announce(less, Entering(storage', q', Remaining(n, visibleCount(q')),
                                           Lesser(Window, visibleCount(q'))))
    BY DEF VOutletCommStart
  <2> QED
    BY <1>5, <2>1 DEF Entering, InWindow
<1> HIDE DEF w, o
<1>7. /\ o - x \in Nat /\ o - x \in 0 .. Depth /\ x + (o - x) = o /\ x + (o - x) <= Depth
      /\ x \in 0 .. Depth
  <2> HIDE DEF x
  <2> QED
    BY <1>5, DepthAssumption
<1>8. toks \in Seq(Held(Token))
  <2> HIDE DEF x
  <2>1. Plus(q'.rindex, x) \in Idx
    BY <1>1, <1>7, PlusType
  <2> QED
    BY <1>1, <1>7, <2>1, SliceSeq
<1> HIDE DEF toks
<1>9. /\ less \in [VOutlets -> Outlet]
      /\ \A d \in VOutlets : /\ Told(less[d])
                             /\ less[d].countAvailable =
                                  IF d = c THEN outlets[d].countAvailable - n
                                           ELSE outlets[d].countAvailable
  <2>1. /\ outlets \in [VOutlets -> Outlet] /\ \A d \in VOutlets : Told(outlets[d])
    BY <1>0 DEF OutletInv
  <2>2. PICK l : l = lessData(outlets[c], n)
    OBVIOUS
  <2>3. l \in Outlet /\ Told(l) /\ l.countAvailable = outlets[c].countAvailable - n
    BY <1>1, <2>1, <2>2, LessData
  <2>4. less = [outlets EXCEPT ![c] = l]
    BY <2>2
  <2> HIDE DEF less
  <2> QED
    BY <2>1, <2>3, <2>4
<1> HIDE DEF less
<1>10. /\ outlets' \in [VOutlets -> Outlet]
       /\ \A d \in VOutlets : /\ Told(outlets'[d])
                              /\ outlets'[d].countAvailable =
                                   less[d].countAvailable + Len(OfColor(toks, d))
  BY <1>6, <1>8, <1>9, Announced
<1>11. ASSUME NEW d \in VOutlets
       PROVE  outlets'[d].countAvailable = CountIn(storage', q'.rindex, InWindow(q'), d)
  <2>1. d \in Color
    BY <1>0 DEF SettingInv
  <2>2. w \in 0 .. usedCount(q)
    BY <1>0, <1>5, RingFacts, DepthAssumption
  <2>3. CountIn(storage', q'.rindex, w - n, d) =
          IF d = c THEN CountIn(storage, q.rindex, w, d) - n
                   ELSE CountIn(storage, q.rindex, w, d)
    BY <1>1, <2>1, <2>2, VOutletKeeps
  <2>4. outlets[d].countAvailable = CountIn(storage, q.rindex, w, d)
    BY <1>0, OutletCounts DEF w
  <2>5. less[d].countAvailable = CountIn(storage', q'.rindex, x, d)
    BY <1>9, <2>3, <2>4 DEF x
  <2> HIDE DEF x
  <2>6. CountIn(storage', q'.rindex, x + (o - x), d) =
          CountIn(storage', q'.rindex, x, d) + CountIn(storage', Plus(q'.rindex, x), o - x, d)
    BY <1>1, <1>5, <1>7, ColorSplit
  <2>7. CountIn(storage', Plus(q'.rindex, x), o - x, d) = Len(OfColor(toks, d))
    BY DEF CountIn, toks
  <2>8. CountIn(storage', q'.rindex, o, d) = less[d].countAvailable + Len(OfColor(toks, d))
    BY <1>7, <2>5, <2>6, <2>7
  <2> QED
    BY <1>10, <2>8 DEF o
<1>12. OutletInv'
  BY <1>10, <1>11 DEF OutletInv
<1>13. \A d \in VOutlets :
         outlets'[d].countAvailable >=
           IF d = c THEN outlets[d].countAvailable - n ELSE outlets[d].countAvailable
  <2>1. \A d \in VOutlets : /\ less[d].countAvailable \in Nat
                            /\ OfColors(toks, {d}) \in Seq(Held(Token))
    BY <1>8, <1>9, OfColorsType DEF Outlet
  <2>2. \A d \in VOutlets : Len(OfColor(toks, d)) \in Nat
    BY <2>1 DEF OfColor
  <2>3. ASSUME NEW d \in VOutlets
        PROVE  outlets'[d].countAvailable >= less[d].countAvailable
    <3>1. PICK i \in Nat : i = less[d].countAvailable
      BY <2>1
    <3>2. PICK j \in Nat : j = Len(OfColor(toks, d))
      BY <2>2
    <3>3. outlets'[d].countAvailable = i + j
      BY <1>10, <3>1, <3>2
    <3> QED
      BY <3>1, <3>3
  <2> QED
    BY <1>9, <2>3
<1> QED
  BY <1>0, <1>2, <1>3, <1>4, <1>12, <1>13 DEF MuxInv, SettingInv, Fits

(* Either reader releases places. *)
LEMMA OutletCommFinishMux ==
  ASSUME MuxInv, NEW n \in 1 .. Depth, OutletCommFinish(n), VOutlets' = VOutlets
  PROVE  /\ MuxInv' /\ n <= inconsumeCount(q) /\ storage' = storage /\ outlets' = outlets
         /\ q'.rindex = q.rindex /\ q'.vindex = q.vindex /\ q'.windex = q.windex
         /\ inconsumeCount(q') = inconsumeCount(q) - n
         /\ visibleCount(q') = visibleCount(q)
         /\ invisibleCount(q') = invisibleCount(q)
<1>0. RingInv /\ SettingInv /\ WriterInv /\ ReaderInv /\ OutletInv
  BY DEF MuxInv
<1>1. /\ n \in Nat /\ n <= inconsumeCount(q) /\ q' = fpp(q, n)
      /\ storage' = storage /\ outlets' = outlets /\ emmAvailable' = emmAvailable
      /\ inFlight' = inFlight /\ inConsume' = inConsume - n
  BY <1>0, RingFacts, DepthAssumption DEF OutletCommFinish, readConsumeEventExpired
<1>2. /\ q' \in Indices
      /\ inconsumeCount(q') = inconsumeCount(q) - n
      /\ visibleCount(q') = visibleCount(q)
      /\ invisibleCount(q') = invisibleCount(q)
      /\ freeCount(q') = freeCount(q) + n
      /\ q'.rindex = q.rindex /\ q'.vindex = q.vindex /\ q'.windex = q.windex
  BY <1>0, <1>1, RingFacts, FppCounts DEF fpp, Indices
<1>3. Apart(q')
  BY <1>0, <1>1, <1>2, RingFacts, DepthAssumption DEF Apart
<1>4. RingInv'
  BY <1>0, <1>1, <1>2, <1>3, RingFacts DEF RingInv, InUse, usedCount
<1>5. WriterInv'
  <2>1. /\ freeCount(q) \in Nat /\ freeCount(q') \in Nat /\ freeCount(q) <= freeCount(q')
        /\ SpaceThresholds \in SUBSET Nat
    BY <1>0, <1>1, <1>2, RingFacts, DepthAssumption, MultiplexAssumption
  <2>2. emmFree' = increasedCount(emmFree, freeCount(q'))
    BY DEF OutletCommFinish, readConsumeEventExpired
  <2> QED
    BY <1>0, <2>1, <2>2, IncreasedExact DEF WriterInv
<1>6. ReaderInv'
  BY <1>0, <1>1, <1>2 DEF ReaderInv
<1>7. OutletInv'
  BY <1>0, <1>1, <1>2 DEF OutletInv, InWindow
<1> QED
  BY <1>0, <1>1, <1>2, <1>4, <1>5, <1>6, <1>7 DEF MuxInv, SettingInv, Fits

(* Every step keeps the invariant. *)
LEMMA NextMux ==
  ASSUME MuxInv, [Next]_vars
  PROVE  MuxInv'
<1>1. ASSUME NEW n \in SpaceThresholds, NEW toks \in [1 .. n -> Token],
             EntryCommStart(toks), VOutlets' = VOutlets
      PROVE  MuxInv'
  <2>1. toks \in Seq(Token)
    BY TokensSeq, MultiplexAssumption
  <2> QED
    BY <1>1, <2>1, EntryCommStartMux
<1>2. ASSUME NEW n \in SpaceThresholds, NEW c \in VEntries,
             NEW data \in [1 .. n -> Data],
             VEntryCommStart(c, data), VOutlets' = VOutlets
      PROVE  MuxInv'
  <2> DEFINE toks == [i \in DOMAIN data |-> [fifoId |-> c, data |-> data[i]]]
  <2>1. n \in Nat /\ c \in Color
    BY MultiplexAssumption
  <2>2. toks \in Seq(Token)
    BY <2>1, Colored
  <2>3. EntryCommStart(toks)
    BY <1>2 DEF VEntryCommStart
  <2> HIDE DEF toks
  <2> QED
    BY <1>2, <2>2, <2>3, EntryCommStartMux
<1>3. ASSUME NEW n \in 1 .. Depth, EntryCommFinish(n), VOutlets' = VOutlets
      PROVE  MuxInv'
  BY <1>3, EntryCommFinishMux
<1>4. ASSUME NEW n \in 1 .. Depth, OutletCommFinish(n), VOutlets' = VOutlets
      PROVE  MuxInv'
  BY <1>4, OutletCommFinishMux
<1>5. ASSUME NEW r \in DataThresholds, NEW n \in 0 .. r, OutletCommStart(n, r),
             VOutlets' = VOutlets
      PROVE  MuxInv'
  BY <1>5, OutletCommStartMux
<1>6. ASSUME NEW r \in DataThresholds, NEW n \in 0 .. r, NEW c \in VOutlets,
             VOutletCommStart(c, n, r), VOutlets' = VOutlets
      PROVE  MuxInv'
  BY <1>6, VOutletCommStartMux
<1>7. ASSUME doReset, VOutlets' = VOutlets
      PROVE  MuxInv'
  BY <1>7, doResetMux
<1>8. CASE UNCHANGED vars
  BY <1>8 DEF vars, MuxInv, SettingInv, Fits, RingInv, WriterInv, ReaderInv, OutletInv
<1> QED
  BY <1>1, <1>2, <1>3, <1>4, <1>5, <1>6, <1>7, <1>8 DEF Next, Communication

(***************************************************************************)
(* The theorems.  Where virtual FIFOs are read, the initial tokens have to *)
(* fit into the window.                                                    *)
(***************************************************************************)

(* Every step of the multiplex FIFO keeps its indices, slots, events and   *)
(* counts as they belong together.                                         *)
THEOREM MultiplexInvariance == Spec /\ Fits => []MuxInv
<1>1. Init /\ Fits => MuxInv
  BY InitMux
<1>2. MuxInv /\ [Next]_vars => MuxInv'
  BY NextMux
<1> QED
  BY <1>1, <1>2, PTL DEF Spec

(* Every index, slot, event and counter keeps its type. *)
THEOREM MultiplexTyping == Spec /\ Fits => []TypeOK
BY MultiplexInvariance, InvTypes, PTL

(* Each reader of a virtual FIFO has been told of exactly the tokens of    *)
(* its colour in the window, whatever was written, read, moved up or reset *)
(* before.                                                                 *)
THEOREM WindowIsExact == Spec /\ Fits => []WindowExact
BY MultiplexInvariance, InvWindow, PTL

(* No search of consume() runs past vindex. *)
THEOREM SearchesEnd == Spec /\ Fits => []SearchEnds
BY MultiplexInvariance, InvSearch, PTL

(* Events are enabled exactly when their counts are reached, unless a      *)
(* transition waits for no token at all.                                   *)
THEOREM MultiplexEvents ==
  ASSUME 0 \notin DataThresholds
  PROVE  Spec /\ Fits => []EventsExact
<1>1. MuxInv => EventsExact
  BY InvEvents
<1> QED
  BY <1>1, MultiplexInvariance, PTL

(* The assertions of the index moves hold for whatever an event admits.    *)
THEOREM MultiplexAssertions == Spec /\ Fits => []AssertionsHold
BY MultiplexInvariance, InvAssertions, PTL

(* Closing gaps leaves tokens in the slots between rindex and windex, and  *)
(* in no others.                                                           *)
THEOREM MultiplexSlots == Spec /\ Fits => []SlotsValid
BY MultiplexInvariance, InvSlots, PTL
=============================================================================
