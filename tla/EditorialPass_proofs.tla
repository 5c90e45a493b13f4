------------------------ MODULE EditorialPass_proofs ------------------------
(***************************************************************************)
(* The deck that ships: whatever the models answer and whichever call      *)
(* fails, it keeps what its plan promised.  FlattenSeq joins what is kept  *)
(* or inserted, so each splice of the deck is described by where its       *)
(* slides come from and by where those of the deck went.                   *)
(***************************************************************************)
EXTENDS DocumentMaking_proofs

\* The k-th of the sequences begins behind place o[k - 1] of what they are joined to.
Joins(f, seqs, o, n) ==
    /\ \A k \in 1..n : \A j \in 1..Len(seqs[k]) :
        o[k - 1] + j \in 1..Len(f) /\ f[o[k - 1] + j] = seqs[k][j]
    /\ \A p \in 1..Len(f) : \E k \in 1..n : \E j \in 1..Len(seqs[k]) : p = o[k - 1] + j

\* What stands where in two sequences joined.
LEMMA Concatenated ==
    ASSUME NEW X, NEW f \in Seq(X), NEW s \in Seq(X), NEW h, h = f \o s
    PROVE  /\ h \in Seq(X) /\ Len(h) = Len(f) + Len(s) /\ Len(f) \in Nat /\ Len(s) \in Nat
           /\ Len(h) \in Nat
           /\ \A p \in 1..Len(f) : h[p] = f[p]
           /\ \A j \in 1..Len(s) : h[Len(f) + j] = s[j]
<1>1. Len(f) \in Nat /\ Len(s) \in Nat
  OBVIOUS
<1>2. h \in Seq(X) /\ Len(h) = Len(f) + Len(s)
  BY <1>1, ConcatProperties
<1>3. \A p \in 1..Len(h) : h[p] = IF p <= Len(f) THEN f[p] ELSE s[p - Len(f)]
  BY <1>1, <1>2, ConcatProperties
<1>4. \A p \in 1..Len(f) : p \in 1..Len(h) /\ p <= Len(f)
  BY <1>1, <1>2
<1>5. \A j \in 1..Len(s) :
          Len(f) + j \in 1..Len(h) /\ ~(Len(f) + j <= Len(f)) /\ (Len(f) + j) - Len(f) = j
  BY <1>1, <1>2
<1>. QED
  BY <1>1, <1>2, <1>3, <1>4, <1>5

LEMMA JoinsOneMore ==
    ASSUME NEW S, NEW seqs \in Seq(Seq(S)), NEW i \in Nat, i + 1 \in 1..Len(seqs),
           NEW o, o[i] \in Nat, NEW f \in Seq(S), o[i] = Len(f), Joins(f, seqs, o, i),
           NEW h, h = f \o seqs[i + 1]
    PROVE  Joins(h, seqs, o, i + 1)
<1>. DEFINE s == seqs[i + 1]
<1>1. s \in Seq(S)
  OBVIOUS
<1>2. /\ h \in Seq(S) /\ Len(h) = Len(f) + Len(s) /\ Len(f) \in Nat /\ Len(s) \in Nat
      /\ \A p \in 1..Len(f) : h[p] = f[p]
      /\ \A j \in 1..Len(s) : h[Len(f) + j] = s[j]
  BY <1>1, Concatenated
<1>3. ASSUME NEW k \in 1..(i + 1), NEW j \in 1..Len(seqs[k])
      PROVE  o[k - 1] + j \in 1..Len(h) /\ h[o[k - 1] + j] = seqs[k][j]
  <2>1. CASE k = i + 1
    <3>1. k - 1 = i /\ o[k - 1] = Len(f) /\ j \in 1..Len(s) /\ seqs[k] = s
      BY <2>1
    <3>. HIDE DEF s
    <3>2. Len(f) + j \in 1..Len(h) /\ h[Len(f) + j] = s[j]
      BY <1>2, <3>1
    <3>. QED
      BY <3>1, <3>2
  <2>2. CASE k # i + 1
    <3>1. k \in 1..i
      BY <2>2
    <3>2. o[k - 1] + j \in 1..Len(f) /\ f[o[k - 1] + j] = seqs[k][j]
      BY <3>1 DEF Joins
    <3>. QED
      BY <1>2, <3>2
  <2>. QED
    BY <2>1, <2>2
<1>4. ASSUME NEW p \in 1..Len(h)
      PROVE  \E k \in 1..(i + 1) : \E j \in 1..Len(seqs[k]) : p = o[k - 1] + j
  <2>1. CASE p \in 1..Len(f)
    <3>1. PICK k \in 1..i : \E j \in 1..Len(seqs[k]) : p = o[k - 1] + j
      BY <2>1 DEF Joins
    <3>2. k \in 1..(i + 1)
      OBVIOUS
    <3>. QED
      BY <3>1, <3>2
  <2>2. CASE p \notin 1..Len(f)
    <3>1. p - Len(f) \in 1..Len(s) /\ p = o[i] + (p - Len(f))
      BY <1>2, <2>2
    <3>2. i + 1 \in 1..(i + 1) /\ (i + 1) - 1 = i
      OBVIOUS
    <3>. QED
      BY <3>1, <3>2
  <2>. QED
    BY <2>1, <2>2
<1>. QED
  BY <1>3, <1>4 DEF Joins

\* ... and each begins where the one before it ends.
LEMMA JoinedEvenly ==
    ASSUME NEW S, NEW seqs \in Seq(Seq(S))
    PROVE  /\ FlattenSeq(seqs) \in Seq(S)
           /\ \E o \in [0..Len(seqs) -> Nat] :
                  /\ Joins(FlattenSeq(seqs), seqs, o, Len(seqs))
                  /\ \A k \in 1..Len(seqs) : o[k] = o[k - 1] + Len(seqs[k])
<1>. DEFINE n == Len(seqs)
<1>1. n \in Nat
  OBVIOUS
<1>2. PICK g \in [0..n -> Seq(S)] :
        /\ g[0] = <<>> /\ FlattenSeq(seqs) = g[n]
        /\ \A i \in 1..n : g[i] = g[i - 1] \o seqs[i]
  BY Flattened
<1>. DEFINE o == [i \in 0..n |-> Len(g[i])]
            T == {i \in 0..n : Joins(g[i], seqs, o, i)}
<1>. HIDE DEF n
<1>3. o \in [0..n -> Nat] /\ \A i \in 0..n : o[i] = Len(g[i]) /\ o[i] \in Nat
  BY <1>2
<1>4. 0 \in T
  BY <1>1, <1>2 DEF Joins
<1>5. ASSUME NEW i \in 0..(n - 1), i \in T PROVE i + 1 \in T
  <2>1. i + 1 \in 1..n /\ i + 1 \in 0..n /\ (i + 1) - 1 = i /\ i \in 0..n /\ i \in Nat
    BY <1>1
  <2>2. g[i + 1] = g[i] \o seqs[i + 1] /\ g[i] \in Seq(S)
    BY <1>2, <2>1
  <2>3. o[i] \in Nat /\ o[i] = Len(g[i]) /\ Joins(g[i], seqs, o, i)
    BY <1>3, <1>5, <2>1
  <2>. HIDE DEF o
  <2>4. Joins(g[i + 1], seqs, o, i + 1)
    BY <2>1, <2>2, <2>3, JoinsOneMore DEF n
  <2>. QED
    BY <2>1, <2>4
<1>. HIDE DEF T
<1>6. n \in T
  <2>1. \A i \in 0..n : i \in T
    BY <1>1, <1>4, <1>5, Counting
  <2>. QED
    BY <1>1, <2>1
<1>7. n \in 0..n
  BY <1>1
<1>8. ASSUME NEW k \in 1..n PROVE o[k] = o[k - 1] + Len(seqs[k])
  <2>1. k \in 0..n /\ k - 1 \in 0..n /\ seqs[k] \in Seq(S)
    BY <1>1 DEF n
  <2>2. g[k] = g[k - 1] \o seqs[k] /\ g[k - 1] \in Seq(S)
    BY <1>2, <2>1
  <2>3. Len(g[k]) = Len(g[k - 1]) + Len(seqs[k])
    BY <2>1, <2>2, Concatenated
  <2>. QED
    BY <1>3, <2>1, <2>3
<1>. HIDE DEF o
<1>. QED
  BY <1>2, <1>3, <1>6, <1>7, <1>8 DEF T, n

LEMMA Joined ==
    ASSUME NEW S, NEW seqs \in Seq(Seq(S))
    PROVE  /\ FlattenSeq(seqs) \in Seq(S)
           /\ \E o \in [0..Len(seqs) -> Nat] :
                  Joins(FlattenSeq(seqs), seqs, o, Len(seqs))
BY JoinedEvenly

\* What is kept of a sequence: h names the places it stood at, in their order.
Keeps(rest, seq, S, h) ==
    /\ h \in [1..Len(rest) -> S]
    /\ \A p, q \in 1..Len(rest) : p < q => h[p] < h[q]
    /\ \A k \in S : \E p \in 1..Len(rest) : h[p] = k
    /\ \A p \in 1..Len(rest) : rest[p] = seq[h[p]]

LEMMA KeepsOneMore ==
    ASSUME NEW X, NEW seq \in Seq(X), NEW S, NEW i \in Nat, i + 1 \in 1..Len(seq),
           NEW f \in Seq(X), NEW h, Keeps(f, seq, S \cap (1..i), h),
           NEW f2, f2 = f \o (IF i + 1 \in S THEN <<seq[i + 1]>> ELSE <<>>)
    PROVE  \E h2 : Keeps(f2, seq, S \cap (1..(i + 1)), h2)
<1>1. CASE i + 1 \notin S
  <2>1. f2 = f
    BY <1>1, ConcatEmptySeq
  <2>2. S \cap (1..(i + 1)) = S \cap (1..i)
    BY <1>1
  <2>. QED
    BY <2>1, <2>2
<1>2. CASE i + 1 \in S
  <2>. DEFINE e == seq[i + 1]
              n == Len(f)
              h2 == [p \in 1..(n + 1) |-> IF p = n + 1 THEN i + 1 ELSE h[p]]
  <2>1. e \in X /\ f2 = f \o <<e>> /\ n \in Nat
    BY <1>2
  <2>2. f2 \in Seq(X) /\ Len(f2) = n + 1 /\ f2[n + 1] = e /\ \A p \in 1..n : f2[p] = f[p]
    <3>. HIDE DEF e
    <3>1. <<e>> \in Seq(X) /\ Len(<<e>>) = 1 /\ <<e>>[1] = e
      BY <2>1
    <3>2. f2 \in Seq(X) /\ Len(f2) = n + 1
      BY <2>1, <3>1, ConcatProperties
    <3>3. \A p \in 1..Len(f2) : f2[p] = IF p <= n THEN f[p] ELSE <<e>>[p - n]
      BY <2>1, <3>1, ConcatProperties
    <3>. QED
      BY <2>1, <3>1, <3>2, <3>3
  <2>3. /\ h \in [1..n -> S \cap (1..i)]
        /\ \A p, q \in 1..n : p < q => h[p] < h[q]
        /\ \A k \in S \cap (1..i) : \E p \in 1..n : h[p] = k
        /\ \A p \in 1..n : f[p] = seq[h[p]]
    BY DEF Keeps
  <2>. HIDE DEF n, e
  <2>4. h2 \in [1..(n + 1) -> S \cap (1..(i + 1))]
    BY <1>2, <2>1, <2>3
  <2>5. h2[n + 1] = i + 1 /\ \A p \in 1..n : h2[p] = h[p]
    BY <2>1
  <2>6. ASSUME NEW p \in 1..(n + 1), NEW q \in 1..(n + 1), p < q PROVE h2[p] < h2[q]
    BY <2>1, <2>3, <2>5, <2>6
  <2>7. ASSUME NEW k \in S \cap (1..(i + 1)) PROVE \E p \in 1..(n + 1) : h2[p] = k
    <3>1. CASE k = i + 1
      BY <2>1, <2>5, <3>1
    <3>2. CASE k # i + 1
      <4>1. k \in S \cap (1..i)
        BY <3>2
      <4>2. PICK p \in 1..n : h[p] = k
        BY <2>3, <4>1
      <4>. QED
        BY <2>1, <2>5, <4>2
    <3>. QED
      BY <3>1, <3>2
  <2>8. ASSUME NEW p \in 1..(n + 1) PROVE f2[p] = seq[h2[p]]
    <3>1. CASE p = n + 1
      BY <2>2, <2>5, <3>1 DEF e
    <3>2. CASE p # n + 1
      <4>1. p \in 1..n
        BY <2>1, <3>2
      <4>. QED
        BY <2>2, <2>3, <2>5, <4>1
    <3>. QED
      BY <3>1, <3>2
  <2>. HIDE DEF h2
  <2>9. Keeps(f2, seq, S \cap (1..(i + 1)), h2)
    BY <2>2, <2>4, <2>6, <2>7, <2>8 DEF Keeps
  <2>. QED
    BY <2>9
<1>. QED
  BY <1>1, <1>2

LEMMA KeptInOrder ==
    ASSUME NEW X, NEW seq \in Seq(X), NEW S, S \subseteq DOMAIN seq
    PROVE  Kept(seq, S) \in Seq(X) /\ \E h : Keeps(Kept(seq, S), seq, S, h)
<1>. DEFINE n == Len(seq)
            seqs == [k \in DOMAIN seq |-> IF k \in S THEN <<seq[k]>> ELSE <<>>]
<1>1. n \in Nat /\ DOMAIN seq = 1..n
  OBVIOUS
<1>2. seqs \in Seq(Seq(X)) /\ Len(seqs) = n
      /\ \A k \in 1..n : seqs[k] = IF k \in S THEN <<seq[k]>> ELSE <<>>
  <2>1. seqs \in [1..n -> Seq(X)]
    BY <1>1, EmptySeq
  <2>. QED
    BY <1>1, <2>1
<1>. HIDE DEF seqs
<1>. HIDE DEF n
<1>3. PICK g \in [0..n -> Seq(X)] :
        /\ g[0] = <<>> /\ FlattenSeq(seqs) = g[n]
        /\ \A i \in 1..n : g[i] = g[i - 1] \o seqs[i]
  <2>1. seqs \in Seq(Seq(X)) /\ Len(seqs) = n
    BY <1>2
  <2>2. \E g \in [0..Len(seqs) -> Seq(X)] :
            /\ g[0] = <<>> /\ FlattenSeq(seqs) = g[Len(seqs)]
            /\ \A i \in 1..Len(seqs) : g[i] = g[i - 1] \o seqs[i]
    BY ONLY <2>1, Flattened
  <2>. QED
    BY <2>1, <2>2
<1>. DEFINE T == {i \in 0..n : \E h : Keeps(g[i], seq, S \cap (1..i), h)}
<1>. HIDE DEF n
<1>4. 0 \in T
  <2>1. Keeps(g[0], seq, S \cap (1..0), <<>>)
    <3>1. Len(g[0]) = 0 /\ S \cap (1..0) = {} /\ 1..0 = {}
      BY <1>3
    <3>2. <<>> \in [{} -> {}]
      OBVIOUS
    <3>. QED
      BY <3>1, <3>2 DEF Keeps
  <2>. QED
    BY <1>1, <2>1
<1>5. ASSUME NEW i \in 0..(n - 1), i \in T PROVE i + 1 \in T
  <2>1. i + 1 \in 1..n /\ i + 1 \in 0..n /\ (i + 1) - 1 = i /\ i \in 0..n /\ i \in Nat
    BY <1>1
  <2>2. g[i + 1] = g[i] \o seqs[i + 1] /\ g[i] \in Seq(X)
    BY <1>3, <2>1
  <2>3. seqs[i + 1] = IF i + 1 \in S THEN <<seq[i + 1]>> ELSE <<>>
    BY <1>2, <2>1
  <2>4. PICK h : Keeps(g[i], seq, S \cap (1..i), h)
    BY <1>5
  <2>5. \E h2 : Keeps(g[i + 1], seq, S \cap (1..(i + 1)), h2)
    BY <2>1, <2>2, <2>3, <2>4, KeepsOneMore DEF n
  <2>. QED
    BY <2>1, <2>5
<1>. HIDE DEF T
<1>6. n \in T
  <2>1. \A i \in 0..n : i \in T
    BY <1>1, <1>4, <1>5, Counting
  <2>. QED
    BY <1>1, <2>1
<1>7. S \cap (1..n) = S /\ n \in 0..n
  BY <1>1
<1>. QED
  BY <1>3, <1>6, <1>7 DEF T, Kept, seqs

-----------------------------------------------------------------------------
(***************************************************************************)
(* From the draft on, the deck stays one of the writer's.                  *)
(***************************************************************************)
Early == {"plan", "draft", "gate", "repair"}
Written == Stages \ ({"plan", "draft"} \cup Ended)

\* A deck of the writer's slides, as the post-processing leaves it.
Made(deck, S) ==
    /\ deck \in Seq(Slides) /\ EachOnce(deck)
    /\ IdsOf(deck) \subseteq S
    /\ \A k \in DOMAIN deck : deck[k].type \in ContentTypes

NoneHollow(deck) == \A k \in DOMAIN deck : ~Hollow(deck[k])

WellMade(deck) == Made(deck, Ids \cup {TitleId}) /\ NoneHollow(deck)

Opened(deck) == deck # <<>> /\ deck[1].type = "title"

\* PlanIsKept, of any deck.
KeepsPlan(deck, done, p) ==
    /\ Uncovered(deck, p) = {} /\ Offending(deck, p) = {}
    /\ \A i \in Substituted(deck, p) : \E s \in SlidesOf(deck, i) : s.id \in done

\* What is there at which stage ...
StageInv ==
    /\ pc \in Early => todo = {} /\ rewritten = {} /\ half = NoVerdict /\ standing = {}
    /\ pc \notin {"merge"} \cup Ended => quizzes = {}
    /\ pc \notin {"plan", "raised"} => plan \in Plans
    /\ pc \in {"plan", "draft"} => slides = <<>> /\ ~emergency
    /\ pc \in {"plan", "draft", "gate"} => failing = {}
    /\ pc = "repair" => failing # {}
    /\ pc \in Early \cup {"first", "regen", "again1", "again2", "entry"} => attempts = 0
    /\ pc \in {"brain", "apply"} => attempts < MaxAttempts
    /\ Flagged(half.hits \cup standing) \subseteq IdsOf(slides)

\* ... and what the deck is, from the draft on.
WrittenInv ==
    /\ pc \in Written =>
        IF emergency
        THEN pc \in {"gate", "merge"} /\ slides = EmergencyDeck /\ quizzes = {} /\ failing = {}
        ELSE WellMade(slides) /\ (failing = {} => Opened(slides))
    /\ pc \in Written \ {"gate", "repair"} /\ ~emergency => PlanIsKept

DeckInv == EditorialTypeOK /\ StageInv /\ WrittenInv /\ ShippedDeckIsSound

\* The block stands at its place, what was there and behind it follows.
Inserts(r, deck, at, block) ==
    /\ Len(r) = Len(deck) + Len(block)
    /\ \A k \in 1..(at - 1) : r[k] = deck[k]
    /\ \A j \in 1..Len(block) : r[(at - 1) + j] = block[j]
    /\ \A k \in at..Len(deck) : r[k + Len(block)] = deck[k]

LEMMA Inserted ==
    ASSUME NEW X, NEW deck \in Seq(X), NEW block \in Seq(X), NEW at \in 1..(Len(deck) + 1),
           NEW r, r = InsertBlock(deck, at, block)
    PROVE  r \in Seq(X) /\ Inserts(r, deck, at, block)
<1>. DEFINE n == Len(deck)
            m == Len(block)
            a == SubSeq(deck, 1, at - 1)
            b == a \o block
            c == SubSeq(deck, at, n)
<1>1. n \in Nat /\ m \in Nat /\ at \in Nat /\ at >= 1 /\ at <= n + 1
  OBVIOUS
<1>2. a \in Seq(X) /\ Len(a) = at - 1 /\ \A k \in 1..(at - 1) : a[k] = deck[k]
  <2>1. at - 1 \in (1 - 1)..n
    BY <1>1
  <2>2. a \in Seq(X) /\ Len(a) = IF 1 <= at - 1 THEN ((at - 1) - 1) + 1 ELSE 0
    BY <1>1, <2>1, SubSeqProperties
  <2>3. \A k \in 1..(((at - 1) - 1) + 1) : a[k] = deck[(1 + k) - 1]
    BY <1>1, <2>1, SubSeqProperties
  <2>. QED
    BY <1>1, <2>2, <2>3
<1>3. c \in Seq(X) /\ Len(c) = (n - at) + 1 /\ \A k \in 1..((n - at) + 1) : c[k] = deck[(at + k) - 1]
  <2>1. n \in (at - 1)..n
    BY <1>1
  <2>2. c \in Seq(X) /\ Len(c) = IF at <= n THEN (n - at) + 1 ELSE 0
    BY <1>1, <2>1, SubSeqProperties
  <2>3. \A k \in 1..((n - at) + 1) : c[k] = deck[(at + k) - 1]
    BY <1>1, <2>1, SubSeqProperties
  <2>. QED
    BY <1>1, <2>2, <2>3
<1>. HIDE DEF a, c
<1>4. /\ b \in Seq(X) /\ Len(b) = Len(a) + m
      /\ \A p \in 1..Len(a) : b[p] = a[p]
      /\ \A j \in 1..m : b[Len(a) + j] = block[j]
  <2>1. a \in Seq(X) /\ block \in Seq(X) /\ b = a \o block
    BY <1>2 DEF b
  <2>. HIDE DEF b
  <2>2. /\ b \in Seq(X) /\ Len(b) = Len(a) + Len(block)
        /\ \A p \in 1..Len(a) : b[p] = a[p]
        /\ \A j \in 1..Len(block) : b[Len(a) + j] = block[j]
    BY ONLY <2>1, Concatenated
  <2>. QED
    BY <2>2
<1>. HIDE DEF b
<1>5. /\ r \in Seq(X) /\ Len(r) = Len(b) + Len(c)
      /\ \A p \in 1..Len(b) : r[p] = b[p]
      /\ \A j \in 1..Len(c) : r[Len(b) + j] = c[j]
  <2>1. r = b \o c
    BY DEF a, b, c, InsertBlock
  <2>2. b \in Seq(X) /\ c \in Seq(X)
    BY <1>3, <1>4
  <2>. QED
    BY ONLY <2>1, <2>2, Concatenated
<1>. HIDE DEF n, m
<1>6. Len(a) = at - 1 /\ Len(b) = (at - 1) + m /\ Len(c) = (n - at) + 1 /\ Len(r) = n + m
  <2>1. Len(a) = at - 1
    BY <1>2
  <2>2. Len(b) = (at - 1) + m
    BY <1>1, <1>4, <2>1
  <2>3. Len(c) = (n - at) + 1
    BY <1>3
  <2>4. Len(r) = ((at - 1) + m) + ((n - at) + 1)
    BY <1>5, <2>2, <2>3
  <2>5. at \in Nat
    BY <1>1
  <2>6. ((at - 1) + m) + ((n - at) + 1) = n + m
    BY ONLY <1>1, <2>5
  <2>. QED
    BY <2>1, <2>2, <2>3, <2>4, <2>6
<1>7. ASSUME NEW k \in 1..(at - 1) PROVE r[k] = deck[k]
  <2>1. k \in 1..Len(b) /\ k \in 1..Len(a)
    BY <1>1, <1>6
  <2>2. a[k] = deck[k]
    BY <1>2
  <2>. QED
    BY <1>4, <1>5, <2>1, <2>2
<1>8. ASSUME NEW j \in 1..m PROVE r[(at - 1) + j] = block[j]
  <2>1. (at - 1) + j \in 1..Len(b)
    BY <1>1, <1>6
  <2>2. r[(at - 1) + j] = b[(at - 1) + j]
    BY <1>5, <2>1
  <2>3. b[Len(a) + j] = block[j]
    BY <1>4
  <2>. QED
    BY <1>6, <2>2, <2>3
<1>9. ASSUME NEW k \in at..n PROVE r[k + m] = deck[k]
  <2>. DEFINE i == (k - at) + 1
  <2>1. k + m = Len(b) + i /\ i \in 1..Len(c) /\ i \in 1..((n - at) + 1) /\ (at + i) - 1 = k
    BY <1>1, <1>6
  <2>. HIDE DEF i
  <2>2. r[k + m] = c[i]
    BY <1>5, <2>1
  <2>3. c[i] = deck[(at + i) - 1]
    BY <1>3, <2>1
  <2>. QED
    BY <2>1, <2>2, <2>3
<1>. QED
  BY <1>5, <1>6, <1>7, <1>8, <1>9 DEF n, m, Inserts

\* Where a slide of the result was before.
FromDeck(r, deck, at, block, p, k) ==
    /\ k \in DOMAIN deck /\ r[p] = deck[k]
    /\ p = IF k < at THEN k ELSE k + Len(block)
FromBlock(r, at, block, p, j) == j \in DOMAIN block /\ r[p] = block[j] /\ p = (at - 1) + j

LEMMA CameFrom ==
    ASSUME NEW X, NEW deck \in Seq(X), NEW block \in Seq(X), NEW at \in 1..(Len(deck) + 1),
           NEW r \in Seq(X), Inserts(r, deck, at, block), NEW p \in DOMAIN r
    PROVE  \/ \E k : FromDeck(r, deck, at, block, p, k)
           \/ \E j : FromBlock(r, at, block, p, j)
<1>. DEFINE n == Len(deck)
            m == Len(block)
<1>1. /\ n \in Nat /\ m \in Nat /\ at \in 1..(n + 1)
      /\ DOMAIN deck = 1..n /\ DOMAIN block = 1..m
  OBVIOUS
<1>2. /\ \A k \in 1..(at - 1) : r[k] = deck[k]
      /\ \A j \in 1..m : r[(at - 1) + j] = block[j]
      /\ \A k \in at..n : r[k + m] = deck[k]
  BY DEF Inserts
<1>3. p \in 1..(n + m)
  <2>1. DOMAIN r = 1..Len(r) /\ Len(r) = n + m
    BY DEF Inserts
  <2>. QED
    BY <2>1
<1>. HIDE DEF n
<1>4. CASE p < at
  <2>1. p \in 1..n /\ p \in 1..(at - 1)
    BY <1>1, <1>3, <1>4
  <2>2. FromDeck(r, deck, at, block, p, p)
    BY <1>1, <1>2, <1>4, <2>1 DEF FromDeck
  <2>. QED
    BY <2>2
<1>5. CASE p >= at /\ p < at + m
  <2>. DEFINE j == p - (at - 1)
  <2>1. j \in 1..m /\ p = (at - 1) + j
    BY <1>1, <1>3, <1>5
  <2>. HIDE DEF j
  <2>2. FromBlock(r, at, block, p, j)
    BY <1>1, <1>2, <2>1 DEF FromBlock
  <2>. QED
    BY <2>2
<1>6. CASE p >= at + m
  <2>. DEFINE k == p - m
  <2>1. k \in at..n /\ p = k + m /\ k \in 1..n /\ ~(k < at)
    BY <1>1, <1>3, <1>6
  <2>. HIDE DEF k
  <2>2. FromDeck(r, deck, at, block, p, k)
    BY <1>1, <1>2, <2>1 DEF FromDeck
  <2>. QED
    BY <2>2
<1>7. p < at \/ (p >= at /\ p < at + m) \/ p >= at + m
  BY <1>1, <1>3
<1>. QED
  BY <1>4, <1>5, <1>6, <1>7

\* Inserted between slides of other ids, a block leaves every id in one place.
LEMMA InsertedOnce ==
    ASSUME NEW X, NEW deck \in Seq(X), NEW block \in Seq(X), NEW at \in 1..(Len(deck) + 1),
           NEW r, r = InsertBlock(deck, at, block),
           EachOnce(deck), EachOnce(block), IdsOf(deck) \cap IdsOf(block) = {}
    PROVE  EachOnce(r)
<1>1. r \in Seq(X) /\ Inserts(r, deck, at, block)
  BY Inserted
<1>2. ASSUME NEW p \in DOMAIN r
      PROVE  \/ \E k : FromDeck(r, deck, at, block, p, k)
             \/ \E j : FromBlock(r, at, block, p, j)
  BY <1>1, CameFrom
<1>. SUFFICES ASSUME NEW p \in DOMAIN r, NEW q \in DOMAIN r, r[p].id = r[q].id PROVE p = q
  BY DEF EachOnce
<1>3. ASSUME NEW k, FromDeck(r, deck, at, block, p, k),
             NEW i, FromDeck(r, deck, at, block, q, i)
      PROVE  p = q
  <2>1. k = i
    BY <1>3 DEF EachOnce, FromDeck
  <2>. QED
    BY <1>3, <2>1 DEF FromDeck
<1>4. ASSUME NEW k, FromBlock(r, at, block, p, k),
             NEW i, FromBlock(r, at, block, q, i)
      PROVE  p = q
  <2>1. k = i
    BY <1>4 DEF EachOnce, FromBlock
  <2>. QED
    BY <1>4, <2>1 DEF FromBlock
<1>5. ASSUME NEW s \in DOMAIN r, NEW k, FromDeck(r, deck, at, block, s, k),
             NEW t \in DOMAIN r, NEW i, FromBlock(r, at, block, t, i)
      PROVE  r[s].id # r[t].id
  <2>1. r[s].id \in IdsOf(deck) /\ r[t].id \in IdsOf(block)
    BY <1>5 DEF IdsOf, FromDeck, FromBlock
  <2>. QED
    BY <2>1
<1>. QED
  BY <1>2, <1>3, <1>4, <1>5

\* What is kept are the elements at those places, and every id still once.
LEMMA KeptElements ==
    ASSUME NEW X, NEW seq \in Seq(X), NEW S, S \subseteq DOMAIN seq
    PROVE  LET rest == Kept(seq, S) IN
           /\ rest \in Seq(X)
           /\ \A p \in DOMAIN rest : \E k \in S : rest[p] = seq[k]
           /\ \A k \in S : \E p \in DOMAIN rest : rest[p] = seq[k]
           /\ EachOnce(seq) => EachOnce(rest)
<1>. DEFINE rest == Kept(seq, S)
<1>1. rest \in Seq(X)
  BY KeptInOrder
<1>2. PICK h : Keeps(rest, seq, S, h)
  BY KeptInOrder
<1>. HIDE DEF rest
<1>3. DOMAIN rest = 1..Len(rest) /\ Len(rest) \in Nat /\ \A k \in S : k \in Nat
  BY <1>1
<1>4. ASSUME EachOnce(seq), NEW p \in DOMAIN rest, NEW q \in DOMAIN rest, rest[p].id = rest[q].id
      PROVE  p = q
  <2>1. rest[p] = seq[h[p]] /\ rest[q] = seq[h[q]] /\ h[p] \in S /\ h[q] \in S
    BY <1>2, <1>3 DEF Keeps
  <2>2. h[p] = h[q]
    BY <1>4, <2>1 DEF EachOnce
  <2>3. p \in Nat /\ q \in Nat /\ h[p] \in Nat
    BY <1>3, <2>1
  <2>4. ~(h[p] < h[q]) /\ ~(h[q] < h[p])
    BY <2>2, <2>3
  <2>5. ~(p < q) /\ ~(q < p)
    BY <1>2, <1>3, <2>4 DEF Keeps
  <2>. QED
    BY <2>3, <2>5
<1>5. \A p \in DOMAIN rest : \E k \in S : rest[p] = seq[k]
  BY <1>2, <1>3 DEF Keeps
<1>6. \A k \in S : \E p \in DOMAIN rest : rest[p] = seq[k]
  BY <1>2, <1>3 DEF Keeps
<1>7. EachOnce(seq) => EachOnce(rest)
  BY <1>4 DEF EachOnce
<1>. QED
  BY <1>1, <1>5, <1>6, <1>7 DEF rest

LEMMA KeptAll ==
    ASSUME NEW X, NEW seq \in Seq(X) PROVE Kept(seq, DOMAIN seq) = seq
<1>. DEFINE n == Len(seq)
            rest == Kept(seq, DOMAIN seq)
<1>1. n \in Nat /\ seq \in [1..n -> X] /\ DOMAIN seq = 1..n
  OBVIOUS
<1>2. rest = FlattenSeq([k \in 1..n |-> <<seq[k]>>])
  <2>1. [k \in DOMAIN seq |-> IF k \in DOMAIN seq THEN <<seq[k]>> ELSE <<>>]
            = [k \in 1..n |-> <<seq[k]>>]
    BY <1>1
  <2>. QED
    BY <2>1 DEF Kept
<1>. HIDE DEF rest, n
<1>3. rest \in Seq(X) /\ Len(rest) = n /\ \A k \in 1..n : rest[k] = seq[k]
  BY <1>1, <1>2, FlattenedSingletons
<1>4. rest = seq
  BY <1>1, <1>3, SeqEqual DEF n
<1>. QED
  BY <1>4 DEF rest

LEMMA MaterialisedSlide ==
    ASSUME NEW p \in Plans, NEW raw \in RawSlides, NEW i \in Ids \cup {TitleId}
    PROVE  LET m == Materialised([raw EXCEPT !.id = i], p) IN
           m \in Slides /\ m.id = i /\ m.type = raw.type
<1>. DEFINE r == [raw EXCEPT !.id = i]
            m == Materialised(r, p)
<1>1. /\ r.id = i /\ r.type \in ContentTypes /\ r.type = raw.type /\ r.index \in Nat
      /\ r.tag \in Nat /\ r.loose \in BOOLEAN /\ r.people \in SUBSET Persons
      /\ r.thesis \in BOOLEAN /\ r.facts \in SUBSET Tokens /\ r.clash \in BOOLEAN
  BY DEF RawSlides
<1>. HIDE DEF r
<1>2. /\ (IF r.index \in Sections(p) THEN r.index ELSE r.tag) \in Nat
      /\ (~(r.index \in Sections(p)) /\ r.loose) \in BOOLEAN
      /\ (IF r.type \in Portrays THEN r.people ELSE {}) \in SUBSET Persons
  BY <1>1
<1>3. m \in Slides
  BY <1>1, <1>2 DEF Materialised, Slides
<1>4. m.id = r.id /\ m.type = r.type
  BY DEF Materialised
<1>. QED
  BY <1>1, <1>3, <1>4 DEF r

\* What the writer answers, as slides.
LEMMA MaterialisedDeck ==
    ASSUME NEW p \in Plans, NEW d \in Drafts \cup {<<>>}
    PROVE  /\ Made(MaterialisedAll(d, p), Ids)
           /\ IdsOf(MaterialisedAll(d, p)) = IdsOf(d)
           /\ MaterialisedAll(d, p) = <<>> <=> d = <<>>
<1>. DEFINE m == MaterialisedAll(d, p)
<1>1. d \in Seq(RawSlides) /\ EachOnce(d)
  <2>1. CASE d \in Drafts
    BY <2>1, AnswersAssumption
  <2>2. CASE d = <<>>
    <3>1. d \in Seq(RawSlides) /\ DOMAIN d = {}
      BY <2>2, EmptySeq
    <3>. QED
      BY <3>1 DEF EachOnce
  <2>. QED
    BY <2>1, <2>2
<1>2. DOMAIN d = 1..Len(d) /\ Len(d) \in Nat /\ \A k \in DOMAIN d : d[k] \in RawSlides
  BY <1>1
<1>3. ASSUME NEW k \in DOMAIN d
      PROVE  /\ m[k] \in Slides /\ m[k].id = d[k].id /\ m[k].type = d[k].type
             /\ d[k].id \in Ids /\ d[k].type \in ContentTypes
  <2>1. d[k] \in RawSlides /\ d[k].id \in Ids /\ d[k].type \in ContentTypes
    BY <1>2 DEF RawSlides
  <2>2. [d[k] EXCEPT !.id = d[k].id] = d[k]
    BY <2>1 DEF RawSlides
  <2>3. m[k] = Materialised(d[k], p)
    BY DEF MaterialisedAll
  <2>. HIDE DEF m
  <2>. QED
    BY <2>1, <2>2, <2>3, MaterialisedSlide
<1>4. DOMAIN m = DOMAIN d
  BY DEF MaterialisedAll
<1>5. m \in [1..Len(d) -> Slides]
  BY <1>2, <1>3 DEF MaterialisedAll
<1>. HIDE DEF m
<1>6. m \in Seq(Slides) /\ Len(m) = Len(d)
  BY <1>2, <1>5
<1>7. IdsOf(m) = IdsOf(d) /\ IdsOf(d) \subseteq Ids
  BY <1>3, <1>4 DEF IdsOf
<1>8. EachOnce(m)
  BY <1>1, <1>3, <1>4 DEF EachOnce
<1>9. m = <<>> <=> d = <<>>
  <2>1. m = <<>> <=> Len(m) = 0
    BY <1>6
  <2>2. d = <<>> <=> Len(d) = 0
    BY <1>1
  <2>. QED
    BY <1>6, <2>1, <2>2
<1>10. \A k \in DOMAIN m : m[k].type \in ContentTypes
  BY <1>3, <1>4
<1>11. Made(m, Ids)
  BY <1>6, <1>7, <1>8, <1>10 DEF Made
<1>. QED
  BY <1>7, <1>9, <1>11 DEF m

LEMMA Dropped ==
    ASSUME NEW S, NEW deck, Made(deck, S)
    PROVE  Made(DropHollowDividers(deck), S) /\ NoneHollow(DropHollowDividers(deck))
<1>. DEFINE U == {k \in DOMAIN deck : ~Hollow(deck[k])}
            r == Kept(deck, U)
<1>1. deck \in Seq(Slides) /\ U \subseteq DOMAIN deck
  BY DEF Made
<1>. HIDE DEF U
<1>2. /\ r \in Seq(Slides) /\ (EachOnce(deck) => EachOnce(r))
      /\ \A p \in DOMAIN r : \E k \in U : r[p] = deck[k]
  BY <1>1, KeptElements
<1>3. r = DropHollowDividers(deck)
  BY DEF DropHollowDividers, U
<1>. HIDE DEF r
<1>4. NoneHollow(r)
  BY <1>2 DEF NoneHollow, U
<1>5. \A k \in U : deck[k].id \in S /\ deck[k].type \in ContentTypes
  BY <1>1 DEF Made, IdsOf
<1>6. Made(r, S)
  BY <1>2, <1>5 DEF Made, IdsOf
<1>. QED
  BY <1>3, <1>4, <1>6

LEMMA NothingDropped ==
    ASSUME NEW deck \in Seq(Slides), NoneHollow(deck) PROVE DropHollowDividers(deck) = deck
<1>1. {k \in DOMAIN deck : ~Hollow(deck[k])} = DOMAIN deck
  BY DEF NoneHollow
<1>. QED
  BY <1>1, KeptAll DEF DropHollowDividers

\* A slide the code adds.
LEMMA AddedSlide ==
    ASSUME NEW id \in {TitleId, TakeawayId} \cup QuizIds,
           NEW type \in {"title", "takeaway", "quiz"}
    PROVE  /\ Slide(id, type) \in Slides /\ ~Hollow(Slide(id, type))
           /\ Slide(id, type).id = id /\ Slide(id, type).type = type
           /\ Slide(id, type).tag = NoSection /\ Slide(id, type).people = {}
BY DEF Slide, Slides, Hollow, ContentTypes, NoSection

LEMMA TitleFirst ==
    ASSUME NEW deck, Made(deck, Ids), NoneHollow(deck)
    PROVE  WellMade(EnsureFirstIsTitle(deck)) /\ Opened(EnsureFirstIsTitle(deck))
<1>1. CASE deck # <<>> /\ deck[1].type = "title"
  BY <1>1 DEF EnsureFirstIsTitle, WellMade, Opened, Made, NoneHollow
<1>2. CASE ~(deck # <<>> /\ deck[1].type = "title")
  <2>. DEFINE t == Slide(TitleId, "title")
              r == <<t>> \o deck
  <2>1. /\ t \in Slides /\ ~Hollow(t) /\ t.id = TitleId /\ t.type = "title"
    BY AddedSlide
  <2>. HIDE DEF t
  <2>2. EnsureFirstIsTitle(deck) = r
    BY <1>2 DEF EnsureFirstIsTitle, t
  <2>3. <<t>> \in Seq(Slides) /\ deck \in Seq(Slides) /\ r = <<t>> \o deck
        /\ Len(<<t>>) = 1 /\ <<t>>[1] = t
    BY <2>1 DEF Made
  <2>. HIDE DEF r
  <2>4. /\ r \in Seq(Slides) /\ Len(r) = Len(<<t>>) + Len(deck) /\ Len(deck) \in Nat
        /\ \A p \in 1..Len(<<t>>) : r[p] = <<t>>[p]
        /\ \A j \in 1..Len(deck) : r[Len(<<t>>) + j] = deck[j]
    BY ONLY <2>3, Concatenated
  <2>5. r[1] = t /\ Len(r) = 1 + Len(deck) /\ \A j \in 1..Len(deck) : r[1 + j] = deck[j]
    BY <2>3, <2>4
  <2>6. DOMAIN r = 1..(1 + Len(deck)) /\ DOMAIN deck = 1..Len(deck)
    BY <2>3, <2>4, <2>5
  <2>7. \A p \in DOMAIN r : p = 1 \/ (p - 1 \in DOMAIN deck /\ r[p] = deck[p - 1])
    <3>1. \A p \in DOMAIN r : p = 1 \/ (p - 1 \in 1..Len(deck) /\ 1 + (p - 1) = p)
      BY <2>4, <2>6
    <3>. QED
      BY <2>5, <2>6, <3>1
  <2>8. /\ IdsOf(deck) \subseteq Ids /\ EachOnce(deck)
        /\ \A k \in DOMAIN deck : deck[k].type \in ContentTypes /\ deck[k].id \in Ids
    BY DEF Made, IdsOf
  <2>9. ASSUME NEW p \in DOMAIN r, NEW q \in DOMAIN r, r[p].id = r[q].id PROVE p = q
    <3>1. TitleId \notin Ids
      BY AnswersAssumption
    <3>2. CASE p = 1 \/ q = 1
      BY <2>1, <2>5, <2>7, <2>8, <2>9, <3>1, <3>2
    <3>3. CASE p # 1 /\ q # 1
      <4>1. p - 1 = q - 1
        BY <2>7, <2>8, <2>9, <3>3 DEF EachOnce
      <4>2. p \in Nat /\ q \in Nat
        BY <2>4, <2>6
      <4>. QED
        BY <4>1, <4>2
    <3>. QED
      BY <3>2, <3>3
  <2>10. EachOnce(r)
    BY <2>9 DEF EachOnce
  <2>11. IdsOf(r) \subseteq Ids \cup {TitleId}
    BY <2>1, <2>5, <2>7, <2>8 DEF IdsOf
  <2>12. \A p \in DOMAIN r : r[p].type \in ContentTypes /\ ~Hollow(r[p])
    BY <2>1, <2>5, <2>7, <2>8 DEF NoneHollow, ContentTypes
  <2>13. r # <<>>
    BY <2>4, <2>5
  <2>. QED
    BY <2>1, <2>2, <2>4, <2>5, <2>10, <2>11, <2>12, <2>13 DEF WellMade, Made, NoneHollow, Opened
<1>. QED
  BY <1>1, <1>2

LEMMA Swapped ==
    ASSUME NEW deck, WellMade(deck), Opened(deck), NEW slot \in {2, 3}, Len(deck) >= 4
    PROVE  LET r == OpenSparsely(deck, slot) IN
           WellMade(r) /\ Opened(r) /\ Len(r) = Len(deck)
<1>. DEFINE r == OpenSparsely(deck, slot)
            later == {j \in 4..Len(deck) : deck[j].type \in SparseOpening \ {"title"}}
<1>1. CASE ~(deck[slot].type \in Dense /\ later # {})
  <2>1. r = deck
    BY <1>1 DEF OpenSparsely
  <2>. QED
    BY <2>1
<1>2. CASE deck[slot].type \in Dense /\ later # {}
  <2>. DEFINE j == Min(later)
  <2>0. deck \in Seq(Slides) /\ Len(deck) \in Nat /\ DOMAIN deck = 1..Len(deck)
    BY DEF WellMade, Made
  <2>1. j \in 4..Len(deck)
    <3>1. later \subseteq Nat /\ later # {}
      BY <1>2
    <3>2. \E x \in later : \A y \in later : x <= y
      BY <3>1, LeastElement
    <3>3. j \in later
      BY <3>2 DEF Min
    <3>. QED
      BY <3>3
  <2>2. r = [deck EXCEPT ![slot] = deck[j], ![j] = deck[slot]]
    BY <1>2 DEF OpenSparsely
  <2>. HIDE DEF r, j
  <2>. DEFINE from == [k \in DOMAIN deck |-> IF k = slot THEN j ELSE IF k = j THEN slot ELSE k]
  <2>3. j \in DOMAIN deck /\ slot \in DOMAIN deck /\ j # slot /\ j # 1 /\ slot # 1
        /\ 1 \in DOMAIN deck
    BY <2>0, <2>1
  <2>4. DOMAIN r = DOMAIN deck /\ \A k \in DOMAIN deck : from[k] \in DOMAIN deck /\ r[k] = deck[from[k]]
    BY <2>2, <2>3
  <2>5. \A k, m \in DOMAIN deck : from[k] = from[m] => k = m
    BY <2>3
  <2>5a. from[1] = 1
    BY <2>3
  <2>. HIDE DEF from
  <2>6. \A k \in DOMAIN deck : deck[k] \in Slides
    BY <2>0
  <2>7. r \in [1..Len(deck) -> Slides]
    <3>1. r \in [DOMAIN deck -> Slides]
      BY <2>2, <2>4, <2>6
    <3>. QED
      BY <2>0, <3>1
  <2>8. r \in Seq(Slides) /\ Len(r) = Len(deck) /\ r # <<>>
    BY <2>0, <2>7
  <2>9. EachOnce(r)
    <3>1. SUFFICES ASSUME NEW k \in DOMAIN r, NEW m \in DOMAIN r, r[k].id = r[m].id PROVE k = m
      BY DEF EachOnce
    <3>2. deck[from[k]].id = deck[from[m]].id /\ from[k] \in DOMAIN deck /\ from[m] \in DOMAIN deck
      BY <2>4, <3>1
    <3>3. from[k] = from[m]
      BY <3>2 DEF EachOnce, WellMade, Made
    <3>. QED
      BY <2>4, <2>5, <3>1, <3>3
  <2>10. IdsOf(r) \subseteq Ids \cup {TitleId}
    <3>1. IdsOf(deck) \subseteq Ids \cup {TitleId}
      BY DEF WellMade, Made
    <3>2. IdsOf(r) \subseteq IdsOf(deck)
      BY <2>4 DEF IdsOf
    <3>. QED
      BY <3>1, <3>2
  <2>11. \A k \in DOMAIN r : r[k].type \in ContentTypes /\ ~Hollow(r[k])
    BY <2>4 DEF WellMade, Made, NoneHollow
  <2>12. r[1].type = "title"
    BY <2>3, <2>4, <2>5a DEF Opened
  <2>13. WellMade(r) /\ Opened(r) /\ Len(r) = Len(deck)
    BY <2>8, <2>9, <2>10, <2>11, <2>12 DEF WellMade, Made, NoneHollow, Opened
  <2>. QED
    BY <2>13 DEF r
<1>. QED
  BY <1>1, <1>2

\* The post-processing of what the writer wrote.
LEMMA PostProcessed ==
    ASSUME NEW deck, Made(deck, Ids), deck # <<>>
    PROVE  WellMade(PostProcess(deck)) /\ Opened(PostProcess(deck))
<1>. DEFINE a == EnsureFirstIsTitle(DropHollowDividers(deck))
            b == OpenSparsely(a, 2)
            c == OpenSparsely(b, 3)
<1>1. WellMade(a) /\ Opened(a)
  BY Dropped, TitleFirst
<1>2. PostProcess(deck) = IF Len(a) < 4 THEN a ELSE c
  BY DEF PostProcess, EnforceDensityArc
<1>. HIDE DEF a
<1>3. CASE Len(a) >= 4
  <2>1. WellMade(b) /\ Opened(b) /\ Len(b) = Len(a)
    BY <1>1, <1>3, Swapped
  <2>. HIDE DEF b
  <2>2. WellMade(c) /\ Opened(c)
    BY <1>3, <2>1, Swapped
  <2>3. ~(Len(a) < 4)
    <3>1. Len(a) \in Nat
      BY <1>1 DEF WellMade, Made
    <3>. QED
      BY <1>3, <3>1
  <2>. QED
    BY <1>2, <2>2, <2>3 DEF b
<1>4. CASE ~(Len(a) >= 4)
  <2>1. Len(a) < 4
    <3>1. Len(a) \in Nat
      BY <1>1 DEF WellMade, Made
    <3>. QED
      BY <1>4, <3>1
  <2>. QED
    BY <1>1, <1>2, <2>1
<1>. QED
  BY <1>3, <1>4

\* A slide written again stands where its target stood.
LEMMA SplicedSlide ==
    ASSUME NEW deck, WellMade(deck), NEW t \in DOMAIN deck,
           NEW new \in Slides, new.id = deck[t].id, new.type = deck[t].type, ~Hollow(new),
           NEW r, r = SpliceSingleSlide(deck, new)
    PROVE  /\ WellMade(r) /\ IdsOf(r) = IdsOf(deck) /\ (Opened(deck) => Opened(r))
           /\ DOMAIN r = DOMAIN deck
           /\ \A k \in DOMAIN deck : r[k] = IF k = t THEN new ELSE deck[k]
<1>1. deck \in Seq(Slides) /\ EachOnce(deck) /\ DOMAIN deck = 1..Len(deck) /\ Len(deck) \in Nat
      /\ \A k \in DOMAIN deck : deck[k] \in Slides
  BY DEF WellMade, Made
<1>2. \A k \in DOMAIN deck : r[k] = IF k = t THEN new ELSE deck[k]
  <2>1. \A k \in DOMAIN deck : deck[k].id = new.id <=> k = t
    BY <1>1 DEF EachOnce
  <2>. QED
    BY <2>1 DEF SpliceSingleSlide
<1>3. DOMAIN r = DOMAIN deck /\ r \in [1..Len(deck) -> Slides]
  BY <1>1, <1>2 DEF SpliceSingleSlide
<1>4. r \in Seq(Slides) /\ Len(r) = Len(deck)
  BY <1>1, <1>3
<1>5. \A k \in DOMAIN deck : r[k].id = deck[k].id /\ r[k].type = deck[k].type /\ ~Hollow(r[k])
  BY <1>2 DEF WellMade, NoneHollow
<1>6. EachOnce(r)
  BY <1>1, <1>3, <1>5 DEF EachOnce
<1>7. IdsOf(r) = IdsOf(deck)
  BY <1>3, <1>5 DEF IdsOf
<1>8. WellMade(r)
  BY <1>3, <1>4, <1>5, <1>6, <1>7 DEF WellMade, Made, NoneHollow
<1>9. Opened(deck) => Opened(r)
  <2>1. ASSUME Opened(deck) PROVE 1 \in DOMAIN deck /\ r # <<>>
    <3>1. Len(deck) # 0
      BY <1>1, <2>1 DEF Opened
    <3>. QED
      BY <1>1, <1>4, <3>1
  <2>. QED
    BY <1>5, <2>1 DEF Opened
<1>. QED
  BY <1>2, <1>3, <1>7, <1>8, <1>9

LEMMA RewriteKeepsPlan ==
    ASSUME NEW p, NEW done, NEW deck, KeepsPlan(deck, done, p), NEW t \in DOMAIN deck, NEW new,
           new.tag = deck[t].tag, ~InventsPerson(new, p), ~Misplaced(new),
           NEW r, DOMAIN r = DOMAIN deck,
           \A k \in DOMAIN deck : r[k] = IF k = t THEN new ELSE deck[k]
    PROVE  KeepsPlan(r, done \cup {new.id}, p)
<1>1. \A k \in DOMAIN deck : r[k].tag = deck[k].tag
  OBVIOUS
<1>2. Uncovered(r, p) = {}
  <2>1. SUFFICES ASSUME NEW i \in Sections(p) PROVE SlidesOf(r, i) # {}
    BY DEF Uncovered
  <2>2. SlidesOf(deck, i) # {}
    BY DEF KeepsPlan, Uncovered
  <2>3. PICK k \in DOMAIN deck : deck[k].tag = i
    BY <2>2 DEF SlidesOf
  <2>. QED
    BY <1>1, <2>3 DEF SlidesOf
<1>3. Offending(r, p) = {}
  <2>1. \A k \in DOMAIN deck : ~(InventsPerson(deck[k], p) \/ Misplaced(deck[k]))
    BY DEF KeepsPlan, Offending
  <2>2. \A k \in DOMAIN r : ~(InventsPerson(r[k], p) \/ Misplaced(r[k]))
    BY <2>1
  <2>. QED
    BY <2>2 DEF Offending
<1>4. ASSUME NEW i \in Substituted(r, p)
      PROVE  \E s \in SlidesOf(r, i) : s.id \in done \cup {new.id}
  <2>1. CASE new.tag = i
    <3>1. r[t] = new /\ new \in SlidesOf(r, i)
      BY <1>1, <2>1 DEF SlidesOf
    <3>. QED
      BY <3>1
  <2>2. CASE new.tag # i
    <3>1. \A k \in DOMAIN deck : deck[k].tag = i => r[k] = deck[k]
      BY <2>2
    <3>2. {k \in DOMAIN r : r[k].tag = i} = {k \in DOMAIN deck : deck[k].tag = i}
      BY <1>1
    <3>3. SlidesOf(r, i) = SlidesOf(deck, i)
      BY <3>1, <3>2 DEF SlidesOf
    <3>4. i \in Substituted(deck, p)
      BY <3>3 DEF Substituted, Missing
    <3>. QED
      BY <3>3, <3>4 DEF KeepsPlan
  <2>. QED
    BY <2>1, <2>2
<1>. QED
  BY <1>2, <1>3, <1>4 DEF KeepsPlan

\* What a deck gains outside every section changes nothing of the plan.
LEMMA GainKeepsPlan ==
    ASSUME NEW p, NEW done, NEW deck, KeepsPlan(deck, done, p), NEW r,
           \A i \in Sections(p) : SlidesOf(r, i) = SlidesOf(deck, i),
           \A k \in DOMAIN r : ~InventsPerson(r[k], p) /\ ~Misplaced(r[k])
    PROVE  KeepsPlan(r, done, p)
<1>1. Offending(r, p) = {}
  BY DEF Offending
<1>2. Uncovered(r, p) = {}
  BY DEF Uncovered, KeepsPlan
<1>3. Substituted(r, p) = Substituted(deck, p) /\ Substituted(r, p) \subseteq Sections(p)
  BY DEF Substituted, Missing
<1>. QED
  BY <1>1, <1>2, <1>3 DEF KeepsPlan

-----------------------------------------------------------------------------
\* Where a repaired deck's slides come from: the deck, or the replacements of the
\* sections T.
DrawnFrom(r, deck, reps, T) ==
    \A p \in DOMAIN r :
        \/ \E k \in DOMAIN deck : r[p] = deck[k]
        \/ \E k \in DOMAIN reps : r[p] = reps[k] /\ ExactSection(reps[k]) \in T

\* The writer's new slides are none of the deck's.
Apart(deck, reps) ==
    /\ deck \in Seq(Slides) /\ EachOnce(deck)
    /\ reps \in Seq(Slides) /\ EachOnce(reps)
    /\ IdsOf(reps) \cap IdsOf(deck) = {}

LEMMA SectionsReplacements ==
    ASSUME NEW reps \in Seq(Slides), EachOnce(reps), NEW i
    PROVE  /\ OfSection(reps, i) \in Seq(Slides) /\ EachOnce(OfSection(reps, i))
           /\ \A p \in DOMAIN OfSection(reps, i) : \E k \in DOMAIN reps :
                  OfSection(reps, i)[p] = reps[k] /\ ExactSection(reps[k]) = i
<1>. DEFINE U == {k \in DOMAIN reps : ExactSection(reps[k]) = i}
            r == Kept(reps, U)
<1>1. U \subseteq DOMAIN reps
  OBVIOUS
<1>. HIDE DEF U
<1>2. /\ r \in Seq(Slides) /\ EachOnce(r)
      /\ \A p \in DOMAIN r : \E k \in U : r[p] = reps[k]
  BY <1>1, KeptElements
<1>3. r = OfSection(reps, i)
  BY DEF OfSection, U
<1>. HIDE DEF r
<1>. QED
  BY <1>2, <1>3 DEF U

LEMMA PlaceOfSection ==
    ASSUME NEW deck \in Seq(Slides), NEW i \in Nat, NEW later,
           later = {k \in DOMAIN deck : ExactSection(deck[k]) > i}
    PROVE  (IF later = {} THEN Len(deck) + 1 ELSE Min(later)) \in 1..(Len(deck) + 1)
<1>1. Len(deck) \in Nat /\ DOMAIN deck = 1..Len(deck)
  OBVIOUS
<1>2. CASE later = {}
  BY <1>1, <1>2
<1>3. CASE later # {}
  <2>1. later \subseteq Nat
    BY <1>1
  <2>2. \E x \in later : \A y \in later : x <= y
    BY <1>3, <2>1, LeastElement
  <2>3. Min(later) \in later
    BY <2>2 DEF Min
  <2>. QED
    BY <1>1, <1>3, <2>3
<1>. QED
  BY <1>2, <1>3

LEMMA SectionInserted ==
    ASSUME NEW out \in Seq(Slides), NEW reps \in Seq(Slides), EachOnce(reps), NEW i \in Nat
    PROVE  \E at \in 1..(Len(out) + 1) :
               InsertSection(out, reps, i) = InsertBlock(out, at, OfSection(reps, i))
<1>. DEFINE later == {k \in DOMAIN out : ExactSection(out[k]) > i}
            at == IF later = {} THEN Len(out) + 1 ELSE Min(later)
<1>1. at \in 1..(Len(out) + 1)
  BY PlaceOfSection
<1>2. InsertSection(out, reps, i) = InsertBlock(out, at, OfSection(reps, i))
  BY DEF InsertSection
<1>. HIDE DEF at
<1>. QED
  BY <1>1, <1>2

LEMMA InsertionKeeps ==
    ASSUME NEW deck, NEW reps, Apart(deck, reps), NEW out \in Seq(Slides), EachOnce(out),
           NEW T, DrawnFrom(out, deck, reps, T), NEW i \in Nat \ T,
           NEW r, r = InsertSection(out, reps, i)
    PROVE  EachOnce(r) /\ DrawnFrom(r, deck, reps, T \cup {i})
<1>. DEFINE block == OfSection(reps, i)
<1>1. /\ block \in Seq(Slides) /\ EachOnce(block)
      /\ \A p \in DOMAIN block : \E k \in DOMAIN reps :
             block[p] = reps[k] /\ ExactSection(reps[k]) = i
  BY SectionsReplacements DEF Apart
<1>2. PICK at \in 1..(Len(out) + 1) : r = InsertBlock(out, at, block)
  <2>1. i \in Nat /\ reps \in Seq(Slides) /\ EachOnce(reps)
    BY DEF Apart
  <2>. QED
    BY <2>1, SectionInserted
<1>. HIDE DEF block
<1>3. IdsOf(out) \cap IdsOf(block) = {}
  <2>1. SUFFICES ASSUME NEW p \in DOMAIN out, NEW j \in DOMAIN block, out[p].id = block[j].id
                 PROVE  FALSE
    BY DEF IdsOf
  <2>2. PICK k \in DOMAIN reps : block[j] = reps[k] /\ ExactSection(reps[k]) = i
    BY <1>1
  <2>3. reps[k].id \in IdsOf(reps) /\ reps[k].id \notin IdsOf(deck)
    BY DEF IdsOf, Apart
  <2>4. CASE \E m \in DOMAIN deck : out[p] = deck[m]
    BY <2>1, <2>2, <2>3, <2>4 DEF IdsOf
  <2>5. CASE \E m \in DOMAIN reps : out[p] = reps[m] /\ ExactSection(reps[m]) \in T
    <3>1. PICK m \in DOMAIN reps : out[p] = reps[m] /\ ExactSection(reps[m]) \in T
      BY <2>5
    <3>2. m = k
      BY <2>1, <2>2, <3>1 DEF Apart, EachOnce
    <3>. QED
      BY <2>2, <3>1, <3>2
  <2>. QED
    BY <2>4, <2>5 DEF DrawnFrom
<1>4. EachOnce(r)
  BY <1>1, <1>2, <1>3, InsertedOnce
<1>5. r \in Seq(Slides) /\ Inserts(r, out, at, block)
  BY <1>1, <1>2, Inserted
<1>6. ASSUME NEW p \in DOMAIN r
      PROVE  (\E k \in DOMAIN out : r[p] = out[k]) \/ (\E j \in DOMAIN block : r[p] = block[j])
  BY <1>1, <1>5, CameFrom DEF FromDeck, FromBlock
<1>7. DrawnFrom(r, deck, reps, T \cup {i})
  <2>1. SUFFICES ASSUME NEW p \in DOMAIN r
                 PROVE  \/ \E k \in DOMAIN deck : r[p] = deck[k]
                        \/ \E k \in DOMAIN reps :
                               r[p] = reps[k] /\ ExactSection(reps[k]) \in T \cup {i}
    BY DEF DrawnFrom
  <2>2. CASE \E k \in DOMAIN out : r[p] = out[k]
    BY <2>2 DEF DrawnFrom
  <2>3. CASE \E j \in DOMAIN block : r[p] = block[j]
    BY <1>1, <2>3
  <2>. QED
    BY <1>6, <2>2, <2>3
<1>. QED
  BY <1>4, <1>7

Present(deck) == {ExactSection(deck[k]) : k \in DOMAIN deck}

\* What stands for the k-th slide: itself, the replacements of its section, or nothing.
InPlace(deck, reps, failed, k) ==
    IF ExactSection(deck[k]) \notin failed THEN <<deck[k]>>
    ELSE IF \E j \in 1..(k - 1) : ExactSection(deck[j]) = ExactSection(deck[k]) THEN <<>>
    ELSE OfSection(reps, ExactSection(deck[k]))

\* Each of them is that slide, which stays, or new for a section that begins with it.
StandsFor(s, deck, reps, failed, k) ==
    /\ \A j \in 1..Len(s) :
        \/ ExactSection(deck[k]) \notin failed /\ j = 1 /\ s[j] = deck[k]
        \/ /\ ExactSection(deck[k]) \in failed
           /\ ~\E l \in 1..(k - 1) : ExactSection(deck[l]) = ExactSection(deck[k])
           /\ \E m \in DOMAIN reps :
               s[j] = reps[m] /\ ExactSection(reps[m]) = ExactSection(deck[k])
    /\ \A i, j \in 1..Len(s) : s[i].id = s[j].id => i = j

LEMMA InPlaceSlides ==
    ASSUME NEW deck, NEW reps, Apart(deck, reps), NEW failed, NEW k \in DOMAIN deck,
           NEW s, s = InPlace(deck, reps, failed, k)
    PROVE  s \in Seq(Slides) /\ StandsFor(s, deck, reps, failed, k)
<1>. DEFINE c == ExactSection(deck[k])
<1>1. deck \in Seq(Slides) /\ reps \in Seq(Slides) /\ EachOnce(reps) /\ deck[k] \in Slides
  BY DEF Apart
<1>2. CASE c \notin failed
  <2>1. s = <<deck[k]>> /\ s \in Seq(Slides) /\ Len(s) = 1 /\ s[1] = deck[k]
    BY <1>1, <1>2 DEF InPlace
  <2>2. \A j \in 1..Len(s) : j = 1
    BY <2>1
  <2>. QED
    BY <1>2, <2>1, <2>2 DEF StandsFor
<1>3. CASE c \in failed /\ \E j \in 1..(k - 1) : ExactSection(deck[j]) = c
  <2>1. s = <<>>
    BY <1>3 DEF InPlace
  <2>2. s \in Seq(Slides) /\ 1..Len(s) = {}
    BY <2>1, EmptySeq
  <2>. QED
    BY <2>2 DEF StandsFor
<1>4. CASE c \in failed /\ ~\E j \in 1..(k - 1) : ExactSection(deck[j]) = c
  <2>1. s = OfSection(reps, c)
    BY <1>4 DEF InPlace
  <2>. HIDE DEF c
  <2>2. /\ s \in Seq(Slides) /\ EachOnce(s)
        /\ \A p \in DOMAIN s : \E m \in DOMAIN reps : s[p] = reps[m] /\ ExactSection(reps[m]) = c
    BY <1>1, <2>1, SectionsReplacements
  <2>3. DOMAIN s = 1..Len(s)
    BY <2>2
  <2>. QED
    BY <1>4, <2>2, <2>3 DEF EachOnce, c, StandsFor
<1>. QED
  BY <1>2, <1>3, <1>4

LEMMA ReplacedSections ==
    ASSUME NEW deck, NEW reps, Apart(deck, reps), NEW failed,
           NEW r, r = ReplacedInPlace(deck, reps, failed)
    PROVE  /\ r \in Seq(Slides) /\ EachOnce(r)
           /\ DrawnFrom(r, deck, reps, failed \cap Present(deck))
<1>. DEFINE n == Len(deck)
            seqs == [k \in DOMAIN deck |-> InPlace(deck, reps, failed, k)]
<1>1. n \in Nat /\ DOMAIN deck = 1..n /\ deck \in Seq(Slides) /\ EachOnce(deck)
      /\ EachOnce(reps)
  BY DEF Apart
<1>2. r = FlattenSeq(seqs)
  BY DEF ReplacedInPlace, InPlace
<1>3. \A k \in 1..n : seqs[k] \in Seq(Slides) /\ StandsFor(seqs[k], deck, reps, failed, k)
  BY <1>1, InPlaceSlides
<1>4. seqs \in Seq(Seq(Slides)) /\ Len(seqs) = n
  <2>1. seqs \in [1..n -> Seq(Slides)]
    BY <1>1, <1>3
  <2>. HIDE DEF seqs
  <2>. QED
    BY <1>1, <2>1
<1>. HIDE DEF seqs, n
<1>5. r \in Seq(Slides) /\ \E o \in [0..n -> Nat] : Joins(r, seqs, o, n)
  BY <1>2, <1>4, Joined
<1>6. PICK o \in [0..n -> Nat] : Joins(r, seqs, o, n)
  BY <1>5
<1>7. DOMAIN r = 1..Len(r)
  BY <1>5
\* The j-th of what stands for the k-th slide: kept, or new.
<1>. DEFINE At(p, k, j) == k \in 1..n /\ j \in 1..Len(seqs[k]) /\ p = o[k - 1] + j
            Old(p, k) == ExactSection(deck[k]) \notin failed /\ r[p] = deck[k]
            New(p, k) ==
                /\ ExactSection(deck[k]) \in failed
                /\ ~\E l \in 1..(k - 1) : ExactSection(deck[l]) = ExactSection(deck[k])
                /\ \E m \in DOMAIN reps :
                    r[p] = reps[m] /\ ExactSection(reps[m]) = ExactSection(deck[k])
<1>8. ASSUME NEW p \in DOMAIN r
      PROVE  \E k, j : At(p, k, j) /\ r[p] = seqs[k][j] /\ ((Old(p, k) /\ j = 1) \/ New(p, k))
  <2>1. PICK k \in 1..n : \E j \in 1..Len(seqs[k]) : p = o[k - 1] + j
    BY <1>6, <1>7 DEF Joins
  <2>2. PICK j \in 1..Len(seqs[k]) : p = o[k - 1] + j
    BY <2>1
  <2>3. r[p] = seqs[k][j]
    BY <1>6, <2>1, <2>2 DEF Joins
  <2>4. \/ ExactSection(deck[k]) \notin failed /\ j = 1 /\ seqs[k][j] = deck[k]
        \/ /\ ExactSection(deck[k]) \in failed
           /\ ~\E l \in 1..(k - 1) : ExactSection(deck[l]) = ExactSection(deck[k])
           /\ \E m \in DOMAIN reps :
               seqs[k][j] = reps[m] /\ ExactSection(reps[m]) = ExactSection(deck[k])
    BY <1>3 DEF StandsFor
  <2>5. At(p, k, j) /\ ((Old(p, k) /\ j = 1) \/ New(p, k))
    BY <2>2, <2>3, <2>4
  <2>. QED
    BY <2>3, <2>5
<1>9. EachOnce(r)
  <2>1. SUFFICES ASSUME NEW p \in DOMAIN r, NEW q \in DOMAIN r, r[p].id = r[q].id PROVE p = q
    BY DEF EachOnce
  <2>2. PICK k, j : At(p, k, j) /\ r[p] = seqs[k][j] /\ ((Old(p, k) /\ j = 1) \/ New(p, k))
    BY <1>8
  <2>3. PICK l, i : At(q, l, i) /\ r[q] = seqs[l][i] /\ ((Old(q, l) /\ i = 1) \/ New(q, l))
    BY <1>8
  <2>4. k \in Nat /\ l \in Nat /\ k \in DOMAIN deck /\ l \in DOMAIN deck
    BY <1>1, <2>2, <2>3
  <2>5. k = l
    <3>1. CASE Old(p, k) /\ Old(q, l)
      BY <1>1, <2>1, <2>4, <3>1 DEF EachOnce
    <3>2. ASSUME NEW a, NEW b, NEW c \in DOMAIN deck, NEW d, Old(a, c), New(b, d)
          PROVE  r[a].id # r[b].id
      <4>1. r[a].id \in IdsOf(deck) /\ r[b].id \in IdsOf(reps)
        BY <3>2 DEF IdsOf
      <4>. QED
        BY <4>1 DEF Apart
    <3>3. CASE New(p, k) /\ New(q, l)
      <4>1. PICK m \in DOMAIN reps : r[p] = reps[m] /\ ExactSection(reps[m]) = ExactSection(deck[k])
        BY <3>3
      <4>2. PICK m2 \in DOMAIN reps : r[q] = reps[m2] /\ ExactSection(reps[m2]) = ExactSection(deck[l])
        BY <3>3
      <4>3. m = m2
        BY <1>1, <2>1, <4>1, <4>2 DEF EachOnce
      <4>4. ExactSection(deck[k]) = ExactSection(deck[l])
        BY <4>1, <4>2, <4>3
      <4>5. k \notin 1..(l - 1) /\ l \notin 1..(k - 1)
        BY <3>3, <4>4
      <4>6. k >= 1 /\ l >= 1
        BY <1>1, <2>4
      <4>. QED
        BY <2>4, <4>5, <4>6
    <3>. HIDE DEF Old, New
    <3>. QED
      BY <2>1, <2>2, <2>3, <2>4, <3>1, <3>2, <3>3
  <2>6. i = j
    <3>1. i \in 1..Len(seqs[k]) /\ j \in 1..Len(seqs[k]) /\ seqs[k][i].id = seqs[k][j].id
      BY <2>1, <2>2, <2>3, <2>5
    <3>2. \A a, b \in 1..Len(seqs[k]) : seqs[k][a].id = seqs[k][b].id => a = b
      BY <1>1, <1>3, <2>4 DEF StandsFor
    <3>. QED
      BY <3>1, <3>2
  <2>. QED
    BY <2>2, <2>3, <2>5, <2>6
<1>10. DrawnFrom(r, deck, reps, failed \cap Present(deck))
  <2>1. SUFFICES ASSUME NEW p \in DOMAIN r
                 PROVE  \/ \E k \in DOMAIN deck : r[p] = deck[k]
                        \/ \E m \in DOMAIN reps :
                               r[p] = reps[m] /\ ExactSection(reps[m]) \in failed \cap Present(deck)
    BY DEF DrawnFrom
  <2>2. PICK k, j : At(p, k, j) /\ r[p] = seqs[k][j] /\ ((Old(p, k) /\ j = 1) \/ New(p, k))
    BY <1>8
  <2>3. k \in DOMAIN deck /\ ExactSection(deck[k]) \in Present(deck)
    BY <1>1, <2>2 DEF Present
  <2>. QED
    BY <2>2, <2>3
<1>. QED
  BY <1>5, <1>9, <1>10

LEMMA SectionsSpliced ==
    ASSUME NEW deck, NEW reps, Apart(deck, reps), NEW p \in Plans, NEW failed,
           NEW r, r = SpliceSections(deck, reps, failed, p)
    PROVE  r \in Seq(Slides) /\ EachOnce(r) /\ DrawnFrom(r, deck, reps, failed)
<1>. DEFINE n == Len(p.wants)
            absent == failed \ Present(deck)
            base == ReplacedInPlace(deck, reps, failed)
            Body(f) ==
                [i \in 0..n |->
                    IF i = 0 THEN base
                    ELSE IF i \in absent THEN InsertSection(f[i - 1], reps, i)
                    ELSE f[i - 1]]
            step == [pr \in Seq(Slides) \X (1..n) |->
                        IF pr[2] \in absent THEN InsertSection(pr[1], reps, pr[2]) ELSE pr[1]]
<1>1. n \in Nat /\ reps \in Seq(Slides) /\ EachOnce(reps)
  BY AnswersAssumption DEF Apart
<1>2. base \in Seq(Slides) /\ EachOnce(base) /\ DrawnFrom(base, deck, reps, failed \cap Present(deck))
  BY ReplacedSections
<1>. HIDE DEF n, base, absent
<1>3. ASSUME NEW out \in Seq(Slides), NEW i \in Nat PROVE InsertSection(out, reps, i) \in Seq(Slides)
  <2>1. PICK at \in 1..(Len(out) + 1) :
            InsertSection(out, reps, i) = InsertBlock(out, at, OfSection(reps, i))
    BY <1>1, SectionInserted
  <2>2. OfSection(reps, i) \in Seq(Slides)
    BY <1>1, SectionsReplacements
  <2>. QED
    BY <2>1, <2>2, Inserted
<1>4. IsStep(step, Seq(Slides), n)
  <2>1. \A pr \in Seq(Slides) \X (1..n) : pr[1] \in Seq(Slides) /\ pr[2] \in Nat
    BY <1>1
  <2>. QED
    BY <1>3, <2>1 DEF IsStep
<1>5. \E g : g = Body(g)
  <2>. HIDE DEF step
  <2>1. PICK g : Iterates(g, Seq(Slides), base, step, n)
    BY <1>1, <1>2, <1>4, Recursion
  <2>2. g \in [0..n -> Seq(Slides)] /\ g[0] = base /\ \A i \in 1..n : g[i] = step[<<g[i - 1], i>>]
    BY <2>1 DEF Iterates
  <2>3. ASSUME NEW i \in 0..n
        PROVE  g[i] = IF i = 0 THEN base
                      ELSE IF i \in absent THEN InsertSection(g[i - 1], reps, i)
                      ELSE g[i - 1]
    <3>1. CASE i = 0
      BY <2>2, <3>1
    <3>2. CASE i # 0
      <4>1. i \in 1..n /\ i - 1 \in 0..n
        BY <1>1, <3>2
      <4>2. g[i] = step[<<g[i - 1], i>>] /\ g[i - 1] \in Seq(Slides)
        BY <2>2, <4>1
      <4>3. step[<<g[i - 1], i>>] = IF i \in absent THEN InsertSection(g[i - 1], reps, i) ELSE g[i - 1]
        BY <4>1, <4>2 DEF step
      <4>. QED
        BY <3>2, <4>2, <4>3
    <3>. QED
      BY <3>1, <3>2
  <2>4. g = Body(g)
    BY <2>2, <2>3
  <2>. QED
    BY <2>4
<1>. DEFINE f == CHOOSE f : f = Body(f)
<1>6. f = Body(f)
  BY <1>5
<1>7. r = f[n]
  BY DEF SpliceSections, absent, base, n, Present
<1>. HIDE DEF f
<1>8. \A i \in 0..n :
          f[i] = IF i = 0 THEN base
                 ELSE IF i \in absent THEN InsertSection(f[i - 1], reps, i)
                 ELSE f[i - 1]
  BY <1>6
<1>. DEFINE Done(i) == (failed \cap Present(deck)) \cup (absent \cap (1..i))
            T == {i \in 0..n : /\ f[i] \in Seq(Slides) /\ EachOnce(f[i])
                               /\ DrawnFrom(f[i], deck, reps, Done(i))}
<1>9. 0 \in T
  <2>1. f[0] = base /\ 0 \in 0..n
    BY <1>1, <1>8
  <2>2. Done(0) = failed \cap Present(deck)
    OBVIOUS
  <2>. QED
    BY <1>2, <2>1, <2>2
<1>10. ASSUME NEW i \in 0..(n - 1), i \in T PROVE i + 1 \in T
  <2>1. i + 1 \in 0..n /\ i + 1 # 0 /\ (i + 1) - 1 = i /\ i + 1 \in Nat /\ i \in Nat
    BY <1>1
  <2>2. f[i] \in Seq(Slides) /\ EachOnce(f[i]) /\ DrawnFrom(f[i], deck, reps, Done(i))
    BY <1>10
  <2>3. CASE i + 1 \in absent
    <3>1. f[i + 1] = InsertSection(f[i], reps, i + 1)
      BY <1>8, <2>1, <2>3
    <3>2. i + 1 \notin Done(i)
      BY <2>1, <2>3 DEF absent
    <3>3. Done(i) \cup {i + 1} = Done(i + 1)
      BY <2>1, <2>3
    <3>. HIDE DEF Done
    <3>4. f[i + 1] \in Seq(Slides)
      BY <1>3, <2>1, <2>2, <3>1
    <3>5. EachOnce(f[i + 1]) /\ DrawnFrom(f[i + 1], deck, reps, Done(i) \cup {i + 1})
      BY <2>1, <2>2, <3>1, <3>2, InsertionKeeps
    <3>. QED
      BY <2>1, <3>3, <3>4, <3>5
  <2>4. CASE i + 1 \notin absent
    <3>1. f[i + 1] = f[i]
      BY <1>8, <2>1, <2>4
    <3>2. Done(i + 1) = Done(i)
      BY <2>1, <2>4
    <3>. QED
      BY <2>1, <2>2, <3>1, <3>2
  <2>. QED
    BY <2>3, <2>4
<1>. HIDE DEF T
<1>11. n \in T
  <2>1. \A i \in 0..n : i \in T
    BY <1>1, <1>9, <1>10, Counting
  <2>2. n \in 0..n
    BY <1>1
  <2>. QED
    BY <2>1, <2>2
<1>12. Done(n) \subseteq failed
  BY DEF absent
<1>. QED
  BY <1>7, <1>11, <1>12 DEF T, DrawnFrom

LEMMA RepairedDeck ==
    ASSUME NEW deck, WellMade(deck), NEW p \in Plans, NEW d \in Drafts \cup {<<>>},
           IdsOf(d) \cap IdsOf(deck) = {}, NEW failed,
           NEW r, r = PostProcessRepaired(SpliceSections(deck, MaterialisedAll(d, p), failed, p))
    PROVE  WellMade(r)
<1>. DEFINE reps == MaterialisedAll(d, p)
            s == SpliceSections(deck, reps, failed, p)
<1>1. Made(reps, Ids) /\ IdsOf(reps) = IdsOf(d)
  BY MaterialisedDeck
<1>. HIDE DEF reps
<1>2. Apart(deck, reps)
  BY <1>1 DEF Apart, WellMade, Made
<1>3. s \in Seq(Slides) /\ EachOnce(s) /\ DrawnFrom(s, deck, reps, failed)
  BY <1>2, SectionsSpliced
<1>. HIDE DEF s
<1>4. \A k \in DOMAIN deck : deck[k].id \in Ids \cup {TitleId} /\ deck[k].type \in ContentTypes
  BY DEF WellMade, Made, IdsOf
<1>5. \A k \in DOMAIN reps : reps[k].id \in Ids /\ reps[k].type \in ContentTypes
  BY <1>1 DEF Made, IdsOf
<1>6. \A k \in DOMAIN s : s[k].id \in Ids \cup {TitleId} /\ s[k].type \in ContentTypes
  BY <1>3, <1>4, <1>5 DEF DrawnFrom
<1>7. Made(s, Ids \cup {TitleId})
  BY <1>3, <1>6 DEF Made, IdsOf
<1>8. r = DropHollowDividers(s)
  BY DEF PostProcessRepaired, s, reps
<1>. QED
  BY <1>7, <1>8, Dropped DEF WellMade

-----------------------------------------------------------------------------
\* Where the breaks of a deck stand, in their order.
BreaksAt(b, deck) ==
    /\ b \in Seq(Nat)
    /\ \A j \in 1..Len(b) : b[j] \in DOMAIN deck /\ deck[b[j]].type = "break"
    /\ \A j, l \in 1..Len(b) : j < l => b[j] < b[l]
    /\ \A k \in DOMAIN deck : deck[k].type = "break" => \E j \in 1..Len(b) : b[j] = k

LEMMA BreakPlaces ==
    ASSUME NEW deck \in Seq(Slides) PROVE BreaksAt(Breaks(deck), deck)
<1>. DEFINE B == {k \in DOMAIN deck : deck[k].type = "break"}
            all == [k \in DOMAIN deck |-> k]
            b == Kept(all, B)
<1>1. DOMAIN deck = 1..Len(deck) /\ Len(deck) \in Nat
  OBVIOUS
<1>2. all \in [1..Len(deck) -> Nat] /\ \A k \in DOMAIN deck : all[k] = k
  BY <1>1
<1>. HIDE DEF all
<1>3. all \in Seq(Nat) /\ DOMAIN all = DOMAIN deck
  BY <1>1, <1>2
<1>4. B \subseteq DOMAIN all
  BY <1>3
<1>. HIDE DEF B
<1>5. b \in Seq(Nat) /\ \E h : Keeps(b, all, B, h)
  BY <1>3, <1>4, KeptInOrder
<1>6. PICK h : Keeps(b, all, B, h)
  BY <1>5
<1>7. b = Breaks(deck)
  BY DEF Breaks, all, B
<1>. HIDE DEF b
<1>8. \A j \in 1..Len(b) : h[j] \in B /\ b[j] = h[j]
  BY <1>2, <1>6 DEF Keeps, B
<1>9. \A j, l \in 1..Len(b) : j < l => b[j] < b[l]
  BY <1>6, <1>8 DEF Keeps
<1>10. \A k \in B : \E j \in 1..Len(b) : b[j] = k
  BY <1>6, <1>8 DEF Keeps
<1>11. BreaksAt(b, deck)
  BY <1>5, <1>8, <1>9, <1>10 DEF BreaksAt, B
<1>. QED
  BY <1>7, <1>11

LEMMA BreaksCounted ==
    ASSUME NEW deck \in Seq(Slides), NEW b, BreaksAt(b, deck)
    PROVE  LET B == {k \in DOMAIN deck : deck[k].type = "break"} IN
           IsFiniteSet(B) /\ Cardinality(B) = Len(b)
<1>. DEFINE B == {k \in DOMAIN deck : deck[k].type = "break"}
            n == Len(b)
<1>1. n \in Nat /\ b \in [1..n -> Nat]
  BY DEF BreaksAt
<1>2. b \in [1..n -> B]
  BY <1>1 DEF BreaksAt
<1>3. \A k \in B : \E j \in 1..n : b[j] = k
  BY DEF BreaksAt
<1>4. ASSUME NEW j \in 1..n, NEW l \in 1..n, b[j] = b[l] PROVE j = l
  <2>1. b[j] \in Nat /\ j \in Nat /\ l \in Nat
    BY <1>1
  <2>2. ~(b[j] < b[l]) /\ ~(b[l] < b[j])
    BY <1>4, <2>1
  <2>3. ~(j < l) /\ ~(l < j)
    BY <2>2 DEF BreaksAt
  <2>. QED
    BY <2>1, <2>3
<1>. HIDE DEF B, n
<1>5. b \in Bijection(1..n, B)
  <2>1. b \in Injection(1..n, B)
    BY <1>2, <1>4 DEF Injection, IsInjective
  <2>2. b \in Surjection(1..n, B)
    BY <1>2, <1>3 DEF Surjection
  <2>. QED
    BY <2>1, <2>2 DEF Bijection
<1>6. ExistsBijection(1..n, B)
  BY <1>5 DEF ExistsBijection
<1>7. IsFiniteSet(1..n) /\ Cardinality(1..n) = n
  <2>1. 1 \in Int /\ n \in Int /\ (1 > n => n = 0)
    BY <1>1
  <2>2. IsFiniteSet(1..n) /\ Cardinality(1..n) = IF 1 > n THEN 0 ELSE (n - 1) + 1
    BY <2>1, FS_Interval
  <2>3. (n - 1) + 1 = n
    BY <1>1
  <2>. QED
    BY <2>1, <2>2, <2>3
<1>8. IsFiniteSet(B) /\ Cardinality(B) = n
  BY <1>6, <1>7, FS_Bijection
<1>. QED
  BY <1>8 DEF B, n

-----------------------------------------------------------------------------
\* Interactive slides: of no section, showing nobody.
QuizDeck(quiz) ==
    /\ quiz \in Seq(Slides) /\ EachOnce(quiz)
    /\ \A k \in DOMAIN quiz :
        /\ quiz[k].id \in QuizIds /\ quiz[k].type = "quiz"
        /\ quiz[k].tag = NoSection /\ quiz[k].people = {}

\* The deck with the first i of them among its slides, the first still the first.
Merges(out, deck, quiz, i) ==
    /\ out \in Seq(Slides) /\ EachOnce(out)
    /\ Len(out) = Len(deck) + i
    /\ \A p \in DOMAIN out :
        (\E k \in DOMAIN deck : out[p] = deck[k]) \/ (\E j \in 1..i : out[p] = quiz[j])
    /\ \A k \in DOMAIN deck : \E p \in DOMAIN out : out[p] = deck[k]
    /\ Opened(deck) => out[1] = deck[1]

LEMMA MergesMore ==
    ASSUME NEW deck, WellMade(deck), NEW quiz, QuizDeck(quiz),
           NEW i \in Nat, NEW i2 \in Nat, i2 >= i, i2 <= Len(quiz),
           NEW out, Merges(out, deck, quiz, i),
           NEW block \in Seq(Slides), EachOnce(block), Len(block) = i2 - i,
           \A j \in DOMAIN block : \E k \in (i + 1)..i2 : block[j] = quiz[k],
           NEW at \in 1..(Len(out) + 1), Opened(deck) => at >= 2,
           NEW r, r = InsertBlock(out, at, block)
    PROVE  Merges(r, deck, quiz, i2)
<1>1. out \in Seq(Slides) /\ EachOnce(out) /\ Len(out) = Len(deck) + i /\ deck \in Seq(Slides)
      /\ Len(deck) \in Nat
  BY DEF Merges, WellMade, Made
<1>2. DOMAIN quiz = 1..Len(quiz) /\ Len(quiz) \in Nat /\ EachOnce(quiz)
      /\ \A k \in DOMAIN quiz : quiz[k].id \in QuizIds
  BY DEF QuizDeck
<1>3. IdsOf(out) \cap IdsOf(block) = {}
  <2>1. SUFFICES ASSUME NEW p \in DOMAIN out, NEW j \in DOMAIN block, out[p].id = block[j].id
                 PROVE  FALSE
    BY DEF IdsOf
  <2>2. PICK k \in (i + 1)..i2 : block[j] = quiz[k]
    OBVIOUS
  <2>3. k \in DOMAIN quiz /\ k \notin 1..i
    BY <1>2
  <2>4. CASE \E m \in DOMAIN deck : out[p] = deck[m]
    <3>1. out[p].id \in Ids \cup {TitleId}
      BY <2>4 DEF WellMade, Made, IdsOf
    <3>. QED
      BY <1>2, <2>1, <2>2, <2>3, <3>1, AnswersAssumption
  <2>5. CASE \E m \in 1..i : out[p] = quiz[m]
    <3>1. PICK m \in 1..i : out[p] = quiz[m]
      BY <2>5
    <3>2. m \in DOMAIN quiz
      BY <1>2
    <3>3. m = k
      BY <1>2, <2>1, <2>2, <2>3, <3>1, <3>2 DEF EachOnce
    <3>. QED
      BY <2>3, <3>3
  <2>. QED
    BY <2>4, <2>5 DEF Merges
<1>4. EachOnce(r)
  BY <1>1, <1>3, InsertedOnce
<1>5. r \in Seq(Slides) /\ Inserts(r, out, at, block)
  BY <1>1, Inserted
<1>6. Len(r) = Len(deck) + i2
  BY <1>1, <1>5 DEF Inserts
<1>7. ASSUME NEW p \in DOMAIN r
      PROVE  (\E k \in DOMAIN deck : r[p] = deck[k]) \/ (\E j \in 1..i2 : r[p] = quiz[j])
  <2>1. (\E k \in DOMAIN out : r[p] = out[k]) \/ (\E j \in DOMAIN block : r[p] = block[j])
    <3>1. \/ \E k : FromDeck(r, out, at, block, p, k)
          \/ \E j : FromBlock(r, at, block, p, j)
      BY <1>1, <1>5, CameFrom
    <3>. QED
      BY <3>1 DEF FromDeck, FromBlock
  <2>2. CASE \E k \in DOMAIN out : r[p] = out[k]
    <3>1. PICK k \in DOMAIN out : r[p] = out[k]
      BY <2>2
    <3>2. (\E m \in DOMAIN deck : r[p] = deck[m]) \/ (\E j \in 1..i : r[p] = quiz[j])
      BY <3>1 DEF Merges
    <3>3. \A j \in 1..i : j \in 1..i2
      OBVIOUS
    <3>. QED
      BY <3>2, <3>3
  <2>3. CASE \E j \in DOMAIN block : r[p] = block[j]
    <3>1. PICK k \in (i + 1)..i2 : r[p] = quiz[k]
      BY <2>3
    <3>2. k \in 1..i2
      OBVIOUS
    <3>. QED
      BY <3>1, <3>2
  <2>. QED
    BY <2>1, <2>2, <2>3
<1>8. ASSUME NEW q \in DOMAIN out PROVE \E p \in DOMAIN r : r[p] = out[q]
  <2>1. DOMAIN out = 1..Len(out) /\ DOMAIN r = 1..Len(r) /\ Len(out) \in Nat /\ Len(block) \in Nat
        /\ Len(r) = Len(out) + Len(block)
    <3>1. out \in Seq(Slides) /\ r \in Seq(Slides) /\ block \in Seq(Slides)
      BY <1>1, <1>5
    <3>2. Len(r) = Len(out) + Len(block)
      BY <1>5 DEF Inserts
    <3>3. DOMAIN out = 1..Len(out) /\ Len(out) \in Nat
      BY <3>1
    <3>4. DOMAIN r = 1..Len(r) /\ Len(block) \in Nat
      BY <3>1
    <3>. QED
      BY <3>2, <3>3, <3>4
  <2>2. CASE q < at
    <3>1. q \in 1..(at - 1) /\ q \in DOMAIN r
      BY <2>1, <2>2
    <3>. QED
      BY <1>5, <3>1 DEF Inserts
  <2>3. CASE ~(q < at)
    <3>1. q \in at..Len(out) /\ q + Len(block) \in DOMAIN r
      BY <2>1, <2>3
    <3>. QED
      BY <1>5, <3>1 DEF Inserts
  <2>. QED
    BY <2>2, <2>3
<1>9. \A k \in DOMAIN deck : \E p \in DOMAIN r : r[p] = deck[k]
  BY <1>8 DEF Merges
<1>10. Opened(deck) => r[1] = deck[1]
  <2>1. SUFFICES ASSUME Opened(deck) PROVE r[1] = deck[1]
    OBVIOUS
  <2>2. at >= 2 /\ out[1] = deck[1]
    BY <2>1 DEF Merges
  <2>3. 1 \in 1..(at - 1)
    BY <2>2
  <2>. QED
    BY <1>5, <2>2, <2>3 DEF Inserts
<1>. QED
  BY <1>4, <1>5, <1>6, <1>7, <1>9, <1>10 DEF Merges

LEMMA MergesNone ==
    ASSUME NEW deck, WellMade(deck), NEW quiz PROVE Merges(deck, deck, quiz, 0)
<1>1. deck \in Seq(Slides) /\ EachOnce(deck) /\ Len(deck) \in Nat
  BY DEF WellMade, Made
<1>. QED
  BY <1>1 DEF Merges

\* What a deck so merged keeps.
LEMMA MergedKeeps ==
    ASSUME NEW deck, WellMade(deck), NEW quiz, QuizDeck(quiz),
           NEW r, Merges(r, deck, quiz, Len(quiz)),
           NEW p \in Plans, NEW done, KeepsPlan(deck, done, p)
    PROVE  /\ NoneHollow(r) /\ (Opened(deck) => Opened(r)) /\ KeepsPlan(r, done, p)
<1>1. DOMAIN quiz = 1..Len(quiz)
  BY DEF QuizDeck
<1>2. ASSUME NEW k \in DOMAIN r
      PROVE  \/ \E m \in DOMAIN deck : r[k] = deck[m]
             \/ r[k].type = "quiz" /\ r[k].tag = NoSection /\ r[k].people = {}
  BY <1>1 DEF Merges, QuizDeck
<1>3. NoneHollow(r)
  BY <1>2 DEF NoneHollow, WellMade, Hollow
<1>4. Opened(deck) => Opened(r)
  <2>1. SUFFICES ASSUME Opened(deck) PROVE Opened(r)
    OBVIOUS
  <2>2. r \in Seq(Slides) /\ deck \in Seq(Slides) /\ Len(deck) \in Nat /\ Len(r) = Len(deck) + Len(quiz)
        /\ Len(quiz) \in Nat
    BY DEF Merges, WellMade, Made, QuizDeck
  <2>3. Len(deck) # 0
    BY <2>1, <2>2 DEF Opened
  <2>4. r # <<>>
    BY <2>2, <2>3
  <2>. QED
    BY <2>1, <2>4 DEF Opened, Merges
<1>5. \A i \in Sections(p) : i # NoSection
  <2>1. p.wants \in Seq(SUBSET Persons)
    BY AnswersAssumption
  <2>. QED
    BY <2>1 DEF Sections, NoSection
<1>6. ASSUME NEW i \in Sections(p) PROVE SlidesOf(r, i) = SlidesOf(deck, i)
  <2>1. ASSUME NEW s \in SlidesOf(r, i) PROVE s \in SlidesOf(deck, i)
    <3>1. PICK k \in DOMAIN r : r[k].tag = i /\ s = r[k]
      BY <2>1 DEF SlidesOf
    <3>2. PICK m \in DOMAIN deck : r[k] = deck[m]
      BY <1>2, <1>5, <3>1
    <3>. QED
      BY <3>1, <3>2 DEF SlidesOf
  <2>2. ASSUME NEW s \in SlidesOf(deck, i) PROVE s \in SlidesOf(r, i)
    <3>1. PICK k \in DOMAIN deck : deck[k].tag = i /\ s = deck[k]
      BY <2>2 DEF SlidesOf
    <3>2. PICK m \in DOMAIN r : r[m] = deck[k]
      BY DEF Merges
    <3>. QED
      BY <3>1, <3>2 DEF SlidesOf
  <2>. QED
    BY <2>1, <2>2
<1>7. ASSUME NEW k \in DOMAIN r PROVE ~InventsPerson(r[k], p) /\ ~Misplaced(r[k])
  <2>1. CASE \E m \in DOMAIN deck : r[k] = deck[m]
    BY <2>1 DEF KeepsPlan, Offending
  <2>2. CASE r[k].people = {}
    BY <2>2 DEF InventsPerson, Misplaced
  <2>. QED
    BY <1>2, <2>1, <2>2
<1>8. KeepsPlan(r, done, p)
  BY <1>6, <1>7, GainKeepsPlan
<1>. QED
  BY <1>3, <1>4, <1>8

\* While there is a break for each: behind each of the i there is one, and behind the
\* last of them the deck goes on as it was.
Closes(out, deck, b, i) ==
    /\ \A j \in 1..i : out[b[j] + j] = deck[b[j]]
    /\ \A p \in DOMAIN out : out[p].type = "quiz" => \E j \in 1..i : p + 1 = b[j] + j
    /\ \A k \in DOMAIN deck : (i = 0 \/ k >= b[i]) => out[k + i] = deck[k]

LEMMA ClosesMore ==
    ASSUME NEW deck, WellMade(deck), NEW quiz, QuizDeck(quiz), NEW b, BreaksAt(b, deck),
           NEW i \in Nat, i + 1 <= Len(b), i + 1 <= Len(quiz),
           NEW out, Merges(out, deck, quiz, i), Closes(out, deck, b, i),
           NEW at, at = b[i + 1] + i,
           NEW r, r = InsertBlock(out, at, <<quiz[i + 1]>>)
    PROVE  Closes(r, deck, b, i + 1)
<1>. DEFINE n == Len(deck)
            block == <<quiz[i + 1]>>
<1>1. /\ deck \in Seq(Slides) /\ out \in Seq(Slides) /\ quiz \in Seq(Slides)
      /\ b \in Seq(Nat) /\ Len(b) \in Nat /\ i + 1 \in 1..Len(b) /\ i + 1 \in 1..Len(quiz)
  BY DEF WellMade, Made, Merges, QuizDeck, BreaksAt
<1>2. /\ n \in Nat /\ DOMAIN deck = 1..n /\ Len(out) = n + i /\ DOMAIN out = 1..(n + i)
  <2>1. Len(out) = n + i
    BY DEF Merges
  <2>. QED
    BY <1>1, <2>1
<1>. HIDE DEF n
<1>3. /\ b[i + 1] \in 1..n /\ deck[b[i + 1]].type = "break"
      /\ \A j \in 1..i : b[j] \in 1..n /\ b[j] < b[i + 1]
  <2>1. b[i + 1] \in 1..n /\ deck[b[i + 1]].type = "break"
    BY <1>1, <1>2 DEF BreaksAt
  <2>2. ASSUME NEW j \in 1..i PROVE b[j] \in 1..n /\ b[j] < b[i + 1]
    <3>1. j \in 1..Len(b) /\ j < i + 1
      BY <1>1
    <3>. QED
      BY <1>1, <1>2, <3>1 DEF BreaksAt
  <2>. QED
    BY <2>1, <2>2
<1>4. at \in 1..(n + i) /\ at \in 1..(Len(out) + 1) /\ at \in Nat
      /\ at = b[i + 1] + i /\ b[i + 1] \in Nat
  BY <1>2, <1>3
<1>5. block \in Seq(Slides) /\ Len(block) = 1 /\ DOMAIN block = {1} /\ block[1] = quiz[i + 1]
  BY <1>1
<1>. HIDE DEF block
<1>6. r \in Seq(Slides) /\ Inserts(r, out, at, block)
  BY <1>1, <1>4, <1>5, Inserted DEF block
<1>7. /\ \A k \in 1..(at - 1) : r[k] = out[k]
      /\ \A k \in at..(n + i) : r[k + 1] = out[k]
  BY <1>2, <1>5, <1>6 DEF Inserts
<1>8. ASSUME NEW k \in DOMAIN deck, k >= b[i + 1] PROVE out[k + i] = deck[k]
  <2>1. i = 0 \/ k >= b[i]
    <3>1. CASE i # 0
      <4>1. i \in 1..i
        BY <3>1
      <4>2. b[i] \in Nat /\ b[i] < b[i + 1] /\ b[i + 1] \in Nat /\ k \in Nat
        BY <1>2, <1>3, <4>1
      <4>. QED
        BY <1>8, <4>2
    <3>. QED
      BY <3>1
  <2>. QED
    BY <2>1 DEF Closes
<1>9. ASSUME NEW j \in 1..(i + 1) PROVE r[b[j] + j] = deck[b[j]]
  <2>1. CASE j = i + 1
    <3>1. b[j] + j = at + 1 /\ at \in at..(n + i)
      <4>1. b[j] = b[i + 1]
        BY <2>1
      <4>2. b[j] + j = b[i + 1] + (i + 1)
        BY <2>1, <4>1
      <4>. QED
        BY <1>2, <1>4, <4>2
    <3>2. r[at + 1] = out[at]
      BY <1>7, <3>1
    <3>3. out[b[i + 1] + i] = deck[b[i + 1]]
      <4>1. b[i + 1] \in DOMAIN deck /\ b[i + 1] >= b[i + 1]
        BY <1>2, <1>3, <1>4
      <4>. QED
        BY <1>8, <4>1
    <3>. QED
      BY <2>1, <3>1, <3>2, <3>3
  <2>2. CASE j # i + 1
    <3>1. j \in 1..i
      BY <2>2
    <3>2. b[j] + j \in 1..(at - 1)
      BY <1>3, <3>1
    <3>3. out[b[j] + j] = deck[b[j]]
      BY <3>1 DEF Closes
    <3>. QED
      BY <1>7, <3>2, <3>3
  <2>. QED
    BY <2>1, <2>2
<1>10. ASSUME NEW p \in DOMAIN r, r[p].type = "quiz" PROVE \E j \in 1..(i + 1) : p + 1 = b[j] + j
  <2>1. \/ \E k : FromDeck(r, out, at, block, p, k)
        \/ \E j : FromBlock(r, at, block, p, j)
    BY <1>1, <1>4, <1>5, <1>6, CameFrom
  <2>2. CASE \E j : FromBlock(r, at, block, p, j)
    <3>1. PICK j : FromBlock(r, at, block, p, j)
      BY <2>2
    <3>2. p = (at - 1) + 1
      BY <1>5, <3>1 DEF FromBlock
    <3>3. p + 1 = b[i + 1] + (i + 1) /\ i + 1 \in 1..(i + 1)
      BY <1>4, <3>2
    <3>. QED
      BY <3>3
  <2>3. CASE \E k : FromDeck(r, out, at, block, p, k)
    <3>1. PICK k : FromDeck(r, out, at, block, p, k)
      BY <2>3
    <3>2. k \in DOMAIN out /\ out[k].type = "quiz"
      BY <1>10, <3>1 DEF FromDeck
    <3>3. PICK j \in 1..i : k + 1 = b[j] + j
      BY <3>2 DEF Closes
    <3>4. k \in Nat /\ b[j] \in Nat /\ b[j] < b[i + 1] /\ b[i + 1] \in Nat
      BY <1>2, <1>3, <3>2
    <3>5. k < at
      BY <3>3, <3>4
    <3>6. p = k /\ j \in 1..(i + 1)
      BY <3>1, <3>5 DEF FromDeck
    <3>. QED
      BY <3>3, <3>6
  <2>. QED
    BY <2>1, <2>2, <2>3
<1>11. ASSUME NEW k \in DOMAIN deck, k >= b[i + 1] PROVE r[k + (i + 1)] = deck[k]
  <2>1. k + i \in at..(n + i) /\ (k + i) + 1 = k + (i + 1)
    <3>. DEFINE c == b[i + 1]
    <3>1. k \in Nat /\ k <= n /\ k >= c /\ c \in Nat /\ at = c + i /\ i \in Nat /\ n \in Nat
      BY <1>2, <1>4, <1>11
    <3>. HIDE DEF c
    <3>2. k + i >= at /\ k + i <= n + i /\ (k + i) + 1 = k + (i + 1) /\ k + i \in Int
      BY ONLY <3>1
    <3>. QED
      BY <1>4, <3>1, <3>2
  <2>2. r[(k + i) + 1] = out[k + i]
    BY <1>7, <2>1
  <2>. QED
    BY <1>8, <1>11, <2>1, <2>2
<1>. QED
  BY <1>9, <1>10, <1>11 DEF Closes

LEMMA ClosesNone ==
    ASSUME NEW deck, WellMade(deck), NEW b PROVE Closes(deck, deck, b, 0)
<1>1. \A p \in DOMAIN deck : deck[p].type # "quiz" /\ p + 0 = p
  <2>1. deck \in Seq(Slides) /\ DOMAIN deck = 1..Len(deck)
    BY DEF WellMade, Made
  <2>. QED
    BY <2>1 DEF WellMade, Made, ContentTypes
<1>. QED
  BY <1>1 DEF Closes

\* The break the k-th slide goes to: round and round.
LEMMA NextBreak ==
    ASSUME NEW m \in Nat \ {0}, NEW k \in Nat \ {0}
    PROVE  /\ ((k - 1) % m) + 1 \in 1..m
           /\ k <= m => ((k - 1) % m) + 1 = k
OBVIOUS

\* Every slide a break, as long as there are.
LEMMA MergedAtBreaks ==
    ASSUME NEW deck, WellMade(deck), NEW quiz, QuizDeck(quiz),
           NEW b, b = Breaks(deck), b # <<>>, NEW r, r = MergeSlides(deck, quiz)
    PROVE  /\ Merges(r, deck, quiz, Len(quiz))
           /\ Len(quiz) <= Len(b) => Closes(r, deck, b, Len(quiz))
<1>. DEFINE n == Len(quiz)
            m == Len(b)
            S == Seq(Slides)
            Place(k) == b[((k - 1) % m) + 1] + (k - 1)
            More(out, k) == InsertBlock(out, Place(k), <<quiz[k]>>)
            Body(f) == [k \in 0..n |-> IF k = 0 THEN deck ELSE More(f[k - 1], k)]
            step == [pr \in S \X (1..n) |->
                        IF Len(pr[1]) = Len(deck) + (pr[2] - 1) THEN More(pr[1], pr[2]) ELSE pr[1]]
<1>1. /\ deck \in Seq(Slides) /\ quiz \in Seq(Slides) /\ BreaksAt(b, deck)
      /\ DOMAIN quiz = 1..n /\ EachOnce(quiz) /\ Len(deck) \in Nat /\ DOMAIN deck = 1..Len(deck)
  BY BreakPlaces DEF WellMade, Made, QuizDeck
<1>2. n \in Nat /\ m \in Nat \ {0}
  BY <1>1 DEF BreaksAt
<1>3. ASSUME NEW k \in 1..n
      PROVE  /\ Place(k) \in k..(Len(deck) + (k - 1)) /\ (Opened(deck) => Place(k) >= 2)
             /\ k <= m => Place(k) = b[k] + (k - 1)
             /\ <<quiz[k]>> \in Seq(Slides)
  <2>. DEFINE j == ((k - 1) % m) + 1
  <2>1. j \in 1..m /\ (k <= m => j = k)
    BY <1>2, NextBreak
  <2>. HIDE DEF j
  <2>2. b[j] \in 1..Len(deck) /\ deck[b[j]].type = "break"
    BY <1>1, <2>1 DEF BreaksAt
  <2>3. Opened(deck) => b[j] # 1
    BY <2>2 DEF Opened
  <2>4. Place(k) = b[j] + (k - 1)
    BY DEF j
  <2>5. <<quiz[k]>> \in Seq(Slides)
    BY <1>1
  <2>. HIDE DEF Place
  <2>. QED
    BY <1>1, <2>1, <2>2, <2>3, <2>4, <2>5
<1>. HIDE DEF Place
<1>4. ASSUME NEW out \in Seq(Slides), NEW k \in 1..n, Len(out) = Len(deck) + (k - 1)
      PROVE  More(out, k) \in Seq(Slides) /\ Place(k) \in 1..(Len(out) + 1)
  <2>1. Place(k) \in 1..(Len(out) + 1)
    BY <1>1, <1>3, <1>4
  <2>. QED
    BY <1>3, <2>1, Inserted
<1>. HIDE DEF n, More
<1>5. IsStep(step, S, n)
  <2>1. \A pr \in S \X (1..n) : pr[1] \in S /\ pr[2] \in 1..n
    OBVIOUS
  <2>. QED
    BY <1>4, <2>1 DEF IsStep
<1>6. \E g : g = Body(g)
  <2>. HIDE DEF step
  <2>1. PICK g : Iterates(g, S, deck, step, n)
    BY <1>1, <1>2, <1>5, Recursion
  <2>2. g \in [0..n -> S] /\ g[0] = deck /\ \A i \in 1..n : g[i] = step[<<g[i - 1], i>>]
    BY <2>1 DEF Iterates
  <2>3. ASSUME NEW i \in 1..n, Len(g[i - 1]) = Len(deck) + (i - 1)
        PROVE  g[i] = More(g[i - 1], i) /\ Len(g[i]) = Len(deck) + i
    <3>1. g[i - 1] \in S /\ <<g[i - 1], i>> \in S \X (1..n)
      BY <1>2, <2>2
    <3>2. g[i] = More(g[i - 1], i)
      BY <2>2, <2>3, <3>1 DEF step
    <3>3. Place(i) \in 1..(Len(g[i - 1]) + 1)
      BY <1>4, <2>3, <3>1
    <3>4. Inserts(g[i], g[i - 1], Place(i), <<quiz[i]>>)
      BY <1>3, <3>1, <3>2, <3>3, Inserted DEF More
    <3>5. Len(<<quiz[i]>>) = 1
      OBVIOUS
    <3>. QED
      BY <1>1, <2>3, <3>2, <3>4, <3>5 DEF Inserts
  <2>. DEFINE T == {i \in 0..n : Len(g[i]) = Len(deck) + i}
  <2>4. \A i \in 0..n : i \in T
    <3>1. 0 \in T
      BY <1>1, <1>2, <2>2
    <3>2. ASSUME NEW i \in 0..(n - 1), i \in T PROVE i + 1 \in T
      <4>1. i + 1 \in 1..n /\ (i + 1) - 1 = i /\ i + 1 \in 0..n
        BY <1>2
      <4>2. Len(g[(i + 1) - 1]) = Len(deck) + ((i + 1) - 1)
        BY <3>2, <4>1
      <4>. QED
        BY <2>3, <4>1, <4>2
    <3>. HIDE DEF T
    <3>. QED
      BY <1>2, <3>1, <3>2, Counting
  <2>5. ASSUME NEW i \in 1..n PROVE g[i] = More(g[i - 1], i)
    <3>1. i - 1 \in 0..n
      BY <1>2
    <3>. QED
      BY <2>3, <2>4, <3>1
  <2>6. ASSUME NEW i \in 0..n PROVE g[i] = IF i = 0 THEN deck ELSE More(g[i - 1], i)
    <3>1. CASE i = 0
      BY <2>2, <3>1
    <3>2. CASE i # 0
      <4>1. i \in 1..n
        BY <3>2
      <4>. QED
        BY <2>5, <3>2, <4>1
    <3>. QED
      BY <3>1, <3>2
  <2>7. g = Body(g)
    BY <2>2, <2>6
  <2>. QED
    BY <2>7
<1>. DEFINE f == CHOOSE f : f = Body(f)
<1>7. f = Body(f)
  BY <1>6
<1>8. r = f[n]
  BY DEF MergeSlides, More, Place, n
<1>. HIDE DEF f
<1>9. f[0] = deck /\ \A k \in 1..n : f[k] = More(f[k - 1], k)
  <2>1. \A k \in 0..n : f[k] = IF k = 0 THEN deck ELSE More(f[k - 1], k)
    BY <1>7
  <2>2. 0 \in 0..n /\ \A k \in 1..n : k \in 0..n /\ k # 0
    BY <1>2
  <2>. QED
    BY <2>1, <2>2
<1>. DEFINE T == {i \in 0..n : Merges(f[i], deck, quiz, i) /\ (i <= m => Closes(f[i], deck, b, i))}
<1>10. 0 \in T
  BY <1>2, <1>9, MergesNone, ClosesNone
<1>11. ASSUME NEW i \in 0..(n - 1), i \in T PROVE i + 1 \in T
  <2>. DEFINE k == i + 1
  <2>1. i \in Nat /\ k \in Nat /\ k \in 1..n /\ k \in 0..n /\ k - 1 = i /\ k >= i /\ k <= Len(quiz)
    BY <1>2 DEF n
  <2>2. Merges(f[i], deck, quiz, i) /\ (i <= m => Closes(f[i], deck, b, i))
    BY <1>11
  <2>3. f[i] \in Seq(Slides) /\ Len(f[i]) = Len(deck) + (k - 1)
    BY <2>1, <2>2 DEF Merges
  <2>4. f[k] = InsertBlock(f[i], Place(k), <<quiz[k]>>)
    BY <1>9, <2>1 DEF More
  <2>5. Place(k) \in 1..(Len(f[i]) + 1) /\ (Opened(deck) => Place(k) >= 2)
    BY <1>3, <1>4, <2>1, <2>3
  <2>6. /\ <<quiz[k]>> \in Seq(Slides) /\ EachOnce(<<quiz[k]>>) /\ Len(<<quiz[k]>>) = k - i
        /\ \A j \in DOMAIN <<quiz[k]>> : \E l \in (i + 1)..k : <<quiz[k]>>[j] = quiz[l]
    <3>1. <<quiz[k]>> \in Seq(Slides)
      BY <1>3, <2>1
    <3>2. DOMAIN <<quiz[k]>> = {1} /\ Len(<<quiz[k]>>) = 1 /\ <<quiz[k]>>[1] = quiz[k]
      OBVIOUS
    <3>3. k \in (i + 1)..k /\ k - i = 1
      BY <2>1
    <3>. QED
      BY <3>1, <3>2, <3>3 DEF EachOnce
  <2>7. Merges(f[k], deck, quiz, k)
    <3>. DEFINE e == <<quiz[k]>>
    <3>. HIDE DEF e
    <3>1. e \in Seq(Slides) /\ EachOnce(e) /\ Len(e) = k - i
          /\ \A j \in DOMAIN e : \E l \in (i + 1)..k : e[j] = quiz[l]
      BY <2>6 DEF e
    <3>2. f[k] = InsertBlock(f[i], Place(k), e)
      BY <2>4 DEF e
    <3>. HIDE DEF k
    <3>. QED
      BY <2>1, <2>2, <2>5, <3>1, <3>2, MergesMore
  <2>8. ASSUME k <= m PROVE Closes(f[k], deck, b, k)
    <3>1. Place(k) = b[k] + i /\ i <= m
      BY <1>2, <1>3, <2>1, <2>8
    <3>. QED
      BY <1>1, <2>1, <2>2, <2>4, <2>8, <3>1, ClosesMore
  <2>. QED
    BY <2>1, <2>7, <2>8
<1>. HIDE DEF T
<1>12. n \in T
  <2>1. \A i \in 0..n : i \in T
    BY <1>2, <1>10, <1>11, Counting
  <2>2. n \in 0..n
    BY <1>2
  <2>. QED
    BY <2>1, <2>2
<1>. QED
  BY <1>8, <1>12 DEF T, n

LEMMA Numbered ==
    ASSUME NEW n \in Nat PROVE IsFiniteSet(1..n) /\ Cardinality(1..n) = n
<1>1. 1 \in Int /\ n \in Int /\ (1 > n => n = 0) /\ (n - 1) + 1 = n
  OBVIOUS
<1>2. IsFiniteSet(1..n) /\ Cardinality(1..n) = IF 1 > n THEN 0 ELSE (n - 1) + 1
  BY <1>1, FS_Interval
<1>. QED
  BY <1>1, <1>2

LEMMA QuizzesInOrder ==
    ASSUME quizzes \subseteq QuizIds
    PROVE  /\ QuizDeck(QuizSlides) /\ Len(QuizSlides) = Cardinality(quizzes)
           /\ IsFiniteSet(quizzes) /\ Cardinality(quizzes) \in Nat
<1>. DEFINE n == Cardinality(quizzes)
            order == SetToSeq(quizzes)
            q == [k \in DOMAIN order |-> Slide(order[k], "quiz")]
<1>1. IsFiniteSet(quizzes) /\ n \in Nat
  BY AnswersAssumption, FS_Subset, FS_CardinalityType
<1>2. \E f : f \in [1..n -> quizzes] /\ IsInjective(f)
  <2>1. IsFiniteSet(1..n) /\ Cardinality(1..n) = n
    BY <1>1, Numbered
  <2>2. ExistsBijection(1..n, quizzes)
    BY <1>1, <2>1, FS_SameCardinalityBij
  <2>3. PICK f : f \in Bijection(1..n, quizzes)
    BY <2>2 DEF ExistsBijection
  <2>. QED
    BY <2>3 DEF Bijection, Injection
<1>3. order \in [1..n -> quizzes] /\ IsInjective(order)
  BY <1>2 DEF SetToSeq
<1>4. QuizSlides = q
  BY DEF QuizSlides
<1>. HIDE DEF order, n
<1>5. DOMAIN q = 1..n /\ \A k \in 1..n : order[k] \in quizzes /\ q[k] = Slide(order[k], "quiz")
  BY <1>3
<1>6. ASSUME NEW k \in 1..n
      PROVE  /\ q[k] \in Slides /\ q[k].id = order[k] /\ q[k].id \in QuizIds
             /\ q[k].type = "quiz" /\ q[k].tag = NoSection /\ q[k].people = {}
  BY <1>5, AddedSlide
<1>7. q \in [1..n -> Slides]
  <2>1. q = [k \in 1..n |-> Slide(order[k], "quiz")]
    BY <1>3
  <2>. HIDE DEF q
  <2>2. \A k \in 1..n : Slide(order[k], "quiz") \in Slides
    BY <1>5, <1>6
  <2>. QED
    BY <2>1, <2>2
<1>. HIDE DEF q
<1>8. q \in Seq(Slides) /\ Len(q) = n
  BY <1>1, <1>7
<1>9. EachOnce(q)
  BY <1>3, <1>5, <1>6 DEF EachOnce, IsInjective
<1>10. QuizDeck(q)
  BY <1>5, <1>6, <1>8, <1>9 DEF QuizDeck
<1>. QED
  BY <1>1, <1>4, <1>8, <1>10 DEF n

-----------------------------------------------------------------------------
LEMMA AppendedWhole ==
    ASSUME NEW deck \in Seq(Slides), NEW quiz \in Seq(Slides)
    PROVE  deck \o quiz = InsertBlock(deck, Len(deck) + 1, quiz)
<1>1. (Len(deck) + 1) - 1 = Len(deck) /\ Len(deck) \in Int /\ Len(deck) < Len(deck) + 1
      /\ Len(deck) + 1 \in Int
  OBVIOUS
<1>2. SubSeq(deck, 1, (Len(deck) + 1) - 1) = deck
  BY <1>1, SubSeqFull
<1>3. SubSeq(deck, Len(deck) + 1, Len(deck)) = <<>>
  BY <1>1, SubSeqEmpty
<1>4. deck \o quiz \in Seq(Slides)
  OBVIOUS
<1>5. (deck \o quiz) \o <<>> = deck \o quiz
  BY <1>4, ConcatEmptySeq
<1>6. InsertBlock(deck, Len(deck) + 1, quiz) = (deck \o quiz) \o <<>>
  BY <1>2, <1>3 DEF InsertBlock
<1>. QED
  BY <1>5, <1>6

\* Without a break they all go to the end.
LEMMA MergedAtTheEnd ==
    ASSUME NEW deck, WellMade(deck), NEW quiz, QuizDeck(quiz), Breaks(deck) = <<>>,
           NEW r, r = MergeSlides(deck, quiz)
    PROVE  Merges(r, deck, quiz, Len(quiz))
<1>. DEFINE n == Len(quiz)
            at == Len(deck) + 1
<1>1. deck \in Seq(Slides) /\ Len(deck) \in Nat /\ quiz \in Seq(Slides) /\ n \in Nat
      /\ EachOnce(quiz) /\ DOMAIN quiz = 1..n
  BY DEF WellMade, Made, QuizDeck
<1>2. r = deck \o quiz
  BY DEF MergeSlides
<1>3. r = InsertBlock(deck, at, quiz)
  BY <1>1, <1>2, AppendedWhole
<1>4. Merges(deck, deck, quiz, 0)
  BY MergesNone
<1>5. at \in 1..(Len(deck) + 1)
  BY <1>1
<1>6. Opened(deck) => at >= 2
  <2>1. SUFFICES ASSUME Opened(deck) PROVE at >= 2
    OBVIOUS
  <2>2. Len(deck) # 0
    BY <1>1, <2>1 DEF Opened
  <2>. QED
    BY <1>1, <2>2
<1>7. \A j \in DOMAIN quiz : \E k \in (0 + 1)..n : quiz[j] = quiz[k]
  BY <1>1
<1>8. n = n - 0 /\ 0 \in Nat /\ n >= 0 /\ n <= Len(quiz)
  BY <1>1
<1>. HIDE DEF at
<1>9. Merges(r, deck, quiz, n)
  <2>. HIDE DEF n
  <2>1. Len(quiz) = n - 0
    BY <1>8 DEF n
  <2>. QED
    BY <1>1, <1>3, <1>4, <1>5, <1>6, <1>7, <1>8, <2>1, MergesMore
<1>. QED
  BY <1>9

LEMMA BreaksKept ==
    ASSUME NEW deck, WellMade(deck), NEW quiz, QuizDeck(quiz), NEW r, Merges(r, deck, quiz, Len(quiz))
    PROVE  LET B == {k \in DOMAIN r : r[k].type = "break"} IN
           IsFiniteSet(B) /\ Cardinality(B) <= Len(Breaks(deck))
<1>. DEFINE B == {k \in DOMAIN r : r[k].type = "break"}
            A == {k \in DOMAIN deck : deck[k].type = "break"}
            m == [k \in B |-> CHOOSE i \in A : r[k] = deck[i]]
<1>1. deck \in Seq(Slides) /\ EachOnce(r) /\ DOMAIN quiz = 1..Len(quiz)
  BY DEF WellMade, Made, Merges, QuizDeck
<1>2. IsFiniteSet(A) /\ Cardinality(A) = Len(Breaks(deck))
  BY <1>1, BreakPlaces, BreaksCounted
<1>3. ASSUME NEW k \in B PROVE \E i \in A : r[k] = deck[i]
  <2>1. r[k].type = "break" /\ k \in DOMAIN r
    OBVIOUS
  <2>2. \A j \in 1..Len(quiz) : quiz[j].type # "break"
    BY <1>1 DEF QuizDeck
  <2>. QED
    BY <2>1, <2>2 DEF Merges
<1>4. ASSUME NEW k \in B PROVE m[k] \in A /\ r[k] = deck[m[k]]
  BY <1>3
<1>5. m \in [B -> A]
  BY <1>4
<1>6. ASSUME NEW k \in B, NEW l \in B, m[k] = m[l] PROVE k = l
  <2>1. r[k] = r[l] /\ k \in DOMAIN r /\ l \in DOMAIN r
    BY <1>4, <1>6
  <2>. QED
    BY <1>1, <2>1 DEF EachOnce
<1>7. m \in Injection(B, A)
  <2>. HIDE DEF m, A, B
  <2>. QED
    BY <1>5, <1>6 DEF Injection, IsInjective
<1>. HIDE DEF m, A, B
<1>8. IsFiniteSet(B) /\ Cardinality(B) <= Cardinality(A)
  BY <1>2, <1>7, FS_Injection
<1>. QED
  BY <1>2, <1>8 DEF B

LEMMA OncePerSlide ==
    ASSUME NEW deck \in Seq(Slides), EachOnce(deck)
    PROVE  Cardinality(IdsOf(deck)) = Len(deck)
<1>. DEFINE n == Len(deck)
            f == [k \in 1..n |-> deck[k].id]
<1>1. n \in Nat /\ DOMAIN deck = 1..n
  OBVIOUS
<1>. HIDE DEF n
<1>2. \A k \in 1..n : f[k] = deck[k].id /\ f[k] \in IdsOf(deck)
  BY <1>1 DEF IdsOf
<1>3. f \in [1..n -> IdsOf(deck)]
  BY <1>2
<1>. HIDE DEF f
<1>4. f \in Injection(1..n, IdsOf(deck))
  <2>1. \A j, k \in 1..n : f[j] = f[k] => j = k
    BY <1>1, <1>2 DEF EachOnce
  <2>. QED
    BY <1>3, <2>1 DEF Injection, IsInjective
<1>5. f \in Surjection(1..n, IdsOf(deck))
  <2>1. \A i \in IdsOf(deck) : \E k \in 1..n : f[k] = i
    BY <1>1, <1>2 DEF IdsOf
  <2>. QED
    BY <1>3, <2>1 DEF Surjection
<1>6. ExistsBijection(1..n, IdsOf(deck))
  BY <1>4, <1>5 DEF ExistsBijection, Bijection
<1>7. Cardinality(IdsOf(deck)) = Cardinality(1..n) /\ Cardinality(1..n) = n
  BY <1>1, <1>6, Numbered, FS_Bijection
<1>. QED
  BY <1>7 DEF n

-----------------------------------------------------------------------------
\* QuizzesCloseSections, of any deck.
QuizzesClose(deck) ==
    \A k \in DOMAIN deck : deck[k].type = "quiz" => deck[k + 1].type \in {"quiz", "break"}

LEMMA MergedDeck ==
    ASSUME NEW deck, WellMade(deck), NEW quiz, QuizDeck(quiz), NEW r, r = MergeSlides(deck, quiz),
           NEW p \in Plans, NEW done, KeepsPlan(deck, done, p)
    PROVE  /\ r \in Seq(Slides) /\ EachOnce(r) /\ NoneHollow(r) /\ (Opened(deck) => Opened(r))
           /\ IdsOf(deck) \subseteq IdsOf(r) /\ KeepsPlan(r, done, p)
           /\ Len(quiz) <= Cardinality({k \in DOMAIN r : r[k].type = "break"}) => QuizzesClose(r)
<1>. DEFINE b == Breaks(deck)
            m == Cardinality({k \in DOMAIN r : r[k].type = "break"})
<1>1. deck \in Seq(Slides) /\ BreaksAt(b, deck) /\ Len(b) \in Nat /\ Len(quiz) \in Nat
      /\ DOMAIN quiz = 1..Len(quiz)
  BY BreakPlaces DEF WellMade, Made, BreaksAt, QuizDeck
<1>2. Merges(r, deck, quiz, Len(quiz))
  BY MergedAtTheEnd, MergedAtBreaks
<1>3. NoneHollow(r) /\ (Opened(deck) => Opened(r)) /\ KeepsPlan(r, done, p)
  BY <1>2, MergedKeeps
<1>4. IsFiniteSet({k \in DOMAIN r : r[k].type = "break"}) /\ m <= Len(b)
  BY <1>2, BreaksKept
<1>5. ASSUME Len(quiz) <= m PROVE QuizzesClose(r)
  <2>1. m \in Nat
    BY <1>4, FS_CardinalityType
  <2>. HIDE DEF m
  <2>2. Len(quiz) <= Len(b)
    BY <1>1, <1>4, <1>5, <2>1
  <2>. HIDE DEF b
  <2>3. CASE b = <<>>
    <3>1. Len(quiz) = 0
      BY <1>1, <2>2, <2>3
    <3>2. \A k \in DOMAIN r : \E j \in DOMAIN deck : r[k] = deck[j]
      BY <1>2, <3>1 DEF Merges
    <3>3. \A j \in DOMAIN deck : deck[j].type # "quiz"
      BY DEF WellMade, Made, ContentTypes
    <3>. QED
      BY <3>2, <3>3 DEF QuizzesClose
  <2>4. CASE b # <<>>
    <3>1. Closes(r, deck, b, Len(quiz))
      BY <2>2, <2>4, MergedAtBreaks DEF b
    <3>2. SUFFICES ASSUME NEW k \in DOMAIN r, r[k].type = "quiz" PROVE r[k + 1].type = "break"
      BY DEF QuizzesClose
    <3>3. PICK j \in 1..Len(quiz) : k + 1 = b[j] + j
      BY <3>1, <3>2 DEF Closes
    <3>4. j \in 1..Len(b)
      BY <1>1, <2>2
    <3>5. r[b[j] + j] = deck[b[j]] /\ deck[b[j]].type = "break"
      BY <1>1, <3>1, <3>4 DEF Closes, BreaksAt
    <3>. QED
      BY <3>3, <3>5
  <2>. QED
    BY <2>3, <2>4
<1>6. IdsOf(deck) \subseteq IdsOf(r)
  BY <1>2 DEF Merges, IdsOf
<1>. QED
  BY <1>2, <1>3, <1>5, <1>6 DEF Merges

LEMMA EmergencyUnmerged ==
    ASSUME NEW quiz, QuizDeck(quiz), Len(quiz) = 0
    PROVE  MergeSlides(EmergencyDeck, quiz) = EmergencyDeck
<1>1. quiz = <<>>
  BY DEF QuizDeck
<1>2. /\ EmergencyDeck \in Seq(Slides) /\ DOMAIN EmergencyDeck = {1, 2}
      /\ \A k \in DOMAIN EmergencyDeck : EmergencyDeck[k].type # "break"
  BY AddedSlide DEF EmergencyDeck
<1>3. BreaksAt(Breaks(EmergencyDeck), EmergencyDeck)
  BY <1>2, BreakPlaces
<1>4. Breaks(EmergencyDeck) = <<>>
  <2>. DEFINE b == Breaks(EmergencyDeck)
  <2>1. b \in Seq(Nat) /\ ~ \E j \in 1..Len(b) : TRUE
    BY <1>2, <1>3 DEF BreaksAt
  <2>. HIDE DEF b
  <2>2. Len(b) \in Nat
    BY <2>1
  <2>3. Len(b) = 0
    BY <2>1, <2>2
  <2>4. b = <<>>
    BY <2>1, <2>3, EmptySeq
  <2>. QED
    BY <2>4 DEF b
<1>5. MergeSlides(EmergencyDeck, quiz) = EmergencyDeck \o quiz
  BY <1>4 DEF MergeSlides
<1>. QED
  BY <1>1, <1>2, <1>5, ConcatEmptySeq

Judging == {"first", "regen", "again1", "again2", "entry", "brain", "apply", "check1", "check2",
            "interact"}

LEMMA KeepsPlanNow == PlanIsKept <=> KeepsPlan(slides, rewritten, plan)
BY DEF PlanIsKept, KeepsPlan

LEMMA KeepsPlanNext == PlanIsKept' <=> KeepsPlan(slides', rewritten', plan')
BY DEF PlanIsKept, KeepsPlan

LEMMA NotShipped == ASSUME pc' # "shipped" PROVE ShippedDeckIsSound'
BY DEF ShippedDeckIsSound, Shipped

\* While it is judged, a deck is one of the writer's.
LEMMA UnderJudgement ==
    ASSUME DeckInv, pc \in Judging
    PROVE  /\ ~emergency /\ WellMade(slides) /\ (failing = {} => Opened(slides))
           /\ KeepsPlan(slides, rewritten, plan) /\ plan \in Plans
<1>1. pc \in Written /\ pc \notin {"gate", "merge", "repair", "plan", "raised"}
  BY DEF Judging, Written, Stages, ModelStages, CriticStages, Ended
<1>2. WrittenInv /\ StageInv
  BY DEF DeckInv
<1>. QED
  BY <1>1, <1>2, KeepsPlanNow DEF WrittenInv, StageInv

LEMMA Judged ==
    ASSUME DeckInv, UNCHANGED <<slides, quizzes, gateVars, rewritten>>,
           pc \in Judging, pc' \in Judging \cup {"raised"}
    PROVE  WrittenInv' /\ ShippedDeckIsSound'
<1>1. UNCHANGED <<slides, quizzes, plan, emergency, failing, rewritten>>
  BY DEF gateVars
<1>2. pc' # "shipped" /\ pc' \notin {"gate", "merge"}
  BY DEF Judging
<1>3. WrittenInv'
  BY <1>1, UnderJudgement, KeepsPlanNext DEF WrittenInv
<1>. QED
  BY <1>2, <1>3, NotShipped

\* What a pass of the critic may find is on slides of the deck.
LEMMA VerdictType ==
    ASSUME DeckInv, pc \in Judging, NEW v \in Verdicts
    PROVE  /\ v \in Outcomes /\ Flagged(v.hits) \subseteq IdsOf(slides)
           /\ HardStops(v.hits) \subseteq Findings
           /\ Flagged(HardStops(v.hits)) \subseteq Flagged(v.hits)
<1>1. WellMade(slides)
  BY UnderJudgement
<1>2. IdsOf(slides) \subseteq Ids \cup {TitleId}
  BY <1>1 DEF WellMade, Made
<1>3. v \in Outcomes /\ Flagged(v.hits) \subseteq IdsOf(slides)
  <2>1. CASE v = NoVerdict
    BY <2>1 DEF NoVerdict, Outcomes, Flagged
  <2>2. CASE \E r \in Readings : v = [ok |-> TRUE, hits |-> Failures(r, slides, claims)]
    <3>1. PICK r \in Readings : v = [ok |-> TRUE, hits |-> Failures(r, slides, claims)]
      BY <2>2
    <3>2. r \subseteq [handle : Nat, token : Tokens \cup {Clash}]
      BY AnswersAssumption
    <3>3. \A f \in r : Grounded(f, slides, claims) =>
            slides[f.handle].id \in IdsOf(slides) /\ f.token \in Tokens \cup {Clash}
      BY <3>2 DEF Grounded, IdsOf
    <3>4. Failures(r, slides, claims) \subseteq [slide : IdsOf(slides), token : Tokens \cup {Clash}]
      BY <3>3 DEF Failures
    <3>. QED
      BY <1>2, <3>1, <3>4 DEF Outcomes, Flagged
  <2>. QED
    BY <2>1, <2>2 DEF Verdicts
<1>4. HardStops(v.hits) \subseteq Findings
  BY <1>3 DEF Outcomes, HardStops, Findings
<1>5. Flagged(HardStops(v.hits)) \subseteq Flagged(v.hits)
  BY DEF Flagged, HardStops
<1>. QED
  BY <1>3, <1>4, <1>5

LEMMA ReadsType ==
    ASSUME EditorialTypeOK, NEW v, HardStops(v.hits) \subseteq Findings, Reads(v)
    PROVE  alarmed' \in BOOLEAN /\ known' \subseteq Findings /\ quiet' \in 0..2
BY DEF EditorialTypeOK, Reads

LEMMA FlaggedBoth == \A S, T : Flagged(S \cup T) = Flagged(S) \cup Flagged(T)
BY DEF Flagged

-----------------------------------------------------------------------------
LEMMA DeckStart == ASSUME EditorialInit PROVE DeckInv
<1>1. IdsOf(<<>>) = {} /\ <<>> \in Seq(Slides)
  BY EmptySeq DEF IdsOf
<1>2. EditorialTypeOK
  <2>1. NoVerdict \in Outcomes
    BY DEF NoVerdict, Outcomes
  <2>2. 0 \in 0..MaxAttempts
    BY EditorialAssumption
  <2>3. /\ pc \in Stages /\ retried \in BOOLEAN /\ plan \in Plans \cup {NoPlan} /\ replanned \in BOOLEAN
        /\ claims \in ClaimSets \cup {NoClaims} /\ slides \in Seq(Slides)
        /\ emergency \in BOOLEAN /\ applied \in BOOLEAN /\ failing \subseteq Nat
    BY <1>1 DEF EditorialInit, Stages, ModelStages
  <2>4. /\ todo \subseteq IdsOf(slides) /\ rewritten \subseteq IdsOf(slides)
        /\ standing \subseteq Findings /\ quizzes \subseteq QuizIds /\ known \subseteq Findings
    BY DEF EditorialInit
  <2>5. half \in Outcomes
    BY <2>1 DEF EditorialInit
  <2>6. attempts \in 0..MaxAttempts /\ alarmed \in BOOLEAN /\ quiet \in 0..2
    <3>1. attempts = 0 /\ alarmed = FALSE /\ quiet = 0
      BY DEF EditorialInit
    <3>2. attempts \in 0..MaxAttempts
      BY <2>2, <3>1
    <3>3. alarmed \in BOOLEAN
      BY <3>1
    <3>4. quiet \in 0..2
      BY <3>1
    <3>. QED
      BY <3>2, <3>3, <3>4
  <2>. QED
    BY <2>3, <2>4, <2>5, <2>6 DEF EditorialTypeOK
<1>3. StageInv
  BY <1>1 DEF EditorialInit, StageInv, NoVerdict, Flagged, Early
<1>4. WrittenInv /\ ShippedDeckIsSound
  BY DEF EditorialInit, WrittenInv, Written, ShippedDeckIsSound, Shipped
<1>. QED
  BY <1>2, <1>3, <1>4 DEF DeckInv

\* A step that at most gives up, or has its call repeated.
LEMMA DeckRests ==
    ASSUME DeckInv, UNCHANGED <<slides, quizzes, gateVars, repairVars, historyVars>>,
           pc' = pc \/ pc' = "raised", retried' \in BOOLEAN
    PROVE  DeckInv'
<1>1. /\ UNCHANGED <<slides, quizzes, plan, replanned, claims, emergency, failing>>
      /\ UNCHANGED <<todo, rewritten, half, standing, attempts, applied, alarmed, known, quiet>>
  BY DEF gateVars, repairVars, historyVars
<1>2. EditorialTypeOK'
  BY <1>1 DEF DeckInv, EditorialTypeOK, Stages, Ended
<1>3. StageInv'
  BY <1>1 DEF DeckInv, StageInv, Ended, Early
<1>4. PlanIsKept' <=> PlanIsKept
  BY <1>1, KeepsPlanNow, KeepsPlanNext
<1>5. WrittenInv'
  BY <1>1, <1>4 DEF DeckInv, WrittenInv, Written, Ended
<1>6. ShippedDeckIsSound'
  <2>1. CASE pc' = "raised"
    BY <2>1, NotShipped
  <2>2. CASE pc' = pc
    BY <1>1, <1>4, <2>2 DEF DeckInv, ShippedDeckIsSound, Shipped, QuizzesCloseSections
  <2>. QED
    BY <2>1, <2>2
<1>. QED
  BY <1>2, <1>3, <1>5, <1>6 DEF DeckInv

LEMMA PlanStep == ASSUME DeckInv, Plan PROVE DeckInv'
<1>1. /\ pc = "plan" /\ plan' \in Plans /\ pc' \in {"draft", "raised", "plan"}
      /\ retried' = FALSE /\ replanned' \in BOOLEAN
      /\ UNCHANGED <<slides, quizzes, claims, emergency, failing>>
      /\ UNCHANGED <<todo, rewritten, half, standing, attempts, applied, alarmed, known, quiet>>
  BY DEF Plan, Goto, repairVars, historyVars, DeckInv, EditorialTypeOK
<1>2. EditorialTypeOK'
  BY <1>1 DEF DeckInv, EditorialTypeOK, Stages, ModelStages, Ended
<1>3. StageInv'
  BY <1>1 DEF DeckInv, StageInv, Ended, Early
<1>4. WrittenInv'
  BY <1>1 DEF WrittenInv, Written, Ended
<1>. QED
  BY <1>1, <1>2, <1>3, <1>4, NotShipped DEF DeckInv

LEMMA DraftStep == ASSUME DeckInv, Draft PROVE DeckInv'
<1>1. PICK d \in Drafts \cup {<<>>} :
        slides' = PostProcess(MaterialisedAll(d, plan)) /\ emergency' = (d = <<>>)
  BY DEF Draft, Answers
<1>2. /\ pc = "draft" /\ pc' = "gate" /\ retried' = FALSE
      /\ UNCHANGED <<quizzes, plan, replanned, claims, failing>>
      /\ UNCHANGED <<todo, rewritten, half, standing, attempts, applied, alarmed, known, quiet>>
  BY DEF Draft, Goto, repairVars, historyVars
<1>3. /\ plan \in Plans /\ failing = {} /\ quizzes = {} /\ todo = {} /\ rewritten = {}
      /\ half = NoVerdict /\ standing = {}
  BY <1>2 DEF DeckInv, StageInv, Early, Ended
<1>4. /\ Made(MaterialisedAll(d, plan), Ids)
      /\ MaterialisedAll(d, plan) = <<>> <=> d = <<>>
  BY <1>3, MaterialisedDeck
<1>5. IF emergency' THEN slides' = EmergencyDeck ELSE WellMade(slides') /\ Opened(slides')
  BY <1>1, <1>4, PostProcessed DEF PostProcess
<1>6. slides' \in Seq(Slides)
  <2>1. EmergencyDeck \in Seq(Slides)
    BY AddedSlide DEF EmergencyDeck
  <2>. QED
    BY <1>5, <2>1 DEF WellMade, Made
<1>7. EditorialTypeOK'
  <2>1. emergency' \in BOOLEAN
    BY <1>1
  <2>. QED
    BY <1>2, <1>3, <1>6, <2>1 DEF DeckInv, EditorialTypeOK, Stages
<1>8. StageInv'
  <2>1. attempts = 0 /\ attempts' = attempts
    BY <1>2 DEF DeckInv, StageInv, Early
  <2>. QED
    BY <1>2, <1>3, <2>1 DEF StageInv, NoVerdict, Flagged
<1>9. WrittenInv'
  BY <1>2, <1>3, <1>5 DEF WrittenInv
<1>. QED
  BY <1>2, <1>7, <1>8, <1>9, NotShipped DEF DeckInv

LEMMA FailingSectionsType ==
    ASSUME NEW deck \in Seq(Slides), NEW p \in Plans PROVE FailingSections(deck, p) \subseteq Nat
<1>1. p.wants \in Seq(SUBSET Persons)
  BY AnswersAssumption
<1>2. Sections(p) \subseteq Nat
  BY <1>1 DEF Sections
<1>3. \A s \in Offending(deck, p) : s.tag \in Nat
  <2>1. \A k \in DOMAIN deck : deck[k] \in Slides
    OBVIOUS
  <2>2. \A s \in Slides : s.tag \in Nat
    BY DEF Slides
  <2>. QED
    BY <2>1, <2>2 DEF Offending
<1>. QED
  BY <1>2, <1>3 DEF FailingSections, Uncovered, Substituted

LEMMA GateStep == ASSUME DeckInv, Gate PROVE DeckInv'
<1>1. /\ pc = "gate" /\ retried' = FALSE
      /\ failing' = IF emergency THEN {} ELSE FailingSections(slides, plan)
      /\ pc' = IF emergency THEN "merge"
               ELSE IF DeckPasses(slides, plan) THEN AfterGate
               ELSE IF failing' = {} THEN "raised" ELSE "repair"
      /\ UNCHANGED <<slides, quizzes, plan, replanned, claims, emergency>>
      /\ UNCHANGED <<todo, rewritten, half, standing, attempts, applied, alarmed, known, quiet>>
  BY DEF Gate, Goto, repairVars, historyVars
<1>2. /\ plan \in Plans /\ failing = {} /\ quizzes = {} /\ todo = {} /\ rewritten = {}
      /\ half = NoVerdict /\ standing = {}
  BY <1>1 DEF DeckInv, StageInv, Early, Ended
<1>3. AfterGate \in {"first", "interact"}
  BY DEF AfterGate
<1>4. pc \in Written
  BY <1>1 DEF Written, Stages, Ended
<1>5. IF emergency THEN slides = EmergencyDeck ELSE WellMade(slides) /\ Opened(slides)
  BY <1>2, <1>4 DEF DeckInv, WrittenInv
<1>6. EditorialTypeOK'
  <2>1. failing' \subseteq Nat
    BY <1>1, <1>2, FailingSectionsType DEF DeckInv, EditorialTypeOK
  <2>. QED
    BY <1>1, <1>3, <2>1 DEF DeckInv, EditorialTypeOK, Stages, ModelStages, CriticStages, Ended
<1>7. StageInv'
  <2>1. attempts = 0 /\ attempts' = attempts
    BY <1>1 DEF DeckInv, StageInv, Early
  <2>. QED
    BY <1>1, <1>2, <1>3, <2>1 DEF StageInv, NoVerdict, Flagged
<1>8. WrittenInv'
  <2>1. DeckPasses(slides, plan) => KeepsPlan(slides, rewritten, plan)
    BY DEF DeckPasses, KeepsPlan
  <2>2. CASE emergency
    <3>1. pc' = "merge" /\ emergency' /\ slides' = EmergencyDeck /\ quizzes' = {} /\ failing' = {}
      BY <1>1, <1>2, <1>5, <2>2
    <3>. QED
      BY <3>1 DEF WrittenInv
  <2>3. CASE ~emergency
    <3>1. ~emergency' /\ WellMade(slides') /\ Opened(slides')
      BY <1>1, <1>5, <2>3
    <3>2. pc' \in Written \ {"gate", "repair"} => KeepsPlan(slides', rewritten', plan')
      BY <1>1, <2>1, <2>3 DEF Written, Ended
    <3>. QED
      BY <3>1, <3>2, KeepsPlanNext DEF WrittenInv
  <2>. QED
    BY <2>2, <2>3
<1>9. pc' # "shipped"
  BY <1>1, <1>3
<1>. QED
  BY <1>6, <1>7, <1>8, <1>9, NotShipped DEF DeckInv

LEMMA RepairStep == ASSUME DeckInv, Repair PROVE DeckInv'
<1>1. PICK d \in Drafts \cup {<<>>} :
        /\ IdsOf(d) \cap IdsOf(slides) = {}
        /\ slides' = PostProcessRepaired(
                         SpliceSections(slides, MaterialisedAll(d, plan), failing, plan))
  BY DEF Repair, Answers
<1>2. /\ pc = "repair" /\ retried' = FALSE
      /\ pc' = IF DeckPasses(slides', plan) THEN AfterGate ELSE "raised"
      /\ UNCHANGED <<quizzes, plan, replanned, claims, emergency, failing>>
      /\ UNCHANGED <<todo, rewritten, half, standing, attempts, applied, alarmed, known, quiet>>
  BY DEF Repair, Goto, gateVars, repairVars, historyVars
<1>3. /\ plan \in Plans /\ failing # {} /\ quizzes = {} /\ todo = {} /\ rewritten = {}
      /\ half = NoVerdict /\ standing = {}
  BY <1>2 DEF DeckInv, StageInv, Early, Ended
<1>4. AfterGate \in {"first", "interact"}
  BY DEF AfterGate
<1>5. pc \in Written
  BY <1>2 DEF Written, Stages, ModelStages, Ended
<1>6. ~emergency /\ WellMade(slides)
  BY <1>2, <1>5 DEF DeckInv, WrittenInv
<1>7. WellMade(slides')
  BY <1>1, <1>3, <1>6, RepairedDeck
<1>8. EditorialTypeOK'
  <2>1. slides' \in Seq(Slides)
    BY <1>7 DEF WellMade, Made
  <2>. QED
    BY <1>2, <1>3, <1>4, <2>1 DEF DeckInv, EditorialTypeOK, Stages, ModelStages, CriticStages, Ended
<1>9. StageInv'
  <2>1. attempts = 0 /\ attempts' = attempts
    BY <1>2 DEF DeckInv, StageInv, Early
  <2>. QED
    BY <1>2, <1>3, <1>4, <2>1 DEF StageInv, NoVerdict, Flagged
<1>10. WrittenInv'
  <2>1. DeckPasses(slides', plan) => KeepsPlan(slides', rewritten, plan)
    BY DEF DeckPasses, KeepsPlan
  <2>2. ~emergency' /\ WellMade(slides') /\ failing' # {}
    BY <1>2, <1>3, <1>6, <1>7
  <2>3. pc' \in Written => KeepsPlan(slides', rewritten', plan')
    BY <1>2, <2>1 DEF Written, Ended
  <2>. QED
    BY <2>2, <2>3, KeepsPlanNext DEF WrittenInv
<1>11. pc' # "shipped"
  BY <1>2, <1>4
<1>. QED
  BY <1>8, <1>9, <1>10, <1>11, NotShipped DEF DeckInv

LEMMA CritiqueDeck == ASSUME DeckInv, Critique PROVE DeckInv'
<1>1. PICK v \in Verdicts :
        /\ Reads(v) /\ todo' = Flagged(v.hits) /\ standing' = HardStops(v.hits)
        /\ Goto(IF v.hits = {} THEN "interact" ELSE "regen")
  BY DEF Critique
<1>2. /\ pc = "first" /\ retried' = FALSE /\ pc' \in {"interact", "regen"}
      /\ UNCHANGED <<slides, quizzes, plan, replanned, claims, emergency, failing>>
      /\ UNCHANGED <<rewritten, half, attempts, applied>>
  BY <1>1 DEF Critique, Goto, gateVars
<1>3. pc \in Judging /\ pc' \in Judging \cup {"raised"}
  BY <1>2 DEF Judging
<1>4. /\ v \in Outcomes /\ Flagged(v.hits) \subseteq IdsOf(slides)
      /\ HardStops(v.hits) \subseteq Findings
      /\ Flagged(HardStops(v.hits)) \subseteq Flagged(v.hits)
  BY <1>3, VerdictType
<1>5. alarmed' \in BOOLEAN /\ known' \subseteq Findings /\ quiet' \in 0..2
  BY <1>1, <1>4, ReadsType DEF DeckInv
<1>6. EditorialTypeOK'
  BY <1>1, <1>2, <1>4, <1>5 DEF DeckInv, EditorialTypeOK, Stages, ModelStages, CriticStages
<1>7. StageInv'
  <2>1. Flagged(half.hits) \subseteq IdsOf(slides) /\ attempts = 0 /\ quizzes = {} /\ plan \in Plans
    BY <1>2, FlaggedBoth DEF DeckInv, StageInv, Ended
  <2>2. Flagged(half'.hits \cup standing') \subseteq IdsOf(slides')
    BY <1>1, <1>2, <1>4, <2>1, FlaggedBoth
  <2>. QED
    BY <1>2, <2>1, <2>2 DEF StageInv, Early
<1>8. WrittenInv' /\ ShippedDeckIsSound'
  BY <1>2, <1>3, Judged DEF gateVars
<1>. QED
  BY <1>6, <1>7, <1>8 DEF DeckInv

LEMMA FirstHalfDeck ==
    ASSUME DeckInv, NEW s \in {"again1", "check1"}, NEW t \in {"again2", "check2"},
           s = "again1" <=> t = "again2", FirstHalf(s, t)
    PROVE  DeckInv'
<1>1. PICK v \in Verdicts : Reads(v) /\ half' = v
  BY DEF FirstHalf
<1>2. /\ pc = s /\ retried' = FALSE /\ pc' = t
      /\ UNCHANGED <<slides, quizzes, plan, replanned, claims, emergency, failing>>
      /\ UNCHANGED <<todo, rewritten, standing, attempts, applied>>
  BY DEF FirstHalf, Goto, gateVars
<1>3. pc \in Judging /\ pc' \in Judging \cup {"raised"}
  BY <1>2 DEF Judging
<1>4. /\ v \in Outcomes /\ Flagged(v.hits) \subseteq IdsOf(slides)
      /\ HardStops(v.hits) \subseteq Findings
  BY <1>3, VerdictType
<1>5. alarmed' \in BOOLEAN /\ known' \subseteq Findings /\ quiet' \in 0..2
  BY <1>1, <1>4, ReadsType DEF DeckInv
<1>6. EditorialTypeOK'
  BY <1>1, <1>2, <1>4, <1>5 DEF DeckInv, EditorialTypeOK, Stages, ModelStages, CriticStages
<1>7. StageInv'
  <2>1. /\ Flagged(standing) \subseteq IdsOf(slides) /\ (t = "again2" => attempts = 0)
        /\ quizzes = {} /\ plan \in Plans
    BY <1>2, FlaggedBoth DEF DeckInv, StageInv, Ended
  <2>2. Flagged(half'.hits \cup standing') \subseteq IdsOf(slides')
    BY <1>1, <1>2, <1>4, <2>1, FlaggedBoth
  <2>. QED
    BY <1>2, <2>1, <2>2 DEF StageInv, Early
<1>8. WrittenInv' /\ ShippedDeckIsSound'
  BY <1>2, <1>3, Judged DEF gateVars
<1>. QED
  BY <1>6, <1>7, <1>8 DEF DeckInv

\* What both passes together may leave.
LEMMA SecondHalf ==
    ASSUME DeckInv, pc \in Judging, NEW v \in Verdicts, NEW S,
           S \subseteq standing \cup HardStops(Union(v).hits)
    PROVE  S \subseteq Findings /\ Flagged(S) \subseteq IdsOf(slides)
<1>1. v \in Outcomes /\ Flagged(v.hits) \subseteq IdsOf(slides)
  BY VerdictType
<1>2. half \in Outcomes /\ standing \subseteq Findings
      /\ Flagged(half.hits) \subseteq IdsOf(slides) /\ Flagged(standing) \subseteq IdsOf(slides)
  BY FlaggedBoth DEF DeckInv, StageInv, EditorialTypeOK
<1>3. HardStops(Union(v).hits) \subseteq Findings
  BY <1>1, <1>2 DEF Union, HardStops, Outcomes, Findings
<1>4. Flagged(HardStops(Union(v).hits)) \subseteq IdsOf(slides)
  BY <1>1, <1>2 DEF Union, HardStops, Flagged
<1>5. Flagged(S) \subseteq IdsOf(slides)
  BY <1>2, <1>4 DEF Flagged
<1>. QED
  BY <1>2, <1>3, <1>5

LEMMA SecondHalfDeck ==
    ASSUME DeckInv, pc \in Judging, pc' \in Judging \cup {"raised"}, retried' = FALSE,
           NEW v \in Verdicts, Reads(v), standing' \subseteq standing \cup HardStops(Union(v).hits),
           half' \in {half, NoVerdict},
           UNCHANGED <<slides, quizzes, gateVars, todo, rewritten, attempts, applied>>,
           pc' \in {"first", "regen", "again1", "again2", "entry"} => attempts = 0,
           pc' \in {"brain", "apply"} => attempts < MaxAttempts
    PROVE  DeckInv'
<1>1. /\ UNCHANGED <<slides, quizzes, plan, replanned, claims, emergency, failing>>
      /\ UNCHANGED <<todo, rewritten, attempts, applied>>
  BY DEF gateVars
<1>2. standing' \subseteq Findings /\ Flagged(standing') \subseteq IdsOf(slides)
  BY SecondHalf
<1>3. HardStops(v.hits) \subseteq Findings
  BY VerdictType
<1>4. alarmed' \in BOOLEAN /\ known' \subseteq Findings /\ quiet' \in 0..2
  BY <1>3, ReadsType DEF DeckInv
<1>5. NoVerdict \in Outcomes /\ Flagged(NoVerdict.hits) = {}
  BY DEF NoVerdict, Outcomes, Flagged
<1>6. pc' \in Stages
  BY DEF Judging, Stages, ModelStages, CriticStages, Ended
<1>7. EditorialTypeOK'
  BY <1>1, <1>2, <1>4, <1>5, <1>6 DEF DeckInv, EditorialTypeOK
<1>8. StageInv'
  <2>1. Flagged(half.hits) \subseteq IdsOf(slides) /\ quizzes = {}
    BY FlaggedBoth DEF DeckInv, StageInv, Ended, Judging
  <2>2. Flagged(half'.hits \cup standing') \subseteq IdsOf(slides')
    BY <1>1, <1>2, <1>5, <2>1, FlaggedBoth
  <2>3. plan \in Plans
    BY UnderJudgement
  <2>. QED
    BY <1>1, <2>1, <2>2, <2>3 DEF StageInv, Early, Judging
<1>9. WrittenInv' /\ ShippedDeckIsSound'
  BY <1>1, Judged DEF gateVars
<1>. QED
  BY <1>7, <1>8, <1>9 DEF DeckInv

LEMMA RejudgeDeck == ASSUME DeckInv, Rejudge \/ RejudgeAgain PROVE DeckInv'
<1>1. CASE Rejudge
  BY <1>1, FirstHalfDeck DEF Rejudge
<1>2. CASE RejudgeAgain
  <2>1. PICK v \in Verdicts : Reads(v) /\ standing' = Residual(Union(v))
    BY <1>2 DEF RejudgeAgain
  <2>2. /\ pc = "again2" /\ pc' \in {"interact", "entry"} /\ retried' = FALSE /\ half' = NoVerdict
        /\ UNCHANGED <<slides, quizzes, gateVars, todo, rewritten, attempts, applied>>
    BY <1>2 DEF RejudgeAgain, Goto
  <2>3. standing' \subseteq standing \cup HardStops(Union(v).hits)
    BY <2>1 DEF Residual
  <2>4. pc \in Judging /\ pc' \in Judging \cup {"raised"}
    BY <2>2 DEF Judging
  <2>5. attempts = 0
    BY <2>2 DEF DeckInv, StageInv
  <2>. QED
    BY <2>1, <2>2, <2>3, <2>4, <2>5, SecondHalfDeck
<1>. QED
  BY <1>1, <1>2

LEMMA RecheckDeck == ASSUME DeckInv, Recheck \/ RecheckAgain PROVE DeckInv'
<1>1. CASE Recheck
  BY <1>1, FirstHalfDeck DEF Recheck
<1>2. CASE RecheckAgain
  <2>1. PICK v \in Verdicts :
            /\ Reads(v) /\ standing' = Surviving(Union(v))
            /\ Goto(IF standing' = {} THEN "interact"
                    ELSE IF MayTryAgain(Union(v)) THEN "brain" ELSE "raised")
    BY <1>2 DEF RecheckAgain
  <2>2. /\ pc = "check2" /\ half' = NoVerdict /\ retried' = FALSE
        /\ pc' \in {"interact", "brain", "raised"} /\ (pc' = "brain" => attempts < MaxAttempts)
        /\ UNCHANGED <<slides, quizzes, gateVars, todo, rewritten, attempts, applied>>
    BY <1>2, <2>1 DEF RecheckAgain, Goto, MayTryAgain
  <2>3. standing' \subseteq standing \cup HardStops(Union(v).hits)
    BY <2>1 DEF Surviving
  <2>4. pc \in Judging /\ pc' \in Judging \cup {"raised"}
    BY <2>2 DEF Judging
  <2>. QED
    BY <2>1, <2>2, <2>3, <2>4, SecondHalfDeck
<1>. QED
  BY <1>1, <1>2

LEMMA BrainEntryDeck == ASSUME DeckInv, BrainEntry PROVE DeckInv'
<1>1. PICK v \in Verdicts : Reads(v) /\ standing' = standing \cup HardStops(v.hits)
  BY DEF BrainEntry
<1>2. /\ pc = "entry" /\ pc' = "brain" /\ half' = half /\ retried' = FALSE
      /\ UNCHANGED <<slides, quizzes, gateVars, todo, rewritten, attempts, applied>>
  BY DEF BrainEntry, Goto
<1>3. standing' \subseteq standing \cup HardStops(Union(v).hits)
  BY <1>1 DEF HardStops, Union
<1>4. pc \in Judging /\ pc' \in Judging \cup {"raised"}
  BY <1>2 DEF Judging
<1>5. attempts = 0 /\ attempts < MaxAttempts
  BY <1>2, EditorialAssumption DEF DeckInv, StageInv
<1>. QED
  BY <1>1, <1>2, <1>3, <1>4, <1>5, SecondHalfDeck

-----------------------------------------------------------------------------
\* One slide of those still to do is done, and nothing else happens.
LEMMA LessToDo ==
    ASSUME DeckInv, pc \in {"regen", "apply"}, pc' = pc, retried' = FALSE,
           todo' \subseteq todo, applied' \in BOOLEAN,
           UNCHANGED <<slides, quizzes, gateVars, rewritten, half, standing, attempts, historyVars>>
    PROVE  DeckInv'
<1>1. /\ UNCHANGED <<slides, quizzes, plan, replanned, claims, emergency, failing>>
      /\ UNCHANGED <<rewritten, half, standing, attempts, alarmed, known, quiet>>
  BY DEF gateVars, historyVars
<1>2. EditorialTypeOK'
  BY <1>1 DEF DeckInv, EditorialTypeOK
<1>3. StageInv'
  BY <1>1 DEF DeckInv, StageInv, Early
<1>4. WrittenInv' /\ ShippedDeckIsSound'
  BY <1>1, Judged DEF gateVars, Judging
<1>. QED
  BY <1>2, <1>3, <1>4 DEF DeckInv

\* A rewrite that passes its checks takes the place of its target, with its id, type
\* and section, and portrays nobody it may not.
LEMMA AcceptsDeck ==
    ASSUME DeckInv, NEW s \in {"regen", "apply"}, Accepts(s), applied' \in BOOLEAN
    PROVE  DeckInv'
<1>1. PICK id \in todo, r \in Rewrites :
        /\ Regenerate(s, id)
        /\ RegenPasses(Rewritten(SlideOf(slides, id), r, plan), SlideOf(slides, id), plan)
        /\ Splice(Rewritten(SlideOf(slides, id), r, plan))
  BY DEF Accepts
<1>. DEFINE target == SlideOf(slides, id)
            new == Rewritten(target, r, plan)
            m == Materialised([r EXCEPT !.id = target.id], plan)
<1>2. /\ pc = s /\ pc' = s /\ retried' = FALSE /\ todo' = todo \ {id}
      /\ UNCHANGED <<quizzes, plan, replanned, claims, emergency, failing>>
      /\ UNCHANGED <<half, standing, attempts, alarmed>>
  BY <1>1 DEF Regenerate, Goto, gateVars
<1>3. pc \in Judging
  BY <1>2 DEF Judging
<1>4. /\ ~emergency /\ WellMade(slides) /\ (failing = {} => Opened(slides))
      /\ KeepsPlan(slides, rewritten, plan) /\ plan \in Plans
  BY <1>3, UnderJudgement
<1>5. todo \subseteq IdsOf(slides) /\ slides \in Seq(Slides)
  BY DEF DeckInv, EditorialTypeOK
<1>6. \E k \in DOMAIN slides : slides[k].id = id
  BY <1>5 DEF IdsOf
<1>7. PICK t \in DOMAIN slides : target = slides[t] /\ slides[t].id = id
  BY <1>6 DEF SlideOf
<1>8. target \in Slides /\ target.id \in Ids \cup {TitleId}
  BY <1>4, <1>5, <1>7 DEF WellMade, Made, IdsOf
<1>. HIDE DEF target
<1>9. m \in Slides /\ m.id = target.id /\ m.type = r.type
  BY <1>4, <1>8, AnswersAssumption, MaterialisedSlide
<1>10. new = [m EXCEPT !.tag = target.tag, !.loose = target.loose]
  BY DEF Rewritten
<1>11. new.type = target.type /\ ~InventsPerson(new, plan) /\ ~Misplaced(new) /\ ~Hollow(new)
       /\ slides' = SpliceSingleSlide(slides, new) /\ rewritten' = rewritten \cup {new.id}
       /\ known' = {f \in known : f.slide # new.id} /\ quiet' = 0
  BY <1>1 DEF RegenPasses, Splice, target
<1>. HIDE DEF m
<1>12. new \in Slides /\ new.id = target.id /\ new.tag = target.tag
  <2>1. target.tag \in Nat /\ target.loose \in BOOLEAN
    BY <1>8 DEF Slides
  <2>. QED
    BY <1>9, <1>10, <2>1 DEF Slides
<1>. HIDE DEF new
<1>13. /\ WellMade(slides') /\ IdsOf(slides') = IdsOf(slides) /\ (Opened(slides) => Opened(slides'))
       /\ DOMAIN slides' = DOMAIN slides
       /\ \A k \in DOMAIN slides : slides'[k] = IF k = t THEN new ELSE slides[k]
  BY <1>4, <1>7, <1>11, <1>12, SplicedSlide
<1>14. KeepsPlan(slides', rewritten', plan')
  BY <1>2, <1>4, <1>7, <1>11, <1>12, <1>13, RewriteKeepsPlan
<1>15. EditorialTypeOK'
  <2>1. slides' \in Seq(Slides) /\ new.id \in IdsOf(slides)
    BY <1>7, <1>12, <1>13 DEF WellMade, Made, IdsOf
  <2>2. rewritten' \subseteq IdsOf(slides') /\ todo' \subseteq IdsOf(slides')
    BY <1>2, <1>11, <1>13, <2>1 DEF DeckInv, EditorialTypeOK
  <2>3. known' \subseteq Findings /\ quiet' \in 0..2
    BY <1>11 DEF DeckInv, EditorialTypeOK
  <2>. QED
    BY <1>2, <2>1, <2>2, <2>3 DEF DeckInv, EditorialTypeOK
<1>16. StageInv'
  BY <1>2, <1>13 DEF DeckInv, StageInv, Early
<1>17. WrittenInv'
  BY <1>2, <1>4, <1>13, <1>14, KeepsPlanNext DEF WrittenInv
<1>. QED
  BY <1>2, <1>15, <1>16, <1>17, NotShipped DEF DeckInv

LEMMA RegenDeck == ASSUME DeckInv, CriticRegen \/ BrainFix \/ BrainFixFails PROVE DeckInv'
<1>1. applied \in BOOLEAN
  BY DEF DeckInv, EditorialTypeOK
<1>2. CASE Accepts("regen") /\ UNCHANGED applied
  BY <1>1, <1>2, AcceptsDeck
<1>3. CASE Accepts("apply") /\ applied' = TRUE
  BY <1>3, AcceptsDeck
<1>4. CASE \E s \in {"regen", "apply"} : Rejects(s) /\ UNCHANGED applied
  <2>1. PICK s \in {"regen", "apply"} : Rejects(s) /\ UNCHANGED applied
    BY <1>4
  <2>2. /\ pc = s /\ pc' = pc /\ retried' = FALSE /\ todo' \subseteq todo
        /\ UNCHANGED <<slides, quizzes, gateVars, rewritten, half, standing, attempts, historyVars>>
    BY <2>1 DEF Rejects, Regenerate, Goto, historyVars
  <2>. QED
    BY <1>1, <2>1, <2>2, LessToDo
<1>5. CASE BrainFixFails
  <2>1. /\ pc = "apply" /\ pc' = pc /\ retried' = FALSE /\ todo' \subseteq todo
        /\ UNCHANGED <<slides, quizzes, gateVars, rewritten, half, standing, attempts, historyVars>>
        /\ UNCHANGED applied
    BY <1>5 DEF BrainFixFails, Regenerate, Goto, historyVars
  <2>. QED
    BY <1>1, <2>1, LessToDo
<1>. QED
  BY <1>2, <1>3, <1>4, <1>5 DEF CriticRegen, BrainFix

LEMMA DropsNothing ==
    ASSUME DeckInv, pc \in Judging
    PROVE  PostProcessRepaired(slides) = slides
<1>1. slides \in Seq(Slides) /\ NoneHollow(slides)
  BY UnderJudgement DEF WellMade, Made
<1>. QED
  BY <1>1, NothingDropped DEF PostProcessRepaired

LEMMA RegenDoneDeck == ASSUME DeckInv, CriticRegenDone PROVE DeckInv'
<1>1. /\ pc = "regen" /\ pc' \in {"again1", "entry", "interact"} /\ retried' = FALSE
      /\ slides' = PostProcessRepaired(slides)
      /\ UNCHANGED <<quizzes, plan, replanned, claims, emergency, failing>>
      /\ UNCHANGED <<todo, rewritten, half, standing, attempts, applied, alarmed, known, quiet>>
  BY DEF CriticRegenDone, Goto, gateVars, repairVars, historyVars
<1>2. pc \in Judging /\ pc' \in Judging \cup {"raised"}
  BY <1>1 DEF Judging
<1>3. slides' = slides
  BY <1>1, <1>2, DropsNothing
<1>4. EditorialTypeOK'
  BY <1>1, <1>3 DEF DeckInv, EditorialTypeOK, Stages, ModelStages, CriticStages
<1>5. StageInv'
  BY <1>1, <1>3 DEF DeckInv, StageInv, Early, Ended
<1>6. WrittenInv' /\ ShippedDeckIsSound'
  BY <1>1, <1>2, <1>3, Judged DEF gateVars
<1>. QED
  BY <1>4, <1>5, <1>6 DEF DeckInv

LEMMA ProposesDeck == ASSUME DeckInv, BrainProposes PROVE DeckInv'
<1>1. /\ pc = "brain" /\ pc' = "apply" /\ retried' = FALSE /\ applied' = FALSE
      /\ todo' \subseteq Flagged(standing)
      /\ UNCHANGED <<slides, quizzes, plan, replanned, claims, emergency, failing>>
      /\ UNCHANGED <<rewritten, half, standing, attempts, alarmed, known, quiet>>
  BY DEF BrainProposes, Goto, gateVars, historyVars
<1>2. pc \in Judging /\ pc' \in Judging \cup {"raised"}
  BY <1>1 DEF Judging
<1>3. todo' \subseteq IdsOf(slides)
  BY <1>1, FlaggedBoth DEF DeckInv, StageInv
<1>4. EditorialTypeOK'
  BY <1>1, <1>3 DEF DeckInv, EditorialTypeOK, Stages, ModelStages
<1>5. StageInv'
  BY <1>1 DEF DeckInv, StageInv, Early, Ended
<1>6. WrittenInv' /\ ShippedDeckIsSound'
  BY <1>1, <1>2, Judged DEF gateVars
<1>. QED
  BY <1>4, <1>5, <1>6 DEF DeckInv

LEMMA FixesDoneDeck == ASSUME DeckInv, BrainFixesDone PROVE DeckInv'
<1>1. pc = "apply" /\ pc \in Judging
  BY DEF BrainFixesDone, Judging
<1>2. /\ pc' \in {"check1", "raised"} /\ retried' = FALSE
      /\ slides' = slides /\ attempts' \in {attempts, attempts + 1}
      /\ UNCHANGED <<quizzes, plan, replanned, claims, emergency, failing>>
      /\ UNCHANGED <<todo, rewritten, half, standing, applied, alarmed, known, quiet>>
  BY <1>1, DropsNothing DEF BrainFixesDone, CountAttempt, Goto, gateVars, historyVars
<1>3. pc' \in Judging \cup {"raised"}
  BY <1>2 DEF Judging
<1>4. EditorialTypeOK'
  <2>1. attempts < MaxAttempts /\ attempts \in 0..MaxAttempts /\ MaxAttempts \in Nat
    BY <1>1, EditorialAssumption DEF DeckInv, StageInv, EditorialTypeOK
  <2>2. attempts' \in 0..MaxAttempts
    BY <1>2, <2>1
  <2>. QED
    BY <1>2, <2>2 DEF DeckInv, EditorialTypeOK, Stages, ModelStages, CriticStages, Ended
<1>5. StageInv'
  BY <1>1, <1>2 DEF DeckInv, StageInv, Early, Ended
<1>6. WrittenInv' /\ ShippedDeckIsSound'
  BY <1>1, <1>2, <1>3, Judged DEF gateVars
<1>. QED
  BY <1>4, <1>5, <1>6 DEF DeckInv

LEMMA InteractDeck == ASSUME DeckInv, Interact PROVE DeckInv'
<1>1. /\ pc = "interact" /\ pc' = "merge" /\ retried' = FALSE /\ quizzes' \subseteq QuizIds
      /\ UNCHANGED <<slides, plan, replanned, claims, emergency, failing>>
      /\ UNCHANGED <<todo, rewritten, half, standing, attempts, applied, alarmed, known, quiet>>
  BY DEF Interact, Goto, gateVars, repairVars, historyVars
<1>2. pc \in Judging
  BY <1>1 DEF Judging
<1>3. EditorialTypeOK'
  BY <1>1 DEF DeckInv, EditorialTypeOK, Stages
<1>4. StageInv'
  BY <1>1 DEF DeckInv, StageInv, Early, Ended
<1>5. WrittenInv'
  BY <1>1, <1>2, UnderJudgement, KeepsPlanNext DEF WrittenInv
<1>. QED
  BY <1>1, <1>3, <1>4, <1>5, NotShipped DEF DeckInv

LEMMA AssembleDeck == ASSUME DeckInv, Assemble PROVE DeckInv'
<1>1. /\ pc = "merge" /\ pc' \in {"shipped", "raised"} /\ retried' = FALSE
      /\ slides' = MergeSlides(slides, QuizSlides)
      /\ UNCHANGED <<quizzes, plan, replanned, claims, emergency, failing>>
      /\ UNCHANGED <<todo, rewritten, half, standing, attempts, applied, alarmed, known, quiet>>
  BY DEF Assemble, Goto, gateVars, repairVars, historyVars
<1>2. pc \in Written /\ plan \in Plans
  BY <1>1 DEF DeckInv, StageInv, Written, Stages, Ended
<1>3. quizzes \subseteq QuizIds
  BY DEF DeckInv, EditorialTypeOK
<1>4. /\ QuizDeck(QuizSlides) /\ Len(QuizSlides) = Cardinality(quizzes)
  BY <1>3, QuizzesInOrder
<1>. DEFINE breaks == {k \in DOMAIN slides' : slides'[k].type = "break"}
<1>5. /\ slides' \in Seq(Slides) /\ EachOnce(slides') /\ NoneHollow(slides')
      /\ (failing = {} => Opened(slides')) /\ IdsOf(slides) \subseteq IdsOf(slides')
      /\ IF emergency THEN quizzes = {} ELSE KeepsPlan(slides', rewritten, plan)
      /\ Cardinality(quizzes) <= Cardinality(breaks) => QuizzesClose(slides')
  <2>1. CASE emergency
    <3>1. slides = EmergencyDeck /\ quizzes = {}
      BY <1>2, <2>1 DEF DeckInv, WrittenInv
    <3>2. slides' = EmergencyDeck
      BY <1>1, <1>4, <3>1, EmergencyUnmerged, FS_EmptySet
    <3>3. /\ EmergencyDeck \in Seq(Slides) /\ DOMAIN EmergencyDeck = {1, 2}
          /\ EmergencyDeck[1].id = TitleId /\ EmergencyDeck[2].id = TakeawayId
          /\ EmergencyDeck[1].type = "title" /\ EmergencyDeck[2].type = "takeaway"
      BY AddedSlide DEF EmergencyDeck
    <3>4. EachOnce(EmergencyDeck)
      BY <3>3, AnswersAssumption DEF EachOnce
    <3>5. NoneHollow(EmergencyDeck)
      BY <3>3 DEF NoneHollow, Hollow
    <3>6. Opened(EmergencyDeck)
      <4>1. DOMAIN <<>> = {} /\ 1 \in DOMAIN EmergencyDeck
        BY <3>3
      <4>. QED
        BY <3>3, <4>1 DEF Opened
    <3>7. QuizzesClose(EmergencyDeck)
      BY <3>3 DEF QuizzesClose
    <3>. QED
      BY <2>1, <3>1, <3>2, <3>3, <3>4, <3>5, <3>6, <3>7
  <2>2. CASE ~emergency
    <3>1. WellMade(slides) /\ (failing = {} => Opened(slides)) /\ KeepsPlan(slides, rewritten, plan)
      BY <1>1, <1>2, <2>2, KeepsPlanNow DEF DeckInv, WrittenInv
    <3>. QED
      BY <1>1, <1>2, <1>4, <2>2, <3>1, MergedDeck
  <2>. QED
    BY <2>1, <2>2
<1>6. EditorialTypeOK'
  BY <1>1, <1>5 DEF DeckInv, EditorialTypeOK, Stages, Ended
<1>7. StageInv'
  BY <1>1, <1>2, <1>5 DEF DeckInv, StageInv, Early, Ended
<1>8. WrittenInv'
  BY <1>1 DEF WrittenInv, Written, Ended
<1>9. ShippedDeckIsSound'
  <2>1. IF emergency' THEN quizzes' = {} ELSE PlanIsKept'
    BY <1>1, <1>5, KeepsPlanNext
  <2>2. Cardinality(IdsOf(slides')) = Len(slides')
    BY <1>5, OncePerSlide
  <2>3. \A k \in DOMAIN slides' : ~Hollow(slides'[k])
    BY <1>5 DEF NoneHollow
  <2>4. failing' = {} => slides'[1].type = "title"
    BY <1>1, <1>5 DEF Opened
  <2>5. Cardinality(quizzes') <= Cardinality(breaks) => QuizzesCloseSections'
    BY <1>1, <1>5 DEF QuizzesClose, QuizzesCloseSections
  <2>. QED
    BY <2>1, <2>2, <2>3, <2>4, <2>5 DEF ShippedDeckIsSound
<1>. QED
  BY <1>6, <1>7, <1>8, <1>9 DEF DeckInv

-----------------------------------------------------------------------------
LEMMA DeckStep == ASSUME DeckInv, [Next]_vars PROVE DeckInv'
<1>1. Work \/ UNCHANGED editorialVars
  BY DEF Next, vars, deckVars, InSources, InEditorial, InOutputs, InImages, InTurns, InDeck,
     InInterview, InSuggestions, InArticle, InText, EditorialNext, Delivered
<1>2. retried \in BOOLEAN
  BY DEF DeckInv, EditorialTypeOK
<1>3. CASE UNCHANGED editorialVars \/ AsksAgain \/ CallRaises \/ PlannerGivesUp \/ CriticRegenFails
  <2>1. UNCHANGED <<slides, quizzes, gateVars, repairVars, historyVars>>
    BY <1>3 DEF editorialVars, AsksAgain, CallRaises, PlannerGivesUp, CriticRegenFails
  <2>2. (pc' = pc \/ pc' = "raised") /\ retried' \in BOOLEAN
    BY <1>2, <1>3 DEF editorialVars, AsksAgain, CallRaises, PlannerGivesUp, CriticRegenFails, Goto
  <2>. QED
    BY <2>1, <2>2, DeckRests
<1>4. CASE Plan \/ Draft \/ Gate \/ Repair
  BY <1>4, PlanStep, DraftStep, GateStep, RepairStep
<1>5. CASE Critique \/ Rejudge \/ RejudgeAgain \/ BrainEntry \/ Recheck \/ RecheckAgain
  BY <1>5, CritiqueDeck, RejudgeDeck, BrainEntryDeck, RecheckDeck
<1>6. CASE CriticRegen \/ BrainFix \/ BrainFixFails
  BY <1>6, RegenDeck
<1>7. CASE CriticRegenDone \/ BrainProposes \/ BrainFixesDone \/ Interact \/ Assemble
  BY <1>7, RegenDoneDeck, ProposesDeck, FixesDoneDeck, InteractDeck, AssembleDeck
<1>. QED
  BY <1>1, <1>3, <1>4, <1>5, <1>6, <1>7 DEF Work

\* Whatever is planned, written, left out, repaired, rewritten and spliced in: a deck
\* that ships keeps the plan the gate held it against (but for figures of slides
\* rewritten after it), has every slide once and no hollow divider, opens with its
\* title unless a section was replaced, and closes its sections with its interactive
\* slides while there are no more of them than breaks.
THEOREM ShippedDecksStaySound == Spec => []ShippedDeckIsSound
<1>1. Init => DeckInv
  BY DeckStart DEF Init
<1>2. DeckInv /\ [Next]_vars => DeckInv'
  BY DeckStep
<1>3. DeckInv => ShippedDeckIsSound
  BY DEF DeckInv
<1>. QED
  BY <1>1, <1>2, <1>3, PTL DEF Spec

LEMMA EditorialTypeCorrect == Spec => []EditorialTypeOK
<1>1. Init => DeckInv
  BY DeckStart DEF Init
<1>2. DeckInv /\ [Next]_vars => DeckInv'
  BY DeckStep
<1>3. DeckInv => EditorialTypeOK
  BY DEF DeckInv
<1>. QED
  BY <1>1, <1>2, <1>3, PTL DEF Spec
=============================================================================
