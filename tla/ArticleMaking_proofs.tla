------------------------ MODULE ArticleMaking_proofs ------------------------
(***************************************************************************)
(* The article that is uploaded: whatever the model proposes, omits and    *)
(* writes, its sections stand where its outline has them, were written     *)
(* from what stands before them, and cite what its bibliography lists.     *)
(* And the sources suggested for it: for each section they are the best of *)
(* what the providers asked for it found, none of them twice.              *)
(***************************************************************************)
EXTENDS EditorialPass_proofs

LEMMA IsSequence ==
    ASSUME NEW X, NEW n \in Nat, NEW s \in [1..n -> X]
    PROVE  s \in Seq(X) /\ Len(s) = n /\ DOMAIN s = 1..n
  OBVIOUS

LEMMA OfSequence ==
    ASSUME NEW X, NEW s \in Seq(X)
    PROVE  Len(s) \in Nat /\ DOMAIN s = 1..Len(s) /\ \A k \in 1..Len(s) : s[k] \in X
  OBVIOUS

\* Joined sequences follow each other.
InTurn(f, seqs, o) ==
    /\ Joins(f, seqs, o, Len(seqs))
    /\ \A k, l \in 1..Len(seqs) : k < l => o[k - 1] + Len(seqs[k]) <= o[l - 1]

LEMMA JoinedInTurn ==
    ASSUME NEW S, NEW seqs \in Seq(Seq(S))
    PROVE  /\ FlattenSeq(seqs) \in Seq(S)
           /\ \E o \in [0..Len(seqs) -> Nat] : InTurn(FlattenSeq(seqs), seqs, o)
<1>. DEFINE n == Len(seqs)
            f == FlattenSeq(seqs)
<1>1. n \in Nat /\ f \in Seq(S)
  BY JoinedEvenly
<1>2. PICK o \in [0..n -> Nat] :
        Joins(f, seqs, o, n) /\ \A k \in 1..n : o[k] = o[k - 1] + Len(seqs[k])
  BY JoinedEvenly
<1>. HIDE DEF f
<1>. DEFINE T == {l \in 0..n : \A k \in 1..l : o[k] <= o[l]}
<1>3. 0 \in T
  BY <1>1
<1>4. ASSUME NEW l \in 0..(n - 1), l \in T PROVE l + 1 \in T
  <2>1. l + 1 \in 1..n /\ l + 1 \in 0..n /\ (l + 1) - 1 = l
    BY <1>1
  <2>2. o[l + 1] = o[l] + Len(seqs[l + 1]) /\ seqs[l + 1] \in Seq(S)
    BY <1>2, <2>1
  <2>0. Len(seqs[l + 1]) \in Nat
    BY <2>2, OfSequence
  <2>00. o[l] \in Nat
    <3>1. l \in 0..n
      BY <1>1
    <3>2. o \in [0..n -> Nat]
      OBVIOUS
    <3>. QED
      BY ONLY <3>1, <3>2
  <2>3. o[l] \in Nat /\ Len(seqs[l + 1]) \in Nat /\ o[l] <= o[l + 1] /\ o[l + 1] \in Nat
    BY <2>00, <2>0, <2>2
  <2>4. ASSUME NEW k \in 1..(l + 1) PROVE o[k] <= o[l + 1]
    <3>1. CASE k = l + 1
      BY <2>3, <3>1
    <3>2. CASE k # l + 1
      <4>1. k \in 1..l /\ k \in 0..n
        BY <2>1, <3>2
      <4>2. o[k] <= o[l] /\ o[k] \in Nat
        BY <1>2, <1>4, <4>1
      <4>. QED
        BY <2>3, <4>2
    <3>. QED
      BY <3>1, <3>2
  <2>. QED
    BY <2>1, <2>4
<1>. HIDE DEF T
<1>5. \A l \in 0..n : l \in T
  BY <1>1, <1>3, <1>4, Counting
<1>6. ASSUME NEW k \in 1..n, NEW l \in 1..n, k < l PROVE o[k - 1] + Len(seqs[k]) <= o[l - 1]
  <2>1. l - 1 \in 0..n /\ k \in 1..(l - 1)
    BY <1>1, <1>6
  <2>2. o[k] <= o[l - 1]
    BY <1>5, <2>1 DEF T
  <2>. QED
    BY <1>2, <2>2
<1>7. InTurn(f, seqs, o)
  BY <1>2, <1>6 DEF InTurn
<1>. QED
  BY <1>1, <1>7 DEF f

\* Where a place comes from, and that it comes from nowhere else.
LEMMA TurnOfPlace ==
    ASSUME NEW S, NEW seqs \in Seq(Seq(S)), NEW o \in [0..Len(seqs) -> Nat], NEW f,
           InTurn(f, seqs, o), NEW k \in 1..Len(seqs), NEW j \in 1..Len(seqs[k]),
           NEW l \in 1..Len(seqs), NEW m \in 1..Len(seqs[l]),
           o[k - 1] + j <= o[l - 1] + m
    PROVE  k <= l /\ (o[k - 1] + j = o[l - 1] + m => k = l /\ j = m)
<1>1. /\ o[k - 1] \in Nat /\ o[l - 1] \in Nat /\ j \in Nat /\ m \in Nat
      /\ Len(seqs[l]) \in Nat /\ Len(seqs[k]) \in Nat
      /\ j >= 1 /\ m >= 1 /\ m <= Len(seqs[l]) /\ j <= Len(seqs[k])
  <2>0. Len(seqs) \in Nat /\ seqs[k] \in Seq(S) /\ seqs[l] \in Seq(S)
    BY OfSequence
  <2>1. k - 1 \in 0..Len(seqs) /\ l - 1 \in 0..Len(seqs)
    BY <2>0
  <2>2. Len(seqs[l]) \in Nat /\ Len(seqs[k]) \in Nat
    BY <2>0, OfSequence
  <2>3. o[k - 1] \in Nat /\ o[l - 1] \in Nat
    BY <2>1
  <2>4. j \in 1..Len(seqs[k]) /\ m \in 1..Len(seqs[l])
    OBVIOUS
  <2>. QED
    BY ONLY <2>2, <2>3, <2>4
<1>2. ~(l < k)
  <2>1. SUFFICES ASSUME l < k PROVE FALSE
    OBVIOUS
  <2>2. o[l - 1] + Len(seqs[l]) <= o[k - 1]
    BY <2>1 DEF InTurn
  <2>. QED
    BY <1>1, <2>2
<1>3. ASSUME o[k - 1] + j = o[l - 1] + m PROVE ~(k < l)
  <2>1. SUFFICES ASSUME k < l PROVE FALSE
    OBVIOUS
  <2>2. o[k - 1] + Len(seqs[k]) <= o[l - 1]
    BY <2>1 DEF InTurn
  <2>. QED
    BY <1>1, <1>3, <2>2
<1>4. k \in Nat /\ l \in Nat
  OBVIOUS
<1>5. k <= l
  BY <1>2, <1>4
<1>6. ASSUME o[k - 1] + j = o[l - 1] + m PROVE k = l /\ j = m
  <2>1. k = l
    BY <1>3, <1>4, <1>5, <1>6
  <2>. QED
    BY <1>1, <1>6, <2>1
<1>. QED
  BY <1>5, <1>6

-----------------------------------------------------------------------------
(***************************************************************************)
(* What holds of an article that is being made.                            *)
(***************************************************************************)
\* An outline that follows the template.
Outlined(parts) ==
    /\ parts \in Seq(OutlineSection)
    /\ \A i \in DOMAIN Template :
        LET has == {k \in DOMAIN parts : parts[k].of = i}
        IN  has # {} /\ Cardinality(has) <= Template[i].subs
    /\ \A k, l \in DOMAIN parts : k < l => parts[k].of <= parts[l].of

\* The drafts so far, each with the non-empty ones before it.
Drafted(drafts) ==
    \A k \in DOMAIN drafts :
        /\ drafts[k].at = DraftOrder[k]
        /\ drafts[k].previous =
            {drafts[l].at : l \in {n \in 1..(k - 1) : ~Blank(drafts[n].text)}}

ReportOf(drafts) ==
    FlattenSeq([i \in DOMAIN drafts |-> [k \in 1..drafts[i].text.refs |-> <<i, k>>]])

Behind(stages) == stages \cup {"delivered"}

OutlineInv ==
    /\ apc \in {"outline", "repair"} => written = <<>>
    /\ apc = "repair" => proposal \in OutlineAnswers
    /\ apc \in Behind({"draft", "verify", "export", "convert", "upload"}) =>
        Outlined(outline) /\ Drafted(written)

AssembledInv ==
    /\ apc = "draft" => Len(written) < Len(outline)
    /\ apc \in Behind({"verify", "export", "convert", "upload"}) =>
        Len(written) = Len(outline) /\ article = Assembled(written)

PrintedInv ==
    /\ apc \in Behind({"export", "convert", "upload"}) => report = ReportOf(article)
    /\ apc \in Behind({"convert", "upload"}) => printed = MarkerMap
    /\ apc \in ArticleStages => uploaded = {}

ArticleInv == ArticleTypeOK /\ OutlineInv /\ AssembledInv /\ PrintedInv

LEMMA TemplateType ==
    /\ Template \in Seq([abstract : BOOLEAN, subs : Nat \ {0}]) /\ Len(Template) \in Nat \ {0}
    /\ DOMAIN Template = 1..Len(Template)
    /\ \A i \in DOMAIN Template : Template[i].subs \in Nat \ {0}
<1>1. Template \in Seq([abstract : BOOLEAN, subs : Nat \ {0}]) /\ Template # <<>>
  BY ArticleAssumption
<1>2. Len(Template) # 0
  BY <1>1, EmptySeq
<1>3. Len(Template) \in Nat /\ DOMAIN Template = 1..Len(Template)
  BY <1>1, OfSequence
<1>4. \A i \in 1..Len(Template) : Template[i] \in [abstract : BOOLEAN, subs : Nat \ {0}]
  BY <1>1, OfSequence
<1>. QED
  BY <1>1, <1>2, <1>3, <1>4

\* The sections of an outline, one sequence for each of the template.
Fits(seqs) ==
    /\ seqs \in Seq(Seq(OutlineSection)) /\ Len(seqs) = Len(Template)
    /\ \A i \in 1..Len(seqs) :
        /\ Len(seqs[i]) \in 1..Template[i].subs
        /\ \A j \in 1..Len(seqs[i]) : seqs[i][j].of = i

LEMMA OutlineJoined ==
    ASSUME NEW seqs, Fits(seqs) PROVE Outlined(FlattenSeq(seqs))
<1>. DEFINE f == FlattenSeq(seqs)
            n == Len(seqs)
<1>1. seqs \in Seq(Seq(OutlineSection)) /\ n = Len(Template) /\ n \in Nat /\ DOMAIN Template = 1..n
  BY TemplateType DEF Fits
<1>2. f \in Seq(OutlineSection)
  BY <1>1, JoinedInTurn
<1>3. PICK o \in [0..n -> Nat] : InTurn(f, seqs, o)
  BY <1>1, JoinedInTurn
<1>. HIDE DEF f, n
<1>4. Joins(f, seqs, o, n)
  BY <1>3 DEF InTurn, n
<1>5. DOMAIN f = 1..Len(f) /\ Len(f) \in Nat
  BY <1>2
<1>6. \A i \in 1..n : Len(seqs[i]) \in 1..Template[i].subs
                      /\ \A j \in 1..Len(seqs[i]) : seqs[i][j].of = i
  BY DEF Fits, n
<1>7. ASSUME NEW p \in DOMAIN f
      PROVE  \E k \in 1..n : \E j \in 1..Len(seqs[k]) : p = o[k - 1] + j /\ f[p].of = k
  <2>1. PICK k \in 1..n : \E j \in 1..Len(seqs[k]) : p = o[k - 1] + j
    BY <1>4, <1>5 DEF Joins
  <2>2. PICK j \in 1..Len(seqs[k]) : p = o[k - 1] + j
    BY <2>1
  <2>3. f[p] = seqs[k][j]
    BY <1>4, <2>2 DEF Joins
  <2>. QED
    BY <1>6, <2>2, <2>3
<1>8. ASSUME NEW p \in DOMAIN f, NEW q \in DOMAIN f, p < q PROVE f[p].of <= f[q].of
  <2>1. PICK k \in 1..n : \E j \in 1..Len(seqs[k]) : p = o[k - 1] + j /\ f[p].of = k
    BY <1>7
  <2>2. PICK l \in 1..n : \E m \in 1..Len(seqs[l]) : q = o[l - 1] + m /\ f[q].of = l
    BY <1>7
  <2>3. PICK j \in 1..Len(seqs[k]) : p = o[k - 1] + j /\ f[p].of = k
    BY <2>1
  <2>4. PICK m \in 1..Len(seqs[l]) : q = o[l - 1] + m /\ f[q].of = l
    BY <2>2
  <2>5. o[k - 1] + j <= o[l - 1] + m
    BY <1>5, <1>8, <2>3, <2>4
  <2>6. k <= l
    BY <1>1, <1>3, <2>5, TurnOfPlace DEF n
  <2>. QED
    BY <2>3, <2>4, <2>6
<1>9. ASSUME NEW i \in DOMAIN Template
      PROVE  LET has == {k \in DOMAIN f : f[k].of = i}
             IN  has # {} /\ Cardinality(has) <= Template[i].subs
  <2>. DEFINE has == {k \in DOMAIN f : f[k].of = i}
              len == Len(seqs[i])
              g == [k \in has |-> k - o[i - 1]]
  <2>1. /\ i \in 1..n /\ len \in 1..Template[i].subs /\ len \in Nat /\ o[i - 1] \in Nat
        /\ Template[i].subs \in Nat /\ i - 1 \in 0..n
    BY <1>1, <1>6, TemplateType
  <2>2. has # {}
    <3>1. 1 \in 1..len
      BY <2>1
    <3>2. o[i - 1] + 1 \in 1..Len(f) /\ f[o[i - 1] + 1] = seqs[i][1]
      BY <1>4, <2>1, <3>1 DEF Joins
    <3>3. seqs[i][1].of = i
      BY <1>6, <2>1, <3>1
    <3>. QED
      BY <1>5, <3>2, <3>3
  <2>3. ASSUME NEW k \in has PROVE k \in Nat /\ g[k] \in 1..len /\ g[k] = k - o[i - 1]
    <3>1. PICK l \in 1..n : \E j \in 1..Len(seqs[l]) : k = o[l - 1] + j /\ f[k].of = l
      BY <1>7
    <3>2. PICK j \in 1..Len(seqs[l]) : k = o[l - 1] + j /\ f[k].of = l
      BY <3>1
    <3>0. l = i
      BY <3>2
    <3>3. j \in 1..len /\ k = o[i - 1] + j /\ k \in Nat /\ j \in Nat
      BY <1>5, <2>1, <3>2, <3>0
    <3>4. k - o[i - 1] = j
      BY <2>1, <3>3
    <3>. QED
      BY <3>3, <3>4
  <2>. HIDE DEF has, len, g
  <2>4. g \in [has -> 1..len]
    BY <2>3 DEF g
  <2>5. \A k, l \in has : g[k] = g[l] => k = l
    BY <2>1, <2>3
  <2>6. g \in Injection(has, 1..len)
    BY <2>4, <2>5 DEF Injection, IsInjective
  <2>7. IsFiniteSet(1..len) /\ Cardinality(1..len) = len
    <3>1. 1 \in Int /\ len \in Int /\ ~(1 > len) /\ (len - 1) + 1 = len
      BY <2>1
    <3>2. IsFiniteSet(1..len) /\ Cardinality(1..len) = IF 1 > len THEN 0 ELSE (len - 1) + 1
      BY <3>1, FS_Interval
    <3>. QED
      BY <3>1, <3>2
  <2>8. IsFiniteSet(has) /\ Cardinality(has) <= len
    BY <2>6, <2>7, FS_Injection
  <2>9. Cardinality(has) \in Nat
    BY <2>8, FS_CardinalityType
  <2>10. Cardinality(has) <= Template[i].subs
    BY <2>1, <2>8, <2>9
  <2>. QED
    BY <2>2, <2>10 DEF has
<1>10. Outlined(f)
  BY <1>2, <1>8, <1>9 DEF Outlined
<1>. QED
  BY <1>10 DEF f

LEMMA OneSection ==
    ASSUME NEW i \in DOMAIN Template
    PROVE  LET t == TemplateOnly(i) IN
           t \in Seq(OutlineSection) /\ Len(t) \in 1..Template[i].subs
           /\ \A j \in 1..Len(t) : t[j].of = i
<1>. DEFINE s == [of |-> i, titled |-> FALSE, uses |-> {}]
<1>1. s \in OutlineSection /\ s.of = i
  BY DEF OutlineSection
<1>2. TemplateOnly(i) = <<s>>
  BY DEF TemplateOnly
<1>. HIDE DEF s
<1>3. <<s>> \in Seq(OutlineSection) /\ Len(<<s>>) = 1 /\ <<s>>[1] = s
  BY <1>1
<1>4. 1 \in 1..Template[i].subs
  BY TemplateType
<1>. QED
  BY <1>1, <1>2, <1>3, <1>4

LEMMA Expanded ==
    ASSUME NEW i \in DOMAIN Template, NEW subs \in Seq(Subsection)
    PROVE  LET t == Expand(i, subs) IN
           t \in Seq(OutlineSection) /\ Len(t) \in 1..Template[i].subs
           /\ \A j \in 1..Len(t) : t[j].of = i
<1>1. CASE subs = <<>>
  BY <1>1, OneSection DEF Expand
<1>2. CASE subs # <<>>
  <2>. DEFINE m == IF Len(subs) < Template[i].subs THEN Len(subs) ELSE Template[i].subs
              t == [k \in 1..m |-> [of |-> i, titled |-> subs[k].titled, uses |-> subs[k].uses]]
  <2>1. Len(subs) \in Nat /\ Len(subs) # 0 /\ Template[i].subs \in Nat \ {0}
    BY <1>2, EmptySeq, TemplateType
  <2>2. m \in 1..Template[i].subs /\ m \in Nat /\ \A k \in 1..m : k \in 1..Len(subs)
    BY <2>1
  <2>3. Expand(i, subs) = t
    BY <1>2 DEF Expand
  <2>. HIDE DEF m
  <2>4. ASSUME NEW k \in 1..m PROVE t[k] \in OutlineSection /\ t[k].of = i
    <3>1. subs[k] \in Subsection
      BY <2>2
    <3>. QED
      BY <3>1 DEF Subsection, OutlineSection
  <2>5. t \in [1..m -> OutlineSection]
    BY <2>4
  <2>. HIDE DEF t
  <2>6. t \in Seq(OutlineSection) /\ Len(t) = m
    BY <2>2, <2>5
  <2>. QED
    BY <2>2, <2>3, <2>4, <2>6
<1>. QED
  BY <1>1, <1>2

LEMMA Proposed == ASSUME NEW a \in OutlineAnswers PROVE Outlined(OutlineOf(a))
<1>. DEFINE seqs == [i \in DOMAIN Template |->
                        IF i \in DOMAIN a THEN Expand(i, a[i]) ELSE TemplateOnly(i)]
<1>1. OutlineOf(a) = FlattenSeq(seqs)
  BY DEF OutlineOf
<1>2. ASSUME NEW i \in DOMAIN Template
      PROVE  /\ seqs[i] \in Seq(OutlineSection) /\ Len(seqs[i]) \in 1..Template[i].subs
             /\ \A j \in 1..Len(seqs[i]) : seqs[i][j].of = i
  <2>1. CASE i \in DOMAIN a
    <3>1. a[i] \in Seq(Subsection)
      BY <2>1, ArticleAssumption
    <3>2. seqs[i] = Expand(i, a[i])
      BY <2>1
    <3>. QED
      BY <3>1, <3>2, Expanded
  <2>2. CASE i \notin DOMAIN a
    <3>1. seqs[i] = TemplateOnly(i)
      BY <2>2
    <3>. QED
      BY <3>1, OneSection
  <2>. QED
    BY <2>1, <2>2
<1>3. seqs \in [1..Len(Template) -> Seq(OutlineSection)]
  BY <1>2, TemplateType
<1>. HIDE DEF seqs
<1>4. seqs \in Seq(Seq(OutlineSection)) /\ Len(seqs) = Len(Template)
  <2>1. Len(Template) \in Nat
    BY TemplateType
  <2>. QED
    BY ONLY <1>3, <2>1, IsSequence
<1>5. Fits(seqs)
  BY <1>2, <1>4, TemplateType DEF Fits
<1>. QED
  BY <1>1, <1>5, OutlineJoined

LEMMA FellBack == Outlined(FallbackOutline)
<1>. DEFINE seqs == [i \in DOMAIN Template |-> TemplateOnly(i)]
<1>1. FallbackOutline = FlattenSeq(seqs)
  BY DEF FallbackOutline
<1>2. \A i \in DOMAIN Template :
        /\ seqs[i] \in Seq(OutlineSection) /\ Len(seqs[i]) \in 1..Template[i].subs
        /\ \A j \in 1..Len(seqs[i]) : seqs[i][j].of = i
  BY OneSection
<1>3. seqs \in [1..Len(Template) -> Seq(OutlineSection)]
  BY <1>2, TemplateType
<1>. HIDE DEF seqs
<1>4. seqs \in Seq(Seq(OutlineSection)) /\ Len(seqs) = Len(Template)
  <2>1. Len(Template) \in Nat
    BY TemplateType
  <2>. QED
    BY ONLY <1>3, <2>1, IsSequence
<1>5. Fits(seqs)
  BY <1>2, <1>4, TemplateType DEF Fits
<1>. QED
  BY <1>1, <1>5, OutlineJoined

\* Giving a section a claim more changes none of this.
LEMMA LinkedOutlined ==
    ASSUME NEW old, Outlined(old), NEW homes, NEW new \in Linked(old, homes)
    PROVE  Outlined(new)
<1>. DEFINE ignored == SourceClaims \ UNION {old[k].uses : k \in DOMAIN old}
<1>1. old \in Seq(OutlineSection) /\ Len(old) \in Nat /\ DOMAIN old = 1..Len(old)
  BY DEF Outlined
<1>2. PICK home \in [ignored -> homes \cup {0}] :
        new = [k \in DOMAIN old |->
                [old[k] EXCEPT !.uses = @ \cup {c \in ignored : home[c] = k}]]
  BY DEF Linked
<1>3. ignored \subseteq SourceClaims
  OBVIOUS
<1>. HIDE DEF ignored
<1>4. ASSUME NEW k \in DOMAIN old
      PROVE  new[k] \in OutlineSection /\ new[k].of = old[k].of
  <2>1. old[k] \in OutlineSection
    BY <1>1
  <2>2. new[k] = [old[k] EXCEPT !.uses = @ \cup {c \in ignored : home[c] = k}]
    BY <1>2
  <2>3. old[k].uses \cup {c \in ignored : home[c] = k} \in SUBSET SourceClaims
    BY <1>3, <2>1 DEF OutlineSection
  <2>. QED
    BY <2>1, <2>2, <2>3 DEF OutlineSection
<1>5. DOMAIN new = DOMAIN old
  BY <1>2
<1>6. new \in [1..Len(old) -> OutlineSection]
  BY <1>1, <1>2, <1>4
<1>7. new \in Seq(OutlineSection)
  BY <1>1, <1>6
<1>8. \A i : {k \in DOMAIN new : new[k].of = i} = {k \in DOMAIN old : old[k].of = i}
  BY <1>4, <1>5
<1>9. \A k \in DOMAIN new : k \in DOMAIN old /\ new[k].of = old[k].of
  BY <1>4, <1>5
<1>10. \A i \in DOMAIN Template :
        LET has == {k \in DOMAIN new : new[k].of = i}
        IN  has # {} /\ Cardinality(has) <= Template[i].subs
  BY <1>8 DEF Outlined
<1>11. \A k, l \in DOMAIN new : k < l => new[k].of <= new[l].of
  BY <1>9 DEF Outlined
<1>. QED
  BY <1>7, <1>10, <1>11 DEF Outlined

-----------------------------------------------------------------------------
(***************************************************************************)
(* The order of the drafts and the order of the article.                   *)
(***************************************************************************)
\* The place of the n-th draft and the turn of the k-th place, of m with the
\* abstract at a.
NthPlace(m, a, n) == IF a = 0 \/ n < a THEN n ELSE IF n = m THEN a ELSE n + 1
TurnOf(m, a, k) == IF a = 0 \/ k < a THEN k ELSE IF k = a THEN m ELSE k - 1

LEMMA TurnsAndPlaces ==
    ASSUME NEW m \in Nat, NEW a \in 0..m
    PROVE  /\ \A n \in 1..m : NthPlace(m, a, n) \in 1..m /\ TurnOf(m, a, NthPlace(m, a, n)) = n
           /\ \A k \in 1..m : TurnOf(m, a, k) \in 1..m /\ NthPlace(m, a, TurnOf(m, a, k)) = k
           /\ \A k, l \in 1..m :
                TurnOf(m, a, l) < TurnOf(m, a, k)
                    <=> IF k = a THEN l # a ELSE l < k /\ l # a
<1>1. ASSUME NEW n \in 1..m
      PROVE  NthPlace(m, a, n) \in 1..m /\ TurnOf(m, a, NthPlace(m, a, n)) = n
  BY <1>1 DEF NthPlace, TurnOf
<1>2. ASSUME NEW k \in 1..m
      PROVE  TurnOf(m, a, k) \in 1..m /\ NthPlace(m, a, TurnOf(m, a, k)) = k
  BY <1>2 DEF NthPlace, TurnOf
<1>3. ASSUME NEW k \in 1..m, NEW l \in 1..m
      PROVE  TurnOf(m, a, l) < TurnOf(m, a, k)
                <=> IF k = a THEN l # a ELSE l < k /\ l # a
  BY <1>3 DEF TurnOf
<1>. QED
  BY <1>1, <1>2, <1>3

LEMMA AbstractPlace ==
    ASSUME Outlined(outline)
    PROVE  Len(outline) \in Nat /\ DOMAIN outline = 1..Len(outline) /\ AbstractAt \in 0..Len(outline)
<1>. DEFINE abstracts == {k \in DOMAIN outline : ReadsLikeAbstract(outline[k])}
<1>1. Len(outline) \in Nat /\ DOMAIN outline = 1..Len(outline)
  <2>1. outline \in Seq(OutlineSection)
    BY DEF Outlined
  <2>. QED
    BY <2>1, OfSequence
<1>2. AbstractAt = IF abstracts = {} THEN 0 ELSE CHOOSE k \in abstracts : \A l \in abstracts : k <= l
  BY DEF AbstractAt
<1>3. abstracts \subseteq 1..Len(outline)
  BY <1>1
<1>. HIDE DEF abstracts
<1>4. CASE abstracts = {}
  BY <1>1, <1>2, <1>4
<1>5. CASE abstracts # {}
  <2>0. abstracts \in SUBSET Nat
    BY <1>1, <1>3
  <2>1. \E k \in abstracts : \A l \in abstracts : k <= l
    BY <1>5, <2>0, LeastElement
  <2>2. AbstractAt \in abstracts
    BY <1>2, <1>5, <2>1
  <2>. QED
    BY <1>1, <1>3, <2>2
<1>. QED
  BY <1>4, <1>5

LEMMA DraftsInOrder ==
    ASSUME Outlined(outline)
    PROVE  /\ DOMAIN DraftOrder = 1..Len(outline) /\ Len(DraftOrder) = Len(outline)
           /\ \A n \in 1..Len(outline) :
                DraftOrder[n] = NthPlace(Len(outline), AbstractAt, n)
                /\ DraftOrder[n] \in 1..Len(outline)
<1>1. Len(outline) \in Nat /\ DOMAIN outline = 1..Len(outline) /\ AbstractAt \in 0..Len(outline)
  BY AbstractPlace
<1>2. DOMAIN DraftOrder = 1..Len(outline)
  BY <1>1 DEF DraftOrder
<1>3. \A n \in 1..Len(outline) : DraftOrder[n] = NthPlace(Len(outline), AbstractAt, n)
  BY <1>1 DEF DraftOrder, NthPlace
<1>4. \A n \in 1..Len(outline) : DraftOrder[n] \in 1..Len(outline)
  <2>1. ASSUME NEW n \in 1..Len(outline)
        PROVE  NthPlace(Len(outline), AbstractAt, n) \in 1..Len(outline)
    BY ONLY <1>1, TurnsAndPlaces
  <2>. QED
    BY <1>3, <2>1
<1>5. DraftOrder \in [1..Len(outline) -> 1..Len(outline)]
  <2>1. DraftOrder = [n \in 1..Len(outline) |-> DraftOrder[n]]
    BY <1>1 DEF DraftOrder
  <2>. QED
    BY <1>4, <2>1
<1>6. Len(DraftOrder) = Len(outline)
  BY ONLY <1>1, <1>5, IsSequence
<1>. QED
  BY <1>2, <1>3, <1>4, <1>6

\* Every place gets the one draft that was written for it.
LEMMA AssembledInPlace ==
    ASSUME Outlined(outline), NEW drafts \in Seq(SectionDraft), Drafted(drafts),
           Len(drafts) = Len(outline)
    PROVE  /\ Assembled(drafts) \in Seq(SectionDraft)
           /\ Len(Assembled(drafts)) = Len(outline)
           /\ \A k \in 1..Len(outline) :
                Assembled(drafts)[k] = drafts[TurnOf(Len(outline), AbstractAt, k)]
<1>. DEFINE m == Len(outline)
            a == AbstractAt
<1>1. m \in Nat /\ DOMAIN outline = 1..m /\ a \in 0..m
  BY AbstractPlace
<1>2. DOMAIN drafts = 1..m /\ \A k \in 1..m : drafts[k] \in SectionDraft
  BY OfSequence
<1>3. \A n \in 1..m : drafts[n].at = NthPlace(m, a, n)
  BY <1>2, DraftsInOrder DEF Drafted
<1>. HIDE DEF m, a
<1>4. ASSUME NEW k \in 1..m
      PROVE  Assembled(drafts)[k] = drafts[TurnOf(m, a, k)]
             /\ Assembled(drafts)[k] \in SectionDraft
  <2>. DEFINE t == TurnOf(m, a, k)
              best(n) == drafts[n].at = k /\ \A l \in DOMAIN drafts : drafts[l].at = k => l <= n
  <2>1. t \in 1..m /\ NthPlace(m, a, t) = k
    BY <1>1, TurnsAndPlaces
  <2>2. ASSUME NEW n \in 1..m, drafts[n].at = k PROVE n = t
    <3>1. TurnOf(m, a, NthPlace(m, a, n)) = n /\ NthPlace(m, a, n) = k
      BY <1>1, <1>3, <2>2, TurnsAndPlaces
    <3>. QED
      BY <3>1
  <2>. HIDE DEF t
  <2>3. t \in DOMAIN drafts /\ best(t)
    <3>1. drafts[t].at = k
      BY <1>3, <2>1
    <3>2. t <= t
      BY <2>1
    <3>. QED
      BY <1>2, <2>1, <2>2, <3>1, <3>2
  <2>4. \A n \in DOMAIN drafts : best(n) => n = t
    BY <1>2, <2>2
  <2>5. Assembled(drafts)[k] = drafts[CHOOSE n \in DOMAIN drafts : best(n)]
    BY <1>1 DEF Assembled
  <2>. HIDE DEF best
  <2>6. (CHOOSE n \in DOMAIN drafts : best(n)) = t
    BY <2>3, <2>4
  <2>. QED
    BY <1>2, <2>1, <2>5, <2>6 DEF t
<1>5. Assembled(drafts) \in [1..m -> SectionDraft]
  <2>1. Assembled(drafts) = [k \in 1..m |-> Assembled(drafts)[k]]
    BY <1>1 DEF Assembled
  <2>. QED
    BY <1>4, <2>1
<1>6. Assembled(drafts) \in Seq(SectionDraft) /\ Len(Assembled(drafts)) = m
  BY ONLY <1>1, <1>5, IsSequence
<1>. QED
  BY <1>4, <1>6 DEF m, a

\* What the prompts have shown, told by the places.
LEMMA PreviousByPlace ==
    ASSUME Outlined(outline), Drafted(written), written \in Seq(SectionDraft),
           Len(written) = Len(outline), article = Assembled(written),
           NEW k \in 1..Len(outline)
    PROVE  LET nonEmpty == {l \in DOMAIN article : ~Blank(article[l].text)} IN
           /\ article[k].at = k
           /\ article[k].previous =
                (IF k = AbstractAt THEN nonEmpty \ {k}
                 ELSE {l \in nonEmpty : l < k /\ l # AbstractAt})
<1>. DEFINE m == Len(outline)
            a == AbstractAt
            t == TurnOf(m, a, k)
            nonEmpty == {l \in DOMAIN article : ~Blank(article[l].text)}
            seen == {l \in 1..(t - 1) : ~Blank(written[l].text)}
            due == IF k = a THEN nonEmpty \ {k} ELSE {l \in nonEmpty : l < k /\ l # a}
<1>1. m \in Nat /\ a \in 0..m
  BY AbstractPlace
<1>2. DOMAIN written = 1..m
  BY OfSequence
<1>3. \A n \in 1..m : written[n].at = NthPlace(m, a, n)
  BY <1>2, DraftsInOrder DEF Drafted
<1>4. DOMAIN article = 1..m /\ \A l \in 1..m : article[l] = written[TurnOf(m, a, l)]
  <2>1. article \in Seq(SectionDraft) /\ Len(article) = m
    BY AssembledInPlace
  <2>2. DOMAIN article = 1..Len(article)
    BY <2>1, OfSequence
  <2>. QED
    BY <2>1, <2>2, AssembledInPlace
<1>5. t \in 1..m /\ NthPlace(m, a, t) = k
  BY <1>1, TurnsAndPlaces
<1>6. article[k].at = k /\ article[k].previous = {written[l].at : l \in seen}
  <2>1. article[k] = written[t] /\ written[t].at = k
    BY <1>3, <1>4, <1>5
  <2>2. written[t].previous = {written[l].at : l \in seen}
    BY <1>2, <1>5 DEF Drafted
  <2>. QED
    BY <2>1, <2>2
<1>. HIDE DEF m, a
<1>7. ASSUME NEW l \in seen PROVE written[l].at \in due
  <2>. DEFINE p == NthPlace(m, a, l)
  <2>1. l \in 1..m /\ l < t /\ ~Blank(written[l].text)
    BY <1>1, <1>5
  <2>2. p \in 1..m /\ TurnOf(m, a, p) = l /\ written[l].at = p
    BY <1>1, <1>3, <2>1, TurnsAndPlaces
  <2>. HIDE DEF p
  <2>3. p \in nonEmpty
    BY <1>4, <2>1, <2>2
  <2>4. IF k = a THEN p # a ELSE p < k /\ p # a
    BY <1>1, <2>1, <2>2, TurnsAndPlaces DEF m
  <2>. QED
    BY <2>2, <2>3, <2>4
<1>8. ASSUME NEW p \in due PROVE \E l \in seen : written[l].at = p
  <2>. DEFINE l == TurnOf(m, a, p)
  <2>1. p \in 1..m /\ ~Blank(article[p].text)
        /\ (IF k = a THEN p # a ELSE p < k /\ p # a)
    BY <1>4
  <2>2. l \in 1..m /\ NthPlace(m, a, l) = p
    BY <1>1, <2>1, TurnsAndPlaces
  <2>3. l < t
    BY <1>1, <2>1, TurnsAndPlaces DEF m
  <2>4. ~Blank(written[l].text) /\ written[l].at = p
    BY <1>3, <1>4, <2>1, <2>2
  <2>. HIDE DEF l
  <2>5. l \in 1..(t - 1)
    BY <1>1, <1>5, <2>2, <2>3
  <2>. QED
    BY <2>4, <2>5
<1>. HIDE DEF seen, due
<1>9. {written[l].at : l \in seen} = due
  BY <1>7, <1>8
<1>. QED
  BY <1>6, <1>9 DEF due, a

-----------------------------------------------------------------------------
(***************************************************************************)
(* What is reported and what is printed.                                   *)
(***************************************************************************)
LEMMA Bijected ==
    ASSUME NEW n \in Nat, NEW T, NEW f \in [1..n -> T],
           \A p, q \in 1..n : f[p] = f[q] => p = q,
           \A x \in T : \E p \in 1..n : f[p] = x
    PROVE  IsFiniteSet(T) /\ Cardinality(T) = n
<1>1. f \in Bijection(1..n, T)
  BY DEF Bijection, Injection, Surjection, IsInjective
<1>2. ExistsBijection(1..n, T)
  BY <1>1 DEF ExistsBijection
<1>3. IsFiniteSet(1..n) /\ Cardinality(1..n) = n
  <2>1. 1 \in Int /\ n \in Int /\ (1 > n => n = 0) /\ (n - 1) + 1 = n
    OBVIOUS
  <2>2. IsFiniteSet(1..n) /\ Cardinality(1..n) = IF 1 > n THEN 0 ELSE (n - 1) + 1
    BY <2>1, FS_Interval
  <2>. QED
    BY <2>1, <2>2
<1>. QED
  BY <1>2, <1>3, FS_Bijection

\* Each declared citation once.
LEMMA Reported ==
    ASSUME NEW drafts \in Seq(SectionDraft)
    PROVE  LET refs == UNION {{i} \X (1..drafts[i].text.refs) : i \in DOMAIN drafts}
               r == ReportOf(drafts)
           IN  r \in Seq(Nat \X Nat) /\ Range(r) = refs /\ Len(r) = Cardinality(refs)
<1>. DEFINE n == Len(drafts)
            seqs == [i \in DOMAIN drafts |-> [k \in 1..drafts[i].text.refs |-> <<i, k>>]]
            f == FlattenSeq(seqs)
            refs == UNION {{i} \X (1..drafts[i].text.refs) : i \in DOMAIN drafts}
<1>1. n \in Nat /\ DOMAIN drafts = 1..n
  BY OfSequence
<1>2. \A i \in 1..n : drafts[i].text.refs \in Nat
  <2>0. \A i \in 1..n : drafts[i] \in SectionDraft
    BY OfSequence
  <2>1. \A i \in 1..n : drafts[i].text \in Texts
    BY <2>0 DEF SectionDraft
  <2>. QED
    BY <2>1, ArticleAssumption
<1>. HIDE DEF n
<1>3. ASSUME NEW i \in 1..n
      PROVE  /\ seqs[i] \in Seq(Nat \X Nat) /\ Len(seqs[i]) = drafts[i].text.refs
             /\ \A j \in 1..Len(seqs[i]) : seqs[i][j] = <<i, j>>
  <2>. DEFINE m == drafts[i].text.refs
              s == [k \in 1..m |-> <<i, k>>]
  <2>1. m \in Nat /\ i \in Nat /\ seqs[i] = s
    BY <1>1, <1>2
  <2>. HIDE DEF m
  <2>2. s \in [1..m -> Nat \X Nat]
    BY <2>1
  <2>3. s \in Seq(Nat \X Nat) /\ Len(s) = m
    BY ONLY <2>1, <2>2, IsSequence
  <2>. QED
    BY <2>1, <2>3 DEF m
<1>4. seqs \in [1..n -> Seq(Nat \X Nat)]
  BY <1>1, <1>3
<1>. HIDE DEF seqs
<1>5. seqs \in Seq(Seq(Nat \X Nat)) /\ Len(seqs) = n
  BY ONLY <1>1, <1>4, IsSequence
<1>6. f \in Seq(Nat \X Nat) /\ \E o \in [0..n -> Nat] : InTurn(f, seqs, o)
  BY <1>5, JoinedInTurn
<1>. HIDE DEF f
<1>7. PICK o \in [0..n -> Nat] : InTurn(f, seqs, o)
  BY <1>6
<1>8. Joins(f, seqs, o, n)
  BY <1>5, <1>7 DEF InTurn
<1>9. DOMAIN f = 1..Len(f) /\ Len(f) \in Nat
  BY <1>6, OfSequence
<1>10. ASSUME NEW p \in 1..Len(f)
       PROVE  \E k \in 1..n : \E j \in 1..Len(seqs[k]) : p = o[k - 1] + j /\ f[p] = <<k, j>>
  <2>1. PICK k \in 1..n : \E j \in 1..Len(seqs[k]) : p = o[k - 1] + j
    BY <1>8 DEF Joins
  <2>2. PICK j \in 1..Len(seqs[k]) : p = o[k - 1] + j
    BY <2>1
  <2>3. f[p] = seqs[k][j]
    BY <1>8, <2>2 DEF Joins
  <2>. QED
    BY <1>3, <2>2, <2>3
<1>11. ASSUME NEW k \in 1..n, NEW j \in 1..drafts[k].text.refs
       PROVE  \E p \in 1..Len(f) : f[p] = <<k, j>>
  <2>1. j \in 1..Len(seqs[k]) /\ seqs[k][j] = <<k, j>>
    BY <1>3
  <2>2. o[k - 1] + j \in 1..Len(f) /\ f[o[k - 1] + j] = seqs[k][j]
    BY <1>8, <2>1 DEF Joins
  <2>. QED
    BY <2>1, <2>2
<1>12. ASSUME NEW p \in 1..Len(f), NEW q \in 1..Len(f), f[p] = f[q] PROVE p = q
  <2>1. PICK k \in 1..n : \E j \in 1..Len(seqs[k]) : p = o[k - 1] + j /\ f[p] = <<k, j>>
    BY <1>10
  <2>2. PICK j \in 1..Len(seqs[k]) : p = o[k - 1] + j /\ f[p] = <<k, j>>
    BY <2>1
  <2>3. PICK l \in 1..n : \E i \in 1..Len(seqs[l]) : q = o[l - 1] + i /\ f[q] = <<l, i>>
    BY <1>10
  <2>4. PICK i \in 1..Len(seqs[l]) : q = o[l - 1] + i /\ f[q] = <<l, i>>
    BY <2>3
  <2>5. k = l /\ j = i
    BY <1>12, <2>2, <2>4
  <2>. QED
    BY <2>2, <2>4, <2>5
<1>13. \A p \in 1..Len(f) : f[p] \in refs
  <2>1. ASSUME NEW p \in 1..Len(f) PROVE f[p] \in refs
    <3>1. PICK k \in 1..n : \E j \in 1..Len(seqs[k]) : p = o[k - 1] + j /\ f[p] = <<k, j>>
      BY <1>10
    <3>2. PICK j \in 1..Len(seqs[k]) : f[p] = <<k, j>>
      BY <3>1
    <3>3. j \in 1..drafts[k].text.refs /\ k \in DOMAIN drafts
      BY <1>1, <1>3
    <3>4. f[p] \in {k} \X (1..drafts[k].text.refs)
      BY <3>2, <3>3
    <3>. QED
      BY <3>3, <3>4
  <2>. QED
    BY <2>1
<1>14. \A x \in refs : \E p \in 1..Len(f) : f[p] = x
  <2>1. ASSUME NEW x \in refs PROVE \E p \in 1..Len(f) : f[p] = x
    <3>1. PICK k \in 1..n : x \in {k} \X (1..drafts[k].text.refs)
      BY <1>1
    <3>2. PICK j \in 1..drafts[k].text.refs : x = <<k, j>>
      BY <3>1
    <3>. QED
      BY <1>11, <3>2
  <2>. QED
    BY <2>1
<1>. HIDE DEF refs
<1>15. Range(f) = refs
  BY <1>9, <1>13, <1>14 DEF Range
<1>16. Cardinality(refs) = Len(f)
  <2>1. f \in [1..Len(f) -> refs]
    BY <1>6, <1>9, <1>13
  <2>. QED
    BY <1>9, <1>12, <1>14, <2>1, Bijected
<1>17. f = ReportOf(drafts)
  BY DEF f, seqs, ReportOf
<1>. QED
  BY <1>6, <1>15, <1>16, <1>17 DEF refs

\* The markers, each where it first appears.
LEMMA Appears ==
    ASSUME article \in Seq(SectionDraft)
    PROVE  LET marks == UNION {Range(article[i].text.marks) : i \in DOMAIN article} IN
           /\ Appearance \in Seq(Markers)
           /\ \A p, q \in 1..Len(Appearance) : Appearance[p] = Appearance[q] => p = q
           /\ \A x : x \in marks <=> \E p \in 1..Len(Appearance) : Appearance[p] = x
<1>. DEFINE n == Len(article)
            seqs == [i \in DOMAIN article |-> article[i].text.marks]
            f == FlattenSeq(seqs)
            firsts == {k \in DOMAIN f : ~\E l \in 1..(k - 1) : f[l] = f[k]}
            marks == UNION {Range(article[i].text.marks) : i \in DOMAIN article}
<1>1. n \in Nat /\ DOMAIN article = 1..n
  BY OfSequence
<1>2. \A i \in 1..n : seqs[i] \in Seq(Markers) /\ seqs[i] = article[i].text.marks
  <2>0. \A i \in 1..n : article[i] \in SectionDraft
    BY OfSequence
  <2>1. \A i \in 1..n : article[i].text \in Texts
    BY <2>0 DEF SectionDraft
  <2>. QED
    BY <1>1, <2>1, ArticleAssumption
<1>. HIDE DEF n
<1>3. seqs \in [1..n -> Seq(Markers)]
  BY <1>1, <1>2
<1>. HIDE DEF seqs
<1>4. seqs \in Seq(Seq(Markers)) /\ Len(seqs) = n
  BY ONLY <1>1, <1>3, IsSequence
<1>5. f \in Seq(Markers) /\ \E o \in [0..n -> Nat] : Joins(f, seqs, o, n)
  BY <1>4, Joined
<1>6. Appearance = Kept(f, firsts)
  <2>. DEFINE one == [k \in DOMAIN f |->
                IF \E l \in 1..(k - 1) : f[l] = f[k] THEN <<>> ELSE <<f[k]>>]
              two == [k \in DOMAIN f |-> IF k \in firsts THEN <<f[k]>> ELSE <<>>]
  <2>1. Appearance = FlattenSeq(one)
    BY DEF Appearance, seqs
  <2>2. Kept(f, firsts) = FlattenSeq(two)
    BY DEF Kept
  <2>. HIDE DEF f
  <2>3. one = two
    OBVIOUS
  <2>. HIDE DEF one, two
  <2>. QED
    BY <2>1, <2>2, <2>3
<1>. HIDE DEF f
<1>7. DOMAIN f = 1..Len(f) /\ Len(f) \in Nat
  BY <1>5, OfSequence
<1>8. Kept(f, firsts) \in Seq(Markers) /\ \E h : Keeps(Kept(f, firsts), f, firsts, h)
  BY <1>5, KeptInOrder
<1>9. PICK h : Keeps(Appearance, f, firsts, h)
  BY <1>6, <1>8
<1>10. Appearance \in Seq(Markers) /\ Len(Appearance) \in Nat
  BY <1>6, <1>8, OfSequence
<1>11. ASSUME NEW p \in 1..Len(Appearance), NEW q \in 1..Len(Appearance), p < q
       PROVE  Appearance[p] # Appearance[q]
  <2>1. h[p] \in firsts /\ h[q] \in firsts /\ h[p] < h[q]
        /\ Appearance[p] = f[h[p]] /\ Appearance[q] = f[h[q]]
    BY <1>11, <1>9 DEF Keeps
  <2>2. h[p] \in 1..(h[q] - 1)
    BY <1>7, <2>1
  <2>. QED
    BY <2>1, <2>2
<1>12. \A p, q \in 1..Len(Appearance) : Appearance[p] = Appearance[q] => p = q
  BY <1>10, <1>11
<1>13. PICK o \in [0..n -> Nat] : Joins(f, seqs, o, n)
  BY <1>5
<1>14. ASSUME NEW p \in 1..Len(Appearance) PROVE Appearance[p] \in marks
  <2>1. h[p] \in 1..Len(f) /\ Appearance[p] = f[h[p]]
    BY <1>7, <1>9 DEF Keeps
  <2>2. PICK k \in 1..n : \E j \in 1..Len(seqs[k]) : h[p] = o[k - 1] + j
    BY <1>13, <2>1 DEF Joins
  <2>3. PICK j \in 1..Len(seqs[k]) : h[p] = o[k - 1] + j
    BY <2>2
  <2>4. f[h[p]] = seqs[k][j]
    BY <1>13, <2>3 DEF Joins
  <2>5. seqs[k][j] \in Range(seqs[k])
    <3>1. DOMAIN seqs[k] = 1..Len(seqs[k])
      BY <1>2, OfSequence
    <3>. QED
      BY <3>1 DEF Range
  <2>. QED
    BY <1>1, <1>2, <2>1, <2>4, <2>5
<1>15. ASSUME NEW x \in marks PROVE \E p \in 1..Len(Appearance) : Appearance[p] = x
  <2>1. PICK k \in 1..n : x \in Range(seqs[k])
    BY <1>1, <1>2
  <2>2. PICK j \in 1..Len(seqs[k]) : seqs[k][j] = x
    <3>1. DOMAIN seqs[k] = 1..Len(seqs[k])
      BY <1>2, OfSequence
    <3>. QED
      BY <2>1, <3>1 DEF Range
  <2>. DEFINE T == {l \in 1..Len(f) : f[l] = x}
  <2>3. T # {} /\ T \subseteq Nat
    <3>1. o[k - 1] + j \in 1..Len(f) /\ f[o[k - 1] + j] = x
      BY <1>13, <2>2 DEF Joins
    <3>. QED
      BY <3>1
  <2>4. PICK l \in T : \A y \in T : l <= y
    BY <2>3, LeastElement
  <2>5. l \in firsts
    <3>1. ASSUME NEW y \in 1..(l - 1) PROVE f[y] # f[l]
      <4>1. y \in 1..Len(f) /\ y < l
        BY <1>7
      <4>2. ~(l <= y)
        BY <4>1
      <4>. QED
        BY <2>4, <4>1, <4>2
    <3>. QED
      BY <1>7, <3>1
  <2>6. PICK p \in 1..Len(Appearance) : h[p] = l
    BY <1>9, <2>5 DEF Keeps
  <2>7. Appearance[p] = f[l]
    BY <1>9, <2>6 DEF Keeps
  <2>. QED
    BY <2>7
<1>. HIDE DEF marks
<1>16. \A x : x \in marks <=> \E p \in 1..Len(Appearance) : Appearance[p] = x
  BY <1>14, <1>15
<1>. QED
  BY <1>10, <1>12, <1>16 DEF marks

\* What the markers are printed as.
Printable(numbers, marks) ==
    /\ DOMAIN numbers \subseteq marks
    /\ \A m \in DOMAIN numbers : numbers[m] \in Range(bibliography)
    /\ \A m, n \in DOMAIN numbers : m # n => numbers[m] # numbers[n]
    /\ DOMAIN numbers # marks => Cardinality(DOMAIN numbers) = Len(bibliography)

LEMMA Mapped ==
    ASSUME article \in Seq(SectionDraft), bibliography \in Bibliographies
    PROVE  /\ \A x \in DOMAIN MarkerMap : MarkerMap[x] \in Nat
           /\ Printable(MarkerMap,
                UNION {Range(article[i].text.marks) : i \in DOMAIN article})
<1>. DEFINE marks == UNION {Range(article[i].text.marks) : i \in DOMAIN article}
            numbered == {k \in DOMAIN Appearance : k <= Len(bibliography)}
            dom == {Appearance[k] : k \in numbered}
<1>1. bibliography \in Seq(Nat) /\ \A p, q \in DOMAIN bibliography :
            bibliography[p] = bibliography[q] => p = q
  BY ArticleAssumption DEF IsInjective
<1>2. Len(bibliography) \in Nat /\ DOMAIN bibliography = 1..Len(bibliography)
      /\ \A k \in 1..Len(bibliography) : bibliography[k] \in Nat
  BY <1>1, OfSequence
<1>3. /\ Appearance \in Seq(Markers)
      /\ \A p, q \in 1..Len(Appearance) : Appearance[p] = Appearance[q] => p = q
      /\ \A x : x \in marks <=> \E p \in 1..Len(Appearance) : Appearance[p] = x
  BY Appears
<1>4. DOMAIN Appearance = 1..Len(Appearance) /\ Len(Appearance) \in Nat
  BY <1>3, OfSequence
<1>. HIDE DEF marks
<1>5. DOMAIN MarkerMap = dom
  BY DEF MarkerMap
<1>6. ASSUME NEW k \in numbered
      PROVE  /\ MarkerMap[Appearance[k]] = bibliography[k]
             /\ k \in 1..Len(bibliography) /\ k \in 1..Len(Appearance)
  <2>1. k \in 1..Len(bibliography) /\ k \in 1..Len(Appearance)
    BY <1>2, <1>4
  <2>2. \A l \in numbered : Appearance[l] = Appearance[k] => l = k
    BY <1>3, <1>4
  <2>3. (CHOOSE l \in numbered : Appearance[l] = Appearance[k]) = k
    BY <2>2
  <2>4. MarkerMap[Appearance[k]]
            = EntryNumber(CHOOSE l \in numbered : Appearance[l] = Appearance[k])
    BY DEF MarkerMap
  <2>. QED
    BY <2>1, <2>3, <2>4 DEF EntryNumber
<1>7. ASSUME NEW x \in dom PROVE \E k \in numbered : x = Appearance[k]
  OBVIOUS
<1>8. \A x \in dom : MarkerMap[x] \in Nat /\ MarkerMap[x] \in Range(bibliography)
                     /\ x \in marks
  <2>1. ASSUME NEW x \in dom
        PROVE  MarkerMap[x] \in Nat /\ MarkerMap[x] \in Range(bibliography) /\ x \in marks
    <3>1. PICK k \in numbered : x = Appearance[k]
      BY <1>7
    <3>2. MarkerMap[x] = bibliography[k] /\ k \in 1..Len(bibliography)
          /\ k \in 1..Len(Appearance)
      BY <1>6, <3>1
    <3>3. x \in marks
      BY <1>3, <3>1, <3>2
    <3>4. bibliography[k] \in Range(bibliography)
      BY <1>2, <3>2 DEF Range
    <3>. QED
      BY <1>2, <3>2, <3>3, <3>4
  <2>. QED
    BY <2>1
<1>9. ASSUME NEW x \in dom, NEW y \in dom, x # y PROVE MarkerMap[x] # MarkerMap[y]
  <2>1. PICK k \in numbered : x = Appearance[k]
    BY <1>7
  <2>2. PICK l \in numbered : y = Appearance[l]
    BY <1>7
  <2>3. MarkerMap[x] = bibliography[k] /\ MarkerMap[y] = bibliography[l]
        /\ k \in DOMAIN bibliography /\ l \in DOMAIN bibliography
    BY <1>2, <1>6, <2>1, <2>2
  <2>4. k # l
    BY <1>9, <2>1, <2>2
  <2>. QED
    BY <1>1, <2>3, <2>4
<1>10. ASSUME dom # marks PROVE Cardinality(dom) = Len(bibliography)
  <2>1. PICK p \in 1..Len(Appearance) : Appearance[p] \notin dom
    BY <1>3, <1>8, <1>10
  <2>2. ~(p <= Len(bibliography))
    BY <1>4, <2>1
  <2>3. \A k \in 1..Len(bibliography) : k \in numbered
    BY <1>2, <1>4, <2>2
  <2>4. numbered = 1..Len(bibliography)
    BY <1>6, <2>3
  <2>. DEFINE g == [k \in 1..Len(bibliography) |-> Appearance[k]]
  <2>5. g \in [1..Len(bibliography) -> dom]
    BY <2>4
  <2>6. \A k, l \in 1..Len(bibliography) : g[k] = g[l] => k = l
    BY <1>3, <1>6, <2>3
  <2>7. \A x \in dom : \E k \in 1..Len(bibliography) : g[k] = x
    BY <1>7, <2>4
  <2>. HIDE DEF g, dom
  <2>. QED
    BY <1>2, <2>5, <2>6, <2>7, Bijected
<1>. HIDE DEF dom, numbered
<1>. QED
  BY <1>5, <1>8, <1>9, <1>10 DEF Printable, marks

-----------------------------------------------------------------------------
(***************************************************************************)
(* Every step.                                                             *)
(***************************************************************************)
LEMMA SameOrder ==
    ASSUME UNCHANGED outline PROVE AbstractAt' = AbstractAt /\ DraftOrder' = DraftOrder
<1>1. AbstractAt' = AbstractAt
  BY DEF AbstractAt, ReadsLikeAbstract
<1>. QED
  BY <1>1 DEF DraftOrder

LEMMA SameMap ==
    ASSUME UNCHANGED <<article, bibliography>> PROVE MarkerMap' = MarkerMap
<1>1. Appearance' = Appearance
  BY DEF Appearance
<1>. QED
  BY <1>1 DEF MarkerMap, EntryNumber

LEMMA SameDrafts ==
    ASSUME UNCHANGED <<outline, written>>
    PROVE  /\ Drafted(written) => Drafted(written)'
           /\ Assembled(written)' = Assembled(written)
<1>1. DraftOrder' = DraftOrder
  BY SameOrder
<1>2. Drafted(written) => Drafted(written)'
  BY <1>1 DEF Drafted, Blank
<1>3. Assembled(written)' = Assembled(written)
  BY DEF Assembled
<1>. QED
  BY <1>2, <1>3

LEMMA ArticleStart == ASSUME ArticleInit PROVE ArticleInv
<1>1. ArticleTypeOK
  <2>1. <<>> \in Seq(OutlineSection) /\ <<>> \in Seq(SectionDraft) /\ <<>> \in Seq(Nat \X Nat)
    BY EmptySeq
  <2>2. NothingRough \in [quality : 0..MaxQuality, text : Texts]
    BY ArticleAssumption DEF NothingRough
  <2>. QED
    BY <2>1, <2>2 DEF ArticleInit, ArticleTypeOK, ArticleStages
<1>2. OutlineInv /\ AssembledInv /\ PrintedInv
  BY DEF ArticleInit, OutlineInv, AssembledInv, PrintedInv, Behind
<1>. QED
  BY <1>1, <1>2 DEF ArticleInv

LEMMA SettleKeeps ==
    ASSUME ArticleInv, apc \in {"outline", "repair"}, NEW parts, Outlined(parts),
           NEW homes, Settle(parts, homes), UNCHANGED <<drafting, exporting>>
    PROVE  ArticleInv'
<1>1. /\ apc' = "draft" /\ proposal' = NoProposal /\ outline' \in Linked(parts, homes)
      /\ UNCHANGED <<rough, written, article, report, bibliography, printed, exported, uploaded>>
  BY DEF Settle, drafting, exporting
<1>2. Outlined(outline')
  BY <1>1, LinkedOutlined
<1>3. written' = <<>> /\ Len(written') = 0 /\ DOMAIN written' = {}
  <2>1. written = <<>>
    BY DEF ArticleInv, OutlineInv
  <2>. QED
    BY <1>1, <2>1
<1>4. outline' \in Seq(OutlineSection) /\ Len(outline') \in Nat /\ DOMAIN outline' = 1..Len(outline')
  <2>1. outline' \in Seq(OutlineSection)
    BY <1>2 DEF Outlined
  <2>. QED
    BY <2>1, OfSequence
<1>5. ArticleTypeOK'
  BY <1>1, <1>4 DEF ArticleInv, ArticleTypeOK, ArticleStages
<1>6. OutlineInv'
  BY <1>1, <1>2, <1>3 DEF OutlineInv, Drafted, Outlined
<1>7. Len(written') < Len(outline')
  <2>0. 1 \in DOMAIN Template
    BY TemplateType
  <2>1. {k \in DOMAIN outline' : outline'[k].of = 1} # {}
    BY <1>2, <2>0 DEF Outlined
  <2>. QED
    BY <1>3, <1>4, <2>1
<1>8. AssembledInv'
  BY <1>1, <1>7 DEF AssembledInv, Behind
<1>9. PrintedInv'
  BY <1>1 DEF ArticleInv, PrintedInv, Behind, ArticleStages
<1>. QED
  BY <1>5, <1>6, <1>8, <1>9 DEF ArticleInv

LEMMA OutlineStep ==
    ASSUME ArticleInv, OutlineProposed \/ NoOutlineProposed \/ OutlineRepaired
    PROVE  ArticleInv'
<1>1. CASE OutlineProposed
  <2>1. PICK a \in OutlineAnswers :
            IF Complete(a) THEN Settle(OutlineOf(a), Homes(OutlineOf(a)))
            ELSE apc' = "repair" /\ proposal' = a /\ UNCHANGED outline
    BY <1>1 DEF OutlineProposed
  <2>2. apc = "outline" /\ UNCHANGED <<drafting, exporting>>
    BY <1>1 DEF OutlineProposed
  <2>3. CASE Complete(a)
    BY <2>1, <2>2, <2>3, Proposed, SettleKeeps
  <2>4. CASE ~Complete(a)
    <3>1. /\ apc' = "repair" /\ proposal' = a
          /\ UNCHANGED <<outline, rough, written, article, report, bibliography, printed,
                         exported, uploaded>>
      BY <2>1, <2>2, <2>4 DEF drafting, exporting
    <3>2. ArticleTypeOK'
      BY <3>1 DEF ArticleInv, ArticleTypeOK, ArticleStages
    <3>3. OutlineInv' /\ AssembledInv' /\ PrintedInv'
      BY <2>2, <3>1
         DEF ArticleInv, OutlineInv, AssembledInv, PrintedInv, Behind, ArticleStages
    <3>. QED
      BY <3>2, <3>3 DEF ArticleInv
  <2>. QED
    BY <2>3, <2>4
<1>2. CASE NoOutlineProposed
  BY <1>2, FellBack, SettleKeeps DEF NoOutlineProposed
<1>3. CASE OutlineRepaired
  <2>1. proposal \in OutlineAnswers /\ apc = "repair"
    BY <1>3 DEF OutlineRepaired, ArticleInv, OutlineInv
  <2>2. PICK a \in OutlineAnswers : Settle(OutlineOf(a), Homes(OutlineOf(a)))
    BY <1>3, <2>1 DEF OutlineRepaired
  <2>. QED
    BY <1>3, <2>1, <2>2, Proposed, SettleKeeps DEF OutlineRepaired
<1>. QED
  BY <1>1, <1>2, <1>3

LEMMA WriteKeeps ==
    ASSUME ArticleInv, apc = "draft", NEW text \in Texts, Write(text),
           UNCHANGED <<outlining, exporting>>
    PROVE  ArticleInv'
<1>. DEFINE n == Len(written)
            m == Len(outline)
            d == [at |-> DraftOrder[n + 1], text |-> text, previous |-> Previous]
<1>1. /\ written' = Append(written, d) /\ rough' = NothingRough
      /\ IF Len(written') < Len(DraftOrder) THEN UNCHANGED <<apc, article>>
         ELSE article' = Assembled(written') /\ apc' = "verify"
      /\ UNCHANGED <<proposal, outline, report, bibliography, printed, exported, uploaded>>
  BY DEF Write, outlining, exporting
<1>2. /\ written \in Seq(SectionDraft) /\ Outlined(outline) /\ Drafted(written) /\ n < m
  BY DEF ArticleInv, ArticleTypeOK, OutlineInv, AssembledInv, Behind
<1>3. /\ n \in Nat /\ DOMAIN written = 1..n /\ m \in Nat
      /\ \A k \in 1..n : written[k] \in SectionDraft
  BY <1>2, OfSequence, AbstractPlace
<1>4. Len(DraftOrder) = m /\ DraftOrder[n + 1] \in 1..m
  <2>1. n + 1 \in 1..m
    BY <1>2, <1>3
  <2>. QED
    BY <1>2, <2>1, DraftsInOrder
<1>. HIDE DEF m
<1>5. Previous = {written[l].at : l \in {k \in 1..n : ~Blank(written[k].text)}}
  BY <1>3 DEF Previous
<1>6. Previous \subseteq Nat
  <2>1. \A k \in 1..n : written[k].at \in Nat
    BY <1>3 DEF SectionDraft
  <2>. QED
    BY <1>5, <2>1
<1>7. d \in SectionDraft
  <2>1. DraftOrder[n + 1] \in Nat
    BY <1>3, <1>4
  <2>. QED
    BY <1>6, <2>1 DEF SectionDraft
<1>8. /\ written' \in Seq(SectionDraft) /\ Len(written') = n + 1 /\ DOMAIN written' = 1..(n + 1)
      /\ written'[n + 1] = d /\ \A k \in 1..n : written'[k] = written[k]
  <2>. HIDE DEF d, n
  <2>1. Append(written, d) \in Seq(SectionDraft)
    BY <1>2, <1>7
  <2>2. Len(Append(written, d)) = n + 1
    BY <1>2, <1>7 DEF n
  <2>3. \A k \in 1..n : Append(written, d)[k] = written[k]
    BY <1>2, <1>7 DEF n
  <2>4. Append(written, d)[n + 1] = d
    BY <1>2, <1>7 DEF n
  <2>. QED
    BY <1>1, <2>1, <2>2, <2>3, <2>4, OfSequence
<1>9. /\ d.at = DraftOrder[n + 1] /\ d.previous = Previous
  OBVIOUS
<1>. HIDE DEF d
<1>10. Drafted(written')
  <2>1. ASSUME NEW k \in 1..(n + 1)
        PROVE  /\ written'[k].at = DraftOrder[k]
               /\ written'[k].previous =
                    {written'[l].at : l \in {i \in 1..(k - 1) : ~Blank(written'[i].text)}}
    <3>1. \A l \in 1..(k - 1) : l \in 1..n /\ written'[l] = written[l]
      BY <1>3, <1>8
    <3>2. {written'[l].at : l \in {i \in 1..(k - 1) : ~Blank(written'[i].text)}}
            = {written[l].at : l \in {i \in 1..(k - 1) : ~Blank(written[i].text)}}
      BY <3>1
    <3>3. CASE k = n + 1
      <4>1. k - 1 = n
        BY <1>3, <3>3
      <4>. QED
        BY <1>5, <1>8, <1>9, <3>2, <3>3, <4>1
    <3>4. CASE k # n + 1
      <4>1. k \in 1..n
        BY <1>3, <3>4
      <4>2. written[k].at = DraftOrder[k]
            /\ written[k].previous =
                {written[l].at : l \in {i \in 1..(k - 1) : ~Blank(written[i].text)}}
        BY <1>2, <1>3, <4>1 DEF Drafted
      <4>. QED
        BY <1>8, <3>2, <4>1, <4>2
    <3>. QED
      BY <3>3, <3>4
  <2>. QED
    BY <1>8, <2>1 DEF Drafted
<1>11. Drafted(written)' /\ Assembled(written)' = Assembled(written')
  <2>1. DraftOrder' = DraftOrder
    BY <1>1, SameOrder
  <2>2. Drafted(written)'
    BY <1>10, <2>1 DEF Drafted, Blank
  <2>3. Assembled(written)' = Assembled(written')
    BY <1>1 DEF Assembled
  <2>. QED
    BY <2>2, <2>3
<1>12. Outlined(outline)'
  BY <1>1, <1>2
<1>13. rough' \in [quality : 0..MaxQuality, text : Texts]
  BY <1>1, ArticleAssumption DEF NothingRough
<1>. HIDE DEF n
<1>14. CASE n + 1 < m
  <2>1. UNCHANGED <<apc, article>> /\ Len(written') < Len(outline')
    BY <1>1, <1>4, <1>8, <1>14 DEF m
  <2>2. ArticleTypeOK'
    BY <1>1, <1>8, <1>13, <2>1 DEF ArticleInv, ArticleTypeOK
  <2>3. OutlineInv' /\ AssembledInv' /\ PrintedInv'
    BY <1>1, <1>11, <1>12, <2>1
       DEF ArticleInv, OutlineInv, AssembledInv, PrintedInv, Behind, ArticleStages
  <2>. QED
    BY <2>2, <2>3 DEF ArticleInv
<1>15. CASE ~(n + 1 < m)
  <2>1. n + 1 = m
    BY <1>2, <1>3, <1>15 DEF n, m
  <2>2. article' = Assembled(written') /\ apc' = "verify" /\ Len(written') = m
    BY <1>1, <1>4, <1>8, <1>15, <2>1
  <2>3. Assembled(written') \in Seq(SectionDraft)
    BY <1>2, <1>8, <1>10, <2>2, AssembledInPlace DEF m
  <2>4. ArticleTypeOK'
    BY <1>1, <1>8, <1>13, <2>2, <2>3 DEF ArticleInv, ArticleTypeOK, ArticleStages
  <2>5. Len(written') = Len(outline')
    BY <1>1, <2>2 DEF m
  <2>6. OutlineInv' /\ AssembledInv' /\ PrintedInv'
    BY <1>1, <1>11, <1>12, <2>2, <2>5
       DEF ArticleInv, OutlineInv, AssembledInv, PrintedInv, Behind, ArticleStages
  <2>. QED
    BY <2>4, <2>6 DEF ArticleInv
<1>. QED
  BY <1>14, <1>15

LEMMA DraftingStep ==
    ASSUME ArticleInv, DraftSection \/ SectionFails \/ ReviseSection PROVE ArticleInv'
<1>1. apc = "draft" /\ UNCHANGED <<outlining, exporting>>
  BY DEF DraftSection, SectionFails, ReviseSection
<1>2. CASE \E text \in Texts : Write(text)
  BY <1>1, <1>2, WriteKeeps
<1>3. CASE ~\E text \in Texts : Write(text)
  <2>1. DraftSection
    <3>1. ~SectionFails
      BY <1>3, ArticleAssumption DEF SectionFails
    <3>2. ~ReviseSection
      BY <1>3 DEF ReviseSection, ArticleInv, ArticleTypeOK
    <3>. QED
      BY <3>1, <3>2
  <2>2. PICK text \in Texts, quality \in 0..MaxQuality :
            rough' = [quality |-> quality, text |-> text] /\ UNCHANGED <<apc, written, article>>
    BY <1>3, <2>1 DEF DraftSection
  <2>3. UNCHANGED <<proposal, outline, report, bibliography, printed, exported, uploaded>>
    BY <1>1 DEF outlining, exporting
  <2>4. ArticleTypeOK'
    BY <2>2, <2>3 DEF ArticleInv, ArticleTypeOK
  <2>5. Drafted(written) => Drafted(written)'
    BY <2>2, <2>3, SameDrafts
  <2>6. OutlineInv' /\ AssembledInv' /\ PrintedInv'
    BY <1>1, <2>2, <2>3, <2>5
       DEF ArticleInv, OutlineInv, AssembledInv, PrintedInv, Behind, ArticleStages, Outlined
  <2>. QED
    BY <2>4, <2>6 DEF ArticleInv
<1>. QED
  BY <1>2, <1>3

\* What is settled about the drafts stays so while the article is put together.
LEMMA DraftsStay ==
    ASSUME ArticleInv, UNCHANGED <<outlining, drafting>>,
           apc \in Behind({"verify", "export", "convert", "upload"}),
           apc' \in Behind({"verify", "export", "convert", "upload"}) \cup {"failed"}
    PROVE  OutlineInv' /\ AssembledInv'
<1>1. UNCHANGED <<proposal, outline, rough, written, article>>
  BY DEF outlining, drafting
<1>2. (Drafted(written) => Drafted(written)') /\ Assembled(written)' = Assembled(written)
  BY <1>1, SameDrafts
<1>3. Outlined(outline)'
  BY <1>1 DEF ArticleInv, OutlineInv, Behind
<1>4. Drafted(written)'
  BY <1>2 DEF ArticleInv, OutlineInv, Behind
<1>5. Len(written) = Len(outline) /\ article = Assembled(written)
  BY DEF ArticleInv, AssembledInv
<1>. QED
  BY <1>1, <1>2, <1>3, <1>4, <1>5 DEF OutlineInv, AssembledInv, Behind

LEMMA ExportStep ==
    ASSUME ArticleInv, VerifyCitations \/ ExportDocx \/ ConvertToPdf \/ UploadExports
    PROVE  ArticleInv'
<1>1. /\ UNCHANGED <<outlining, drafting>>
      /\ apc \in Behind({"verify", "export", "convert", "upload"})
      /\ apc' \in Behind({"verify", "export", "convert", "upload"})
  BY DEF VerifyCitations, ExportDocx, ConvertToPdf, UploadExports, Behind
<1>2. UNCHANGED <<proposal, outline, rough, written, article>>
  BY <1>1 DEF outlining, drafting
<1>3. OutlineInv' /\ AssembledInv'
  BY <1>1, DraftsStay
<1>4. article \in Seq(SectionDraft) /\ bibliography \in Bibliographies
      /\ UNCHANGED bibliography /\ uploaded = {}
  BY DEF VerifyCitations, ExportDocx, ConvertToPdf, UploadExports, ArticleInv, ArticleTypeOK,
     PrintedInv, ArticleStages
<1>5. ReportOf(article)' = ReportOf(article) /\ MarkerMap' = MarkerMap
  BY <1>2, <1>4, SameMap DEF ReportOf
<1>6. CASE VerifyCitations
  <2>1. /\ apc' = "export" /\ report' = ReportOf(article)
        /\ UNCHANGED <<printed, exported, uploaded>>
    BY <1>6 DEF VerifyCitations, ReportOf
  <2>2. report' \in Seq(Nat \X Nat)
    BY <1>4, <2>1, Reported
  <2>3. ArticleTypeOK'
    BY <1>2, <1>4, <2>1, <2>2 DEF ArticleInv, ArticleTypeOK, ArticleStages
  <2>4. PrintedInv'
    BY <1>4, <1>5, <2>1 DEF PrintedInv, Behind
  <2>. QED
    BY <1>3, <2>3, <2>4 DEF ArticleInv
<1>7. CASE ExportDocx
  <2>1. /\ apc = "export" /\ apc' = "convert" /\ printed' = MarkerMap /\ exported' = {"docx"}
        /\ UNCHANGED <<report, uploaded>>
    BY <1>7 DEF ExportDocx
  <2>2. \A m \in DOMAIN printed' : printed'[m] \in Nat
    BY <1>4, <2>1, Mapped
  <2>3. ArticleTypeOK'
    BY <1>2, <1>4, <2>1, <2>2 DEF ArticleInv, ArticleTypeOK, ArticleStages
  <2>4. PrintedInv'
    BY <1>4, <1>5, <2>1 DEF ArticleInv, PrintedInv, Behind
  <2>. QED
    BY <1>3, <2>3, <2>4 DEF ArticleInv
<1>8. CASE ConvertToPdf
  <2>1. /\ apc = "convert" /\ apc' = "upload" /\ exported' \in {exported, exported \cup {"pdf"}}
        /\ UNCHANGED <<report, printed, uploaded>>
    BY <1>8 DEF ConvertToPdf
  <2>2. ArticleTypeOK'
    BY <1>2, <1>4, <2>1 DEF ArticleInv, ArticleTypeOK, ArticleStages
  <2>3. PrintedInv'
    BY <1>4, <1>5, <2>1 DEF ArticleInv, PrintedInv, Behind
  <2>. QED
    BY <1>3, <2>2, <2>3 DEF ArticleInv
<1>9. CASE UploadExports
  <2>1. /\ apc = "upload" /\ apc' = "delivered" /\ uploaded' \in SUBSET exported
        /\ UNCHANGED <<report, printed, exported>>
    BY <1>9 DEF UploadExports
  <2>2. ArticleTypeOK'
    BY <1>2, <1>4, <2>1 DEF ArticleInv, ArticleTypeOK, ArticleOver
  <2>3. PrintedInv'
    BY <1>5, <2>1 DEF ArticleInv, PrintedInv, Behind, ArticleStages
  <2>. QED
    BY <1>3, <2>2, <2>3 DEF ArticleInv
<1>. QED
  BY <1>6, <1>7, <1>8, <1>9

LEMMA RaisesStep == ASSUME ArticleInv, StageRaises PROVE ArticleInv'
<1>1. /\ apc' = "failed"
      /\ UNCHANGED <<proposal, outline, rough, written, article, report, bibliography, printed,
                     exported, uploaded>>
  BY DEF StageRaises, outlining, drafting, exporting
<1>2. ArticleTypeOK'
  BY <1>1 DEF ArticleInv, ArticleTypeOK, ArticleOver
<1>3. OutlineInv' /\ AssembledInv' /\ PrintedInv'
  BY <1>1 DEF OutlineInv, AssembledInv, PrintedInv, Behind, ArticleStages
<1>. QED
  BY <1>2, <1>3 DEF ArticleInv

LEMMA ArticleRests == ASSUME ArticleInv, UNCHANGED articleVars PROVE ArticleInv'
<1>1. UNCHANGED <<apc, proposal, outline, rough, written, article, report, bibliography,
                  printed, exported, uploaded>>
  BY DEF articleVars
<1>2. ArticleTypeOK'
  BY <1>1 DEF ArticleInv, ArticleTypeOK
<1>3. /\ Drafted(written) => Drafted(written)'
      /\ Assembled(written)' = Assembled(written) /\ MarkerMap' = MarkerMap
  BY <1>1, SameDrafts, SameMap
<1>4. ReportOf(article)' = ReportOf(article) /\ (Outlined(outline) => Outlined(outline)')
  BY <1>1 DEF ReportOf
<1>5. OutlineInv'
  BY <1>1, <1>3, <1>4 DEF ArticleInv, OutlineInv, Behind
<1>6. AssembledInv' /\ PrintedInv'
  BY <1>1, <1>3, <1>4 DEF ArticleInv, AssembledInv, PrintedInv, Behind
<1>. QED
  BY <1>2, <1>5, <1>6 DEF ArticleInv

LEMMA ArticleStep == ASSUME ArticleInv, [Next]_vars PROVE ArticleInv'
<1>1. ArticleWork \/ UNCHANGED articleVars
  BY DEF Next, vars, textVars, InSources, InEditorial, InOutputs, InImages, InTurns, InDeck,
     InInterview, InSuggestions, InArticle, InText, ArticleNext
<1>. QED
  BY <1>1, OutlineStep, DraftingStep, ExportStep, RaisesStep, ArticleRests DEF ArticleWork

LEMMA ArticleStands == ASSUME ArticleInv PROVE ArticleHoldsTogether
<1>1. ASSUME apc \in Behind({"verify", "export", "convert", "upload"})
      PROVE  /\ Outlined(outline) /\ Drafted(written) /\ written \in Seq(SectionDraft)
             /\ Len(written) = Len(outline) /\ article = Assembled(written)
             /\ article \in Seq(SectionDraft) /\ Len(article) = Len(outline)
             /\ DOMAIN article = 1..Len(outline)
  <2>1. Outlined(outline) /\ Drafted(written) /\ Len(written) = Len(outline)
        /\ article = Assembled(written)
    BY <1>1 DEF ArticleInv, OutlineInv, AssembledInv, Behind
  <2>2. written \in Seq(SectionDraft)
    BY DEF ArticleInv, ArticleTypeOK
  <2>3. article \in Seq(SectionDraft) /\ Len(article) = Len(outline)
    BY <2>1, <2>2, AssembledInPlace
  <2>. QED
    BY <2>1, <2>2, <2>3, OfSequence
<1>2. DraftsFollowTheOutline
  <2>1. SUFFICES ASSUME apc \in Behind({"verify", "export", "convert", "upload"})
                 PROVE  DraftsFollowTheOutline
    BY DEF DraftsFollowTheOutline, Behind
  <2>2. \A k \in DOMAIN article :
            LET nonEmpty == {l \in DOMAIN article : ~Blank(article[l].text)} IN
            /\ article[k].at = k
            /\ article[k].previous =
                (IF k = AbstractAt THEN nonEmpty \ {k}
                 ELSE {l \in nonEmpty : l < k /\ l # AbstractAt})
    BY <1>1, <2>1, PreviousByPlace
  <2>. QED
    BY <1>1, <2>1, <2>2 DEF DraftsFollowTheOutline, Outlined
<1>. DEFINE marks == UNION {Range(article[i].text.marks) : i \in DOMAIN article}
            refs == UNION {{i} \X (1..article[i].text.refs) : i \in DOMAIN article}
<1>3. ASSUME apc \in Behind({"convert", "upload"})
      PROVE  /\ Len(report) = Cardinality(refs) /\ Range(report) = refs
             /\ Printable(printed, marks)
  <2>1. article \in Seq(SectionDraft) /\ bibliography \in Bibliographies
    BY DEF ArticleInv, ArticleTypeOK
  <2>2. report = ReportOf(article) /\ printed = MarkerMap
    BY <1>3 DEF ArticleInv, PrintedInv, Behind
  <2>. QED
    BY <2>1, <2>2, Reported, Mapped
<1>. QED
  BY <1>2, <1>3 DEF ArticleHoldsTogether, Printable, Behind

\* Whatever the model proposes, omits and writes, and whichever of its texts fail: the
\* drafts of an article stand where its outline has them and saw what they should,
\* its report has every declared citation once, and no two of its markers are printed
\* as the same number, or as one its bibliography lacks.
THEOREM ArticlesHoldTogether == Spec => []ArticleHoldsTogether
<1>1. Init => ArticleInv
  BY ArticleStart DEF Init
<1>2. ArticleInv /\ [Next]_vars => ArticleInv'
  BY ArticleStep
<1>3. ArticleInv => ArticleHoldsTogether
  BY ArticleStands
<1>. QED
  BY <1>1, <1>2, <1>3, PTL DEF Spec

LEMMA ArticleTypeCorrect == Spec => []ArticleTypeOK
<1>1. Init => ArticleInv
  BY ArticleStart DEF Init
<1>2. ArticleInv /\ [Next]_vars => ArticleInv'
  BY ArticleStep
<1>3. ArticleInv => ArticleTypeOK
  BY DEF ArticleInv
<1>. QED
  BY <1>1, <1>2, <1>3, PTL DEF Spec

-----------------------------------------------------------------------------
(***************************************************************************)
(* What a rule keeps of a sequence, and what a sort makes of it.           *)
(***************************************************************************)
\* What is kept of a sequence, by its elements.
LEMMA KeptOnes ==
    ASSUME NEW X, NEW s \in Seq(X), NEW S, S \subseteq DOMAIN s
    PROVE  /\ Kept(s, S) \in Seq(X)
           /\ \A p \in 1..Len(Kept(s, S)) : \E k \in S : Kept(s, S)[p] = s[k]
           /\ \A k \in S : \E p \in 1..Len(Kept(s, S)) : Kept(s, S)[p] = s[k]
<1>. DEFINE f == Kept(s, S)
<1>1. f \in Seq(X) /\ \E h : Keeps(f, s, S, h)
  BY KeptInOrder
<1>. HIDE DEF f
<1>2. PICK h : Keeps(f, s, S, h)
  BY <1>1
<1>3. \A p \in 1..Len(f) : h[p] \in S /\ f[p] = s[h[p]]
  BY <1>2 DEF Keeps
<1>4. \A k \in S : \E p \in 1..Len(f) : f[p] = s[k]
  BY <1>2, <1>3 DEF Keeps
<1>5. \A p \in 1..Len(f) : \E k \in S : f[p] = s[k]
  BY <1>3
<1>. QED
  BY <1>1, <1>4, <1>5 DEF f

LEMMA ThoseOnes ==
    ASSUME NEW X, NEW s \in Seq(X), NEW S, S \subseteq DOMAIN s
    PROVE  /\ Those(s, S) \in Seq(X)
           /\ \A p \in 1..Len(Those(s, S)) : \E k \in S : Those(s, S)[p] = s[k]
           /\ \A k \in S : \E p \in 1..Len(Those(s, S)) : Those(s, S)[p] = s[k]
<1>1. Those(s, S) = Kept(s, S)
  BY DEF Those, Kept
<1>. QED
  BY <1>1, KeptOnes

LEMMA DistinctOnes ==
    ASSUME NEW X, NEW s \in Seq(X)
    PROVE  /\ Distinct(s) \in Seq(X) /\ (Len(s) > 0 => Len(Distinct(s)) \in Nat \ {0})
           /\ \A p \in 1..Len(Distinct(s)) : \E k \in DOMAIN s : Distinct(s)[p] = s[k]
<1>. DEFINE S == {k \in DOMAIN s : \A l \in 1..(k - 1) : s[l] # s[k]}
<1>1. Distinct(s) = Those(s, S)
  BY DEF Distinct
<1>2. Len(s) > 0 => 1 \in S
  BY OfSequence
<1>3. S \subseteq DOMAIN s
  OBVIOUS
<1>. HIDE DEF S
<1>4. /\ Those(s, S) \in Seq(X)
      /\ \A p \in 1..Len(Those(s, S)) : \E k \in S : Those(s, S)[p] = s[k]
      /\ \A k \in S : \E p \in 1..Len(Those(s, S)) : Those(s, S)[p] = s[k]
  BY <1>3, ThoseOnes
<1>5. Len(Those(s, S)) \in Nat
  BY <1>4, OfSequence
<1>6. Len(s) > 0 => Len(Those(s, S)) \in Nat \ {0}
  <2>1. ASSUME NEW p \in 1..Len(Those(s, S)) PROVE Len(Those(s, S)) # 0
    BY <1>5
  <2>2. Len(s) > 0 => \E p \in 1..Len(Those(s, S)) : TRUE
    BY <1>2, <1>4
  <2>. QED
    BY <1>5, <2>1, <2>2
<1>7. \A p \in 1..Len(Those(s, S)) : \E k \in DOMAIN s : Those(s, S)[p] = s[k]
  BY <1>3, <1>4
<1>. QED
  BY <1>1, <1>4, <1>6, <1>7

-----------------------------------------------------------------------------
\* A strict order of 1..n in which any two can be compared.
Orders(L, n) ==
    /\ \A i \in 1..n : <<i, i>> \notin L
    /\ \A i, j, k \in 1..n : <<i, j>> \in L /\ <<j, k>> \in L => <<i, k>> \in L
    /\ \A i, j \in 1..n : i = j \/ <<i, j>> \in L \/ <<j, i>> \in L

\* How many are ahead of i.
Place(L, n, i) == Cardinality({j \in 1..n : <<j, i>> \in L})

\* Who has m others ahead is the one at place m + 1.
LEMMA Places ==
    ASSUME NEW n \in Nat, NEW L, Orders(L, n)
    PROVE  /\ \A i \in 1..n : Place(L, n, i) \in 0..(n - 1)
           /\ \A i, j \in 1..n : Place(L, n, i) < Place(L, n, j) => <<i, j>> \in L
           /\ \A i, j \in 1..n : Place(L, n, i) = Place(L, n, j) => i = j
           /\ \A m \in 1..n : \E i \in 1..n : Place(L, n, i) = m - 1
<1>. DEFINE ahead(i) == {j \in 1..n : <<j, i>> \in L}
            p == [i \in 1..n |-> Place(L, n, i)]
<1>1. IsFiniteSet(1..n) /\ Cardinality(1..n) = n
  <2>1. 1 \in Int /\ n \in Int /\ (1 > n => n = 0) /\ (n - 1) + 1 = n
    OBVIOUS
  <2>2. IsFiniteSet(1..n) /\ Cardinality(1..n) = IF 1 > n THEN 0 ELSE (n - 1) + 1
    BY <2>1, FS_Interval
  <2>. QED
    BY <2>1, <2>2
<1>2. ASSUME NEW S \in SUBSET (1..n), NEW T \in SUBSET S, NEW x \in S \ T
      PROVE  Cardinality(T) < Cardinality(S) /\ Cardinality(T) \in Nat /\ Cardinality(S) \in Nat
  <2>1. IsFiniteSet(S)
    BY <1>1, FS_Subset
  <2>2. IsFiniteSet(T) /\ Cardinality(T) <= Cardinality(S) /\ (Cardinality(S) = Cardinality(T) => S = T)
    BY <2>1, FS_Subset
  <2>3. Cardinality(T) \in Nat /\ Cardinality(S) \in Nat
    BY <2>1, <2>2, FS_CardinalityType
  <2>. QED
    BY <2>2, <2>3
<1>3. ASSUME NEW i \in 1..n PROVE p[i] = Cardinality(ahead(i)) /\ p[i] \in 0..(n - 1)
  <2>1. ahead(i) \in SUBSET (1..n) /\ i \in (1..n) \ ahead(i)
    BY DEF Orders
  <2>. HIDE DEF ahead
  <2>2. Cardinality(ahead(i)) < n /\ Cardinality(ahead(i)) \in Nat
    BY <1>1, <1>2, <2>1
  <2>3. p[i] = Cardinality(ahead(i))
    BY DEF ahead, Place
  <2>. QED
    BY <2>2, <2>3
<1>4. ASSUME NEW i \in 1..n, NEW j \in 1..n, <<i, j>> \in L PROVE p[i] < p[j]
  <2>1. ahead(j) \in SUBSET (1..n) /\ ahead(i) \in SUBSET ahead(j) /\ i \in ahead(j) \ ahead(i)
    BY <1>4 DEF Orders
  <2>. HIDE DEF ahead
  <2>2. Cardinality(ahead(i)) < Cardinality(ahead(j))
    BY <1>2, <2>1
  <2>. QED
    BY <1>3, <2>2
<1>. HIDE DEF ahead
<1>0. \A i \in 1..n : p[i] = Place(L, n, i)
  OBVIOUS
<1>. HIDE DEF p
<1>5. p \in [1..n -> 0..(n - 1)]
  BY <1>3 DEF p
<1>6. \A i, j \in 1..n : p[i] \in Int /\ p[j] \in Int
  BY <1>5
<1>7. ASSUME NEW i \in 1..n, NEW j \in 1..n, p[i] = p[j] PROVE i = j
  <2>0. ~(p[i] < p[j]) /\ ~(p[j] < p[i])
    BY ONLY <1>6, <1>7
  <2>1. <<i, j>> \notin L /\ <<j, i>> \notin L
    BY <1>4, <2>0
  <2>. QED
    BY <2>1 DEF Orders
<1>8. ASSUME NEW i \in 1..n, NEW j \in 1..n, p[i] < p[j] PROVE <<i, j>> \in L
  <2>0. ~(p[j] < p[i]) /\ i # j
    BY ONLY <1>6, <1>8
  <2>1. <<j, i>> \notin L /\ i # j
    BY <1>4, <2>0
  <2>. QED
    BY <2>1 DEF Orders
<1>9. IsFiniteSet(0..(n - 1)) /\ Cardinality(0..(n - 1)) = n
  <2>1. 0 \in Int /\ n - 1 \in Int /\ (0 > n - 1 => n = 0) /\ ((n - 1) - 0) + 1 = n
    OBVIOUS
  <2>2. IsFiniteSet(0..(n - 1))
        /\ Cardinality(0..(n - 1)) = IF 0 > n - 1 THEN 0 ELSE ((n - 1) - 0) + 1
    BY <2>1, FS_Interval
  <2>. QED
    BY <2>1, <2>2
<1>10. p \in Injection(1..n, 0..(n - 1))
  BY <1>5, <1>7 DEF Injection, IsInjective
<1>11. p \in Surjection(1..n, 0..(n - 1))
  BY <1>1, <1>9, <1>10, FS_Injection
<1>12. ASSUME NEW m \in 1..n PROVE \E i \in 1..n : p[i] = m - 1
  <2>1. m - 1 \in 0..(n - 1)
    OBVIOUS
  <2>. QED
    BY <1>11, <2>1 DEF Surjection
<1>. QED
  BY <1>0, <1>5, <1>7, <1>8, <1>12

\* Whom a key puts first, then who stood first.
Ranked(B, n) ==
    /\ \A i, j \in 1..n : <<i, j>> \in B => <<j, i>> \notin B
    /\ \A i, j, k \in 1..n : <<i, k>> \in B => <<i, j>> \in B \/ <<j, k>> \in B

Stable(B, n) == {x \in (1..n) \X (1..n) : x \in B \/ (<<x[2], x[1]>> \notin B /\ x[1] < x[2])}

LEMMA StableOrders ==
    ASSUME NEW n \in Nat, NEW B, Ranked(B, n) PROVE Orders(Stable(B, n), n)
<1>1. \A i, j \in 1..n : <<i, j>> \in Stable(B, n)
                            <=> <<i, j>> \in B \/ (<<j, i>> \notin B /\ i < j)
  BY DEF Stable
<1>2. \A i, j \in 1..n : <<i, j>> \in B => <<j, i>> \notin B
  BY DEF Ranked
<1>3. \A i, j, k \in 1..n : <<i, k>> \in B => <<i, j>> \in B \/ <<j, k>> \in B
  BY DEF Ranked
<1>4. \A i \in 1..n : <<i, i>> \notin Stable(B, n)
  BY <1>1, <1>2
<1>5. ASSUME NEW i \in 1..n, NEW j \in 1..n, NEW k \in 1..n,
             <<i, j>> \in Stable(B, n), <<j, k>> \in Stable(B, n)
      PROVE  <<i, k>> \in Stable(B, n)
  <2>1. /\ <<i, j>> \in B \/ (<<j, i>> \notin B /\ i < j)
        /\ <<j, k>> \in B \/ (<<k, j>> \notin B /\ j < k)
    BY <1>1, <1>5
  <2>2. <<k, i>> \notin B
    BY <1>2, <1>3, <2>1
  <2>3. CASE <<i, j>> \in B \/ <<j, k>> \in B
    <3>1. <<i, k>> \in B
      BY <1>2, <1>3, <2>1, <2>3
    <3>. QED
      BY <1>1, <3>1
  <2>4. CASE ~(<<i, j>> \in B \/ <<j, k>> \in B)
    <3>1. i < k
      BY <2>1, <2>4
    <3>. QED
      BY <1>1, <2>2, <3>1
  <2>. QED
    BY <2>3, <2>4
<1>6. \A i, j \in 1..n : i = j \/ <<i, j>> \in Stable(B, n) \/ <<j, i>> \in Stable(B, n)
  <2>1. \A i, j \in 1..n : i = j \/ i < j \/ j < i
    OBVIOUS
  <2>. QED
    BY <1>1, <2>1
<1>. QED
  BY <1>4, <1>5, <1>6 DEF Orders

\* r is s, sorted.
Sorts(r, s, B) ==
    /\ Len(r) = Len(s)
    /\ \E h \in [1..Len(s) -> 1..Len(s)] :
        /\ \A m \in 1..Len(s) : r[m] = s[h[m]]
        /\ \A l, m \in 1..Len(s) : h[l] = h[m] => l = m
        /\ \A i \in 1..Len(s) : \E m \in 1..Len(s) : h[m] = i
        /\ \A l, m \in 1..Len(s) : l < m => <<h[m], h[l]>> \notin B

\* What one takes who has as many ahead as there are places before.
LEMMA SortedBy ==
    ASSUME NEW X, NEW s \in Seq(X), NEW B, Ranked(B, Len(s)), NEW c,
           \A m \in 1..Len(s) :
              c[m] \in 1..Len(s) /\ Place(Stable(B, Len(s)), Len(s), c[m]) = m - 1,
           NEW r, r = [m \in 1..Len(s) |-> s[c[m]]]
    PROVE  r \in Seq(X) /\ Sorts(r, s, B)
<1>. DEFINE n == Len(s)
            L == Stable(B, n)
            h == [m \in 1..n |-> c[m]]
<1>1. n \in Nat
  OBVIOUS
<1>2. Orders(L, n)
  BY <1>1, StableOrders
<1>. HIDE DEF n, L
<1>3. /\ \A i \in 1..n : Place(L, n, i) \in 0..(n - 1)
      /\ \A i, j \in 1..n : Place(L, n, i) < Place(L, n, j) => <<i, j>> \in L
      /\ \A i, j \in 1..n : Place(L, n, i) = Place(L, n, j) => i = j
      /\ \A m \in 1..n : \E i \in 1..n : Place(L, n, i) = m - 1
  BY <1>1, <1>2, Places
<1>4. ASSUME NEW m \in 1..n PROVE h[m] \in 1..n /\ Place(L, n, h[m]) = m - 1
  BY DEF n, L
<1>5. h \in [1..n -> 1..n] /\ \A m \in 1..n : r[m] = s[h[m]]
  BY <1>4 DEF n
<1>. HIDE DEF h
<1>6. \A l, m \in 1..n : h[l] = h[m] => l = m
  <2>1. ASSUME NEW l \in 1..n, NEW m \in 1..n, h[l] = h[m] PROVE l = m
    <3>1. l - 1 = m - 1 /\ l \in Int /\ m \in Int
      BY <1>4, <2>1
    <3>. QED
      BY <3>1
  <2>. QED
    BY <2>1
<1>7. \A i \in 1..n : \E m \in 1..n : h[m] = i
  <2>1. ASSUME NEW i \in 1..n PROVE \E m \in 1..n : h[m] = i
    <3>1. Place(L, n, i) \in 0..(n - 1)
      BY <1>3
    <3>2. Place(L, n, i) + 1 \in 1..n /\ (Place(L, n, i) + 1) - 1 = Place(L, n, i)
      BY <1>1, <3>1
    <3>3. h[Place(L, n, i) + 1] \in 1..n /\ Place(L, n, h[Place(L, n, i) + 1]) = Place(L, n, i)
      BY <1>4, <3>2
    <3>4. h[Place(L, n, i) + 1] = i
      BY <1>3, <3>3
    <3>. QED
      BY <3>2, <3>4
  <2>. QED
    BY <2>1
<1>8. \A l, m \in 1..n : l < m => <<h[m], h[l]>> \notin B
  <2>1. ASSUME NEW l \in 1..n, NEW m \in 1..n, l < m PROVE <<h[m], h[l]>> \notin B
    <3>1. h[l] \in 1..n /\ h[m] \in 1..n /\ Place(L, n, h[l]) = l - 1 /\ Place(L, n, h[m]) = m - 1
      BY <1>4
    <3>2. Place(L, n, h[l]) < Place(L, n, h[m])
      BY <2>1, <3>1
    <3>3. <<h[l], h[m]>> \in L
      BY <1>3, <3>1, <3>2
    <3>4. <<h[l], h[m]>> \in B \/ <<h[m], h[l]>> \notin B
      BY <3>3 DEF L, Stable
    <3>. QED
      BY <3>1, <3>4 DEF Ranked, n
  <2>. QED
    BY <2>1
<1>9. r \in [1..n -> X]
  <2>1. \A i \in 1..n : s[i] \in X
    BY OfSequence DEF n
  <2>2. r = [m \in 1..n |-> s[c[m]]]
    BY DEF n
  <2>3. \A m \in 1..n : c[m] \in 1..n
    <3>1. \A m \in 1..n : h[m] \in 1..n /\ h[m] = c[m]
      BY <1>4 DEF h
    <3>. QED
      BY <3>1
  <2>. QED
    BY <2>1, <2>2, <2>3
<1>10. r \in Seq(X) /\ Len(r) = n
  BY ONLY <1>1, <1>9, IsSequence
<1>. QED
  BY <1>5, <1>6, <1>7, <1>8, <1>10 DEF Sorts, n

\* Sorted chooses just these.
LEMMA Sorting ==
    ASSUME NEW X, NEW s \in Seq(X), NEW B, Ranked(B, Len(s))
    PROVE  Sorted(s, B) \in Seq(X) /\ Sorts(Sorted(s, B), s, B)
<1>. DEFINE n == Len(s)
            before(i) == {j \in 1..n : <<j, i>> \in B \/ (<<i, j>> \notin B /\ j < i)}
            c == [m \in 1..n |-> CHOOSE i \in 1..n : Cardinality(before(i)) = m - 1]
<1>1. n \in Nat /\ DOMAIN s = 1..n
  BY OfSequence
<1>2. Sorted(s, B) = [m \in 1..n |-> s[c[m]]]
  BY <1>1 DEF Sorted
<1>. HIDE DEF n
<1>3. Ranked(B, n)
  BY DEF n
<1>4. ASSUME NEW i \in 1..n PROVE before(i) = {j \in 1..n : <<j, i>> \in Stable(B, n)}
  BY DEF Stable
<1>. HIDE DEF before
<1>5. \A i \in 1..n : Place(Stable(B, n), n, i) = Cardinality(before(i))
  BY <1>4 DEF Place
<1>6. \A m \in 1..n : \E i \in 1..n : Place(Stable(B, n), n, i) = m - 1
  BY <1>1, <1>3, StableOrders, Places
<1>7. ASSUME NEW m \in 1..n PROVE c[m] \in 1..n /\ Place(Stable(B, n), n, c[m]) = m - 1
  <2>1. \E i \in 1..n : Cardinality(before(i)) = m - 1
    BY <1>5, <1>6
  <2>2. c[m] = CHOOSE i \in 1..n : Cardinality(before(i)) = m - 1
    OBVIOUS
  <2>3. c[m] \in 1..n /\ Cardinality(before(c[m])) = m - 1
    BY <2>1, <2>2
  <2>. QED
    BY <1>5, <2>3
<1>. HIDE DEF c
<1>. QED
  BY <1>2, <1>3, <1>7, SortedBy DEF n

\* What a number puts first.
LEMMA RankedByKey ==
    ASSUME NEW n \in Nat, NEW W, \A i \in 1..n : W[i] \in Int, NEW B,
           \A i, j \in 1..n : <<i, j>> \in B <=> W[i] > W[j]
    PROVE  Ranked(B, n)
BY DEF Ranked

-----------------------------------------------------------------------------
(***************************************************************************)
(* Entries merged one after another.                                       *)
(***************************************************************************)
\* What becomes of m when e is merged into it.
OneMerged(m, e, after, alike, worth) ==
    \/ (\A i \in DOMAIN m : <<m[i], e>> \notin alike) /\ after = Append(m, e)
    \/ \E i \in DOMAIN m :
        /\ <<m[i], e>> \in alike
        /\ \/ worth[e] > worth[m[i]] /\ after = [m EXCEPT ![i] = e]
           \/ ~(worth[e] > worth[m[i]]) /\ after = m

MergedWith(m, e, alike, worth) ==
    LET like == {i \in DOMAIN m : <<m[i], e>> \in alike}
        first == CHOOSE i \in like : \A j \in like : i <= j
    IN IF like = {} THEN Append(m, e)
       ELSE IF worth[e] > worth[m[first]] THEN [m EXCEPT ![first] = e]
       ELSE m

LEMMA MergesOne ==
    ASSUME NEW X, NEW m \in Seq(X), NEW e \in X, NEW alike, NEW worth
    PROVE  /\ MergedWith(m, e, alike, worth) \in Seq(X)
           /\ OneMerged(m, e, MergedWith(m, e, alike, worth), alike, worth)
<1>. DEFINE like == {i \in DOMAIN m : <<m[i], e>> \in alike}
            first == CHOOSE i \in like : \A j \in like : i <= j
            after == IF like = {} THEN Append(m, e)
                     ELSE IF worth[e] > worth[m[first]] THEN [m EXCEPT ![first] = e]
                     ELSE m
<1>1. MergedWith(m, e, alike, worth) = after
  BY DEF MergedWith
<1>2. DOMAIN m \subseteq Nat
  BY OfSequence
<1>3. CASE like = {}
  <2>1. after = Append(m, e) /\ \A i \in DOMAIN m : <<m[i], e>> \notin alike
    BY <1>3
  <2>. HIDE DEF after
  <2>2. after \in Seq(X)
    BY <2>1, AppendProperties
  <2>. QED
    BY <1>1, <2>1, <2>2 DEF OneMerged
<1>4. CASE like # {}
  <2>1. first \in like
    <3>1. like \in SUBSET Nat
      BY <1>2
    <3>. HIDE DEF like
    <3>2. \E i \in like : \A j \in like : i <= j
      BY <1>4, <3>1, LeastElement
    <3>. QED
      BY <3>2
  <2>. HIDE DEF first
  <2>2. first \in DOMAIN m /\ <<m[first], e>> \in alike
    BY <2>1
  <2>3. after = IF worth[e] > worth[m[first]] THEN [m EXCEPT ![first] = e] ELSE m
    BY <1>4
  <2>. HIDE DEF after, like
  <2>4. after \in Seq(X)
    <3>1. [m EXCEPT ![first] = e] \in Seq(X)
      BY ExceptSeq, <2>2
    <3>. QED
      BY <2>3, <3>1
  <2>5. OneMerged(m, e, after, alike, worth)
    BY <2>2, <2>3 DEF OneMerged
  <2>. QED
    BY <1>1, <2>4, <2>5
<1>. QED
  BY <1>3, <1>4

\* Merged merges one after the other.
MergesEach(g, X, old, new, alike, worth) ==
    /\ g \in [0..Len(new) -> Seq(X)]
    /\ g[0] = old /\ Merged(old, new, alike, worth) = g[Len(new)]
    /\ \A k \in 1..Len(new) : OneMerged(g[k - 1], new[k], g[k], alike, worth)

LEMMA Merging ==
    ASSUME NEW X, NEW old \in Seq(X), NEW new \in Seq(X), NEW alike, NEW worth
    PROVE  \E g : MergesEach(g, X, old, new, alike, worth)
<1>. DEFINE n == Len(new)
            Body(f) == [k \in 0..n |-> IF k = 0 THEN old ELSE MergedWith(f[k - 1], new[k], alike, worth)]
            step == [p \in Seq(X) \X (1..n) |-> MergedWith(p[1], new[p[2]], alike, worth)]
<1>1. n \in Nat /\ \A k \in 1..n : new[k] \in X
  BY OfSequence
<1>2. \A m \in Seq(X) : \A k \in 1..n :
        /\ MergedWith(m, new[k], alike, worth) \in Seq(X)
        /\ OneMerged(m, new[k], MergedWith(m, new[k], alike, worth), alike, worth)
  BY <1>1, MergesOne
<1>3. PICK g : g \in [0..n -> Seq(X)] /\ g[0] = old /\ \A k \in 1..n : g[k] = MergedWith(g[k - 1], new[k], alike, worth)
  <2>1. IsStep(step, Seq(X), n)
    BY <1>2 DEF IsStep
  <2>2. \A m \in Seq(X) : \A k \in 1..n : step[<<m, k>>] = MergedWith(m, new[k], alike, worth)
    OBVIOUS
  <2>. HIDE DEF step, n
  <2>3. PICK g : Iterates(g, Seq(X), old, step, n)
    BY <1>1, <2>1, Recursion
  <2>4. \A k \in 1..n : g[k - 1] \in Seq(X) /\ g[k] = step[<<g[k - 1], k>>]
    BY <1>1, <2>3 DEF Iterates
  <2>5. g \in [0..n -> Seq(X)] /\ g[0] = old
    BY <2>3 DEF Iterates
  <2>6. \A k \in 1..n : g[k] = MergedWith(g[k - 1], new[k], alike, worth)
    BY <2>2, <2>4
  <2>. QED
    BY <2>5, <2>6
<1>4. g = Body(g)
  BY <1>3
<1>. DEFINE G == CHOOSE f : f = Body(f)
<1>5. G = Body(G)
  BY <1>4
<1>6. Merged(old, new, alike, worth) = G[n]
  BY DEF Merged, MergedWith
<1>. HIDE DEF G, n
<1>7. \A k \in 0..n : G[k] = g[k]
  <2>. DEFINE T == {k \in 0..n : G[k] = g[k]}
  <2>1. 0 \in T
    BY <1>1, <1>3, <1>5
  <2>2. ASSUME NEW k \in 0..(n - 1), k \in T PROVE k + 1 \in T
    <3>1. k + 1 \in 1..n /\ k + 1 \in 0..n /\ (k + 1) - 1 = k /\ k + 1 # 0
      BY <1>1
    <3>2. G[k + 1] = MergedWith(G[k], new[k + 1], alike, worth)
      BY <1>5, <3>1
    <3>3. g[k + 1] = MergedWith(g[k], new[k + 1], alike, worth)
      BY <1>3, <3>1
    <3>. QED
      BY <2>2, <3>1, <3>2, <3>3
  <2>. HIDE DEF T
  <2>3. \A k \in 0..n : k \in T
    BY <1>1, <2>1, <2>2, Counting
  <2>. QED
    BY <2>3 DEF T
<1>8. Merged(old, new, alike, worth) = g[n]
  BY <1>1, <1>6, <1>7
<1>9. ASSUME NEW k \in 1..n PROVE OneMerged(g[k - 1], new[k], g[k], alike, worth)
  <2>1. g[k - 1] \in Seq(X) /\ g[k] = MergedWith(g[k - 1], new[k], alike, worth)
    BY <1>1, <1>3
  <2>. QED
    BY <1>2, <2>1
<1>. QED
  BY <1>3, <1>8, <1>9 DEF n, MergesEach

-----------------------------------------------------------------------------
(***************************************************************************)
(* What an entry stands for once all are merged.                           *)
(***************************************************************************)
\* Whatever has t and, with each of its own, all that is like it, has c.
Leads(link, D, t, c) ==
    \A S \in SUBSET D :
        t \in S /\ (\A h \in D : (\E u \in S : <<h, u>> \in link) => h \in S) => c \in S

LEMMA LeadsOn ==
    ASSUME NEW link, NEW D, NEW t \in D, NEW c \in D, NEW e \in D
    PROVE  /\ Leads(link, D, t, t)
           /\ Leads(link, D, t, c) /\ <<e, c>> \in link => Leads(link, D, t, e)
           /\ Leads(link, D, t, c) /\ Leads(link, D, c, e) => Leads(link, D, t, e)
BY DEF Leads

\* Something in m is worth no less than t, and t leads to it.
StoodFor(m, t, X, link, worth) ==
    \E i \in DOMAIN m : worth[m[i]] >= worth[t] /\ Leads(link, X, t, m[i])

\* What m stood for, after stands for.
Upholds(after, m, X, link, worth) ==
    \A t \in X : StoodFor(m, t, X, link, worth) => StoodFor(after, t, X, link, worth)

\* No DOI twice.
NamedOnce(m, doi, none) ==
    \A i, j \in DOMAIN m : i # j => doi[m[i]] = none \/ doi[m[i]] # doi[m[j]]

\* What is like e may have its DOI, and nothing else.
Tells(X, e, alike, doi, none) ==
    \A x \in X : IF <<x, e>> \in alike THEN doi[e] \in {none, doi[x]}
                 ELSE doi[e] = none \/ doi[x] # doi[e]

LikeIsLinked(X, alike, link) == \A x, y \in X : <<x, y>> \in alike => <<x, y>> \in link /\ <<y, x>> \in link

LEMMA OneMergedStands ==
    ASSUME NEW X, NEW m \in Seq(X), NEW e \in X, NEW after, NEW alike, NEW worth, NEW link,
           OneMerged(m, e, after, alike, worth), worth \in [X -> Int],
           LikeIsLinked(X, alike, link)
    PROVE  StoodFor(after, e, X, link, worth) /\ Upholds(after, m, X, link, worth)
<1>1. Len(m) \in Nat /\ DOMAIN m = 1..Len(m) /\ \A i \in 1..Len(m) : m[i] \in X
  BY OfSequence
<1>2. CASE (\A i \in DOMAIN m : <<m[i], e>> \notin alike) /\ after = Append(m, e)
  <2>1. /\ DOMAIN after = 1..(Len(m) + 1) /\ after[Len(m) + 1] = e
        /\ \A i \in 1..Len(m) : after[i] = m[i] /\ i \in 1..(Len(m) + 1)
        /\ Len(m) + 1 \in 1..(Len(m) + 1)
    BY <1>1, <1>2, AppendProperties
  <2>2. StoodFor(after, e, X, link, worth)
    <3>1. Leads(link, X, e, e)
      BY LeadsOn
    <3>2. worth[e] >= worth[e]
      <4>1. worth[e] \in Int
        OBVIOUS
      <4>. QED
        BY <4>1
    <3>. QED
      BY <2>1, <3>1, <3>2 DEF StoodFor
  <2>3. ASSUME NEW t \in X, StoodFor(m, t, X, link, worth) PROVE StoodFor(after, t, X, link, worth)
    BY <1>1, <2>1, <2>3 DEF StoodFor
  <2>. QED
    BY <2>2, <2>3 DEF Upholds
<1>3. ASSUME NEW i \in DOMAIN m, <<m[i], e>> \in alike, worth[e] > worth[m[i]], after = [m EXCEPT ![i] = e]
      PROVE  StoodFor(after, e, X, link, worth) /\ Upholds(after, m, X, link, worth)
  <2>1. DOMAIN after = DOMAIN m /\ after[i] = e /\ \A j \in DOMAIN m \ {i} : after[j] = m[j]
    BY <1>1, <1>3
  <2>2. StoodFor(after, e, X, link, worth)
    <3>1. Leads(link, X, e, e)
      BY LeadsOn
    <3>2. worth[e] >= worth[e]
      <4>1. worth[e] \in Int
        OBVIOUS
      <4>. QED
        BY <4>1
    <3>. QED
      BY <2>1, <3>1, <3>2 DEF StoodFor
  <2>3. ASSUME NEW t \in X, StoodFor(m, t, X, link, worth) PROVE StoodFor(after, t, X, link, worth)
    <3>1. PICK j \in DOMAIN m : worth[m[j]] >= worth[t] /\ Leads(link, X, t, m[j])
      BY <2>3 DEF StoodFor
    <3>2. CASE j # i
      BY <2>1, <3>1, <3>2 DEF StoodFor
    <3>3. CASE j = i
      <4>1. <<e, m[i]>> \in link
        BY <1>1, <1>3 DEF LikeIsLinked
      <4>2. Leads(link, X, t, e)
        BY <1>1, <3>1, <3>3, <4>1, LeadsOn
      <4>3. worth[e] >= worth[t]
        <5>1. worth[e] \in Int /\ worth[t] \in Int /\ worth[m[i]] \in Int
          BY <1>1
        <5>. QED
          BY <1>3, <3>1, <3>3, <5>1
      <4>. QED
        BY <2>1, <4>2, <4>3 DEF StoodFor
    <3>. QED
      BY <3>2, <3>3
  <2>. QED
    BY <2>2, <2>3 DEF Upholds
<1>4. ASSUME NEW i \in DOMAIN m, <<m[i], e>> \in alike, ~(worth[e] > worth[m[i]]), after = m
      PROVE  StoodFor(after, e, X, link, worth) /\ Upholds(after, m, X, link, worth)
  <2>1. m[i] \in X /\ <<m[i], e>> \in link
    BY <1>1, <1>4 DEF LikeIsLinked
  <2>2. Leads(link, X, e, m[i])
    BY <2>1, LeadsOn
  <2>3. worth[m[i]] >= worth[e]
    <3>1. worth[e] \in Int /\ worth[m[i]] \in Int
      BY <1>1
    <3>. QED
      BY <1>4, <3>1
  <2>. QED
    BY <1>4, <2>2, <2>3 DEF StoodFor, Upholds
<1>. QED
  BY <1>2, <1>3, <1>4 DEF OneMerged

LEMMA OneMergedApart ==
    ASSUME NEW X, NEW m \in Seq(X), NEW e \in X, NEW after, NEW alike, NEW worth, NEW doi, NEW none,
           OneMerged(m, e, after, alike, worth),
           Tells(X, e, alike, doi, none), NamedOnce(m, doi, none)
    PROVE  NamedOnce(after, doi, none)
<1>1. Len(m) \in Nat /\ DOMAIN m = 1..Len(m) /\ \A i \in 1..Len(m) : m[i] \in X
  BY OfSequence
<1>2. CASE (\A i \in DOMAIN m : <<m[i], e>> \notin alike) /\ after = Append(m, e)
  <2>1. /\ DOMAIN after = 1..(Len(m) + 1) /\ after[Len(m) + 1] = e
        /\ \A i \in 1..Len(m) : after[i] = m[i]
    BY <1>1, <1>2, AppendProperties
  <2>2. \A i \in 1..Len(m) : doi[e] = none \/ doi[m[i]] # doi[e]
    BY <1>1, <1>2 DEF Tells
  <2>3. \A i \in 1..(Len(m) + 1) : i \in 1..Len(m) \/ i = Len(m) + 1
    BY <1>1
  <2>. QED
    BY <1>1, <2>1, <2>2, <2>3 DEF NamedOnce
<1>3. ASSUME NEW i \in DOMAIN m, <<m[i], e>> \in alike, after = [m EXCEPT ![i] = e]
      PROVE  NamedOnce(after, doi, none)
  <2>1. DOMAIN after = DOMAIN m /\ after[i] = e /\ \A j \in DOMAIN m \ {i} : after[j] = m[j]
    BY <1>1, <1>3
  <2>2. doi[e] \in {none, doi[m[i]]}
    BY <1>1, <1>3 DEF Tells
  <2>. QED
    BY <2>1, <2>2 DEF NamedOnce
<1>. QED
  BY <1>2, <1>3 DEF OneMerged

LEMMA MergedOnes ==
    ASSUME NEW X, NEW old \in Seq(X), NEW new \in Seq(X), NEW alike, NEW worth, NEW link, NEW doi, NEW none,
           worth \in [X -> Int], LikeIsLinked(X, alike, link),
           \A k \in 1..Len(new) : Tells(X, new[k], alike, doi, none), NamedOnce(old, doi, none)
    PROVE  /\ Merged(old, new, alike, worth) \in Seq(X)
           /\ NamedOnce(Merged(old, new, alike, worth), doi, none)
           /\ \A i \in 1..Len(old) : StoodFor(Merged(old, new, alike, worth), old[i], X, link, worth)
           /\ \A k \in 1..Len(new) : StoodFor(Merged(old, new, alike, worth), new[k], X, link, worth)
<1>. DEFINE n == Len(new)
            f == Merged(old, new, alike, worth)
<1>1. /\ n \in Nat /\ \A k \in 1..n : new[k] \in X
      /\ Len(old) \in Nat /\ DOMAIN old = 1..Len(old) /\ \A i \in 1..Len(old) : old[i] \in X
  BY OfSequence
<1>8. PICK g : MergesEach(g, X, old, new, alike, worth)
  BY Merging
<1>2. /\ g \in [0..n -> Seq(X)] /\ g[0] = old /\ f = g[n]
      /\ \A k \in 1..n : OneMerged(g[k - 1], new[k], g[k], alike, worth)
  BY <1>8 DEF MergesEach
<1>. DEFINE Good(m, k) ==
                /\ NamedOnce(m, doi, none)
                /\ \A i \in 1..Len(old) : StoodFor(m, old[i], X, link, worth)
                /\ \A l \in 1..k : StoodFor(m, new[l], X, link, worth)
            T == {k \in 0..n : Good(g[k], k)}
<1>. HIDE DEF f
<1>3. 0 \in T
  <2>1. ASSUME NEW i \in 1..Len(old) PROVE StoodFor(old, old[i], X, link, worth)
    <3>1. old[i] \in X /\ worth[old[i]] \in Int /\ i \in DOMAIN old
      BY <1>1
    <3>2. Leads(link, X, old[i], old[i])
      BY <3>1, LeadsOn
    <3>3. worth[old[i]] >= worth[old[i]]
      BY <3>1
    <3>. QED
      BY <3>1, <3>2, <3>3 DEF StoodFor
  <2>2. 0 \in 0..n /\ \A l \in 1..0 : FALSE
    BY <1>1
  <2>3. Good(old, 0)
    BY <2>1, <2>2
  <2>. QED
    BY <1>2, <2>2, <2>3
<1>4. ASSUME NEW k \in 0..(n - 1), k \in T PROVE k + 1 \in T
  <2>1. /\ k \in 0..n /\ k + 1 \in 1..n /\ k + 1 \in 0..n /\ (k + 1) - 1 = k
        /\ \A l \in 1..(k + 1) : l \in 1..k \/ l = k + 1
        /\ \A l \in 1..k : l \in 1..n
    <3>1. n \in Nat
      BY <1>1
    <3>. HIDE DEF n, T
    <3>. QED
      BY ONLY <3>1, k \in 0..(n - 1)
  <2>2. g[k] \in Seq(X) /\ new[k + 1] \in X /\ OneMerged(g[k], new[k + 1], g[k + 1], alike, worth)
    BY <1>1, <1>2, <2>1
  <2>3. Good(g[k], k)
    BY <1>4
  <2>4. Tells(X, new[k + 1], alike, doi, none)
    BY <2>1
  <2>5. NamedOnce(g[k + 1], doi, none)
    BY <2>2, <2>3, <2>4, OneMergedApart
  <2>6. StoodFor(g[k + 1], new[k + 1], X, link, worth) /\ Upholds(g[k + 1], g[k], X, link, worth)
    <3>1. worth \in [X -> Int] /\ LikeIsLinked(X, alike, link)
      OBVIOUS
    <3>. QED
      BY ONLY <2>2, <3>1, OneMergedStands
  <2>7. Good(g[k + 1], k + 1)
    <3>1. \A i \in 1..Len(old) : StoodFor(g[k + 1], old[i], X, link, worth)
      BY <1>1, <2>3, <2>6 DEF Upholds
    <3>2. \A l \in 1..(k + 1) : StoodFor(g[k + 1], new[l], X, link, worth)
      BY <1>1, <2>1, <2>3, <2>6 DEF Upholds
    <3>. QED
      BY <2>5, <3>1, <3>2
  <2>. QED
    BY <2>1, <2>7
<1>. HIDE DEF T
<1>5. \A k \in 0..n : k \in T
  BY <1>1, <1>3, <1>4, Counting
<1>6. n \in 0..n
  BY <1>1
<1>7. Good(g[n], n) /\ g[n] \in Seq(X)
  BY <1>2, <1>5, <1>6 DEF T
<1>. QED
  BY <1>2, <1>7 DEF f

-----------------------------------------------------------------------------
(***************************************************************************)
(* One paper for each that is alike.                                       *)
(***************************************************************************)
AlikeOnes(s, t) ==
    (s.item.doi # NoDoi /\ s.item.doi = t.item.doi) \/ SimilarTitles(s, t)
AlikePairs(X) == {p \in X \X X : AlikeOnes(p[1], p[2])}

LEMMA AlikeEitherWay ==
    ASSUME NEW s, NEW t PROVE SimilarTitles(s, t) => SimilarTitles(t, s)
<1>. DEFINE a == s.item.title
            b == t.item.title
<1>1. a \cap b = b \cap a /\ a \cup b = b \cup a
  OBVIOUS
<1>. HIDE DEF a, b
<1>2. Cardinality(a \cap b) = Cardinality(b \cap a) /\ Cardinality(a \cup b) = Cardinality(b \cup a)
  BY <1>1
<1>3. SimilarTitles(s, t) <=> a # {} /\ b # {} /\ 5 * Cardinality(a \cap b) >= 4 * Cardinality(a \cup b)
  BY DEF SimilarTitles, a, b
<1>4. SimilarTitles(t, s) <=> b # {} /\ a # {} /\ 5 * Cardinality(b \cap a) >= 4 * Cardinality(b \cup a)
  BY DEF SimilarTitles, a, b
<1>. QED
  BY <1>2, <1>3, <1>4

\* Each is there, or stood for by one worth no less that it leads to.
Represents(m, X) ==
    /\ m \in Seq(X)
    /\ \A i, j \in DOMAIN m : i # j => m[i].item.doi = NoDoi \/ m[i].item.doi # m[j].item.doi
    /\ \A t \in X : \E i \in DOMAIN m : m[i].score >= t.score /\ Leads(AlikePairs(X), X, t, m[i])

LEMMA OnesOf ==
    ASSUME NEW X, NEW s \in Seq(X)
    PROVE  /\ s \in Seq(ToSet(s)) /\ ToSet(s) \subseteq X
           /\ \A t \in ToSet(s) : \E k \in 1..Len(s) : s[k] = t
           /\ \A k \in 1..Len(s) : s[k] \in ToSet(s)
<1>1. Len(s) \in Nat /\ DOMAIN s = 1..Len(s) /\ \A i \in 1..Len(s) : s[i] \in X
  BY OfSequence
<1>2. /\ \A t \in ToSet(s) : \E k \in 1..Len(s) : s[k] = t
      /\ \A k \in 1..Len(s) : s[k] \in ToSet(s)
  BY <1>1 DEF ToSet
<1>3. s \in [1..Len(s) -> ToSet(s)]
  BY <1>1, <1>2, OfSequence
<1>4. s \in Seq(ToSet(s))
  BY ONLY <1>1, <1>3, IsSequence
<1>. QED
  BY <1>1, <1>2, <1>4

LEMMA StoodForOn ==
    ASSUME NEW X, NEW m \in Seq(X), NEW after \in Seq(X), NEW link, NEW worth \in [X -> Int],
           NEW t \in X, StoodFor(m, t, X, link, worth),
           \A i \in 1..Len(m) : StoodFor(after, m[i], X, link, worth)
    PROVE  StoodFor(after, t, X, link, worth)
<1>1. PICK i \in DOMAIN m : worth[m[i]] >= worth[t] /\ Leads(link, X, t, m[i])
  BY DEF StoodFor
<1>2. i \in 1..Len(m) /\ m[i] \in X
  BY OfSequence
<1>3. PICK j \in DOMAIN after : worth[after[j]] >= worth[m[i]] /\ Leads(link, X, m[i], after[j])
  BY <1>2 DEF StoodFor
<1>4. after[j] \in X
  BY OfSequence
<1>5. Leads(link, X, t, after[j])
  BY <1>1, <1>2, <1>3, <1>4, LeadsOn
<1>6. worth[after[j]] >= worth[t]
  <2>1. worth[after[j]] \in Int /\ worth[m[i]] \in Int /\ worth[t] \in Int
    BY <1>2, <1>4
  <2>. QED
    BY <1>1, <1>3, <2>1
<1>. QED
  BY <1>5, <1>6 DEF StoodFor

LEMMA DedupedWell ==
    ASSUME NEW all \in Seq(Suggestions)
    PROVE  Represents(Deduped(all), ToSet(all))
<1>. DEFINE X == ToSet(all)
            named == Those(all, {k \in DOMAIN all : all[k].item.doi # NoDoi})
            unnamed == Those(all, {k \in DOMAIN all : all[k].item.doi = NoDoi})
            oneDoi == {p \in ToSet(named) \X ToSet(named) : p[1].item.doi = p[2].item.doi}
            similar == {p \in X \X X : SimilarTitles(p[1], p[2])}
            worth == [s \in X |-> s.score]
            doi == [s \in X |-> s.item.doi]
            link == AlikePairs(X)
            M == Merged(<<>>, named, oneDoi, worth)
            D == Merged(M, unnamed, similar, worth)
<1>0. Deduped(all) = D
  BY DEF Deduped
<1>1. /\ all \in Seq(X) /\ X \subseteq Suggestions
      /\ \A t \in X : \E k \in DOMAIN all : all[k] = t
      /\ \A k \in DOMAIN all : all[k] \in X
  BY OnesOf, OfSequence
<1>2. \A s \in X : worth[s] = s.score /\ doi[s] = s.item.doi /\ worth[s] \in Int
  BY <1>1 DEF Suggestions
<1>3. worth \in [X -> Int]
  BY <1>2
<1>4. /\ named \in Seq(X)
      /\ \A p \in 1..Len(named) : \E k \in DOMAIN all : all[k].item.doi # NoDoi /\ named[p] = all[k]
      /\ \A k \in DOMAIN all : all[k].item.doi # NoDoi => \E p \in 1..Len(named) : named[p] = all[k]
  <2>. DEFINE S == {k \in DOMAIN all : all[k].item.doi # NoDoi}
  <2>1. S \subseteq DOMAIN all
    OBVIOUS
  <2>. HIDE DEF X, S
  <2>2. /\ Those(all, S) \in Seq(X)
        /\ \A p \in 1..Len(Those(all, S)) : \E k \in S : Those(all, S)[p] = all[k]
        /\ \A k \in S : \E p \in 1..Len(Those(all, S)) : Those(all, S)[p] = all[k]
    <3>1. all \in Seq(X)
      BY <1>1
    <3>. QED
      BY ONLY <2>1, <3>1, ThoseOnes
  <2>. QED
    BY <2>2 DEF S
<1>5. /\ unnamed \in Seq(X)
      /\ \A p \in 1..Len(unnamed) : \E k \in DOMAIN all : all[k].item.doi = NoDoi /\ unnamed[p] = all[k]
      /\ \A k \in DOMAIN all : all[k].item.doi = NoDoi => \E p \in 1..Len(unnamed) : unnamed[p] = all[k]
  <2>. DEFINE S == {k \in DOMAIN all : all[k].item.doi = NoDoi}
  <2>1. S \subseteq DOMAIN all
    OBVIOUS
  <2>. HIDE DEF X, S
  <2>2. /\ Those(all, S) \in Seq(X)
        /\ \A p \in 1..Len(Those(all, S)) : \E k \in S : Those(all, S)[p] = all[k]
        /\ \A k \in S : \E p \in 1..Len(Those(all, S)) : Those(all, S)[p] = all[k]
    <3>1. all \in Seq(X)
      BY <1>1
    <3>. QED
      BY ONLY <2>1, <3>1, ThoseOnes
  <2>. QED
    BY <2>2 DEF S
<1>. HIDE DEF X, named, unnamed, worth, doi
<1>6. ToSet(named) \subseteq X /\ \A x \in X : x.item.doi # NoDoi <=> x \in ToSet(named)
  <2>1. /\ \A t \in ToSet(named) : \E k \in 1..Len(named) : named[k] = t
        /\ \A k \in 1..Len(named) : named[k] \in ToSet(named)
        /\ ToSet(named) \subseteq X
    BY <1>4, OnesOf
  <2>2. ASSUME NEW x \in ToSet(named) PROVE x.item.doi # NoDoi
    BY <1>4, <2>1
  <2>3. ASSUME NEW x \in X, x.item.doi # NoDoi PROVE x \in ToSet(named)
    BY <1>1, <1>4, <2>1, <2>3
  <2>. QED
    BY <2>1, <2>2, <2>3
<1>7. \A x, y \in X : <<x, y>> \in oneDoi <=> x.item.doi # NoDoi /\ x.item.doi = y.item.doi
  BY <1>6
<1>8. \A x, y \in X : <<x, y>> \in link <=> AlikeOnes(x, y)
  BY DEF AlikePairs
<1>9. \A x, y \in X : <<x, y>> \in similar <=> SimilarTitles(x, y)
  OBVIOUS
<1>. HIDE DEF oneDoi, similar, link
<1>10. LikeIsLinked(X, oneDoi, link)
  BY <1>7, <1>8 DEF LikeIsLinked, AlikeOnes
<1>11. LikeIsLinked(X, similar, link)
  BY <1>8, <1>9, AlikeEitherWay DEF LikeIsLinked, AlikeOnes
<1>12. ASSUME NEW k \in 1..Len(named) PROVE Tells(X, named[k], oneDoi, doi, NoDoi)
  <2>1. named[k] \in X /\ named[k].item.doi # NoDoi
    BY <1>1, <1>4
  <2>. QED
    BY <1>2, <1>7, <2>1 DEF Tells
<1>13. ASSUME NEW k \in 1..Len(unnamed) PROVE Tells(X, unnamed[k], similar, doi, NoDoi)
  <2>1. unnamed[k] \in X /\ unnamed[k].item.doi = NoDoi
    BY <1>1, <1>5
  <2>. QED
    BY <1>2, <2>1 DEF Tells
<1>14. <<>> \in Seq(X) /\ NamedOnce(<<>>, doi, NoDoi)
  BY DEF NamedOnce
<1>15. /\ M \in Seq(X) /\ NamedOnce(M, doi, NoDoi)
       /\ \A k \in 1..Len(named) : StoodFor(M, named[k], X, link, worth)
  BY <1>3, <1>4, <1>10, <1>12, <1>14, MergedOnes
<1>. HIDE DEF M
<1>16. /\ D \in Seq(X) /\ NamedOnce(D, doi, NoDoi)
       /\ \A i \in 1..Len(M) : StoodFor(D, M[i], X, link, worth)
       /\ \A k \in 1..Len(unnamed) : StoodFor(D, unnamed[k], X, link, worth)
  BY <1>3, <1>5, <1>11, <1>13, <1>15, MergedOnes
<1>. HIDE DEF D
<1>17. ASSUME NEW t \in X PROVE StoodFor(D, t, X, link, worth)
  <2>1. PICK k \in DOMAIN all : all[k] = t
    BY <1>1
  <2>2. CASE t.item.doi # NoDoi
    <3>1. StoodFor(M, t, X, link, worth)
      BY <1>4, <1>15, <2>1, <2>2
    <3>. QED
      BY <1>3, <1>15, <1>16, <3>1, StoodForOn
  <2>3. CASE t.item.doi = NoDoi
    BY <1>5, <1>16, <2>1, <2>3
  <2>. QED
    BY <2>2, <2>3
<1>18. \A i \in DOMAIN D : D[i] \in X
  BY <1>16, OfSequence
<1>19. \A i, j \in DOMAIN D : i # j => D[i].item.doi = NoDoi \/ D[i].item.doi # D[j].item.doi
  BY <1>2, <1>16, <1>18 DEF NamedOnce
<1>20. \A t \in X : \E i \in DOMAIN D : D[i].score >= t.score /\ Leads(link, X, t, D[i])
  BY <1>2, <1>17, <1>18 DEF StoodFor
<1>. QED
  BY <1>0, <1>16, <1>19, <1>20 DEF Represents, X, link

-----------------------------------------------------------------------------
(***************************************************************************)
(* The first of the ranked ones are the best.                              *)
(***************************************************************************)
LEMMA FirstOnes ==
    ASSUME NEW X, NEW s \in Seq(X), NEW n \in Nat
    PROVE  /\ FirstOf(s, n) \in Seq(X) /\ Len(FirstOf(s, n)) = IF Len(s) < n THEN Len(s) ELSE n
           /\ \A i \in 1..Len(FirstOf(s, n)) : i \in 1..Len(s) /\ FirstOf(s, n)[i] = s[i]
<1>. DEFINE m == IF Len(s) < n THEN Len(s) ELSE n
<1>1. Len(s) \in Nat /\ \A i \in 1..Len(s) : s[i] \in X
  BY OfSequence
<1>2. m \in Nat /\ m <= Len(s) /\ \A i \in 1..m : i \in 1..Len(s) /\ 1 + i - 1 = i
  BY <1>1
<1>3. FirstOf(s, n) = SubSeq(s, 1, m)
  BY DEF FirstOf
<1>4. SubSeq(s, 1, m) = [i \in 1..m |-> s[1 + i - 1]]
  <2>1. m = 1 + m - 1
    BY <1>2
  <2>. HIDE DEF m
  <2>2. SubSeq(s, 1, m) = [i \in 1..(1 + m - 1) |-> s[1 + i - 1]]
    BY <1>2
  <2>. QED
    BY <2>1, <2>2
<1>. HIDE DEF m
<1>5. [i \in 1..m |-> s[1 + i - 1]] = [i \in 1..m |-> s[i]]
  BY <1>2
<1>6. [i \in 1..m |-> s[i]] \in [1..m -> X]
  BY <1>1, <1>2
<1>7. FirstOf(s, n) \in [1..m -> X] /\ \A i \in 1..m : FirstOf(s, n)[i] = s[i]
  BY <1>3, <1>4, <1>5, <1>6
<1>8. FirstOf(s, n) \in Seq(X) /\ Len(FirstOf(s, n)) = m
  BY ONLY <1>2, <1>7, IsSequence
<1>. QED
  BY <1>2, <1>7, <1>8 DEF m

\* The best of X, best first.
AreBest(top, X) ==
    /\ top \in Seq(X) /\ Len(top) <= PerSection
    /\ \A i, j \in DOMAIN top : i < j =>
        /\ top[i].score >= top[j].score
        /\ top[i].item.doi = NoDoi \/ top[i].item.doi # top[j].item.doi
    /\ \A t \in X :
        \/ Len(top) = PerSection /\ top[Len(top)].score >= t.score
        \/ \E i \in DOMAIN top : top[i].score >= t.score /\ Leads(AlikePairs(X), X, t, top[i])

Descending(good) == {p \in Pairs(good) : good[p[1]].score > good[p[2]].score}

LEMMA FirstAreBest ==
    ASSUME NEW X, \A x \in X : x.score \in Int, NEW good, Represents(good, X), PerSection \in Nat \ {0}
    PROVE  AreBest(FirstOf(Sorted(good, Descending(good)), PerSection), X)
<1>. DEFINE B == Descending(good)
            n == Len(good)
            r == Sorted(good, B)
            top == FirstOf(r, PerSection)
            score == [i \in 1..n |-> good[i].score]
<1>1. good \in Seq(X) /\ n \in Nat /\ DOMAIN good = 1..n /\ \A i \in 1..n : good[i] \in X
  BY OfSequence DEF Represents
<1>2. \A i \in 1..n : score[i] = good[i].score /\ score[i] \in Int
  BY <1>1
<1>3. \A i, j \in 1..n : <<i, j>> \in B <=> score[i] > score[j]
  BY <1>1, <1>2 DEF Descending, Pairs
<1>. HIDE DEF n, B, score
<1>4. Ranked(B, n)
  BY <1>1, <1>2, <1>3, RankedByKey
<1>5. r \in Seq(X) /\ Sorts(r, good, B)
  BY <1>1, <1>4, Sorting DEF n
<1>. HIDE DEF r
<1>6. PICK h \in [1..n -> 1..n] :
        /\ \A m \in 1..n : r[m] = good[h[m]]
        /\ \A l, m \in 1..n : h[l] = h[m] => l = m
        /\ \A i \in 1..n : \E m \in 1..n : h[m] = i
        /\ \A l, m \in 1..n : l < m => <<h[m], h[l]>> \notin B
  BY <1>5 DEF Sorts, n
<1>7. Len(r) = n
  BY <1>5 DEF Sorts, n
<1>8. \A l \in 1..n : r[l].score = score[h[l]] /\ h[l] \in 1..n /\ r[l].score \in Int
  BY <1>2, <1>6
<1>9. ASSUME NEW l \in 1..n, NEW m \in 1..n, l < m PROVE r[l].score >= r[m].score
  <2>1. <<h[m], h[l]>> \notin B /\ h[l] \in 1..n /\ h[m] \in 1..n
    BY <1>6, <1>9
  <2>2. ~(score[h[m]] > score[h[l]])
    BY <1>3, <2>1
  <2>3. /\ r[l].score = score[h[l]] /\ r[m].score = score[h[m]]
        /\ score[h[l]] \in Int /\ score[h[m]] \in Int
    BY <1>2, <1>8, <2>1
  <2>. QED
    BY <2>2, <2>3
<1>10. /\ top \in Seq(X) /\ Len(top) = (IF n < PerSection THEN n ELSE PerSection)
       /\ \A i \in 1..Len(top) : i \in 1..n /\ top[i] = r[i]
  BY <1>5, <1>7, FirstOnes
<1>. HIDE DEF top
<1>11. DOMAIN top = 1..Len(top) /\ Len(top) \in Nat /\ Len(top) <= PerSection /\ Len(top) <= n
  BY <1>1, <1>10
<1>12. ASSUME NEW i \in DOMAIN top, NEW j \in DOMAIN top, i < j
       PROVE  /\ top[i].score >= top[j].score
              /\ top[i].item.doi = NoDoi \/ top[i].item.doi # top[j].item.doi
  <2>1. i \in 1..n /\ j \in 1..n /\ top[i] = r[i] /\ top[j] = r[j] /\ i # j
    BY <1>10, <1>11, <1>12
  <2>2. top[i].score >= top[j].score
    BY <1>9, <1>12, <2>1
  <2>3. h[i] \in 1..n /\ h[j] \in 1..n /\ h[i] # h[j] /\ top[i] = good[h[i]] /\ top[j] = good[h[j]]
    BY <1>6, <2>1
  <2>4. good[h[i]].item.doi = NoDoi \/ good[h[i]].item.doi # good[h[j]].item.doi
    BY <1>1, <2>3 DEF Represents
  <2>. QED
    BY <2>2, <2>3, <2>4
<1>13. ASSUME NEW t \in X
       PROVE  \/ Len(top) = PerSection /\ top[Len(top)].score >= t.score
              \/ \E i \in DOMAIN top : top[i].score >= t.score /\ Leads(AlikePairs(X), X, t, top[i])
  <2>1. PICK i \in 1..n : good[i].score >= t.score /\ Leads(AlikePairs(X), X, t, good[i])
    BY <1>1 DEF Represents
  <2>2. PICK m \in 1..n : h[m] = i
    BY <1>6
  <2>3. r[m] = good[i]
    BY <1>6, <2>2
  <2>4. CASE m <= Len(top)
    <3>1. m \in 1..Len(top) /\ top[m] = good[i]
      BY <1>10, <1>11, <2>3, <2>4
    <3>. QED
      BY <1>11, <2>1, <3>1
  <2>5. CASE ~(m <= Len(top))
    <3>1. Len(top) = PerSection /\ Len(top) \in 1..n /\ Len(top) < m /\ Len(top) \in 1..Len(top)
      BY <1>1, <1>10, <1>11, <2>5
    <3>2. top[Len(top)] = r[Len(top)]
      BY <1>10, <3>1
    <3>3. r[Len(top)].score >= r[m].score
      BY <1>9, <3>1
    <3>4. r[m].score >= t.score /\ t.score \in Int /\ r[m].score \in Int /\ r[Len(top)].score \in Int
      BY <1>8, <2>1, <2>3, <3>1
    <3>5. top[Len(top)].score >= t.score
      BY <3>2, <3>3, <3>4
    <3>. QED
      BY <3>1, <3>5
  <2>. QED
    BY <2>4, <2>5
<1>14. Len(top) <= PerSection /\ top \in Seq(X)
  BY <1>10, <1>11
<1>. QED
  BY <1>12, <1>13, <1>14 DEF AreBest, top, r, B

Good(s) == {t \in ToSet(Scored(s)) : t.score >= RelevanceThreshold}

LEMMA BestForIsBest ==
    ASSUME NEW s, Scored(s) \in Seq(Suggestions), PerSection \in Nat \ {0}
    PROVE  AreBest(BestFor(s), Good(s)) /\ BestFor(s) \in Seq(Suggestions)
<1>. DEFINE all == Scored(s)
            P == {k \in DOMAIN all : all[k].score >= RelevanceThreshold}
            those == Those(all, P)
            good == Deduped(those)
<1>1. BestFor(s) = FirstOf(Sorted(good, Descending(good)), PerSection)
  BY DEF BestFor, Descending
<1>2. /\ all \in Seq(Suggestions) /\ DOMAIN all = 1..Len(all)
      /\ \A i \in DOMAIN all : all[i] \in Suggestions
  BY OfSequence
<1>3. P \subseteq DOMAIN all
  OBVIOUS
<1>4. \A k \in DOMAIN all : k \in P <=> all[k].score >= RelevanceThreshold
  OBVIOUS
<1>. HIDE DEF P, all
<1>5. /\ those \in Seq(Suggestions)
      /\ \A p \in 1..Len(those) : \E k \in P : those[p] = all[k]
      /\ \A k \in P : \E p \in 1..Len(those) : those[p] = all[k]
  BY ONLY <1>2, <1>3, ThoseOnes
<1>. HIDE DEF those
<1>6. ToSet(those) = Good(s)
  <2>1. /\ \A t \in ToSet(those) : \E k \in 1..Len(those) : those[k] = t
        /\ \A k \in 1..Len(those) : those[k] \in ToSet(those)
    BY <1>5, OnesOf
  <2>2. /\ \A t \in ToSet(all) : \E k \in 1..Len(all) : all[k] = t
        /\ \A k \in 1..Len(all) : all[k] \in ToSet(all)
    BY <1>2, OnesOf
  <2>3. Good(s) = {t \in ToSet(all) : t.score >= RelevanceThreshold}
    BY DEF Good, all
  <2>4. ASSUME NEW t \in ToSet(those) PROVE t \in Good(s)
    <3>1. PICK p \in 1..Len(those) : those[p] = t
      BY <2>1
    <3>2. PICK k \in P : those[p] = all[k]
      BY <1>5
    <3>3. all[k].score >= RelevanceThreshold /\ all[k] \in ToSet(all)
      BY <1>2, <1>3, <1>4, <2>2
    <3>. QED
      BY <2>3, <3>1, <3>2, <3>3
  <2>5. ASSUME NEW t \in Good(s) PROVE t \in ToSet(those)
    <3>1. t \in ToSet(all) /\ t.score >= RelevanceThreshold
      BY <2>3
    <3>2. PICK k \in 1..Len(all) : all[k] = t
      BY <2>2, <3>1
    <3>3. k \in P
      BY <1>2, <1>4, <3>1, <3>2
    <3>. QED
      BY <1>5, <2>1, <3>2, <3>3
  <2>. QED
    BY <2>4, <2>5
<1>7. Represents(good, Good(s))
  BY <1>5, <1>6, DedupedWell
<1>8. Good(s) \subseteq Suggestions
  BY <1>5, <1>6, OnesOf
<1>9. \A x \in Good(s) : x.score \in Int
  BY <1>8 DEF Suggestions
<1>. HIDE DEF good
<1>10. AreBest(BestFor(s), Good(s))
  BY <1>1, <1>7, <1>9, FirstAreBest
<1>11. BestFor(s) \in Seq(Suggestions)
  <2>1. BestFor(s) \in Seq(Good(s))
    BY <1>10 DEF AreBest
  <2>. HIDE DEF Good
  <2>. QED
    BY <1>8, <2>1
<1>. QED
  BY <1>10, <1>11

-----------------------------------------------------------------------------
(***************************************************************************)
(* What a provider answers with.                                           *)
(***************************************************************************)
LEMMA Numbers ==
    /\ \A c, n : Bonus(c, n) \in {0, n}
    /\ \A n \in Int : Within(n) \in Nat
    /\ \A n \in Int : \A c : Bonus(c, n) \in Int
BY DEF Bonus, Within

LEMMA SuggestionsConstants ==
    /\ Outlines \subseteq Seq(ArticleSections) /\ Domains \in Seq(ToSet(Domains))
    /\ KeywordShares \subseteq [ToSet(Domains) -> Nat]
    /\ ProvidersOf \in [ToSet(Domains) \cup {General} -> Seq(Providers)]
    /\ Popular \in Seq(Topics) /\ Apis \in Seq({"semantic", "arxiv", "openalex", "crossref"})
    /\ Found \subseteq Seq(Items) /\ Ages \subseteq Nat
    /\ RelevanceThreshold \in Nat \ {0} /\ PerSection \in Nat \ {0} /\ MaxConcurrent \in Nat \ {0}
    /\ PerCall \in Nat \ {0} /\ MaxApproved \in Nat \ {0}
BY SuggestionsAssumption DEF Providers

LEMMA ItemParts ==
    ASSUME NEW item \in Items
    PROVE  /\ item.valid \in BOOLEAN /\ item.title \in SUBSET Topics
           /\ item.doi \in DOMAIN Lower \cup {NoDoi} /\ item.cites \in Nat \cup {Untold}
           /\ item.age \in Nat \cup {Untold} /\ item.authors \in BOOLEAN
           /\ item.extras \in SUBSET {"abstract", "pdf", "journal"}
           /\ item.apt \in BOOLEAN /\ item.brief \in BOOLEAN
BY DEF Items

LEMMA SuggestionParts ==
    ASSUME NEW s \in Suggestions
    PROVE  s.item \in Items /\ s.from \in Providers /\ s.score \in Nat
BY DEF Suggestions

LEMMA Composed ==
    ASSUME NEW s \in Suggestions, NEW needs PROVE Composite(s, needs) \in Suggestions
<1>. DEFINE b1 == Bonus("statistics" \in needs /\ s.from = "world_bank", 150)
            b2 == Bonus(Recent(s.item, 3), 50)
            b3 == Bonus(s.item.doi # NoDoi, 50)
            b4 == Bonus(Cited(s.item, 51), 50)
            b5 == Bonus(~s.item.authors, 100)
            w == Within(s.score + b1 + b2 + b3 + b4 - b5)
<1>1. Composite(s, needs) = [s EXCEPT !.score = w]
  BY DEF Composite
<1>2. b1 \in Int /\ b2 \in Int /\ b3 \in Int /\ b4 \in Int /\ b5 \in Int
  BY Numbers
<1>. HIDE DEF b1, b2, b3, b4, b5
<1>3. s.score + b1 + b2 + b3 + b4 - b5 \in Int
  BY <1>2, SuggestionParts
<1>4. w \in Nat
  BY <1>3, Numbers
<1>. HIDE DEF w
<1>. QED
  BY <1>1, <1>4 DEF Suggestions

LEMMA Scores ==
    ASSUME searches \in Seq(Searches), NEW s PROVE Scored(s) \in Seq(Suggestions)
<1>. DEFINE seqs == [k \in DOMAIN searches |-> searches[k].got]
            raw == FlattenSeq(seqs)
<1>1. seqs \in Seq(Seq(Suggestions))
  <2>1. /\ Len(searches) \in Nat /\ DOMAIN searches = 1..Len(searches)
        /\ \A k \in 1..Len(searches) : searches[k] \in Searches
    BY OfSequence
  <2>2. \A c \in Searches : c.got \in Seq(Suggestions)
    BY DEF Searches
  <2>3. seqs \in [1..Len(searches) -> Seq(Suggestions)]
    BY <2>1, <2>2
  <2>. QED
    BY ONLY <2>1, <2>3, IsSequence
<1>. HIDE DEF seqs
<1>2. raw \in Seq(Suggestions)
  BY <1>1, JoinedEvenly
<1>3. Scored(s) = [i \in DOMAIN raw |-> Composite(raw[i], Needs(s))]
  BY DEF Scored, seqs
<1>. HIDE DEF raw
<1>4. /\ Len(raw) \in Nat /\ DOMAIN raw = 1..Len(raw)
      /\ \A k \in 1..Len(raw) : raw[k] \in Suggestions
  BY <1>2, OfSequence
<1>5. Scored(s) \in [1..Len(raw) -> Suggestions]
  BY <1>3, <1>4, Composed
<1>. QED
  BY ONLY <1>4, <1>5, IsSequence

LEMMA SeenType ==
    ASSUME NEW service, NEW item \in Items PROVE SeenBy(service, item) \in Items
<1>. DEFINE c == IF service \in {"semantic", "openalex"} THEN item.cites ELSE Untold
            e == CASE service = "arxiv" -> item.extras \ {"journal"}
                   [] service = "crossref" -> item.extras \cap {"journal"}
                   [] service = "pubmed" -> item.extras \cap {"abstract"}
                   [] OTHER -> item.extras
<1>1. SeenBy(service, item) = [item EXCEPT !.cites = c, !.extras = e]
  BY DEF SeenBy
<1>2. c \in Nat \cup {Untold} /\ e \in SUBSET {"abstract", "pdf", "journal"}
  BY ItemParts
<1>. HIDE DEF c, e
<1>. QED
  BY <1>1, <1>2 DEF Items

LEMMA ParsedType ==
    ASSUME NEW service, NEW items \in Seq(Items) PROVE Parsed(service, items) \in Seq(Items)
<1>. DEFINE seen == [n \in DOMAIN items |-> SeenBy(service, items[n])]
            P == {n \in DOMAIN items :
                     items[n].valid /\ (service = "crossref" => items[n].doi # NoDoi)}
<1>1. Parsed(service, items) = Those(seen, P)
  BY DEF Parsed
<1>2. /\ Len(items) \in Nat /\ DOMAIN items = 1..Len(items)
      /\ \A k \in 1..Len(items) : items[k] \in Items
  BY OfSequence
<1>3. seen \in [1..Len(items) -> Items]
  BY <1>2, SeenType
<1>4. P \subseteq 1..Len(items)
  BY <1>2
<1>. HIDE DEF seen, P
<1>5. seen \in Seq(Items) /\ DOMAIN seen = 1..Len(items)
  BY ONLY <1>2, <1>3, IsSequence
<1>6. P \subseteq DOMAIN seen
  BY <1>4, <1>5
<1>7. Those(seen, P) \in Seq(Items)
  BY ONLY <1>5, <1>6, ThoseOnes
<1>. QED
  BY <1>1, <1>7

LEMMA ArticlesType ==
    ASSUME NEW papers \in Seq(Items) PROVE Articles(papers) \in Seq(Suggestions)
<1>1. /\ Len(papers) \in Nat /\ DOMAIN papers = 1..Len(papers)
      /\ \A k \in 1..Len(papers) : papers[k] \in Items
  BY OfSequence
<1>2. ASSUME NEW i \in 1..Len(papers) PROVE PubmedScore(papers, i) \in Nat
  <2>. DEFINE paper == papers[i]
              m == Len(papers) - 1
              rank == IF Len(papers) = 1 THEN 0 ELSE (500 * (i - 1)) \div m
              b1 == Bonus(Recent(paper, 5), 100)
              b2 == Bonus(paper.doi # NoDoi, 100)
              b3 == Bonus("abstract" \in paper.extras /\ paper.apt, 50)
  <2>1. PubmedScore(papers, i) = Within(1000 - rank + b1 + b2 + b3)
    BY DEF PubmedScore
  <2>2. b1 \in Int /\ b2 \in Int /\ b3 \in Int
    BY DEF Bonus
  <2>. HIDE DEF b1, b2, b3
  <2>3. rank \in Int
    <3>1. CASE Len(papers) = 1
      BY <3>1
    <3>2. CASE Len(papers) # 1
      <4>1. m \in Nat \ {0} /\ 500 * (i - 1) \in Nat
        BY <1>1, <3>2
      <4>. HIDE DEF m
      <4>2. \A a \in Nat : a \div m \in Int
        BY <4>1
      <4>. QED
        BY <3>2, <4>1, <4>2
    <3>. QED
      BY <3>1, <3>2
  <2>. HIDE DEF rank
  <2>4. 1000 - rank + b1 + b2 + b3 \in Int
    BY <2>2, <2>3
  <2>. QED
    BY <2>1, <2>4, Numbers
<1>3. \A i \in 1..Len(papers) :
        [item |-> papers[i], from |-> "pubmed", score |-> PubmedScore(papers, i)] \in Suggestions
  BY <1>1, <1>2 DEF Suggestions, Providers
<1>4. Articles(papers) \in [1..Len(papers) -> Suggestions]
  BY <1>1, <1>3 DEF Articles
<1>. QED
  BY ONLY <1>1, <1>4, IsSequence

LEMMA BridgedType ==
    ASSUME NEW papers \in Seq(Items) PROVE Bridged(papers) \in Seq(Suggestions)
<1>1. /\ Len(papers) \in Nat /\ DOMAIN papers = 1..Len(papers)
      /\ \A k \in 1..Len(papers) : papers[k] \in Items
  BY OfSequence
<1>2. ASSUME NEW i \in 1..Len(papers) PROVE AcademicScore(papers[i]) \in Nat
  <2>. DEFINE b1 == Bonus(Cited(papers[i], 100), 150)
              b2 == Bonus(Recent(papers[i], 5), 100)
              b3 == Bonus(papers[i].doi # NoDoi, 50)
  <2>1. b1 \in Int /\ b2 \in Int /\ b3 \in Int
    BY DEF Bonus
  <2>2. AcademicScore(papers[i]) = Within(700 + b1 + b2 + b3)
    BY DEF AcademicScore
  <2>. HIDE DEF b1, b2, b3
  <2>. QED
    BY <2>1, <2>2, Numbers
<1>3. \A i \in 1..Len(papers) :
        [item |-> papers[i], from |-> "academic", score |-> AcademicScore(papers[i])] \in Suggestions
  BY <1>1, <1>2 DEF Suggestions, Providers
<1>4. Bridged(papers) \in [1..Len(papers) -> Suggestions]
  BY <1>1, <1>3 DEF Bridged
<1>. QED
  BY ONLY <1>1, <1>4, IsSequence

LEMMA ValueType ==
    ASSUME NEW topic \in Topics, NEW age \in Nat \cup {Untold}, NEW base \in Nat
    PROVE  Value(topic, age, base) \in Suggestions
<1>. DEFINE item == [valid |-> TRUE, title |-> {topic}, doi |-> NoDoi, cites |-> Untold,
                     age |-> age, authors |-> FALSE, extras |-> {}, apt |-> FALSE,
                     brief |-> FALSE]
            b == Bonus(Recent(item, 3), 100)
<1>1. item \in Items
  BY DEF Items
<1>. HIDE DEF item
<1>2. b \in Int
  BY Numbers
<1>3. Value(topic, age, base) = [item |-> item, from |-> "world_bank", score |-> Within(base + b)]
  BY DEF Value, item
<1>. HIDE DEF b
<1>4. Within(base + b) \in Nat
  BY <1>2, Numbers
<1>. QED
  BY <1>1, <1>3, <1>4 DEF Suggestions, Providers

-----------------------------------------------------------------------------
(***************************************************************************)
(* What ranks before what.                                                 *)
(***************************************************************************)
More(m, n) == m # Untold /\ (n = Untold \/ m > n)
Newer(m, n) == m # Untold /\ (n = Untold \/ m < n)

LEMMA MoreRanks ==
    /\ \A m, n \in Nat \cup {Untold} : More(m, n) => ~More(n, m) /\ m # n
    /\ \A l, m, n \in Nat \cup {Untold} : More(l, n) => More(l, m) \/ More(m, n)
    /\ \A m, n \in Nat \cup {Untold} : m = n \/ More(m, n) \/ More(n, m)
    /\ \A m, n \in Nat \cup {Untold} : Newer(m, n) => ~Newer(n, m)
    /\ \A l, m, n \in Nat \cup {Untold} : Newer(l, n) => Newer(l, m) \/ Newer(m, n)
BY DEF More, Newer

LEMMA PapersRanked ==
    ASSUME NEW s \in Seq(Items)
    PROVE  Ranked({p \in Pairs(s) : RanksBefore(s[p[1]], s[p[2]])}, Len(s))
<1>. DEFINE B == {p \in Pairs(s) : RanksBefore(s[p[1]], s[p[2]])}
            n == Len(s)
            T == Nat \cup {Untold}
<1>1. n \in Nat /\ DOMAIN s = 1..n /\ \A i \in 1..n : s[i] \in Items
  BY OfSequence
<1>2. \A i \in 1..n : s[i].cites \in T /\ s[i].age \in T
  BY <1>1, ItemParts
<1>. DEFINE Ahead(i, j) ==
                \/ More(s[i].cites, s[j].cites)
                \/ s[i].cites = s[j].cites /\ Newer(s[i].age, s[j].age)
<1>3. \A i, j \in 1..n : <<i, j>> \in B <=> Ahead(i, j)
  BY <1>1 DEF Pairs, RanksBefore, More, Newer
<1>. HIDE DEF B, n, T
<1>4. /\ \A m, k \in T : More(m, k) => ~More(k, m) /\ m # k
      /\ \A l, m, k \in T : More(l, k) => More(l, m) \/ More(m, k)
      /\ \A m, k \in T : m = k \/ More(m, k) \/ More(k, m)
      /\ \A m, k \in T : Newer(m, k) => ~Newer(k, m)
      /\ \A l, m, k \in T : Newer(l, k) => Newer(l, m) \/ Newer(m, k)
  BY MoreRanks DEF T
<1>5. ASSUME NEW i \in 1..n, NEW j \in 1..n, Ahead(i, j) PROVE ~Ahead(j, i)
  BY <1>2, <1>4, <1>5
<1>6. ASSUME NEW i \in 1..n, NEW j \in 1..n, NEW k \in 1..n, Ahead(i, k)
      PROVE  Ahead(i, j) \/ Ahead(j, k)
  <2>1. CASE More(s[i].cites, s[k].cites)
    BY <1>2, <1>4, <2>1
  <2>2. CASE s[i].cites = s[k].cites /\ Newer(s[i].age, s[k].age)
    <3>1. CASE s[j].cites = s[i].cites
      BY <1>2, <1>4, <2>2, <3>1
    <3>2. CASE s[j].cites # s[i].cites
      <4>1. More(s[i].cites, s[j].cites) \/ More(s[j].cites, s[i].cites)
        BY <1>2, <1>4, <3>2
      <4>. QED
        BY <2>2, <4>1
    <3>. QED
      BY <3>1, <3>2
  <2>. QED
    BY <1>6, <2>1, <2>2
<1>. HIDE DEF Ahead
<1>. QED
  BY <1>3, <1>5, <1>6 DEF Ranked, n, B

LEMMA FederatedType ==
    ASSUME NEW responses \in [ToSet(Apis) -> Found \cup {<<>>}]
    PROVE  Federated(responses) \in Seq(Items)
<1>. DEFINE seqs == [i \in DOMAIN Apis |-> Parsed(Apis[i], responses[Apis[i]])]
            all == FlattenSeq(seqs)
            N == {k \in DOMAIN all : all[k].doi # NoDoi}
            U == {k \in DOMAIN all : all[k].doi = NoDoi}
            named == Those(all, N)
            unnamed == Those(all, U)
            oneDoi == {p \in ToSet(named) \X ToSet(named) : Lower[p[1].doi] = Lower[p[2].doi]}
            worth == [p \in ToSet(named) |-> Richness(p)]
            kept1 == Merged(<<>>, named, oneDoi, worth)
            merged == kept1 \o unnamed
            B == {p \in Pairs(merged) : RanksBefore(merged[p[1]], merged[p[2]])}
<1>0. Federated(responses) = FirstOf(Sorted(merged, B), PerCall)
  BY DEF Federated
<1>1. seqs \in Seq(Seq(Items))
  <2>1. /\ Len(Apis) \in Nat /\ DOMAIN Apis = 1..Len(Apis)
        /\ \A k \in 1..Len(Apis) : Apis[k] \in ToSet(Apis)
    <3>1. Apis \in Seq({"semantic", "arxiv", "openalex", "crossref"})
      BY SuggestionsConstants
    <3>. QED
      BY ONLY <3>1, OfSequence, OnesOf
  <2>2. Found \cup {<<>>} \subseteq Seq(Items)
    BY SuggestionsConstants, EmptySeq
  <2>3. \A k \in 1..Len(Apis) : responses[Apis[k]] \in Seq(Items)
    BY <2>1, <2>2
  <2>4. seqs \in [1..Len(Apis) -> Seq(Items)]
    BY <2>1, <2>3, ParsedType
  <2>. QED
    BY ONLY <2>1, <2>4, IsSequence
<1>. HIDE DEF seqs
<1>2. all \in Seq(Items)
  BY <1>1, JoinedEvenly
<1>3. N \subseteq DOMAIN all /\ U \subseteq DOMAIN all
  OBVIOUS
<1>. HIDE DEF all, N, U
<1>4. named \in Seq(Items) /\ unnamed \in Seq(Items)
  BY ONLY <1>2, <1>3, ThoseOnes
<1>. HIDE DEF named, unnamed, oneDoi, worth
<1>5. kept1 \in Seq(Items)
  <2>1. <<>> \in Seq(Items)
    OBVIOUS
  <2>2. PICK g : MergesEach(g, Items, <<>>, named, oneDoi, worth)
    BY ONLY <1>4, <2>1, Merging
  <2>3. /\ g \in [0..Len(named) -> Seq(Items)] /\ kept1 = g[Len(named)]
    BY <2>2 DEF MergesEach
  <2>4. Len(named) \in 0..Len(named)
    BY <1>4, OfSequence
  <2>. QED
    BY <2>3, <2>4
<1>. HIDE DEF kept1
<1>6. merged \in Seq(Items)
  BY <1>4, <1>5, ConcatProperties
<1>7. Ranked(B, Len(merged))
  BY <1>6, PapersRanked
<1>. HIDE DEF merged, B
<1>8. Sorted(merged, B) \in Seq(Items)
  BY <1>6, <1>7, Sorting
<1>9. PerCall \in Nat
  BY SuggestionsConstants
<1>. QED
  BY <1>0, <1>8, <1>9, FirstOnes

LEMMA SortedByKey ==
    ASSUME NEW X, NEW s \in Seq(X), NEW W, \A i \in 1..Len(s) : W[i] \in Int, NEW B,
           \A i, j \in 1..Len(s) : <<i, j>> \in B <=> W[i] > W[j]
    PROVE  Sorted(s, B) \in Seq(X) /\ Len(Sorted(s, B)) = Len(s)
<1>1. Len(s) \in Nat
  BY OfSequence
<1>2. Ranked(B, Len(s))
  BY <1>1, RankedByKey
<1>3. Sorted(s, B) \in Seq(X) /\ Sorts(Sorted(s, B), s, B)
  BY <1>2, Sorting
<1>. QED
  BY <1>3 DEF Sorts

LEMMA DetectedType ==
    ASSUME NEW share \in KeywordShares
    PROVE  Detected(share) \in Seq(ToSet(Domains) \cup {General})
<1>. DEFINE most == CHOOSE n \in Range(share) : \A m \in Range(share) : m <= n
            P == {k \in DOMAIN Domains : share[Domains[k]] * 10 > most}
            strong == Those(Domains, P)
            B == {p \in Pairs(strong) : share[strong[p[1]]] > share[strong[p[2]]]}
            W == [i \in 1..Len(strong) |-> share[strong[i]]]
<1>1. Detected(share) = Sorted(strong, B)
  BY DEF Detected
<1>2. Domains \in Seq(ToSet(Domains)) /\ share \in [ToSet(Domains) -> Nat]
  BY SuggestionsConstants
<1>3. P \subseteq DOMAIN Domains
  OBVIOUS
<1>. HIDE DEF P
<1>4. strong \in Seq(ToSet(Domains))
  BY ONLY <1>2, <1>3, ThoseOnes
<1>. HIDE DEF strong
<1>5. /\ Len(strong) \in Nat /\ DOMAIN strong = 1..Len(strong)
      /\ \A k \in 1..Len(strong) : strong[k] \in ToSet(Domains)
  BY <1>4, OfSequence
<1>6. \A i \in 1..Len(strong) : W[i] \in Int
  BY <1>2, <1>5
<1>7. \A i, j \in 1..Len(strong) : <<i, j>> \in B <=> W[i] > W[j]
  BY <1>5 DEF Pairs
<1>. HIDE DEF B, W
<1>8. Sorted(strong, B) \in Seq(ToSet(Domains))
  BY <1>4, <1>6, <1>7, SortedByKey
<1>. HIDE DEF strong
<1>. QED
  BY <1>1, <1>8

LEMMA ProvidersType ==
    ASSUME domains \in Seq(ToSet(Domains) \cup {General}) PROVE ChosenProviders \in Seq(Providers)
<1>. DEFINE D == ToSet(Domains) \cup {General}
            active == IF domains = <<>> THEN <<General>> ELSE FirstOf(domains, 3)
            seqs == [i \in DOMAIN active |-> ProvidersOf[active[i]]]
            all == FlattenSeq(seqs)
<1>1. ChosenProviders = Distinct(all)
  BY DEF ChosenProviders
<1>2. active \in Seq(D)
  <2>1. CASE domains = <<>>
    <3>1. <<General>> \in Seq(D)
      OBVIOUS
    <3>. QED
      BY <2>1, <3>1
  <2>2. CASE domains # <<>>
    <3>1. FirstOf(domains, 3) \in Seq(D)
      BY FirstOnes
    <3>. QED
      BY <2>2, <3>1
  <2>. QED
    BY <2>1, <2>2
<1>3. ProvidersOf \in [D -> Seq(Providers)]
  BY SuggestionsConstants
<1>. HIDE DEF active, D
<1>4. /\ Len(active) \in Nat /\ DOMAIN active = 1..Len(active)
      /\ \A k \in 1..Len(active) : active[k] \in D
  BY <1>2, OfSequence
<1>5. seqs \in [1..Len(active) -> Seq(Providers)]
  BY <1>3, <1>4
<1>6. seqs \in Seq(Seq(Providers))
  BY ONLY <1>4, <1>5, IsSequence
<1>. HIDE DEF seqs
<1>7. all \in Seq(Providers)
  BY <1>6, JoinedEvenly
<1>. QED
  BY <1>1, <1>7, DistinctOnes

-----------------------------------------------------------------------------
(***************************************************************************)
(* The calls of a search.                                                  *)
(***************************************************************************)
LEMMA ThreeJoined ==
    ASSUME NEW X, NEW a \in Seq(X), NEW b \in Seq(X), NEW c \in Seq(X)
    PROVE  /\ a \o b \o c \in Seq(X) /\ Len(a \o b \o c) = Len(a) + Len(b) + Len(c)
           /\ Len(b) \in Nat /\ Len(c) \in Nat
<1>. DEFINE d == a \o b
            e == d \o c
<1>1. d = a \o b /\ e = d \o c
  OBVIOUS
<1>. HIDE DEF d, e
<1>2. d \in Seq(X) /\ Len(d) = Len(a) + Len(b) /\ Len(b) \in Nat
  BY <1>1, Concatenated
<1>3. e \in Seq(X) /\ Len(e) = Len(d) + Len(c) /\ Len(c) \in Nat
  BY <1>1, <1>2, Concatenated
<1>. QED
  BY <1>1, <1>2, <1>3

LEMMA QueriesType ==
    ASSUME NEW s \in ArticleSections
    PROVE  QueriesFor(s) \in Seq(Queries) /\ Len(QueriesFor(s)) \in Nat \ {0}
<1>. DEFINE q1 == <<[words |-> s.words, statistics |-> FALSE]>>
            claim == IF s.claims = <<>> THEN {} ELSE BestClaim(s).words
            q2 == IF claim = {} THEN <<>> ELSE <<[words |-> claim, statistics |-> FALSE]>>
            q3 == IF "statistics" \in Needs(s) /\ s.words # {}
                  THEN <<[words |-> s.words, statistics |-> TRUE]>> ELSE <<>>
            q == q1 \o q2 \o q3
<1>1. QueriesFor(s) = Distinct(q)
  BY DEF QueriesFor
<1>2. s.words \in SUBSET Topics /\ s.claims \in Seq(SectionClaims)
  BY DEF ArticleSections
<1>3. claim \in SUBSET Topics
  <2>1. CASE s.claims = <<>>
    BY <2>1
  <2>2. CASE s.claims # <<>>
    <3>. DEFINE c == s.claims
                W == [k \in 1..Len(c) |-> 1000 * c[k].strength + c[k].length]
                B == {p \in Pairs(c) : 1000 * c[p[1]].strength + c[p[1]].length
                                        > 1000 * c[p[2]].strength + c[p[2]].length}
    <3>1. BestClaim(s) = Head(Sorted(c, B))
      BY DEF BestClaim
    <3>2. /\ Len(c) \in Nat /\ DOMAIN c = 1..Len(c) /\ Len(c) # 0
          /\ \A k \in 1..Len(c) : c[k] \in SectionClaims
      <4>1. c \in Seq(SectionClaims) /\ c # <<>>
        BY <1>2, <2>2
      <4>. HIDE DEF c
      <4>. QED
        BY <4>1, OfSequence, EmptySeq
    <3>3. \A k \in 1..Len(c) : W[k] \in Int
      <4>1. \A e \in SectionClaims : e.strength \in Int /\ e.length \in Int
        BY DEF SectionClaims
      <4>. QED
        BY <3>2, <4>1
    <3>4. \A i, j \in 1..Len(c) : <<i, j>> \in B <=> W[i] > W[j]
      BY <3>2 DEF Pairs
    <3>5. c \in Seq(SectionClaims)
      BY <1>2
    <3>. HIDE DEF c, B, W
    <3>6. Sorted(c, B) \in Seq(SectionClaims) /\ Len(Sorted(c, B)) = Len(c)
      BY <3>3, <3>4, <3>5, SortedByKey
    <3>. DEFINE r == Sorted(c, B)
    <3>7. r \in Seq(SectionClaims) /\ r # <<>>
      BY <3>2, <3>6
    <3>. HIDE DEF r
    <3>8. Head(r) \in SectionClaims
      BY <3>7
    <3>9. BestClaim(s).words \in SUBSET Topics
      BY <3>1, <3>8 DEF r, SectionClaims
    <3>. QED
      BY <2>2, <3>9
  <2>. QED
    BY <2>1, <2>2
<1>. HIDE DEF claim
<1>4. q1 \in Seq(Queries) /\ Len(q1) = 1 /\ q2 \in Seq(Queries) /\ q3 \in Seq(Queries)
  <2>1. [words |-> s.words, statistics |-> FALSE] \in Queries
        /\ [words |-> claim, statistics |-> FALSE] \in Queries
        /\ [words |-> s.words, statistics |-> TRUE] \in Queries
    BY <1>2, <1>3 DEF Queries
  <2>2. \A e \in Queries : <<e>> \in Seq(Queries) /\ Len(<<e>>) = 1
    OBVIOUS
  <2>3. <<>> \in Seq(Queries)
    OBVIOUS
  <2>. QED
    BY <2>1, <2>2, <2>3
<1>. HIDE DEF q1, q2, q3
<1>8. q \in Seq(Queries) /\ Len(q) = Len(q1) + Len(q2) + Len(q3)
      /\ Len(q2) \in Nat /\ Len(q3) \in Nat
  <2>1. q1 \in Seq(Queries)
    BY <1>4
  <2>2. q2 \in Seq(Queries)
    BY <1>4
  <2>3. q3 \in Seq(Queries)
    BY <1>4
  <2>4. q = q1 \o q2 \o q3
    OBVIOUS
  <2>. HIDE DEF q
  <2>5. /\ q1 \o q2 \o q3 \in Seq(Queries) /\ Len(q1 \o q2 \o q3) = Len(q1) + Len(q2) + Len(q3)
        /\ Len(q2) \in Nat /\ Len(q3) \in Nat
    BY ONLY <2>1, <2>2, <2>3, ThreeJoined
  <2>. QED
    BY <2>4, <2>5
<1>. HIDE DEF q
<1>7. Len(q) > 0
  BY <1>4, <1>8
<1>. QED
  BY <1>1, <1>7, <1>8, DistinctOnes DEF q

\* Every call is one of the provider whose turn it is, by its number.
OfItsProvider(made, providers, n) ==
    \A k \in DOMAIN made :
        /\ ((k - 1) \div n) + 1 \in DOMAIN providers
        /\ made[k].provider = providers[((k - 1) \div n) + 1]

LEMMA RowOf ==
    ASSUME NEW n \in Nat \ {0}, NEW i \in Nat, NEW j \in 1..n
    PROVE  (i * n + j - 1) \div n = i
<1>. DEFINE a == i * n + j - 1
            d == a \div n
<1>1. i * n \in Nat /\ a \in Nat /\ i * n <= a /\ a < i * n + n
  BY SMT
<1>2. d \in Int /\ n * d <= a /\ a < n * d + n
  <2>. HIDE DEF a
  <2>1. a \in Nat /\ a = n * (a \div n) + (a % n) /\ a % n \in 0..(n - 1) /\ a \div n \in Int
    BY <1>1, SMT
  <2>. QED
    BY <1>1, <2>1, SMT
<1>. HIDE DEF d, a
<1>3. ~(d < i)
  <2>1. SUFFICES ASSUME d < i PROVE FALSE
    OBVIOUS
  <2>2. d + 1 <= i
    BY <1>2, <2>1
  <2>3. n * (d + 1) <= n * i
    BY <1>2, <2>2, SMT
  <2>4. n * (d + 1) = n * d + n /\ n * i = i * n /\ n * d \in Int
    BY <1>2, SMT
  <2>. QED
    BY <1>1, <1>2, <2>3, <2>4
<1>4. ~(d > i)
  <2>1. SUFFICES ASSUME d > i PROVE FALSE
    OBVIOUS
  <2>2. i + 1 <= d
    BY <1>2, <2>1
  <2>3. n * (i + 1) <= n * d
    BY <1>2, <2>2, SMT
  <2>4. n * (i + 1) = i * n + n /\ n * d \in Int
    BY <1>2, SMT
  <2>. QED
    BY <1>1, <1>2, <2>3, <2>4
<1>5. d = i
  BY <1>2, <1>3, <1>4
<1>. QED
  BY <1>5 DEF d, a

LEMMA SearchesMade ==
    ASSUME NEW s \in ArticleSections, domains \in Seq(ToSet(Domains) \cup {General})
    PROVE  /\ SearchesFor(s) \in Seq(Searches)
           /\ OfItsProvider(SearchesFor(s), ChosenProviders, Len(QueriesFor(s)))
           /\ \A k \in DOMAIN SearchesFor(s) : SearchesFor(s)[k].step = "queued"
<1>. DEFINE P == ChosenProviders
            Q == QueriesFor(s)
            n == Len(Q)
            call(i, j) == [provider |-> P[i], query |-> Q[j],
                           step |-> "queued", todo |-> <<>>, got |-> <<>>]
            callRows == [i \in DOMAIN P |-> [j \in DOMAIN Q |-> call(i, j)]]
            f == SearchesFor(s)
<1>1. f = FlattenSeq(callRows)
  BY DEF SearchesFor
<1>2. P \in Seq(Providers) /\ Q \in Seq(Queries) /\ n \in Nat \ {0}
  BY ProvidersType, QueriesType
<1>. HIDE DEF P, Q, f
<1>3. /\ Len(P) \in Nat /\ DOMAIN P = 1..Len(P) /\ \A i \in 1..Len(P) : P[i] \in Providers
      /\ DOMAIN Q = 1..n /\ \A j \in 1..n : Q[j] \in Queries
  BY <1>2, OfSequence
<1>4. ASSUME NEW i \in 1..Len(P), NEW j \in 1..n PROVE call(i, j) \in Searches
  <2>1. <<>> \in Seq(Topics) /\ <<>> \in Seq(Suggestions)
    OBVIOUS
  <2>. QED
    BY <1>3, <2>1 DEF Searches
<1>. DEFINE row(i) == [j \in 1..n |-> call(i, j)]
<1>5. ASSUME NEW i \in 1..Len(P)
      PROVE  /\ callRows[i] = row(i) /\ row(i) \in Seq(Searches) /\ Len(row(i)) = n
  <2>1. row(i) \in [1..n -> Searches]
    BY <1>4
  <2>. HIDE DEF row
  <2>2. row(i) \in Seq(Searches) /\ Len(row(i)) = n
    BY ONLY <1>2, <2>1, IsSequence
  <2>. QED
    BY <1>3, <2>2 DEF row
<1>6. callRows \in Seq(Seq(Searches)) /\ Len(callRows) = Len(P)
  <2>. HIDE DEF row
  <2>1. callRows \in [1..Len(P) -> Seq(Searches)]
    <3>1. callRows = [i \in 1..Len(P) |-> callRows[i]]
      BY <1>3
    <3>. HIDE DEF callRows
    <3>. QED
      BY <1>5, <3>1
  <2>. QED
    BY ONLY <1>3, <2>1, IsSequence
<1>7. ASSUME NEW i \in 1..Len(P), NEW j \in 1..n PROVE callRows[i][j] = call(i, j)
  BY <1>5
<1>. HIDE DEF callRows, row
<1>8. PICK o \in [0..Len(callRows) -> Nat] :
        /\ Joins(f, callRows, o, Len(callRows))
        /\ \A k \in 1..Len(callRows) : o[k] = o[k - 1] + Len(callRows[k])
  BY <1>1, <1>6, JoinedEvenly
<1>9. f \in Seq(Searches)
  BY <1>1, <1>6, JoinedEvenly
<1>10. \A p \in 1..Len(f) : \E k \in 1..Len(P) : \E j \in 1..n : p = o[k - 1] + j /\ f[p] = call(k, j)
  <2>1. ASSUME NEW p \in 1..Len(f)
        PROVE  \E k \in 1..Len(P) : \E j \in 1..n : p = o[k - 1] + j /\ f[p] = call(k, j)
    <3>1. PICK k \in 1..Len(callRows) : \E j \in 1..Len(callRows[k]) : p = o[k - 1] + j
      BY <1>8 DEF Joins
    <3>2. k \in 1..Len(P) /\ Len(callRows[k]) = n
      BY <1>5, <1>6
    <3>3. PICK j \in 1..n : p = o[k - 1] + j
      BY <3>1, <3>2
    <3>4. f[o[k - 1] + j] = callRows[k][j]
      BY <1>8, <3>2, <3>3 DEF Joins
    <3>. QED
      BY <1>7, <3>2, <3>3, <3>4
  <2>. QED
    BY <2>1
<1>11. \A k \in 1..Len(P) : o[k] = o[k - 1] + n /\ o[k] \in Nat /\ o[k - 1] \in Nat
  <2>1. ASSUME NEW k \in 1..Len(P) PROVE o[k] = o[k - 1] + n /\ o[k] \in Nat /\ o[k - 1] \in Nat
    <3>1. k \in 1..Len(callRows) /\ Len(callRows[k]) = n /\ k \in 0..Len(callRows) /\ k - 1 \in 0..Len(callRows)
      BY <1>3, <1>5, <1>6
    <3>. QED
      BY <1>8, <3>1
  <2>. QED
    BY <2>1
<1>. DEFINE T == {k \in 0..Len(P) : o[k] = o[0] + k * n}
<1>17. o[0] \in Nat /\ \A k \in 1..Len(P) : k - 1 \in 0..Len(P) /\ k - 1 \in Nat /\ (k - 1) + 1 = k
  <2>1. 0 \in 0..Len(callRows)
    BY <1>3, <1>6
  <2>2. o[0] \in Nat
    BY <1>8, <2>1
  <2>3. \A k \in 1..Len(P) : k - 1 \in 0..Len(P) /\ k - 1 \in Nat /\ (k - 1) + 1 = k
    BY <1>3
  <2>. QED
    BY <2>2, <2>3
<1>12. \A k \in 0..Len(P) : o[k] = o[0] + k * n
  <2>1. 0 \in T
    <3>1. o[0] \in Nat /\ 0 \in 0..Len(P)
      BY <1>3, <1>6, <1>8
    <3>. QED
      BY <1>2, <3>1
  <2>2. ASSUME NEW k \in 0..(Len(P) - 1), k \in T PROVE k + 1 \in T
    <3>1. k + 1 \in 1..Len(P) /\ (k + 1) - 1 = k /\ k \in Nat /\ k + 1 \in 0..Len(P) /\ o[0] \in Nat
      BY <1>3, <1>17
    <3>2. o[k + 1] = o[k] + n /\ o[k] = o[0] + k * n
      BY <1>11, <2>2, <3>1
    <3>3. (k + 1) * n = k * n + n /\ k * n \in Nat
      BY <1>2, <3>1, SMT
    <3>. QED
      BY <1>2, <3>1, <3>2, <3>3
  <2>. HIDE DEF T
  <2>3. \A k \in 0..Len(P) : k \in T
    BY <1>3, <2>1, <2>2, Counting
  <2>. QED
    BY <2>3 DEF T
<1>13. ASSUME NEW p \in 1..Len(f) PROVE o[0] = 0
  <2>1. 1 \in 1..Len(f)
    BY <1>9, OfSequence
  <2>2. PICK k \in 1..Len(P) : \E j \in 1..n : 1 = o[k - 1] + j /\ f[1] = call(k, j)
    BY <1>10, <2>1
  <2>3. PICK j \in 1..n : 1 = o[k - 1] + j
    BY <2>2
  <2>4. k - 1 \in 0..Len(P) /\ k - 1 \in Nat /\ o[0] \in Nat /\ o[k - 1] \in Nat
    BY <1>11, <1>17
  <2>5. o[k - 1] = o[0] + (k - 1) * n
    BY <1>12, <2>4
  <2>6. (k - 1) * n \in Nat
    BY <1>2, <2>4, SMT
  <2>. QED
    BY <2>3, <2>4, <2>5, <2>6
<1>14. ASSUME NEW p \in 1..Len(f)
       PROVE  /\ ((p - 1) \div n) + 1 \in DOMAIN P
              /\ f[p].provider = P[((p - 1) \div n) + 1] /\ f[p].step = "queued"
  <2>1. PICK k \in 1..Len(P) : \E j \in 1..n : p = o[k - 1] + j /\ f[p] = call(k, j)
    BY <1>10
  <2>2. PICK j \in 1..n : p = o[k - 1] + j /\ f[p] = call(k, j)
    BY <2>1
  <2>3. k - 1 \in 0..Len(P) /\ k - 1 \in Nat /\ (k - 1) + 1 = k
    BY <1>3
  <2>4. o[k - 1] = (k - 1) * n /\ (k - 1) * n \in Nat
    <3>1. o[k - 1] = o[0] + (k - 1) * n
      BY <1>12, <2>3
    <3>2. (k - 1) * n \in Nat
      BY <1>2, <2>3, SMT
    <3>. QED
      BY <1>13, <3>1, <3>2
  <2>5. p - 1 = (k - 1) * n + j - 1
    BY <2>2, <2>4
  <2>6. (p - 1) \div n = k - 1
    BY <1>2, <2>3, <2>5, RowOf
  <2>7. ((p - 1) \div n) + 1 = k
    BY <2>3, <2>6
  <2>8. f[p].provider = P[k] /\ f[p].step = "queued"
    BY <2>2
  <2>9. k \in DOMAIN P
    BY <1>3
  <2>. QED
    BY <2>7, <2>8, <2>9
<1>15. DOMAIN f = 1..Len(f)
  BY <1>9, OfSequence
<1>. HIDE DEF n
<1>16. /\ OfItsProvider(f, P, n)
       /\ \A k \in DOMAIN f : f[k].step = "queued"
  BY <1>14, <1>15 DEF OfItsProvider
<1>. QED
  BY <1>9, <1>16 DEF f, P, Q, n

-----------------------------------------------------------------------------
(***************************************************************************)
(* The calls that ended, in their order, and what was reported of them.    *)
(***************************************************************************)
EndedOnes(step) == {k \in DOMAIN searches : searches[k].step = step}
EndedOf(p, step) == {k \in DOMAIN searches : searches[k].provider = p /\ searches[k].step = step}

\* e lists S.
Lists(e, S) ==
    /\ \A p \in 1..Len(e) : e[p] \in S
    /\ \A p, q \in 1..Len(e) : e[p] = e[q] => p = q
    /\ \A k \in S : \E p \in 1..Len(e) : e[p] = k

LEMMA EndedInOrder ==
    ASSUME searches \in Seq(Searches), NEW step
    PROVE  EndedAs(step) \in Seq(Nat) /\ Lists(EndedAs(step), EndedOnes(step))
<1>. DEFINE s == [k \in DOMAIN searches |-> k]
            R == EndedOnes(step)
            e == EndedAs(step)
<1>1. Len(searches) \in Nat /\ DOMAIN searches = 1..Len(searches)
  BY OfSequence
<1>2. s \in [1..Len(searches) -> Nat] /\ \A k \in 1..Len(searches) : s[k] = k
  BY <1>1
<1>3. e = Kept(s, R)
  BY DEF EndedAs, Those, Kept, EndedOnes
<1>4. R \subseteq 1..Len(searches)
  BY <1>1 DEF EndedOnes
<1>. HIDE DEF s, R, e
<1>5. s \in Seq(Nat) /\ DOMAIN s = 1..Len(searches)
  BY ONLY <1>1, <1>2, IsSequence
<1>6. e \in Seq(Nat) /\ \E h : Keeps(e, s, R, h)
  BY <1>3, <1>4, <1>5, KeptInOrder
<1>7. PICK h : Keeps(e, s, R, h)
  BY <1>6
<1>8. \A p \in 1..Len(e) : h[p] \in R /\ e[p] = h[p]
  BY <1>2, <1>4, <1>7 DEF Keeps
<1>9. \A k \in R : \E p \in 1..Len(e) : e[p] = k
  BY <1>7, <1>8 DEF Keeps
<1>10. ASSUME NEW p \in 1..Len(e), NEW q \in 1..Len(e), e[p] = e[q] PROVE p = q
  <2>1. /\ p < q => e[p] < e[q]
        /\ q < p => e[q] < e[p]
    BY <1>7, <1>8 DEF Keeps
  <2>2. e[p] \in Nat /\ e[q] \in Nat
    BY <1>6, OfSequence
  <2>3. ~(p < q) /\ ~(q < p)
    BY <1>10, <2>1, <2>2
  <2>. QED
    BY <2>3
<1>11. Lists(e, R)
  BY <1>8, <1>9, <1>10 DEF Lists
<1>. QED
  BY <1>6, <1>11 DEF e, R

LEMMA Listed ==
    ASSUME NEW S, NEW e \in Seq(S), Lists(e, S)
    PROVE  IsFiniteSet(S) /\ Cardinality(S) = Len(e)
<1>1. Len(e) \in Nat /\ e \in [1..Len(e) -> S]
  BY OfSequence
<1>. QED
  BY <1>1, Bijected DEF Lists

\* Read back by its number, a call is told of its own provider.
LEMMA ReadBack ==
    ASSUME OfItsProvider(searches, ChosenProviders, Len(QueriesFor(sections[turn])))
    PROVE  \A k \in DOMAIN searches :
               ProviderAt(k) = searches[k].provider
               /\ \E i \in DOMAIN ChosenProviders : ChosenProviders[i] = searches[k].provider
BY DEF OfItsProvider, ProviderAt

LEMMA SearchedTold ==
    ASSUME searches \in Seq(Searches), ChosenProviders \in Seq(Providers),
           OfItsProvider(searches, ChosenProviders, Len(QueriesFor(sections[turn])))
    PROVE  /\ Searched \in Seq(Providers)
           /\ \A p \in Providers : p \in ToSet(Searched) <=> EndedOf(p, "answered") # {}
<1>. DEFINE e == EndedAs("answered")
            P == ChosenProviders
            A == {i \in DOMAIN P : \E k \in ToSet(e) : ProviderAt(k) = P[i]}
<1>1. Searched = Those(P, A)
  BY DEF Searched
<1>2. e \in Seq(Nat) /\ Lists(e, EndedOnes("answered"))
  BY EndedInOrder
<1>3. \A k : k \in ToSet(e) <=> k \in EndedOnes("answered")
  <2>1. /\ \A t \in ToSet(e) : \E k \in 1..Len(e) : e[k] = t
        /\ \A k \in 1..Len(e) : e[k] \in ToSet(e)
    BY <1>2, OnesOf
  <2>. HIDE DEF e
  <2>2. ASSUME NEW k \in ToSet(e) PROVE k \in EndedOnes("answered")
    BY <1>2, <2>1 DEF Lists
  <2>3. ASSUME NEW k \in EndedOnes("answered") PROVE k \in ToSet(e)
    BY <1>2, <2>1 DEF Lists
  <2>. QED
    BY <2>2, <2>3
<1>4. A \subseteq DOMAIN P
  OBVIOUS
<1>. HIDE DEF e
<1>5. \A i \in DOMAIN P : i \in A <=>
          \E k \in DOMAIN searches : searches[k].step = "answered" /\ searches[k].provider = P[i]
  BY <1>3, ReadBack DEF EndedOnes
<1>. HIDE DEF A
<1>6. /\ Those(P, A) \in Seq(Providers)
      /\ \A q \in 1..Len(Those(P, A)) : \E k \in A : Those(P, A)[q] = P[k]
      /\ \A k \in A : \E q \in 1..Len(Those(P, A)) : Those(P, A)[q] = P[k]
  BY <1>4, ThoseOnes
<1>. DEFINE f == Those(P, A)
<1>. HIDE DEF P, f
<1>7. /\ f \in Seq(Providers)
      /\ \A q \in 1..Len(f) : \E k \in A : f[q] = P[k]
      /\ \A k \in A : \E q \in 1..Len(f) : f[q] = P[k]
  BY <1>6 DEF f
<1>8. /\ \A t \in ToSet(f) : \E k \in 1..Len(f) : f[k] = t
      /\ \A k \in 1..Len(f) : f[k] \in ToSet(f)
  BY <1>7, OnesOf
<1>9. ASSUME NEW p \in Providers PROVE p \in ToSet(f) <=> EndedOf(p, "answered") # {}
  <2>1. ASSUME p \in ToSet(f) PROVE EndedOf(p, "answered") # {}
    <3>1. PICK i \in A : P[i] = p
      BY <1>7, <1>8, <2>1
    <3>. QED
      BY <1>4, <1>5, <3>1 DEF EndedOf
  <2>2. ASSUME EndedOf(p, "answered") # {} PROVE p \in ToSet(f)
    <3>1. PICK k \in DOMAIN searches : searches[k].provider = p /\ searches[k].step = "answered"
      BY <2>2 DEF EndedOf
    <3>2. PICK i \in DOMAIN P : P[i] = p
      BY <3>1, ReadBack DEF P
    <3>3. i \in A
      BY <1>5, <3>1, <3>2
    <3>. QED
      BY <1>7, <1>8, <3>2, <3>3
  <2>. QED
    BY <2>1, <2>2
<1>. QED
  BY <1>1, <1>7, <1>9 DEF f

\* The last errors are the providers that raised, each as often as it did.
ToldOfRaised(errs) ==
    \A p \in Providers :
        Cardinality({n \in DOMAIN errs :
            n > Len(errs) - Cardinality(EndedOnes("raised")) /\ errs[n] = p})
          = Cardinality(EndedOf(p, "raised"))

LEMMA RaisedTold ==
    ASSUME searches \in Seq(Searches), NEW before \in Seq(Providers), NEW after, after = before \o Raised,
           OfItsProvider(searches, ChosenProviders, Len(QueriesFor(sections[turn])))
    PROVE  /\ after \in Seq(Providers)
           /\ ToldOfRaised(after)
<1>. DEFINE e == EndedAs("raised")
            R == EndedOnes("raised")
            m == Len(before)
            c == Len(e)
<1>1. e \in Seq(Nat) /\ Lists(e, R) /\ c \in Nat /\ DOMAIN e = 1..c /\ m \in Nat
  BY EndedInOrder, OfSequence
<1>2. Raised = [i \in 1..c |-> ProviderAt(e[i])]
  BY <1>1 DEF Raised
<1>3. R \subseteq DOMAIN searches /\ \A k \in DOMAIN searches : k \in R <=> searches[k].step = "raised"
  BY DEF EndedOnes
<1>4. \A k \in DOMAIN searches : searches[k].provider \in Providers
  <2>1. \A k \in DOMAIN searches : searches[k] \in Searches
    BY OfSequence
  <2>2. \A d \in Searches : d.provider \in Providers
    BY DEF Searches
  <2>. QED
    BY <2>1, <2>2
<1>. HIDE DEF e, R
<1>5. \A i \in 1..c : e[i] \in DOMAIN searches /\ e[i] \in R /\ Raised[i] = searches[e[i]].provider
  BY <1>1, <1>2, <1>3, ReadBack DEF Lists
<1>6. Raised \in [1..c -> Providers]
  <2>1. Raised = [i \in 1..c |-> Raised[i]]
    BY <1>2
  <2>2. \A i \in 1..c : Raised[i] \in Providers
    BY <1>4, <1>5
  <2>. HIDE DEF c
  <2>. QED
    BY <2>1, <2>2
<1>. DEFINE r == Raised
<1>. HIDE DEF c, r
<1>7. r \in Seq(Providers) /\ Len(r) = c /\ after = before \o r
  <2>1. r \in [1..c -> Providers] /\ after = before \o r
    BY <1>6 DEF r
  <2>2. c \in Nat
    BY <1>1
  <2>3. r \in Seq(Providers) /\ Len(r) = c
    BY ONLY <2>1, <2>2, IsSequence
  <2>. QED
    BY <2>1, <2>3
<1>. HIDE DEF m
<1>8. /\ after \in Seq(Providers) /\ Len(after) = m + c /\ DOMAIN after = 1..(m + c)
      /\ \A i \in 1..c : after[m + i] = searches[e[i]].provider
  <2>1. after \in Seq(Providers) /\ Len(after) = m + c
    <3>1. before \in Seq(Providers)
      OBVIOUS
    <3>3. r \in Seq(Providers)
      BY <1>7
    <3>4. after = before \o r
      BY <1>7
    <3>2. after \in Seq(Providers) /\ Len(after) = Len(before) + Len(r)
      BY ONLY <3>1, <3>3, <3>4, Concatenated
    <3>. QED
      BY <1>7, <3>2 DEF m
  <2>2. \A i \in 1..c : after[m + i] = r[i]
    BY <1>7, Concatenated DEF m
  <2>3. DOMAIN after = 1..(m + c)
    BY <2>1, OfSequence
  <2>. QED
    BY <1>5, <2>1, <2>2, <2>3 DEF r
<1>9. Cardinality(R) = c /\ IsFiniteSet(R)
  <2>1. e \in [1..c -> R] /\ c \in Nat
    <3>1. e = [i \in 1..c |-> e[i]]
      BY <1>1
    <3>. QED
      BY <1>1, <1>5, <3>1
  <2>2. e \in Seq(R) /\ Len(e) = c
    BY ONLY <2>1, IsSequence
  <2>. QED
    BY <1>1, <2>2, Listed
<1>10. ASSUME NEW p \in Providers
       PROVE  Cardinality({n \in DOMAIN after : n > Len(after) - Cardinality(R) /\ after[n] = p})
                = Cardinality(EndedOf(p, "raised"))
  <2>. DEFINE N == {n \in DOMAIN after : n > Len(after) - Cardinality(R) /\ after[n] = p}
              E == EndedOf(p, "raised")
              f == [n \in N |-> e[n - m]]
  <2>1. \A n \in N : n - m \in 1..c /\ m + (n - m) = n /\ after[n] = p
    BY <1>1, <1>8, <1>9
  <2>2. E \subseteq R /\ \A k \in R : k \in E <=> searches[k].provider = p
    BY <1>3 DEF EndedOf
  <2>3. \A i \in 1..c : m + i \in DOMAIN after /\ m + i > Len(after) - Cardinality(R) /\ (m + i) - m = i
    BY <1>1, <1>8, <1>9
  <2>. HIDE DEF E
  <2>4. f \in [N -> E]
    <3>1. ASSUME NEW n \in N PROVE e[n - m] \in E
      <4>1. n - m \in 1..c /\ after[n] = searches[e[n - m]].provider
        BY <1>8, <2>1
      <4>. QED
        BY <1>5, <2>1, <2>2, <4>1
    <3>. HIDE DEF N
    <3>. QED
      BY <3>1
  <2>5. ASSUME NEW n \in N, NEW l \in N, f[n] = f[l] PROVE n = l
    <3>1. n - m \in 1..c /\ l - m \in 1..c /\ e[n - m] = e[l - m]
      BY <2>1, <2>5
    <3>2. n - m = l - m
      BY <1>1, <3>1 DEF Lists, c
    <3>3. n \in Nat /\ l \in Nat
      BY <1>1, <1>8
    <3>. QED
      BY <1>1, <3>2, <3>3
  <2>6. ASSUME NEW k \in E PROVE \E n \in N : f[n] = k
    <3>1. PICK i \in 1..c : e[i] = k
      BY <1>1, <2>2 DEF Lists, c
    <3>2. after[m + i] = p
      BY <1>8, <2>2, <3>1
    <3>3. m + i \in N /\ f[m + i] = e[i]
      BY <2>3, <3>2
    <3>. QED
      BY <3>1, <3>3
  <2>. HIDE DEF N, f
  <2>7. f \in Bijection(N, E)
    BY <2>4, <2>5, <2>6 DEF Bijection, Injection, Surjection, IsInjective
  <2>8. ExistsBijection(N, E)
    BY <2>7 DEF ExistsBijection
  <2>9. IsFiniteSet(N)
    <3>1. IsFiniteSet(1..(m + c))
      BY <1>1, FS_Interval
    <3>. QED
      BY <1>8, <3>1, FS_Subset DEF N
  <2>10. Cardinality(N) = Cardinality(E)
    BY <2>8, <2>9, FS_Bijection
  <2>. QED
    BY <2>10 DEF N, E
<1>. QED
  BY <1>8, <1>10 DEF R, ToldOfRaised

-----------------------------------------------------------------------------
(***************************************************************************)
(* What holds while the suggestions are made.                              *)
(***************************************************************************)
\* A call that has found what it says it looks up next.
GoodCall(c) == c \in Searches /\ (c.step \in {"indicator", "fallback"} => c.todo # <<>>)

CallsInv == \A k \in DOMAIN searches : GoodCall(searches[k])

\* Every call is one of the provider its number tells.
SearchingInv ==
    upc = "search" =>
        turn \in DOMAIN sections
        /\ OfItsProvider(searches, ChosenProviders, Len(QueriesFor(sections[turn])))

StartInv == upc = "detect" => turn = 1 /\ collected = <<>> /\ searches = <<>>

SuggestionInv ==
    SuggestionsTypeOK /\ StartInv /\ CallsInv /\ SearchingInv /\ SuggestionsAreTheBest

CallGoesOn(k, c) == GoodCall(c) /\ c.provider = searches[k].provider

LEMMA CallParts ==
    ASSUME NEW c \in Searches
    PROVE  /\ c.provider \in Providers /\ c.query \in Queries /\ c.todo \in Seq(Topics)
           /\ c.got \in Seq(Suggestions) /\ c.query.words \in SUBSET Topics
BY DEF Searches, Queries

LEMMA AnsweredGoesOn ==
    ASSUME CallsInv, NEW k \in DOMAIN searches, NEW got \in Seq(Suggestions)
    PROVE  CallGoesOn(k, Answered(k, got))
<1>. DEFINE c == searches[k]
            d == [c EXCEPT !.step = "answered", !.todo = <<>>, !.got = got]
<1>1. c \in Searches
  BY DEF CallsInv, GoodCall
<1>2. "answered" \in BusySteps \cup SearchOver \cup {"queued"} /\ <<>> \in Seq(Topics)
  BY DEF SearchOver
<1>. HIDE DEF c
<1>3. d \in Searches /\ d.provider = c.provider /\ d.step = "answered"
  BY <1>1, <1>2 DEF Searches
<1>4. Answered(k, got) = d
  BY DEF Answered, c
<1>. HIDE DEF d
<1>. QED
  BY <1>3, <1>4 DEF CallGoesOn, GoodCall, c

LEMMA ProceedsGoesOn ==
    ASSUME CallsInv, NEW k \in DOMAIN searches, NEW step \in BusySteps, NEW next \in Seq(Topics),
           step \in {"indicator", "fallback"} => next # <<>>
    PROVE  CallGoesOn(k, Proceeds(k, step, next))
<1>. DEFINE c == searches[k]
            d == [c EXCEPT !.step = step, !.todo = next]
<1>1. c \in Searches
  BY DEF CallsInv, GoodCall
<1>2. step \in BusySteps \cup SearchOver \cup {"queued"} /\ <<>> \in Seq(Suggestions)
  OBVIOUS
<1>. HIDE DEF c
<1>3. d \in Searches /\ d.provider = c.provider /\ d.step = step /\ d.todo = next
  BY <1>1, <1>2 DEF Searches
<1>4. Proceeds(k, step, next) = d
  BY DEF Proceeds, c
<1>. HIDE DEF d
<1>. QED
  BY <1>3, <1>4 DEF CallGoesOn, GoodCall, c

LEMMA IndicatorsType == ASSUME NEW query PROVE Indicators(query) \in Seq(Topics)
<1>. DEFINE P == {k \in DOMAIN Popular : Popular[k] \in query.words}
<1>1. Popular \in Seq(Topics) /\ PerCall \in Nat
  BY SuggestionsConstants
<1>2. P \subseteq DOMAIN Popular /\ Indicators(query) = FirstOf(Those(Popular, P), PerCall)
  BY DEF Indicators
<1>. HIDE DEF P
<1>3. Those(Popular, P) \in Seq(Topics)
  BY ONLY <1>1, <1>2, ThoseOnes
<1>. QED
  BY <1>1, <1>2, <1>3, FirstOnes

LEMMA NoneFound == <<>> \in Seq(Suggestions) /\ <<>> \in Seq(Topics) /\ <<>> \in Seq(Items)
OBVIOUS

LEMMA StartGoesOn ==
    ASSUME CallsInv, NEW k \in DOMAIN searches, StartSearch(k)
    PROVE  \E from, to : SearchGoes(k, from, to) /\ CallGoesOn(k, to)
<1>. DEFINE c == searches[k]
            ind == Indicators(c.query)
            to == IF c.provider = "lex_uz" \/ c.query.words = {} THEN Answered(k, <<>>)
                  ELSE IF c.provider = "pubmed" THEN Proceeds(k, "esearch", <<>>)
                  ELSE IF c.provider = "academic" THEN Proceeds(k, "federated", <<>>)
                  ELSE IF ind # <<>> THEN Proceeds(k, "indicator", ind)
                  ELSE Proceeds(k, "catalogue", <<>>)
<1>1. SearchGoes(k, "queued", to)
  BY DEF StartSearch
<1>2. CallGoesOn(k, Answered(k, <<>>))
  BY NoneFound, AnsweredGoesOn
<1>3. \A step \in {"esearch", "federated", "catalogue"} : CallGoesOn(k, Proceeds(k, step, <<>>))
  <2>1. ASSUME NEW step \in {"esearch", "federated", "catalogue"} PROVE CallGoesOn(k, Proceeds(k, step, <<>>))
    <3>1. step \in BusySteps /\ step \notin {"indicator", "fallback"}
      BY DEF BusySteps
    <3>. QED
      BY <3>1, NoneFound, ProceedsGoesOn
  <2>. QED
    BY <2>1
<1>4. ASSUME ind # <<>> PROVE CallGoesOn(k, Proceeds(k, "indicator", ind))
  <2>1. ind \in Seq(Topics) /\ "indicator" \in BusySteps
    BY IndicatorsType DEF BusySteps
  <2>. HIDE DEF ind
  <2>. QED
    BY <1>4, <2>1, ProceedsGoesOn
<1>. HIDE DEF ind, c
<1>5. CallGoesOn(k, to)
  BY <1>2, <1>3, <1>4
<1>. HIDE DEF to
<1>. QED
  BY <1>1, <1>5

LEMMA PubmedGoesOn ==
    ASSUME CallsInv, NEW k \in DOMAIN searches, Esearch(k) \/ Efetch(k)
    PROVE  \E from, to : SearchGoes(k, from, to) /\ CallGoesOn(k, to)
<1>1. CASE Esearch(k)
  <2>1. "efetch" \in BusySteps /\ "efetch" \notin {"indicator", "fallback"}
    BY DEF BusySteps
  <2>2. CallGoesOn(k, Proceeds(k, "efetch", <<>>)) /\ CallGoesOn(k, Answered(k, <<>>))
    BY <2>1, NoneFound, ProceedsGoesOn, AnsweredGoesOn
  <2>. QED
    BY <1>1, <2>2 DEF Esearch
<1>2. CASE Efetch(k)
  <2>1. PICK items \in Found \cup {<<>>} :
            SearchGoes(k, "efetch", Answered(k, Articles(Parsed("pubmed", items))))
    BY <1>2 DEF Efetch
  <2>2. items \in Seq(Items)
    BY NoneFound, SuggestionsConstants
  <2>3. Articles(Parsed("pubmed", items)) \in Seq(Suggestions)
    BY <2>2, ParsedType, ArticlesType
  <2>4. CallGoesOn(k, Answered(k, Articles(Parsed("pubmed", items))))
    BY <2>3, AnsweredGoesOn
  <2>. QED
    BY <2>1, <2>4
<1>. QED
  BY <1>1, <1>2

LEMMA IndicatorGoesOn ==
    ASSUME CallsInv, NEW k \in DOMAIN searches, FetchIndicator(k)
    PROVE  \E from, to : SearchGoes(k, from, to) /\ CallGoesOn(k, to)
<1>. DEFINE c == searches[k]
            rest == Tail(c.todo)
            got(age) == IF age = Untold THEN c.got ELSE Append(c.got, Value(Head(c.todo), age, 800))
            to(age) == IF rest # <<>> THEN [c EXCEPT !.todo = rest, !.got = got(age)]
                       ELSE IF got(age) # <<>> THEN Answered(k, got(age))
                       ELSE Proceeds(k, "catalogue", <<>>)
<1>1. PICK age \in Ages \cup {Untold} : SearchGoes(k, "indicator", to(age))
  BY DEF FetchIndicator
<1>2. GoodCall(c) /\ c \in Searches
  BY DEF CallsInv, GoodCall
<1>3. c.step = "indicator"
  BY <1>1 DEF SearchGoes
<1>. HIDE DEF c
<1>4. c.todo \in Seq(Topics) /\ c.todo # <<>> /\ c.got \in Seq(Suggestions)
  BY <1>2, <1>3, CallParts DEF GoodCall
<1>5. Head(c.todo) \in Topics /\ rest \in Seq(Topics)
  BY <1>4
<1>6. got(age) \in Seq(Suggestions)
  <2>1. age \in Nat \cup {Untold} /\ 800 \in Nat
    BY SuggestionsConstants
  <2>2. Value(Head(c.todo), age, 800) \in Suggestions
    BY <1>5, <2>1, ValueType
  <2>3. Append(c.got, Value(Head(c.todo), age, 800)) \in Seq(Suggestions)
    BY <1>4, <2>2, AppendProperties
  <2>. QED
    BY <1>4, <2>3
<1>. DEFINE g == got(age)
            t == to(age)
<1>. HIDE DEF rest, got, g
<1>7. t = IF rest # <<>> THEN [c EXCEPT !.todo = rest, !.got = g]
          ELSE IF g # <<>> THEN Answered(k, g) ELSE Proceeds(k, "catalogue", <<>>)
  BY DEF g
<1>8. g \in Seq(Suggestions)
  BY <1>6 DEF g
<1>9. "catalogue" \in BusySteps /\ "catalogue" \notin {"indicator", "fallback"}
  BY DEF BusySteps
<1>10. CallGoesOn(k, Answered(k, g)) /\ CallGoesOn(k, Proceeds(k, "catalogue", <<>>))
  BY <1>8, <1>9, NoneFound, AnsweredGoesOn, ProceedsGoesOn
<1>11. ASSUME rest # <<>> PROVE CallGoesOn(k, [c EXCEPT !.todo = rest, !.got = g])
  <2>1. "catalogue" \in BusySteps \cup SearchOver \cup {"queued"}
    BY <1>9
  <2>. DEFINE d == [c EXCEPT !.todo = rest, !.got = g]
  <2>2. d \in Searches /\ d.provider = c.provider /\ d.todo = rest
    BY <1>2, <1>5, <1>8, <2>1 DEF Searches
  <2>. HIDE DEF d
  <2>3. CallGoesOn(k, d)
    BY <1>11, <2>2 DEF CallGoesOn, GoodCall, c
  <2>. QED
    BY <2>3 DEF d
<1>12. CallGoesOn(k, t)
  <2>. HIDE DEF t
  <2>. QED
    BY <1>7, <1>10, <1>11
<1>. QED
  BY <1>1, <1>12

LEMMA CatalogueGoesOn ==
    ASSUME CallsInv, NEW k \in DOMAIN searches, SearchCatalogue(k) \/ FetchFallback(k)
    PROVE  \E from, to : SearchGoes(k, from, to) /\ CallGoesOn(k, to)
<1>1. searches[k] \in Searches /\ GoodCall(searches[k])
  BY DEF CallsInv, GoodCall
<1>2. CASE SearchCatalogue(k)
  <2>1. CallGoesOn(k, Answered(k, <<>>))
    BY NoneFound, AnsweredGoesOn
  <2>2. ASSUME NEW w \in searches[k].query.words
        PROVE  CallGoesOn(k, Proceeds(k, "fallback", <<w>>))
    <3>1. w \in Topics
      BY <1>1, CallParts
    <3>2. <<w>> \in Seq(Topics) /\ <<w>> # <<>> /\ "fallback" \in BusySteps
      BY <3>1 DEF BusySteps
    <3>. QED
      BY <3>2, ProceedsGoesOn
  <2>. QED
    BY <1>2, <2>1, <2>2 DEF SearchCatalogue
<1>3. CASE FetchFallback(k)
  <2>. DEFINE got(age) == IF age = Untold THEN <<>> ELSE <<Value(Head(searches[k].todo), age, 600)>>
  <2>1. PICK age \in Ages \cup {Untold} : SearchGoes(k, "fallback", Answered(k, got(age)))
    BY <1>3 DEF FetchFallback
  <2>2. searches[k].step = "fallback"
    BY <2>1 DEF SearchGoes
  <2>3. Head(searches[k].todo) \in Topics
    <3>1. searches[k].todo \in Seq(Topics) /\ searches[k].todo # <<>>
      BY <1>1, <2>2, CallParts DEF GoodCall
    <3>. QED
      BY <3>1
  <2>4. age \in Nat \cup {Untold} /\ 600 \in Nat
    BY SuggestionsConstants
  <2>5. Value(Head(searches[k].todo), age, 600) \in Suggestions
    BY <2>3, <2>4, ValueType
  <2>6. got(age) \in Seq(Suggestions)
    <3>1. \A x \in Suggestions : <<x>> \in Seq(Suggestions)
      OBVIOUS
    <3>2. <<Value(Head(searches[k].todo), age, 600)>> \in Seq(Suggestions)
      BY ONLY <2>5, <3>1
    <3>3. CASE age = Untold
      BY <3>3, NoneFound
    <3>4. CASE age # Untold
      BY <3>2, <3>4
    <3>. QED
      BY <3>3, <3>4
  <2>7. CallGoesOn(k, Answered(k, got(age)))
    <3>. DEFINE g == got(age)
    <3>1. g \in Seq(Suggestions)
      BY <2>6
    <3>. HIDE DEF g
    <3>2. CallGoesOn(k, Answered(k, g))
      BY <3>1, AnsweredGoesOn
    <3>. QED
      BY <3>2 DEF g
  <2>. QED
    BY <2>1, <2>7
<1>. QED
  BY <1>2, <1>3

LEMMA FederatedGoesOn ==
    ASSUME CallsInv, NEW k \in DOMAIN searches, FederatedSearch(k) \/ ProviderRaises(k)
    PROVE  \E from, to : SearchGoes(k, from, to) /\ CallGoesOn(k, to)
<1>1. CASE FederatedSearch(k)
  <2>1. PICK responses \in [ToSet(Apis) -> Found \cup {<<>>}] :
            SearchGoes(k, "federated", Answered(k, Bridged(Federated(responses))))
    BY <1>1 DEF FederatedSearch
  <2>2. Bridged(Federated(responses)) \in Seq(Suggestions)
    BY FederatedType, BridgedType
  <2>3. CallGoesOn(k, Answered(k, Bridged(Federated(responses))))
    BY <2>2, AnsweredGoesOn
  <2>. QED
    BY <2>1, <2>3
<1>2. CASE ProviderRaises(k)
  <2>. DEFINE c == searches[k]
              d == [c EXCEPT !.step = "raised", !.todo = <<>>, !.got = <<>>]
  <2>1. PICK step \in BusySteps : SearchGoes(k, step, d)
    BY <1>2 DEF ProviderRaises
  <2>2. c \in Searches
    BY DEF CallsInv, GoodCall
  <2>3. "raised" \in BusySteps \cup SearchOver \cup {"queued"}
    BY DEF SearchOver
  <2>. HIDE DEF c
  <2>4. d \in Searches /\ d.provider = c.provider /\ d.step = "raised"
    BY <2>2, <2>3, NoneFound DEF Searches
  <2>. HIDE DEF d
  <2>5. CallGoesOn(k, d)
    BY <2>4 DEF CallGoesOn, GoodCall, c
  <2>. QED
    BY <2>1, <2>5
<1>. QED
  BY <1>1, <1>2

LEMMA EverySearchGoesOn ==
    ASSUME CallsInv, NEW k \in DOMAIN searches, SearchStep(k)
    PROVE  \E from, to : SearchGoes(k, from, to) /\ CallGoesOn(k, to)
<1>1. CASE StartSearch(k)
  BY <1>1, StartGoesOn
<1>2. CASE Esearch(k) \/ Efetch(k)
  BY <1>2, PubmedGoesOn
<1>3. CASE FetchIndicator(k)
  BY <1>3, IndicatorGoesOn
<1>4. CASE SearchCatalogue(k) \/ FetchFallback(k)
  BY <1>4, CatalogueGoesOn
<1>5. CASE FederatedSearch(k) \/ ProviderRaises(k)
  BY <1>5, FederatedGoesOn
<1>. QED
  BY <1>1, <1>2, <1>3, <1>4, <1>5 DEF SearchStep

-----------------------------------------------------------------------------
(***************************************************************************)
(* What each step of the suggestions keeps.                                *)
(***************************************************************************)
EndedAmong(made, p, step) == {k \in DOMAIN made : made[k].provider = p /\ made[k].step = step}

\* What SuggestionsAreTheBest says of the calls for a section, of what was made of them
\* and of what was good enough.
Promised(made, top, searched, errs, good) ==
    LET chained(t) ==
            {c \in good : \A S \in SUBSET good :
                t \in S /\ (\A h \in good : (\E u \in S : AlikeOnes(h, u)) => h \in S) => c \in S}
        raised == UNION {EndedAmong(made, p, "raised") : p \in Providers}
        told(p) == {n \in DOMAIN errs : n > Len(errs) - Cardinality(raised) /\ errs[n] = p}
    IN
    /\ Len(top) <= PerSection /\ ToSet(top) \subseteq good
    /\ \A i, j \in DOMAIN top : i < j =>
        /\ top[i].score >= top[j].score
        /\ top[i].item.doi = NoDoi \/ top[i].item.doi # top[j].item.doi
    /\ \A t \in good :
        \/ Len(top) = PerSection /\ Last(top).score >= t.score
        \/ \E c \in ToSet(top) : c.score >= t.score /\ c \in chained(t)
    /\ \A p \in Providers :
        /\ p \in ToSet(searched) <=> EndedAmong(made, p, "answered") # {}
        /\ Cardinality(told(p)) = Cardinality(EndedAmong(made, p, "raised"))

LEMMA PromiseIs ==
    SuggestionsAreTheBest <=>
        (upc = "section" /\ searches # <<>> =>
            Promised(searches, offered.top, offered.searched, errors, Good(sections[turn - 1])))
BY DEF SuggestionsAreTheBest, Promised, AlikeOnes, EndedAmong, Good

LEMMA PromiseNext ==
    ASSUME UNCHANGED <<searches, sections>>
    PROVE  SuggestionsAreTheBest' <=>
        (upc' = "section" /\ searches' # <<>> =>
            Promised(searches, offered'.top, offered'.searched, errors', Good(sections[turn' - 1])))
BY DEF SuggestionsAreTheBest, Promised, AlikeOnes, EndedAmong, Good, Scored

LEMMA PromiseKept ==
    ASSUME searches \in Seq(Searches), NEW good, NEW top, AreBest(top, good), NEW searched, NEW errs,
           \A p \in Providers : p \in ToSet(searched) <=> EndedOf(p, "answered") # {},
           ToldOfRaised(errs)
    PROVE  Promised(searches, top, searched, errs, good)
<1>. DEFINE chained(t) ==
                {c \in good : \A S \in SUBSET good :
                    t \in S /\ (\A h \in good : (\E u \in S : AlikeOnes(h, u)) => h \in S) => c \in S}
            raised == UNION {EndedAmong(searches, p, "raised") : p \in Providers}
            told(p) == {n \in DOMAIN errs : n > Len(errs) - Cardinality(raised) /\ errs[n] = p}
<1>1. top \in Seq(good) /\ DOMAIN top = 1..Len(top) /\ Len(top) \in Nat /\ \A i \in DOMAIN top : top[i] \in good
  BY OfSequence DEF AreBest
<1>2. /\ ToSet(top) \subseteq good
      /\ \A i \in DOMAIN top : top[i] \in ToSet(top)
  BY <1>1, OnesOf
<1>3. raised = EndedOnes("raised")
  <2>1. \A k \in DOMAIN searches : searches[k].provider \in Providers
    <3>1. \A k \in DOMAIN searches : searches[k] \in Searches
      BY OfSequence
    <3>. QED
      BY <3>1, CallParts
  <2>. QED
    BY <2>1 DEF EndedOnes, EndedAmong
<1>4. \A p, step : EndedAmong(searches, p, step) = EndedOf(p, step)
  BY DEF EndedAmong, EndedOf
<1>5. ASSUME NEW p \in Providers
      PROVE  /\ p \in ToSet(searched) <=> EndedAmong(searches, p, "answered") # {}
             /\ Cardinality(told(p)) = Cardinality(EndedAmong(searches, p, "raised"))
  BY <1>3, <1>4 DEF ToldOfRaised
<1>6. ASSUME NEW t \in good
      PROVE  \/ Len(top) = PerSection /\ Last(top).score >= t.score
             \/ \E c \in ToSet(top) : c.score >= t.score /\ c \in chained(t)
  <2>1. CASE Len(top) = PerSection /\ top[Len(top)].score >= t.score
    BY <2>1 DEF Last
  <2>2. CASE \E i \in DOMAIN top : top[i].score >= t.score /\ Leads(AlikePairs(good), good, t, top[i])
    <3>1. PICK i \in DOMAIN top : top[i].score >= t.score /\ Leads(AlikePairs(good), good, t, top[i])
      BY <2>2
    <3>2. top[i] \in chained(t)
      <4>1. SUFFICES ASSUME NEW S \in SUBSET good, t \in S,
                            \A h \in good : (\E u \in S : AlikeOnes(h, u)) => h \in S
                     PROVE  top[i] \in S
        BY <1>1
      <4>2. \A h \in good : (\E u \in S : <<h, u>> \in AlikePairs(good)) => h \in S
        BY <4>1 DEF AlikePairs
      <4>. QED
        BY <3>1, <4>1, <4>2 DEF Leads
    <3>. QED
      BY <1>2, <3>1, <3>2
  <2>. QED
    BY <2>1, <2>2 DEF AreBest
<1>7. /\ Len(top) <= PerSection
      /\ \A i, j \in DOMAIN top : i < j =>
            /\ top[i].score >= top[j].score
            /\ top[i].item.doi = NoDoi \/ top[i].item.doi # top[j].item.doi
  BY DEF AreBest
<1>. HIDE DEF told, raised, chained
<1>8. Promised(searches, top, searched, errs, good)
  BY <1>2, <1>5, <1>6, <1>7 DEF Promised, told, raised, chained
<1>. QED
  BY <1>8

-----------------------------------------------------------------------------
LEMMA SuggestionsStart == ASSUME SuggestionsInit PROVE SuggestionInv
<1>1. SuggestionsTypeOK
  <2>1. /\ <<>> \in Seq(ToSet(Domains) \cup {General}) /\ <<>> \in Seq(Searches)
        /\ <<>> \in Seq(Suggestions) /\ <<>> \in Seq(Providers) /\ <<>> \in Seq(Suggestions \X Nat)
        /\ <<>> \in Seq([section : DOMAIN sections, top : Seq(Suggestions)]) /\ Len(<<>>) = 0
    BY EmptySeq
  <2>2. 1 \in 1..(Len(sections) + 1)
    BY <2>1 DEF SuggestionsInit
  <2>3. NothingOffered \in [top : Seq(Suggestions), searched : Seq(Providers)]
    BY <2>1 DEF NothingOffered
  <2>. QED
    BY <2>1, <2>2, <2>3 DEF SuggestionsInit, SuggestionsTypeOK
<1>2. StartInv /\ SearchingInv /\ SuggestionsAreTheBest
  BY DEF SuggestionsInit, StartInv, SearchingInv, SuggestionsAreTheBest
<1>3. CallsInv
  BY DEF SuggestionsInit, CallsInv
<1>. QED
  BY <1>1, <1>2, <1>3 DEF SuggestionInv

LEMMA DetectKeeps == ASSUME SuggestionInv, DetectDomains PROVE SuggestionInv'
<1>1. /\ upc = "detect" /\ upc' = "section" /\ sections' \in Outlines
      /\ UNCHANGED <<turn, searches, offered, collected, errors, entries>>
      /\ turn = 1 /\ collected = <<>> /\ searches = <<>>
  BY DEF DetectDomains, SuggestionInv, StartInv
<1>2. domains' \in Seq(ToSet(Domains) \cup {General})
  BY DetectedType DEF DetectDomains
<1>3. sections' \in Seq(ArticleSections) /\ Len(sections') \in Nat
  BY <1>1, SuggestionsConstants, OfSequence
<1>4. SuggestionsTypeOK'
  <2>1. turn' \in 1..(Len(sections') + 1)
    BY <1>1, <1>3
  <2>2. collected' \in Seq([section : DOMAIN sections', top : Seq(Suggestions)])
    BY <1>1, EmptySeq
  <2>3. searches' \in Seq(Searches) /\ errors' \in Seq(Providers) /\ entries' \in Seq(Suggestions \X Nat)
        /\ offered' \in [top : Seq(Suggestions), searched : Seq(Providers)]
    BY <1>1 DEF SuggestionInv, SuggestionsTypeOK
  <2>. QED
    BY <1>1, <1>2, <2>1, <2>2, <2>3 DEF SuggestionsTypeOK
<1>5. StartInv' /\ SearchingInv' /\ SuggestionsAreTheBest'
  BY <1>1 DEF StartInv, SearchingInv, SuggestionsAreTheBest
<1>6. CallsInv'
  BY <1>1 DEF CallsInv
<1>. QED
  BY <1>4, <1>5, <1>6 DEF SuggestionInv

LEMMA OutlineType == ASSUME SuggestionsTypeOK
    PROVE  /\ sections \in Seq(ArticleSections) /\ Len(sections) \in Nat /\ DOMAIN sections = 1..Len(sections)
           /\ \A k \in DOMAIN sections : sections[k] \in ArticleSections
           /\ turn \in 1..(Len(sections) + 1)
<1>1. sections \in Seq(ArticleSections)
  BY SuggestionsConstants, EmptySeq DEF SuggestionsTypeOK
<1>. QED
  BY <1>1, OfSequence DEF SuggestionsTypeOK

LEMMA ConsiderKeeps == ASSUME SuggestionInv, ConsiderSection PROVE SuggestionInv'
<1>1. /\ upc = "section" /\ turn \in DOMAIN sections /\ offered' = NothingOffered
      /\ UNCHANGED <<sections, domains, collected, errors, entries>>
  BY DEF ConsiderSection
<1>2. SuggestionsTypeOK
  BY DEF SuggestionInv
<1>3. sections[turn] \in ArticleSections /\ domains \in Seq(ToSet(Domains) \cup {General})
  BY <1>1, <1>2, OutlineType DEF SuggestionsTypeOK
<1>4. NothingOffered \in [top : Seq(Suggestions), searched : Seq(Providers)]
  BY EmptySeq DEF NothingOffered
<1>5. ASSUME searches' \in Seq(Searches), turn' \in 1..(Len(sections) + 1), upc' \in {"section", "search"}
      PROVE  SuggestionsTypeOK'
  BY <1>1, <1>2, <1>4, <1>5 DEF SuggestionsTypeOK
<1>6. CASE turn' = turn + 1 /\ searches' = <<>> /\ UNCHANGED upc
  <2>1. turn' \in 1..(Len(sections) + 1)
    BY <1>1, <1>2, <1>6, OutlineType
  <2>2. SuggestionsTypeOK'
    BY <1>1, <1>5, <1>6, <2>1, EmptySeq
  <2>3. StartInv' /\ SearchingInv' /\ SuggestionsAreTheBest'
    BY <1>1, <1>6 DEF StartInv, SearchingInv, SuggestionsAreTheBest
  <2>4. CallsInv'
    BY <1>6 DEF CallsInv
  <2>. QED
    BY <2>2, <2>3, <2>4 DEF SuggestionInv
<1>7. CASE searches' = SearchesFor(sections[turn]) /\ upc' = "search" /\ UNCHANGED turn
  <2>1. /\ searches' \in Seq(Searches)
        /\ OfItsProvider(searches', ChosenProviders, Len(QueriesFor(sections[turn])))
        /\ \A k \in DOMAIN searches' : searches'[k].step = "queued"
    BY <1>3, <1>7, SearchesMade
  <2>2. SuggestionsTypeOK'
    BY <1>2, <1>5, <1>7, <2>1, OutlineType
  <2>3. ChosenProviders' = ChosenProviders /\ QueriesFor(sections[turn])' = QueriesFor(sections[turn])
    BY <1>1, <1>7 DEF ChosenProviders
  <2>4. SearchingInv'
    BY <1>1, <1>7, <2>1, <2>3 DEF SearchingInv
  <2>5. StartInv' /\ SuggestionsAreTheBest'
    BY <1>7 DEF StartInv, SuggestionsAreTheBest
  <2>6. CallsInv'
    <3>1. \A k \in DOMAIN searches' : searches'[k] \in Searches
      BY <2>1, OfSequence
    <3>. QED
      BY <2>1, <3>1 DEF CallsInv, GoodCall
  <2>. QED
    BY <2>2, <2>4, <2>5, <2>6 DEF SuggestionInv
<1>. QED
  BY <1>6, <1>7 DEF ConsiderSection

LEMMA SearchKeeps ==
    ASSUME SuggestionInv, NEW k \in DOMAIN searches, SearchStep(k) PROVE SuggestionInv'
<1>1. PICK from, to : SearchGoes(k, from, to) /\ CallGoesOn(k, to)
  BY EverySearchGoesOn DEF SuggestionInv
<1>2. /\ upc = "search" /\ searches' = [searches EXCEPT ![k] = to]
      /\ UNCHANGED <<upc, sections, domains, turn, offered, collected, errors, entries>>
  BY <1>1 DEF SearchGoes
<1>3. SuggestionsTypeOK /\ CallsInv /\ SearchingInv
  BY DEF SuggestionInv
<1>4. GoodCall(to) /\ to.provider = searches[k].provider /\ to \in Searches
  BY <1>1 DEF CallGoesOn, GoodCall
<1>5. searches \in Seq(Searches)
  BY <1>3 DEF SuggestionsTypeOK
<1>6. DOMAIN searches' = DOMAIN searches
      /\ \A l \in DOMAIN searches : searches'[l] = IF l = k THEN to ELSE searches[l]
  BY <1>2
<1>7. searches' \in Seq(Searches)
  BY <1>2, <1>4, <1>5, ExceptSeq
<1>8. SuggestionsTypeOK'
  BY <1>2, <1>3, <1>7 DEF SuggestionsTypeOK
<1>9. CallsInv'
  BY <1>3, <1>4, <1>6 DEF CallsInv
<1>10. SearchingInv'
  <2>1. ChosenProviders' = ChosenProviders /\ QueriesFor(sections[turn])' = QueriesFor(sections[turn])
    BY <1>2 DEF ChosenProviders
  <2>2. OfItsProvider(searches, ChosenProviders, Len(QueriesFor(sections[turn])))
    BY <1>2, <1>3 DEF SearchingInv
  <2>3. OfItsProvider(searches', ChosenProviders, Len(QueriesFor(sections[turn])))
    BY <1>4, <1>6, <2>2 DEF OfItsProvider
  <2>. QED
    BY <1>2, <1>3, <2>1, <2>3 DEF SearchingInv
<1>11. StartInv' /\ SuggestionsAreTheBest'
  BY <1>2 DEF StartInv, SuggestionsAreTheBest
<1>. QED
  BY <1>8, <1>9, <1>10, <1>11 DEF SuggestionInv

-----------------------------------------------------------------------------
(***************************************************************************)
(* Every step of the suggestions.                                          *)
(***************************************************************************)
LEMMA RankKeeps == ASSUME SuggestionInv, RankSection PROVE SuggestionInv'
<1>. DEFINE top == BestFor(sections[turn])
            one == [section |-> turn, top |-> top]
<1>1. /\ upc = "search" /\ upc' = "section" /\ turn' = turn + 1
      /\ offered' = [top |-> top, searched |-> Searched] /\ errors' = errors \o Raised
      /\ collected' = IF offered'.top = <<>> THEN collected ELSE Append(collected, one)
      /\ UNCHANGED <<sections, domains, searches, entries>>
  BY DEF RankSection
<1>2. /\ SuggestionsTypeOK /\ CallsInv /\ turn \in DOMAIN sections
      /\ OfItsProvider(searches, ChosenProviders, Len(QueriesFor(sections[turn])))
  BY <1>1 DEF SuggestionInv, SearchingInv
<1>3. /\ searches \in Seq(Searches) /\ domains \in Seq(ToSet(Domains) \cup {General})
      /\ errors \in Seq(Providers)
  BY <1>2 DEF SuggestionsTypeOK
<1>4. AreBest(top, Good(sections[turn])) /\ top \in Seq(Suggestions)
  BY <1>3, Scores, BestForIsBest, SuggestionsConstants
<1>5. ChosenProviders \in Seq(Providers)
  BY <1>3, ProvidersType
<1>6. /\ Searched \in Seq(Providers)
      /\ \A p \in Providers : p \in ToSet(Searched) <=> EndedOf(p, "answered") # {}
  BY <1>2, <1>3, <1>5, SearchedTold
<1>7. errors' \in Seq(Providers) /\ ToldOfRaised(errors')
  BY <1>1, <1>2, <1>3, RaisedTold
<1>. HIDE DEF top
<1>8. Promised(searches, top, Searched, errors', Good(sections[turn]))
  BY <1>3, <1>4, <1>6, <1>7, PromiseKept
<1>9. offered'.top = top /\ offered'.searched = Searched
      /\ offered' \in [top : Seq(Suggestions), searched : Seq(Providers)]
  BY <1>1, <1>4, <1>6
<1>10. turn \in Nat /\ turn' - 1 = turn /\ turn' \in 1..(Len(sections) + 1)
  BY <1>1, <1>2, OutlineType
<1>11. SuggestionsAreTheBest'
  <2>1. Promised(searches, offered'.top, offered'.searched, errors', Good(sections[turn' - 1]))
    BY <1>8, <1>9, <1>10
  <2>. QED
    BY <1>1, <2>1, PromiseNext
<1>12. collected' \in Seq([section : DOMAIN sections, top : Seq(Suggestions)])
  <2>1. collected \in Seq([section : DOMAIN sections, top : Seq(Suggestions)])
    BY <1>2 DEF SuggestionsTypeOK
  <2>2. one \in [section : DOMAIN sections, top : Seq(Suggestions)]
    BY <1>2, <1>4
  <2>. HIDE DEF one
  <2>3. Append(collected, one) \in Seq([section : DOMAIN sections, top : Seq(Suggestions)])
    BY <2>1, <2>2, AppendProperties
  <2>. QED
    BY <1>1, <2>1, <2>3
<1>13. SuggestionsTypeOK'
  BY <1>1, <1>2, <1>7, <1>9, <1>10, <1>12 DEF SuggestionsTypeOK
<1>14. StartInv' /\ SearchingInv'
  BY <1>1 DEF StartInv, SearchingInv
<1>15. CallsInv'
  BY <1>1, <1>2 DEF CallsInv
<1>. QED
  BY <1>11, <1>13, <1>14, <1>15 DEF SuggestionInv

LEMMA IntegrateKeeps == ASSUME SuggestionInv, IntegrateBatch PROVE SuggestionInv'
<1>1. upc' = "done" /\ UNCHANGED <<sections, domains, turn, searches, offered, collected, errors>>
  BY DEF IntegrateBatch
<1>2. SuggestionsTypeOK /\ CallsInv
  BY DEF SuggestionInv
<1>3. entries' \in Seq(Suggestions \X Nat)
  <2>. DEFINE all == UNION {ToSet(collected[n].top) : n \in DOMAIN collected}
              P(approved) == {n \in DOMAIN approved :
                                 approved[n][2] # 0 /\ ~approved[n][1].item.brief}
  <2>1. PICK approved \in Approvals : entries' = Those(approved, P(approved))
    BY DEF IntegrateBatch
  <2>2. all \subseteq Suggestions
    <3>1. collected \in Seq([section : DOMAIN sections, top : Seq(Suggestions)])
      BY <1>2 DEF SuggestionsTypeOK
    <3>2. \A n \in DOMAIN collected : collected[n].top \in Seq(Suggestions)
      <4>. DEFINE R == [section : DOMAIN sections, top : Seq(Suggestions)]
      <4>1. \A r \in R : r.top \in Seq(Suggestions)
        OBVIOUS
      <4>. HIDE DEF R
      <4>2. collected \in Seq(R)
        BY <3>1 DEF R
      <4>3. \A n \in DOMAIN collected : collected[n] \in R
        BY <4>2, OfSequence
      <4>. QED
        BY <4>1, <4>3
    <3>3. \A n \in DOMAIN collected : ToSet(collected[n].top) \subseteq Suggestions
      BY <3>2, OnesOf
    <3>. QED
      BY <3>3
  <2>3. PICK n \in 0..MaxApproved : approved \in [1..n -> all \X (0..Len(sections))]
    BY <2>1 DEF Approvals
  <2>4. n \in Nat /\ 0..Len(sections) \subseteq Nat
    BY <1>2, SuggestionsConstants, OutlineType
  <2>. HIDE DEF all
  <2>5. approved \in [1..n -> Suggestions \X Nat]
    BY <2>2, <2>3, <2>4
  <2>6. approved \in Seq(Suggestions \X Nat)
    BY ONLY <2>4, <2>5, IsSequence
  <2>7. P(approved) \subseteq DOMAIN approved
    OBVIOUS
  <2>. HIDE DEF P
  <2>8. Those(approved, P(approved)) \in Seq(Suggestions \X Nat)
    BY ONLY <2>6, <2>7, ThoseOnes
  <2>. QED
    BY <2>1, <2>8
<1>4. SuggestionsTypeOK'
  BY <1>1, <1>2, <1>3 DEF SuggestionsTypeOK
<1>5. StartInv' /\ SearchingInv' /\ SuggestionsAreTheBest'
  BY <1>1 DEF StartInv, SearchingInv, SuggestionsAreTheBest
<1>6. CallsInv'
  BY <1>1, <1>2 DEF CallsInv
<1>. QED
  BY <1>4, <1>5, <1>6 DEF SuggestionInv

LEMMA SuggestionsRest == ASSUME SuggestionInv, UNCHANGED suggestionVars PROVE SuggestionInv'
<1>1. UNCHANGED <<upc, sections, domains, turn, searches, offered, collected, errors, entries>>
  BY DEF suggestionVars
<1>2. SuggestionsTypeOK' /\ StartInv' /\ CallsInv'
  BY <1>1 DEF SuggestionInv, SuggestionsTypeOK, StartInv, CallsInv
<1>3. SearchingInv'
  <2>1. ChosenProviders' = ChosenProviders /\ QueriesFor(sections[turn])' = QueriesFor(sections[turn])
    BY <1>1 DEF ChosenProviders
  <2>. QED
    BY <1>1, <2>1 DEF SuggestionInv, SearchingInv
<1>4. SuggestionsAreTheBest'
  BY <1>1, PromiseIs, PromiseNext DEF SuggestionInv
<1>. QED
  BY <1>2, <1>3, <1>4 DEF SuggestionInv

LEMMA SuggestionsStep == ASSUME SuggestionInv, [Next]_vars PROVE SuggestionInv'
<1>1. SuggestionsWork \/ UNCHANGED suggestionVars
  BY DEF Next, vars, textVars, InSources, InEditorial, InOutputs, InImages, InTurns, InDeck,
     InInterview, InSuggestions, InArticle, InText, SuggestionsNext
<1>2. CASE SuggestionsWork
  <2>1. CASE DetectDomains
    BY <2>1, DetectKeeps
  <2>2. CASE ConsiderSection
    BY <2>2, ConsiderKeeps
  <2>3. CASE \E k \in DOMAIN searches : SearchStep(k)
    BY <2>3, SearchKeeps
  <2>4. CASE RankSection
    BY <2>4, RankKeeps
  <2>5. CASE IntegrateBatch
    BY <2>5, IntegrateKeeps
  <2>. QED
    BY <1>2, <2>1, <2>2, <2>3, <2>4, <2>5 DEF SuggestionsWork
<1>. QED
  BY <1>1, <1>2, SuggestionsRest

\* However the searches of SectionSuggestionService end and its providers overlap, what
\* a section is offered is the best of what was found for it, and once: for any number
\* of sections, providers, results and limits.
THEOREM SuggestionsStayTheBest == Spec => []SuggestionsAreTheBest
<1>1. Init => SuggestionInv
  BY SuggestionsStart DEF Init
<1>2. SuggestionInv /\ [Next]_vars => SuggestionInv'
  BY SuggestionsStep
<1>3. SuggestionInv => SuggestionsAreTheBest
  BY DEF SuggestionInv
<1>. QED
  BY <1>1, <1>2, <1>3, PTL DEF Spec

LEMMA SuggestionsTypeCorrect == Spec => []SuggestionsTypeOK
<1>1. Init => SuggestionInv
  BY SuggestionsStart DEF Init
<1>2. SuggestionInv /\ [Next]_vars => SuggestionInv'
  BY SuggestionsStep
<1>3. SuggestionInv => SuggestionsTypeOK
  BY DEF SuggestionInv
<1>. QED
  BY <1>1, <1>2, <1>3, PTL DEF Spec

-----------------------------------------------------------------------------
LEMMA OneOfTheParts == Spec => [](part \in Parts)
<1>1. Init => part \in Parts
  BY DEF Init
<1>2. part \in Parts /\ [Next]_vars => (part \in Parts)'
  BY DEF Next, vars, InSources, InEditorial, InOutputs, InImages, InTurns, InDeck, InText,
     InInterview, InSuggestions, InArticle
<1>. QED
  BY <1>1, <1>2, PTL DEF Spec

\* Every part keeps its types while the others work, so no handler ever meets a state
\* it has no case for: no page beyond the last, no chunk, claim or matrix entry of a
\* file that was not sent, no retry, redraw, iteration or backoff beyond its budget,
\* no name chosen that nobody found.
THEOREM TypeCorrect == Spec => []TypeOK
<1>1. (part \in Parts) /\ ReadingTypeOK /\ EditorialTypeOK /\ OutputsTypeOK /\ ImagesTypeOK
        /\ TurnsTypeOK /\ InterviewTypeOK /\ SuggestionsTypeOK /\ ArticleTypeOK => TypeOK
  BY DEF TypeOK
<1>. QED
  BY <1>1, OneOfTheParts, ReadingTypeCorrect, EditorialTypeCorrect, OutputsTypeCorrect,
     ImagesTypeCorrect, TurnsTypeCorrect, InterviewTypeCorrect, SuggestionsTypeCorrect,
     ArticleTypeCorrect, PTL
=============================================================================
