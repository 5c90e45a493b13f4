--------------------------- MODULE BotFlows_proofs ---------------------------
(***************************************************************************)
(* Proofs about BotFlows, for every number of turns, presses, generations, *)
(* files, days and failures, every allowance and every cap: its types, the *)
(* editing sessions, the charges of generations, and the free credits of   *)
(* an article's conversation.                                              *)
(***************************************************************************)
EXTENDS BotFlows, FiniteSetTheorems, SequenceTheorems, TLAPS

(***************************************************************************)
(* Free credits: every step of grant_free_credit keeps its types and        *)
(* CapsInv, from which the three caps follow.                               *)
(***************************************************************************)
\* The greater of two counts.
LEMMA MaxOfTwo ==
    ASSUME NEW a \in Nat, NEW b \in Nat
    PROVE  /\ Max({a, b}) \in {a, b}
           /\ Max({a, b}) >= a /\ Max({a, b}) >= b
<1>1. \E x \in {a, b} : \A y \in {a, b} : x >= y
  OBVIOUS
<1>. QED
  BY <1>1 DEF Max

LEMMA CrowdType ==
    ASSUME CreditsTypeOK, NEW u \in Grantors, AskForCredit(u)
    PROVE  CreditsTypeOK'
<1>1. /\ UnderWay(asking') \in SUBSET Grantors
      /\ Cardinality(UnderWay(asking')) \in Nat
      /\ Cardinality(UnderWay(asking')) <= Cardinality(Grantors)
      /\ Cardinality(Grantors) \in Nat
  BY FS_Subset, FS_CardinalityType, CapsAssumption DEF UnderWay
<1>2. crowd \in Nat /\ crowd <= Cardinality(Grantors)
  BY <1>1 DEF CreditsTypeOK
<1>3. crowd' \in 0..Cardinality(Grantors)
  <2>. DEFINE n == Cardinality(UnderWay(asking'))
  <2>1. crowd' = Max({crowd, n})
    BY DEF AskForCredit
  <2>2. n \in Nat
    BY <1>1
  <2>. HIDE DEF n
  <2>3. crowd' \in {crowd, n}
    BY <1>2, <2>1, <2>2, MaxOfTwo
  <2>. QED
    BY <1>1, <1>2, <2>2, <2>3 DEF n
<1>. QED
  BY <1>3 DEF CreditsTypeOK, AskForCredit

LEMMA CreditStepType ==
    ASSUME CreditsTypeOK,
           \/ UNCHANGED creditVars \/ \E us : StopAsking(us) \/ Midnight
           \/ \E u \in Grantors : AskForCredit(u) \/ ReadCap(u) \/ InsertGrant(u)
    PROVE  CreditsTypeOK'
<1>1. CASE UNCHANGED creditVars
  BY <1>1 DEF CreditsTypeOK, creditVars
<1>2. CASE \E us : StopAsking(us)
  BY <1>2 DEF CreditsTypeOK, StopAsking
<1>3. CASE Midnight
  BY <1>3, CapsAssumption DEF CreditsTypeOK, Midnight, Days
<1>4. ASSUME NEW u \in Grantors, ReadCap(u) PROVE CreditsTypeOK'
  BY <1>4 DEF CreditsTypeOK, ReadCap, After
<1>5. ASSUME NEW u \in Grantors, InsertGrant(u) PROVE CreditsTypeOK'
  BY <1>5 DEF CreditsTypeOK, InsertGrant
<1>. QED
  BY <1>1, <1>2, <1>3, <1>4, <1>5, CrowdType

(***************************************************************************)
(* Each cap, with the calls that have read it and may still insert.        *)
(***************************************************************************)
LessOne(n) == IF n = 0 THEN 0 ELSE n - 1
Beyond == LessOne(crowd)

Asking(stages) == {u \in Grantors : asking[u] \in stages}

PastDaily == Asking({"weekly", "project", "insert"})
PastWeekly == Asking({"project", "insert"})
PastProject == Asking({"insert"})

CapsInv ==
    /\ IsFiniteSet(GrantedRows(Days))
    /\ Cardinality(UnderWay(asking)) <= crowd
    /\ \A d \in Days : d < today => grantedOn[d] <= DailyCap + Beyond
    /\ \A d \in Days : d > today => grantedOn[d] = 0
    /\ GetToday + Cardinality(PastDaily) <= DailyCap + Beyond
    /\ GetThisWeek + Cardinality(PastWeekly) <= WeeklyCap + Beyond
    /\ GetForProject + Cardinality(PastProject) <= ProjectCap + Beyond

LEMMA LessOneGrows ==
    ASSUME NEW m \in Nat, NEW n \in Nat, m <= n
    PROVE  LessOne(m) \in Nat /\ LessOne(n) \in Nat /\ LessOne(m) <= LessOne(n) /\ n <= 1 + LessOne(n)
BY DEF LessOne

\* The calls past a stage are among those under way, and can be counted.
LEMMA AskingIsFinite ==
    ASSUME NEW S
    PROVE  /\ IsFiniteSet(Asking(S)) /\ Cardinality(Asking(S)) \in Nat
           /\ IsFiniteSet(UnderWay(asking)) /\ Cardinality(UnderWay(asking)) \in Nat
<1>1. Asking(S) \in SUBSET Grantors /\ UnderWay(asking) \in SUBSET Grantors
  BY DEF Asking, UnderWay
<1>. QED
  BY <1>1, CapsAssumption, FS_Subset, FS_CardinalityType

LEMMA AskingBelowCrowd ==
    ASSUME NEW S, "no" \notin S
    PROVE  Cardinality(Asking(S)) <= Cardinality(UnderWay(asking))
<1>1. Asking(S) \in SUBSET UnderWay(asking)
  BY DEF Asking, UnderWay
<1>. QED
  BY <1>1, AskingIsFinite, FS_Subset

LEMMA AskingShrinks ==
    ASSUME NEW S, Asking(S)' \subseteq Asking(S)
    PROVE  Cardinality(Asking(S)') <= Cardinality(Asking(S)) /\ Cardinality(Asking(S)') \in Nat
<1>1. Asking(S)' \in SUBSET Asking(S)
  OBVIOUS
<1>. QED
  BY <1>1, AskingIsFinite, FS_Subset, FS_CardinalityType

\* Some of the rows are finitely many, like all of them.
LEMMA RowsAreCounted ==
    ASSUME IsFiniteSet(GrantedRows(Days)), NEW S \in SUBSET Days
    PROVE  IsFiniteSet(GrantedRows(S)) /\ GrantedIn(S) \in Nat
<1>1. GrantedRows(S) \in SUBSET GrantedRows(Days)
  BY DEF GrantedRows
<1>. QED
  BY <1>1, FS_Subset, FS_CardinalityType DEF GrantedIn

\* An insert adds one row, to the sets of days that hold today.
LEMMA InsertAddsOne ==
    ASSUME CreditsTypeOK, IsFiniteSet(GrantedRows(Days)), NEW u \in Grantors, InsertGrant(u),
           NEW S \in SUBSET Days, today \in S
    PROVE  IsFiniteSet(GrantedRows(S)') /\ GrantedIn(S)' = GrantedIn(S) + 1
<1>. DEFINE row == <<today, grantedOn[today] + 1>>
<1>1. /\ grantedOn \in [Days -> Nat] /\ today \in Days
      /\ grantedOn' = [grantedOn EXCEPT ![today] = @ + 1]
  BY DEF CreditsTypeOK, InsertGrant
<1>2. GrantedRows(S)' = GrantedRows(S) \cup {row}
  <2>1. \A d \in S : {d} \X (1..grantedOn'[d]) =
            IF d = today THEN ({d} \X (1..grantedOn[d])) \cup {row} ELSE {d} \X (1..grantedOn[d])
    <3>1. 1..(grantedOn[today] + 1) = (1..grantedOn[today]) \cup {grantedOn[today] + 1}
      BY <1>1
    <3>2. {today} \X ((1..grantedOn[today]) \cup {grantedOn[today] + 1}) =
            ({today} \X (1..grantedOn[today])) \cup {row}
      OBVIOUS
    <3>. QED
      BY <1>1, <3>1, <3>2
  <2>. QED
    BY <2>1 DEF GrantedRows
<1>3. row \notin GrantedRows(S)
  BY <1>1 DEF GrantedRows
<1>. HIDE DEF row
<1>. QED
  BY <1>2, <1>3, RowsAreCounted, FS_AddElement DEF GrantedIn

LEMMA CapsAfterInsert ==
    ASSUME CreditsTypeOK, CapsInv, NEW u \in Grantors, InsertGrant(u)
    PROVE  CapsInv'
<1>. USE CapsAssumption DEF CreditsTypeOK, Days
<1>1. /\ grantedOn' = [grantedOn EXCEPT ![today] = @ + 1]
      /\ asking[u] = "insert" /\ asking' = [asking EXCEPT ![u] = "no"]
      /\ UNCHANGED <<today, monday, earlier, crowd>> /\ Beyond' = Beyond
  BY DEF InsertGrant, Beyond
<1>2. ASSUME NEW S, "insert" \in S, "no" \notin S
      PROVE  Cardinality(Asking(S)') = Cardinality(Asking(S)) - 1
  <2>1. Asking(S)' = Asking(S) \ {u} /\ u \in Asking(S)
    BY <1>1, <1>2 DEF Asking
  <2>2. IsFiniteSet(Asking(S))
    BY AskingIsFinite
  <2>3. Cardinality(Asking(S) \ {u}) = Cardinality(Asking(S)) - 1
    BY <2>1, <2>2, FS_RemoveElement
  <2>. QED
    BY <2>1, <2>3
<1>3. /\ Cardinality(PastDaily)' = Cardinality(PastDaily) - 1
      /\ Cardinality(PastWeekly)' = Cardinality(PastWeekly) - 1
      /\ Cardinality(PastProject)' = Cardinality(PastProject) - 1
  BY <1>2 DEF PastDaily, PastWeekly, PastProject
<1>4. /\ Cardinality(PastDaily) \in Nat /\ Cardinality(PastWeekly) \in Nat
      /\ Cardinality(PastProject) \in Nat
  BY AskingIsFinite DEF PastDaily, PastWeekly, PastProject
<1>5. Cardinality(UnderWay(asking))' <= crowd'
  <2>1. UnderWay(asking') \in SUBSET UnderWay(asking)
    BY <1>1 DEF UnderWay
  <2>2. /\ IsFiniteSet(UnderWay(asking)) /\ Cardinality(UnderWay(asking)) \in Nat
        /\ Cardinality(UnderWay(asking)) <= crowd
    BY AskingIsFinite DEF CapsInv
  <2>3. Cardinality(UnderWay(asking')) <= Cardinality(UnderWay(asking)) /\ Cardinality(UnderWay(asking')) \in Nat
    BY <2>1, <2>2, FS_Subset, FS_CardinalityType
  <2>4. crowd' = crowd /\ crowd \in Nat
    BY <1>1, FS_CardinalityType
  <2>. QED
    BY <2>2, <2>3, <2>4
<1>6. IsFiniteSet(GrantedRows(Days)') /\ GetForProject' = GetForProject + 1
  BY InsertAddsOne DEF CapsInv, GetForProject
<1>7. GetThisWeek' = GetThisWeek + 1
  <2>1. PICK days \in SUBSET Days : days = monday..today /\ today \in days
    OBVIOUS
  <2>2. GrantedIn(days)' = GrantedIn(days) + 1 /\ GrantedIn(days) \in Nat
    BY <2>1, InsertAddsOne, RowsAreCounted DEF CapsInv
  <2>3. GetThisWeek' = GrantedIn(days)' + (IF monday = 0 THEN earlier ELSE 0)
    BY <1>1, <2>1 DEF GetThisWeek, GrantedIn, GrantedRows
  <2>4. GetThisWeek = GrantedIn(days) + (IF monday = 0 THEN earlier ELSE 0)
    BY ONLY <2>1 DEF GetThisWeek
  <2>5. (IF monday = 0 THEN earlier ELSE 0) \in Nat
    OBVIOUS
  <2>. QED
    BY ONLY <2>2, <2>3, <2>4, <2>5
<1>8. GetToday' = GetToday + 1 /\ GetToday \in Nat
  BY <1>1 DEF GetToday
<1>9. GetThisWeek \in Nat /\ GetForProject \in Nat
  <2>1. PICK days \in SUBSET Days : days = monday..today
    OBVIOUS
  <2>2. GrantedIn(days) \in Nat /\ GrantedIn(Days) \in Nat
    BY RowsAreCounted DEF CapsInv
  <2>. QED
    BY <2>1, <2>2 DEF GetThisWeek, GetForProject
<1>10. \A d \in Days : d # today => grantedOn'[d] = grantedOn[d]
  BY <1>1
<1>11. crowd \in Nat /\ Beyond \in Nat
  BY FS_CardinalityType DEF Beyond, LessOne
<1>12. /\ GetToday' + Cardinality(PastDaily)' <= DailyCap + Beyond'
       /\ GetThisWeek' + Cardinality(PastWeekly)' <= WeeklyCap + Beyond'
       /\ GetForProject' + Cardinality(PastProject)' <= ProjectCap + Beyond'
  <2>1. /\ GetToday + Cardinality(PastDaily) <= DailyCap + Beyond
        /\ GetThisWeek + Cardinality(PastWeekly) <= WeeklyCap + Beyond
        /\ GetForProject + Cardinality(PastProject) <= ProjectCap + Beyond
    BY DEF CapsInv
  <2>2. Beyond' = Beyond
    BY <1>1
  <2>3. GetToday' + Cardinality(PastDaily)' = GetToday + Cardinality(PastDaily)
    BY <1>3, <1>4, <1>8
  <2>4. GetThisWeek' + Cardinality(PastWeekly)' = GetThisWeek + Cardinality(PastWeekly)
    BY <1>3, <1>4, <1>7, <1>9
  <2>5. GetForProject' + Cardinality(PastProject)' = GetForProject + Cardinality(PastProject)
    BY <1>3, <1>4, <1>6, <1>9
  <2>. QED
    BY <2>1, <2>2, <2>3, <2>4, <2>5
<1>13. /\ \A d \in Days : d < today' => grantedOn'[d] <= DailyCap + Beyond'
       /\ \A d \in Days : d > today' => grantedOn'[d] = 0
  BY <1>1, <1>10 DEF CapsInv
<1>. QED
  BY <1>5, <1>6, <1>12, <1>13 DEF CapsInv

\* What the counts of CapsInv are.
LEMMA CountsAreNumbers ==
    ASSUME CreditsTypeOK, CapsInv
    PROVE  /\ crowd \in Nat /\ Beyond \in Nat
           /\ GetToday \in Nat /\ GetThisWeek \in Nat /\ GetForProject \in Nat
           /\ \A S : Cardinality(Asking(S)) \in Nat
<1>. USE CapsAssumption DEF CreditsTypeOK, Days
<1>1. crowd \in Nat /\ Beyond \in Nat
  BY FS_CardinalityType DEF Beyond, LessOne
<1>2. PICK days \in SUBSET Days : days = monday..today
  OBVIOUS
<1>3. GrantedIn(days) \in Nat /\ GrantedIn(Days) \in Nat
  BY RowsAreCounted DEF CapsInv
<1>. QED
  BY <1>1, <1>2, <1>3, AskingIsFinite DEF GetToday, GetThisWeek, GetForProject

\* While no row is inserted and no day passes, no call gets past a cap it has
\* not read, and the crowd is counted.
LEMMA CapsWhileReading ==
    ASSUME CreditsTypeOK, CapsInv, CreditsTypeOK',
           UNCHANGED <<today, monday, earlier, grantedOn>>,
           Cardinality(UnderWay(asking)') <= crowd', crowd' >= crowd,
           \/ PastDaily' \subseteq PastDaily
           \/ GetToday < DailyCap,
           \/ PastWeekly' \subseteq PastWeekly
           \/ GetThisWeek < WeeklyCap,
           \/ PastProject' \subseteq PastProject
           \/ GetForProject < ProjectCap
    PROVE  CapsInv'
<1>. USE CapsAssumption
<1>1. /\ GetToday' = GetToday /\ GetThisWeek' = GetThisWeek /\ GetForProject' = GetForProject
      /\ GrantedRows(Days)' = GrantedRows(Days)
  BY DEF GetToday, GetThisWeek, GetForProject, GrantedIn, GrantedRows
<1>2. /\ crowd' \in Nat /\ crowd' <= 1 + Beyond'
      /\ Beyond' \in Nat /\ Beyond' >= Beyond
  <2>1. crowd \in Nat
    BY CountsAreNumbers
  <2>2. Cardinality(Grantors) \in Nat
    BY FS_CardinalityType
  <2>3. crowd' \in Nat
    BY <2>2 DEF CreditsTypeOK
  <2>4. crowd <= crowd'
    BY <2>1, <2>3
  <2>. QED
    BY <2>1, <2>3, <2>4, LessOneGrows DEF Beyond
<1>3. ASSUME NEW S, "no" \notin S
      PROVE  /\ Cardinality(Asking(S)') \in Nat
             /\ Cardinality(Asking(S)') <= 1 + Beyond'
  <2>1. Asking(S)' \in SUBSET UnderWay(asking)' /\ UnderWay(asking)' \in SUBSET Grantors
    BY <1>3 DEF Asking, UnderWay
  <2>2. IsFiniteSet(UnderWay(asking)') /\ Cardinality(UnderWay(asking)') \in Nat
    BY <2>1, FS_Subset, FS_CardinalityType
  <2>3. /\ Cardinality(Asking(S)') <= Cardinality(UnderWay(asking)')
        /\ Cardinality(Asking(S)') \in Nat
    BY <2>1, <2>2, FS_Subset, FS_CardinalityType
  <2>4. Cardinality(UnderWay(asking)') <= crowd'
    OBVIOUS
  <2>5. PICK n \in Nat, m \in Nat, c \in Nat, b \in Nat :
            /\ n = Cardinality(Asking(S)') /\ m = Cardinality(UnderWay(asking)')
            /\ c = crowd' /\ b = Beyond'
    BY <1>2, <2>2, <2>3
  <2>6. n <= m /\ m <= c /\ c <= 1 + b
    BY <1>2, <2>3, <2>4, <2>5
  <2>7. n <= 1 + b
    BY <2>6
  <2>. QED
    BY <2>5, <2>7
<1>4. ASSUME NEW S, NEW n \in Nat, NEW cap \in Nat, "no" \notin S,
             n + Cardinality(Asking(S)) <= cap + Beyond,
             Asking(S)' \subseteq Asking(S) \/ n < cap
      PROVE  n + Cardinality(Asking(S)') <= cap + Beyond'
  <2>1. CASE Asking(S)' \subseteq Asking(S)
    BY <1>2, <1>4, <2>1, AskingShrinks, CountsAreNumbers
  <2>2. CASE n < cap
    BY <1>2, <1>3, <1>4, <2>2
  <2>. QED
    BY <1>4, <2>1, <2>2
<1>5. GetToday + Cardinality(PastDaily)' <= DailyCap + Beyond'
  BY <1>4, CountsAreNumbers DEF CapsInv, PastDaily
<1>6. GetThisWeek + Cardinality(PastWeekly)' <= WeeklyCap + Beyond'
  BY <1>4, CountsAreNumbers DEF CapsInv, PastWeekly
<1>7. GetForProject + Cardinality(PastProject)' <= ProjectCap + Beyond'
  BY <1>4, CountsAreNumbers DEF CapsInv, PastProject
<1>8. \A d \in Days : d < today' => grantedOn'[d] <= DailyCap + Beyond'
  BY <1>2, CountsAreNumbers DEF CapsInv, CreditsTypeOK
<1>. QED
  BY <1>1, <1>5, <1>6, <1>7, <1>8 DEF CapsInv

LEMMA CapsAfterRead ==
    ASSUME CreditsTypeOK, CapsInv, NEW u \in Grantors, ReadCap(u)
    PROVE  CapsInv'
<1>1. CreditsTypeOK'
  BY CreditStepType
<1>2. /\ asking \in [Grantors -> {"no", "daily", "weekly", "project", "insert"}]
      /\ asking' = [asking EXCEPT ![u] = IF Below(asking[u]) THEN After(asking[u]) ELSE "no"]
      /\ asking[u] \in {"daily", "weekly", "project"}
      /\ UNCHANGED <<today, monday, earlier, grantedOn, crowd>>
  BY DEF ReadCap, CreditsTypeOK
<1>3. Cardinality(UnderWay(asking)') <= crowd' /\ crowd' >= crowd
  <2>1. UnderWay(asking)' \in SUBSET UnderWay(asking)
    BY <1>2 DEF UnderWay
  <2>2. PICK n \in Nat, m \in Nat : n = Cardinality(UnderWay(asking)') /\ m = Cardinality(UnderWay(asking)) /\ n <= m
    BY <2>1, AskingIsFinite, FS_Subset, FS_CardinalityType
  <2>3. m <= crowd /\ crowd' = crowd /\ crowd \in Nat
    BY <1>2, <2>2, CountsAreNumbers DEF CapsInv
  <2>. QED
    BY <2>2, <2>3
<1>4. PastDaily' \subseteq PastDaily \/ GetToday < DailyCap
  BY <1>2 DEF PastDaily, Asking, Below, After
<1>5. PastWeekly' \subseteq PastWeekly \/ GetThisWeek < WeeklyCap
  BY <1>2 DEF PastWeekly, Asking, Below, After
<1>6. PastProject' \subseteq PastProject \/ GetForProject < ProjectCap
  BY <1>2 DEF PastProject, Asking, Below, After
<1>. QED
  BY <1>1, <1>2, <1>3, <1>4, <1>5, <1>6, CapsWhileReading

LEMMA CapsAfterAskOrStop ==
    ASSUME CreditsTypeOK, CapsInv,
           \/ \E u \in Grantors : AskForCredit(u)
           \/ \E us : StopAsking(us)
    PROVE  CapsInv'
<1>1. CreditsTypeOK'
  BY CreditStepType
<1>2. UNCHANGED <<today, monday, earlier, grantedOn>>
  BY DEF AskForCredit, StopAsking
<1>3. \A u \in Grantors : asking'[u] \in {asking[u], "daily", "no"}
  BY DEF AskForCredit, StopAsking, CreditsTypeOK
<1>4. /\ PastDaily' \subseteq PastDaily /\ PastWeekly' \subseteq PastWeekly
      /\ PastProject' \subseteq PastProject
  BY <1>3 DEF PastDaily, PastWeekly, PastProject, Asking
<1>5. UnderWay(asking)' \in SUBSET Grantors
  BY DEF UnderWay
<1>6. Cardinality(UnderWay(asking)') \in Nat /\ IsFiniteSet(UnderWay(asking)')
  BY <1>5, CapsAssumption, FS_Subset, FS_CardinalityType
<1>7. crowd \in Nat
  BY CountsAreNumbers
<1>8. Cardinality(UnderWay(asking)') <= crowd' /\ crowd' >= crowd
  <2>1. CASE \E u \in Grantors : AskForCredit(u)
    <3>. DEFINE n == Cardinality(UnderWay(asking)')
    <3>1. crowd' = Max({crowd, n})
      BY <2>1 DEF AskForCredit
    <3>2. n \in Nat
      BY <1>6
    <3>. HIDE DEF n
    <3>3. Max({crowd, n}) >= n /\ Max({crowd, n}) >= crowd /\ Max({crowd, n}) \in {crowd, n}
      BY <1>7, <3>2, MaxOfTwo
    <3>4. n <= crowd' /\ crowd' >= crowd
      BY <1>7, <3>1, <3>2, <3>3
    <3>. QED
      BY <3>4 DEF n
  <2>2. CASE \E us : StopAsking(us)
    <3>1. UnderWay(asking)' \in SUBSET UnderWay(asking) /\ crowd' = crowd
      BY <2>2 DEF StopAsking, UnderWay
    <3>2. PICK n \in Nat, m \in Nat : n = Cardinality(UnderWay(asking)') /\ m = Cardinality(UnderWay(asking)) /\ n <= m
      BY <1>6, <3>1, AskingIsFinite, FS_Subset
    <3>3. m <= crowd
      BY <3>2 DEF CapsInv
    <3>. QED
      BY <1>7, <3>1, <3>2, <3>3
  <2>. QED
    BY <2>1, <2>2
<1>. QED
  BY <1>1, <1>2, <1>4, <1>8, CapsWhileReading

\* A new day has no rows, and whoever is past a cap yesterday is in the crowd.
LEMMA CapsAfterMidnight ==
    ASSUME CreditsTypeOK, CapsInv, Midnight
    PROVE  CapsInv'
<1>. USE CapsAssumption DEF CreditsTypeOK, Days
<1>1. /\ today' = today + 1 /\ today' \in Days /\ monday' \in {monday, today'} /\ today' > today
      /\ UNCHANGED <<earlier, grantedOn, asking, crowd>>
  BY DEF Midnight
<1>2. /\ PastDaily' = PastDaily /\ PastWeekly' = PastWeekly /\ PastProject' = PastProject
      /\ Beyond' = Beyond /\ GetForProject' = GetForProject
      /\ GrantedRows(Days)' = GrantedRows(Days) /\ UnderWay(asking)' = UnderWay(asking)
  BY <1>1 DEF PastDaily, PastWeekly, PastProject, Asking, Beyond, GetForProject, GrantedIn, GrantedRows, UnderWay
<1>3. grantedOn[today'] = 0 /\ GetToday' = 0
  BY <1>1 DEF CapsInv, GetToday
<1>4. ASSUME NEW S, "no" \notin S
      PROVE  Cardinality(Asking(S)) \in Nat /\ Cardinality(Asking(S)) <= 1 + Beyond
  <2>1. PICK n \in Nat, m \in Nat : n = Cardinality(Asking(S)) /\ m = Cardinality(UnderWay(asking)) /\ n <= m
    BY <1>4, AskingIsFinite, AskingBelowCrowd
  <2>2. m <= crowd /\ crowd \in Nat
    BY <2>1, CountsAreNumbers DEF CapsInv
  <2>3. crowd <= 1 + Beyond /\ Beyond \in Nat
    BY <2>2, LessOneGrows DEF Beyond
  <2>. QED
    BY <2>1, <2>2, <2>3
<1>5. 0 + Cardinality(PastDaily) <= DailyCap + Beyond
  <2>1. Cardinality(PastDaily) \in Nat /\ Cardinality(PastDaily) <= 1 + Beyond
    BY ONLY <1>4 DEF PastDaily
  <2>2. Beyond \in Nat /\ DailyCap \in Nat \ {0}
    BY CountsAreNumbers
  <2>. QED
    BY ONLY <2>1, <2>2
<1>6. GetThisWeek' \in {GetThisWeek, 0}
  <2>1. CASE monday' = monday
    <3>1. GrantedRows(monday..today)' = GrantedRows(monday..today)
      <4>1. \A d \in monday'..today' : d \in monday..today \/ 1..grantedOn'[d] = {}
        <5>1. \A d \in monday'..today' : d \in monday..today \/ d = today'
          BY ONLY <1>1, <2>1, today \in Nat, monday \in Nat
        <5>2. 1..grantedOn'[today'] = {}
          BY ONLY <1>1, <1>3
        <5>. QED
          BY ONLY <5>1, <5>2
      <4>2. \A d \in monday..today : d \in monday'..today'
        BY <1>1, <2>1
      <4>3. grantedOn' = grantedOn
        BY <1>1
      <4>. QED
        BY ONLY <4>1, <4>2, <4>3 DEF GrantedRows
    <3>. QED
      BY <1>1, <2>1, <3>1 DEF GetThisWeek, GrantedIn
  <2>2. CASE monday' = today'
    <3>1. monday'..today' = {today'} /\ monday' # 0
      BY <1>1, <2>2
    <3>2. GrantedRows(monday..today)' = {}
      <4>1. 1..grantedOn'[today'] = {}
        BY <1>1, <1>3
      <4>. QED
        BY ONLY <3>1, <4>1 DEF GrantedRows
    <3>. QED
      <4>1. GrantedIn(monday..today)' = 0
        BY <3>2, FS_EmptySet DEF GrantedIn
      <4>2. GetThisWeek' = GrantedIn(monday..today)' + (IF monday' = 0 THEN earlier' ELSE 0)
        BY DEF GetThisWeek
      <4>. QED
        BY <3>1, <4>1, <4>2
  <2>. QED
    BY <1>1, <2>1, <2>2
<1>7. GetThisWeek' + Cardinality(PastWeekly) <= WeeklyCap + Beyond
  <2>1. 0 + Cardinality(PastWeekly) <= WeeklyCap + Beyond
    <3>1. Cardinality(PastWeekly) \in Nat /\ Cardinality(PastWeekly) <= 1 + Beyond
      BY ONLY <1>4 DEF PastWeekly
    <3>2. Beyond \in Nat /\ WeeklyCap \in Nat \ {0}
      BY CountsAreNumbers
    <3>. QED
      BY ONLY <3>1, <3>2
  <2>. QED
    BY <1>6, <2>1 DEF CapsInv
<1>8. \A d \in Days : d < today' => grantedOn[d] <= DailyCap + Beyond
  <2>1. PICK n \in Nat : n = Cardinality(PastDaily) /\ GetToday + n <= DailyCap + Beyond
    BY CountsAreNumbers DEF CapsInv, PastDaily
  <2>2. grantedOn[today] <= DailyCap + Beyond
    BY <2>1, CountsAreNumbers DEF GetToday
  <2>3. \A d \in Days : d < today' => d < today \/ d = today
    BY <1>1
  <2>. QED
    BY <2>2, <2>3 DEF CapsInv
<1>9. \A d \in Days : d > today' => grantedOn[d] = 0
  BY <1>1 DEF CapsInv
<1>. QED
  BY <1>1, <1>2, <1>3, <1>5, <1>7, <1>8, <1>9 DEF CapsInv

LEMMA CapsStep ==
    ASSUME CreditsTypeOK, CapsInv,
           \/ UNCHANGED creditVars \/ \E us : StopAsking(us) \/ Midnight
           \/ \E u \in Grantors : AskForCredit(u) \/ ReadCap(u) \/ InsertGrant(u)
    PROVE  CapsInv'
<1>1. CASE UNCHANGED creditVars
  BY <1>1 DEF creditVars, CapsInv, Beyond, GrantedRows, GrantedIn, UnderWay, GetToday, GetThisWeek,
              GetForProject, PastDaily, PastWeekly, PastProject, Asking
<1>. QED
  BY <1>1, CapsAfterInsert, CapsAfterRead, CapsAfterAskOrStop, CapsAfterMidnight

LEMMA CapsAtFirst ==
    ASSUME CreditsInit
    PROVE  CapsInv
<1>0. /\ MaxDay \in Nat /\ today = 0 /\ monday = 0 /\ earlier \in 0..WeeklyCap /\ crowd = 0
      /\ WeeklyCap \in Nat /\ DailyCap \in Nat /\ ProjectCap \in Nat
      /\ grantedOn = [d \in Days |-> 0] /\ asking = [u \in Grantors |-> "no"]
  BY CapsAssumption DEF CreditsInit
<1>1. \A S \in SUBSET Days : GrantedRows(S) = {}
  BY <1>0 DEF GrantedRows
<1>2. IsFiniteSet({}) /\ Cardinality({}) = 0
  BY FS_EmptySet
<1>3. /\ UnderWay(asking) = {} /\ PastDaily = {} /\ PastWeekly = {} /\ PastProject = {}
      /\ Beyond = 0 /\ GetToday = 0
  BY <1>0 DEF UnderWay, PastDaily, PastWeekly, PastProject, Asking, Beyond, LessOne, GetToday, Days
<1>4. GetForProject = 0 /\ GetThisWeek = earlier
  <2>1. monday..today \in SUBSET Days /\ Days \in SUBSET Days
    BY <1>0 DEF Days
  <2>2. GrantedIn(monday..today) = 0 /\ GrantedIn(Days) = 0
    BY <1>1, <1>2, <2>1 DEF GrantedIn
  <2>. QED
    BY <1>0, <2>2 DEF GetForProject, GetThisWeek
<1>5. /\ \A d \in Days : d < today => grantedOn[d] <= DailyCap + Beyond
      /\ \A d \in Days : d > today => grantedOn[d] = 0
  BY <1>0 DEF Days
<1>6. /\ GetToday + 0 <= DailyCap + Beyond /\ GetThisWeek + 0 <= WeeklyCap + Beyond
      /\ GetForProject + 0 <= ProjectCap + Beyond
  BY <1>0, <1>3, <1>4
<1>. QED
  BY <1>0, <1>1, <1>2, <1>3, <1>5, <1>6 DEF CapsInv

LEMMA CapsFollow ==
    ASSUME CreditsTypeOK, CapsInv
    PROVE  /\ \A d \in Days : grantedOn[d] <= DailyCap + Beyond
           /\ GetThisWeek <= WeeklyCap + Beyond
           /\ GetForProject <= ProjectCap + Beyond
<1>1. PICK daily \in Nat, weekly \in Nat, project \in Nat :
        /\ GetToday + daily <= DailyCap + Beyond
        /\ GetThisWeek + weekly <= WeeklyCap + Beyond
        /\ GetForProject + project <= ProjectCap + Beyond
  BY CountsAreNumbers DEF CapsInv, PastDaily, PastWeekly, PastProject
<1>2. /\ GetToday <= DailyCap + Beyond
      /\ GetThisWeek <= WeeklyCap + Beyond
      /\ GetForProject <= ProjectCap + Beyond
  BY <1>1, CountsAreNumbers, CapsAssumption
<1>3. ASSUME NEW d \in Days PROVE grantedOn[d] <= DailyCap + Beyond
  <2>1. today \in Int /\ d \in Int
    BY CapsAssumption DEF CreditsTypeOK, Days
  <2>2. d < today \/ d > today \/ d = today
    BY <2>1
  <2>. QED
    BY <1>2, <2>2, CountsAreNumbers, CapsAssumption DEF CapsInv, GetToday
<1>. QED
  BY <1>2, <1>3

(***************************************************************************)
(* The inductive invariant of the editing sessions.                        *)
(***************************************************************************)
Working == {"load", "brain", "fix", "persist", "park", "reject"}

\* Under the lock is who holds it; and only a holder that loaded the session
\* keeps a copy.
LockInv ==
    \A h \in Handlers :
        /\ hpc[h] \in Working <=> lock = h
        /\ lock # h \/ hpc[h] = "load" => copy[h] = NoSession
        /\ hpc[h] \in {"brain", "park"} => h \in Texts
        /\ hpc[h] = "reject" => h \in Rejections

\* The history of a row ends in an unanswered call only behind the buttons.
Answered(row) == row.open # NoChange => row.pending = row.open

HistoryInv ==
    /\ Answered(session)
    /\ \A h \in Handlers :
        /\ hpc[h] # "fix" => Answered(copy[h])
        /\ hpc[h] \in {"brain", "persist"} =>
               copy[h].open = NoChange /\ copy[h].pending = NoChange

\* The edits are counted in the row, but for the one a holder is about to write.
Persisting == \E h \in Handlers : hpc[h] = "persist"

CountInv ==
    /\ session.used <= FixLimit
    /\ delivered <= session.used + faults + (IF Persisting THEN 1 ELSE 0)
    /\ \A h \in Handlers : hpc[h] \in Working \ {"load"} =>
        /\ copy[h].used <= FixLimit
        /\ delivered <= copy[h].used + faults

\* Only a change of the brain's own, and after it was parked, is pending anywhere.
Parked(t) == t \in OwnInitiative /\ hpc[t] \in {"prompt", "over"} /\ t \notin discarded

ParkedInv ==
    /\ session.pending # NoChange => Parked(session.pending)
    /\ \A h \in Handlers :
        /\ h \in Presses /\ copy[h].pending # NoChange => Parked(copy[h].pending)
        /\ h \in Presses /\ hpc[h] = "fix" => copy[h].pending \in approved
        /\ h \in Texts /\ hpc[h] \in {"brain", "fix", "persist"} => copy[h].pending = NoChange
        /\ h \in Texts /\ hpc[h] = "fix" => h \notin OwnInitiative
        /\ h \in Texts /\ hpc[h] = "park" => h \in OwnInitiative /\ copy[h].pending = h
    /\ \A t \in discarded : hpc[t] \in {"prompt", "over"}

\* How often a change was delivered, where it might be once more.
AppliedInv ==
    \A t \in Texts :
        /\ applied[t] <= 1 + faults
        /\ hpc[t] \in {"idle", "waiting", "brain", "load", "fix", "park"} => applied[t] = 0
        /\ session.pending = t /\ ~Persisting => applied[t] <= faults
        /\ \A h \in Presses : copy[h].pending = t => applied[t] <= faults
        /\ t \in OwnInitiative /\ applied[t] > 0 => t \in approved

EditInv == LockInv /\ HistoryInv /\ CountInv /\ ParkedInv /\ AppliedInv

EditTypes == SessionsTypeOK /\ EditTypeOK /\ FaultsTypeOK

(***************************************************************************)
(* Each kind of step keeps it.                                             *)
(***************************************************************************)
USE DEF Working

Numbers ==
    /\ session.used \in Nat /\ delivered \in Nat /\ faults \in Nat /\ FixLimit \in Nat
    /\ \A h \in Handlers : copy[h].used \in Nat
    /\ \A t \in Texts : applied[t] \in Nat

LEMMA NumbersType ==
    /\ EditTypes => Numbers
    /\ EditTypes' => Numbers'
BY SessionsAssumption, MaxFaultsAssumption
DEF Numbers, EditTypes, SessionsTypeOK, EditTypeOK, FaultsTypeOK, SessionRow

\* Outside the lock: arriving, queueing, answering, or nothing of the editor's.
LEMMA AsideKeeps ==
    ASSUME EditTypes, EditTypes', EditInv, faults' >= faults,
           UNCHANGED <<session, delivered, lock, copy, historyVars>>,
           \A g \in Handlers :
                \/ hpc'[g] = hpc[g]
                \/ hpc[g] = "idle" /\ hpc'[g] \in {"waiting", "resume", "over"}
                \/ hpc[g] \in {"prompt", "resume"} /\ hpc'[g] = "over"
    PROVE  EditInv'
<1>. USE DEF Handlers, historyVars
<1>1. LockInv'
  BY DEF EditInv, LockInv
<1>2. HistoryInv'
  BY DEF EditInv, HistoryInv, Answered
<1>3. Persisting' <=> Persisting
  BY DEF Persisting
<1>4. CountInv'
  BY <1>3, NumbersType DEF Numbers, EditInv, CountInv
<1>5. ParkedInv'
  <2>1. \A t \in Texts : Parked(t) => Parked(t)'
    BY DEF Parked
  <2>2. OwnInitiative \subseteq Texts
    BY EditAssumption
  <2>3. \A t \in discarded : t \in Texts
    BY DEF EditTypes, EditTypeOK
  <2>. QED
    BY <2>1, <2>2, <2>3 DEF EditInv, ParkedInv, Parked
<1>6. AppliedInv'
  BY <1>3, NumbersType DEF Numbers, EditInv, AppliedInv
<1>. QED
  BY <1>1, <1>2, <1>4, <1>5, <1>6 DEF EditInv

LEMMA TakesLockKeeps ==
    ASSUME EditTypes, EditInv, NEW h \in Handlers,
           lock = Free, lock' = h, hpc[h] \in {"idle", "waiting"}, hpc' = [hpc EXCEPT ![h] = "load"],
           UNCHANGED <<session, delivered, copy, historyVars, faults>>
    PROVE  EditInv'
<1>. USE DEF EditTypes, EditTypeOK, historyVars, Handlers, Presses
<1>1. LockInv'
  BY EditAssumption DEF EditInv, LockInv
<1>2. HistoryInv'
  BY DEF EditInv, HistoryInv, Answered
<1>3. CountInv'
  BY DEF EditInv, CountInv, LockInv, Persisting
<1>4. ParkedInv'
  BY DEF EditInv, ParkedInv, Parked, LockInv
<1>5. AppliedInv'
  BY DEF EditInv, AppliedInv, Persisting
<1>. QED
  BY <1>1, <1>2, <1>3, <1>4, <1>5 DEF EditInv

\* The holder lets go without a write; a count that is lost took a failure.
LEMMA LeavesKeeps ==
    ASSUME EditTypes, EditTypes', EditInv, NEW h \in Handlers,
           hpc[h] \in {"load", "persist", "park", "reject"},
           NEW to \in {"prompt", "resume", "over"}, Leaves(h, hpc[h], to),
           faults' >= faults, hpc[h] = "persist" => faults' = faults + 1,
           UNCHANGED <<session, delivered, historyVars>>
    PROVE  EditInv'
<1>. USE DEF historyVars
<1>1. /\ lock = h /\ lock' = Free
      /\ hpc' = [hpc EXCEPT ![h] = to]
      /\ copy' = [copy EXCEPT ![h] = NoSession]
  BY DEF Leaves, Goto, EditInv, LockInv
<1>2. /\ \A g \in Handlers : hpc'[g] = IF g = h THEN to ELSE hpc[g]
      /\ \A g \in Handlers : copy'[g] = NoSession
      /\ \A g \in Handlers : hpc'[g] \notin Working
  BY <1>1 DEF EditTypes, EditTypeOK, EditInv, LockInv
<1>3. LockInv'
  BY <1>1, <1>2, EditAssumption DEF LockInv
<1>4. HistoryInv'
  BY <1>2 DEF EditInv, HistoryInv, Answered, NoSession
<1>5. CountInv'
  BY <1>2, NumbersType DEF Numbers, EditInv, CountInv, Persisting
<1>6. ParkedInv'
  <2>1. \A t \in Texts : Parked(t) => Parked(t)'
    BY <1>2 DEF Parked, Handlers
  <2>2. OwnInitiative \subseteq Texts
    BY EditAssumption
  <2>3. \A t \in discarded : t \in Texts /\ t \in Handlers
    BY DEF EditTypes, EditTypeOK, Handlers
  <2>. QED
    BY <1>2, <2>1, <2>2, <2>3 DEF EditInv, ParkedInv, Parked, NoSession
<1>7. AppliedInv'
  <2>1. \A t \in Texts : t # NoChange /\ t \in Handlers
    BY SessionsAssumption DEF Handlers
  <2>2. Persisting <=> hpc[h] = "persist"
    BY <1>1 DEF Persisting, EditInv, LockInv
  <2>3. \A g \in Presses : copy'[g].pending = NoChange
    BY <1>2 DEF NoSession, Handlers
  <2>4. AppliedInv
    BY DEF EditInv
  <2>. QED
    BY <1>2, <2>1, <2>2, <2>3, <2>4, NumbersType DEF Numbers, AppliedInv
<1>. QED
  BY <1>3, <1>4, <1>5, <1>6, <1>7 DEF EditInv

LEMMA FixDeliveredKeeps ==
    ASSUME EditTypes, EditInv, NEW h \in Handlers, FixDelivered(h)
    PROVE  EditInv'
<1>. DEFINE row == Counted(Settled(copy[h]))
<1>. USE DEF EditTypes, EditTypeOK, SessionsTypeOK, FaultsTypeOK, Handlers, Presses, Goto
<1>1. /\ row.used = copy[h].used + 1 /\ row.pending = NoChange /\ row.open = NoChange
      /\ copy[h].used < FixLimit /\ copy[h].used \in Nat /\ copy[h].pending \in ChangeOrNone
  BY DEF FixDelivered, HasFixesRemaining, Counted, Settled, SessionRow
<1>2. /\ hpc[h] = "fix" /\ hpc' = [hpc EXCEPT ![h] = "persist"]
      /\ copy' = [copy EXCEPT ![h] = row] /\ session' = session /\ lock' = lock
      /\ applied' = [applied EXCEPT ![Change(h)] = @ + 1] /\ delivered' = delivered + 1
      /\ faults' = faults /\ approved' = approved /\ discarded' = discarded
  BY DEF FixDelivered
<1>. HIDE DEF row
<1>3. LockInv'
  BY <1>2, EditAssumption DEF EditInv, LockInv
<1>4. HistoryInv'
  BY <1>1, <1>2 DEF EditInv, HistoryInv, Answered
<1>5. CountInv'
  <2>1. ~Persisting /\ Persisting'
    BY <1>2 DEF EditInv, LockInv, Persisting
  <2>2. session.used \in Nat /\ faults \in Nat /\ delivered \in Nat /\ FixLimit \in Nat
    BY SessionsAssumption, MaxFaultsAssumption DEF SessionRow
  <2>3. \A g \in Handlers : g # h => hpc[g] \notin Working
    BY <1>2 DEF EditInv, LockInv
  <2>4. CountInv
    BY DEF EditInv
  <2>5. copy'[h].used = copy[h].used + 1 /\ faults' = faults /\ delivered' = delivered + 1
        /\ session' = session
    BY <1>1, <1>2
  <2>6. delivered <= session.used + faults /\ session.used <= FixLimit
    BY <2>1, <2>2, <2>4 DEF CountInv
  <2>7. delivered' <= session'.used + faults' + (IF Persisting' THEN 1 ELSE 0)
    BY <2>1, <2>2, <2>5, <2>6
  <2>8. copy'[h].used <= FixLimit
    BY <1>1, <2>2, <2>5
  <2>9. delivered' <= copy'[h].used + faults'
    <3>1. hpc[h] \in Working \ {"load"}
      BY <1>2 DEF Working
    <3>2. delivered <= copy[h].used + faults
      BY <2>4, <3>1 DEF CountInv
    <3>. QED
      BY <1>1, <2>2, <2>5, <3>2
  <2>10. \A g \in Handlers : g # h => hpc'[g] \notin Working
    BY <1>2, <2>3
  <2>. QED
    BY <2>5, <2>6, <2>7, <2>8, <2>9, <2>10 DEF CountInv
<1>6. ParkedInv'
  BY <1>1, <1>2, EditAssumption DEF EditInv, ParkedInv, Parked, LockInv
<1>7. AppliedInv'
  <2>1. /\ Change(h) \in Texts /\ applied[Change(h)] \in Nat /\ faults \in Nat
        /\ applied[Change(h)] <= faults
        /\ Change(h) \in OwnInitiative => Change(h) \in approved
        /\ hpc'[Change(h)] \in {"persist", "prompt", "over"}
    <3>1. CASE h \in Texts
      BY <3>1, <1>2, MaxFaultsAssumption DEF EditInv, AppliedInv, ParkedInv, Change
    <3>2. CASE h \in Presses
      BY <3>2, <1>1, <1>2, EditAssumption, SessionsAssumption, MaxFaultsAssumption
      DEF EditInv, AppliedInv, ParkedInv, Parked, Change
    <3>. QED
      BY <3>1, <3>2
  <2>2. Persisting'
    BY <1>2 DEF Persisting
  <2>3. \A g \in Handlers : g # h => copy[g] = NoSession
    BY <1>2 DEF EditInv, LockInv
  <2>4. \A g \in Handlers, t \in Texts : copy'[g].pending # t
    BY <1>1, <1>2, <2>3, SessionsAssumption DEF NoSession
  <2>5. AppliedInv
    BY DEF EditInv
  <2>. QED
    BY <1>2, <2>1, <2>2, <2>4, <2>5 DEF AppliedInv
<1>. QED
  BY <1>3, <1>4, <1>5, <1>6, <1>7 DEF EditInv

\* The session is loaded: by a turn, when nothing is parked, ...
LEMMA TurnLoadKeeps ==
    ASSUME EditTypes, EditInv, NEW t \in Texts, LoadForTurn(t), session.pending = NoChange
    PROVE  EditInv'
<1>. USE DEF EditTypes, EditTypeOK, Handlers, Presses
<1>1. /\ lock = t /\ lock' = t /\ hpc[t] = "load"
      /\ hpc' = [hpc EXCEPT ![t] = "brain"]
      /\ copy' = [copy EXCEPT ![t] = session]
      /\ UNCHANGED <<session, delivered, faults, applied, approved, discarded>>
  BY DEF LoadForTurn, Goto, sessionVars, historyVars, EditInv, LockInv
<1>2. LockInv'
  BY <1>1, EditAssumption DEF EditInv, LockInv
<1>3. HistoryInv'
  BY <1>1, SessionsAssumption DEF EditInv, HistoryInv, Answered
<1>4. ~Persisting /\ ~Persisting'
  BY <1>1 DEF EditInv, LockInv, Persisting
<1>5. CountInv'
  BY <1>1, <1>4, NumbersType DEF Numbers, EditInv, CountInv
<1>6. ParkedInv'
  BY <1>1, EditAssumption DEF EditInv, ParkedInv, Parked, LockInv
<1>7. AppliedInv'
  BY <1>1, <1>4, EditAssumption DEF EditInv, AppliedInv
<1>. QED
  BY <1>2, <1>3, <1>5, <1>6, <1>7 DEF EditInv

\* ... by an approval, when something is, ...
LEMMA ApprovalLoadKeeps ==
    ASSUME EditTypes, EditInv, NEW h \in Approvals, LoadForApproval(h), session.pending # NoChange
    PROVE  EditInv'
<1>. USE DEF EditTypes, EditTypeOK, Handlers, Presses
<1>1. /\ lock = h /\ lock' = h /\ hpc[h] = "load"
      /\ hpc' = [hpc EXCEPT ![h] = "fix"]
      /\ copy' = [copy EXCEPT ![h] = session]
      /\ approved' = approved \cup {session.pending}
      /\ UNCHANGED <<session, delivered, faults, applied, discarded>>
  BY DEF LoadForApproval, Goto, sessionVars, EditInv, LockInv
<1>2. LockInv'
  BY <1>1, EditAssumption DEF EditInv, LockInv
<1>3. HistoryInv'
  BY <1>1 DEF EditInv, HistoryInv, Answered
<1>4. ~Persisting /\ ~Persisting'
  BY <1>1 DEF EditInv, LockInv, Persisting
<1>5. CountInv'
  BY <1>1, <1>4, NumbersType DEF Numbers, EditInv, CountInv
<1>6. ParkedInv'
  BY <1>1, EditAssumption DEF EditInv, ParkedInv, Parked
<1>7. AppliedInv'
  BY <1>1, <1>4, EditAssumption DEF EditInv, AppliedInv
<1>. QED
  BY <1>2, <1>3, <1>5, <1>6, <1>7 DEF EditInv

\* ... by a rejection in any case.
LEMMA RejectionLoadKeeps ==
    ASSUME EditTypes, EditInv, NEW h \in Rejections, LoadForRejection(h)
    PROVE  EditInv'
<1>. USE DEF EditTypes, EditTypeOK, Handlers, Presses
<1>1. /\ lock = h /\ lock' = h /\ hpc[h] = "load"
      /\ hpc' = [hpc EXCEPT ![h] = "reject"]
      /\ copy' = [copy EXCEPT ![h] = session]
      /\ UNCHANGED <<session, delivered, faults, applied, approved, discarded>>
  BY DEF LoadForRejection, Goto, sessionVars, historyVars, EditInv, LockInv
<1>2. LockInv'
  BY <1>1, EditAssumption DEF EditInv, LockInv
<1>3. HistoryInv'
  BY <1>1 DEF EditInv, HistoryInv, Answered
<1>4. ~Persisting /\ ~Persisting'
  BY <1>1 DEF EditInv, LockInv, Persisting
<1>5. CountInv'
  BY <1>1, <1>4, NumbersType DEF Numbers, EditInv, CountInv
<1>6. ParkedInv'
  BY <1>1, EditAssumption DEF EditInv, ParkedInv, Parked
<1>7. AppliedInv'
  BY <1>1, <1>4, EditAssumption DEF EditInv, AppliedInv
<1>. QED
  BY <1>2, <1>3, <1>5, <1>6, <1>7 DEF EditInv

LEMMA BrainRepliesKeeps ==
    ASSUME EditTypes, EditInv, NEW t \in Texts, BrainReplies(t)
    PROVE  EditInv'
<1>. USE DEF EditTypes, EditTypeOK, Handlers, Presses
<1>1. /\ lock = t /\ lock' = t /\ hpc[t] = "brain" /\ copy' = copy
      /\ hpc' = [hpc EXCEPT ![t] = "persist"]
      /\ UNCHANGED <<session, delivered, faults, applied, approved, discarded>>
  BY DEF BrainReplies, Goto, sessionVars, historyVars, EditInv, LockInv
<1>2. LockInv'
  BY <1>1, EditAssumption DEF EditInv, LockInv
<1>3. HistoryInv'
  BY <1>1 DEF EditInv, HistoryInv, Answered
<1>4. ~Persisting /\ Persisting'
  BY <1>1 DEF EditInv, LockInv, Persisting
<1>5. CountInv'
  BY <1>1, <1>4, NumbersType DEF Numbers, EditInv, CountInv
<1>6. ParkedInv'
  BY <1>1, EditAssumption DEF EditInv, ParkedInv, Parked
<1>7. AppliedInv'
  BY <1>1, <1>4, EditAssumption DEF EditInv, AppliedInv
<1>. QED
  BY <1>2, <1>3, <1>5, <1>6, <1>7 DEF EditInv

LEMMA BrainProposesKeeps ==
    ASSUME EditTypes, EditInv, NEW t \in Texts, BrainProposes(t)
    PROVE  EditInv'
<1>. USE DEF EditTypes, EditTypeOK, Handlers, Presses
<1>. DEFINE to == IF t \in OwnInitiative THEN "park" ELSE "fix"
            row == IF t \in OwnInitiative THEN CalledAndParked(copy[t], t) ELSE Called(copy[t], t)
<1>1. /\ lock = t /\ lock' = t /\ hpc[t] = "brain"
      /\ hpc' = [hpc EXCEPT ![t] = to]
      /\ copy' = [copy EXCEPT ![t] = row]
      /\ UNCHANGED <<session, delivered, faults, applied, approved, discarded>>
  BY DEF BrainProposes, RequiresApproval, Goto, sessionVars, historyVars, EditInv, LockInv
<1>2. /\ row.used = copy[t].used /\ row.open = t
      /\ to = "park" => row.pending = t /\ t \in OwnInitiative
      /\ to = "fix" => row.pending = NoChange /\ t \notin OwnInitiative
      /\ to \in {"park", "fix"}
  BY <1>1 DEF EditInv, HistoryInv, SessionRow, Called, CalledAndParked
<1>. HIDE DEF row, to
<1>3. LockInv'
  BY <1>1, <1>2, EditAssumption DEF EditInv, LockInv
<1>4. HistoryInv'
  BY <1>1, <1>2 DEF EditInv, HistoryInv, Answered
<1>5. ~Persisting /\ ~Persisting'
  BY <1>1, <1>2 DEF EditInv, LockInv, Persisting
<1>6. CountInv'
  BY <1>1, <1>2, <1>5, NumbersType DEF Numbers, EditInv, CountInv
<1>7. ParkedInv'
  BY <1>1, <1>2, EditAssumption DEF EditInv, ParkedInv, Parked
<1>8. AppliedInv'
  BY <1>1, <1>2, <1>5, EditAssumption DEF EditInv, AppliedInv
<1>. QED
  BY <1>3, <1>4, <1>6, <1>7, <1>8 DEF EditInv

LEMMA FixNotDeliveredKeeps ==
    ASSUME EditTypes, EditInv, NEW h \in Handlers, FixNotDelivered(h)
    PROVE  EditInv'
<1>. USE DEF EditTypes, EditTypeOK, Handlers, Presses
<1>. DEFINE row == Settled(copy[h])
<1>1. /\ lock = h /\ lock' = h /\ hpc[h] = "fix"
      /\ hpc' = [hpc EXCEPT ![h] = "persist"]
      /\ copy' = [copy EXCEPT ![h] = row]
      /\ UNCHANGED <<session, delivered, faults, applied, approved, discarded>>
  BY DEF FixNotDelivered, Goto, sessionVars, historyVars, EditInv, LockInv
<1>2. row.used = copy[h].used /\ row.open = NoChange /\ row.pending = NoChange
  BY DEF Settled, SessionRow
<1>. HIDE DEF row
<1>3. LockInv'
  BY <1>1, <1>2, EditAssumption DEF EditInv, LockInv
<1>4. HistoryInv'
  BY <1>1, <1>2 DEF EditInv, HistoryInv, Answered
<1>5. ~Persisting /\ Persisting'
  BY <1>1, <1>2 DEF EditInv, LockInv, Persisting
<1>6. CountInv'
  BY <1>1, <1>2, <1>5, NumbersType DEF Numbers, EditInv, CountInv
<1>7. ParkedInv'
  BY <1>1, <1>2, EditAssumption DEF EditInv, ParkedInv, Parked
<1>8. AppliedInv'
  BY <1>1, <1>2, <1>5, EditAssumption, SessionsAssumption DEF EditInv, AppliedInv
<1>. QED
  BY <1>3, <1>4, <1>6, <1>7, <1>8 DEF EditInv

\* The copy becomes the row, with nothing pending.
LEMMA WritesBackKeeps ==
    ASSUME EditTypes, EditInv, NEW h \in Handlers, NEW row,
           hpc[h] \in {"persist", "reject"},
           row.used = copy[h].used, row.open = NoChange, row.pending = NoChange,
           PersistSession(row),
           NEW to \in {"resume", "over"}, Leaves(h, hpc[h], to),
           UNCHANGED <<faults, applied, approved>>,
           \A t \in discarded' : t \in discarded \/ (t \in Texts /\ h \in Presses /\ t = copy[h].pending)
    PROVE  EditInv'
<1>1. /\ lock = h /\ lock' = Free /\ session' = row /\ delivered' = delivered
      /\ hpc' = [hpc EXCEPT ![h] = to]
      /\ copy' = [copy EXCEPT ![h] = NoSession]
  BY DEF Leaves, Goto, EditInv, LockInv, PersistSession
<1>2. /\ \A g \in Handlers : hpc'[g] = IF g = h THEN to ELSE hpc[g]
      /\ \A g \in Handlers : copy'[g] = NoSession
      /\ \A g \in Handlers : hpc'[g] \notin Working
  BY <1>1 DEF EditTypes, EditTypeOK, EditInv, LockInv
<1>3. LockInv'
  BY <1>1, <1>2, EditAssumption DEF LockInv
<1>4. HistoryInv'
  BY <1>1, <1>2 DEF HistoryInv, Answered, NoSession
<1>5. CountInv'
  BY <1>1, <1>2, NumbersType DEF Numbers, EditInv, CountInv, Persisting
<1>6. ParkedInv'
  <2>1. \A t \in discarded' : hpc[t] \in {"prompt", "over"} /\ t \in Handlers
    BY SessionsAssumption DEF EditTypes, EditTypeOK, EditInv, ParkedInv, Parked, Handlers
  <2>. QED
    BY <1>1, <1>2, <2>1 DEF ParkedInv, NoSession
<1>7. AppliedInv'
  <2>1. \A t \in Texts : t # NoChange /\ t \in Handlers
    BY SessionsAssumption DEF Handlers
  <2>2. \A g \in Presses : copy'[g].pending = NoChange
    BY <1>2 DEF NoSession, Handlers
  <2>3. AppliedInv
    BY DEF EditInv
  <2>. QED
    BY <1>1, <1>2, <2>1, <2>2, <2>3 DEF AppliedInv
<1>. QED
  BY <1>3, <1>4, <1>5, <1>6, <1>7 DEF EditInv

\* The change of the brain's own is parked.
LEMMA ParkKeeps ==
    ASSUME EditTypes, EditInv, NEW t \in Texts, Park(t)
    PROVE  EditInv'
<1>1. /\ lock = t /\ lock' = Free /\ session' = copy[t] /\ delivered' = delivered
      /\ hpc[t] = "park" /\ hpc' = [hpc EXCEPT ![t] = "prompt"]
      /\ copy' = [copy EXCEPT ![t] = NoSession]
      /\ UNCHANGED <<faults, applied, approved, discarded>>
  BY DEF Park, Leaves, Goto, EditInv, LockInv, PersistSession, historyVars, Handlers
<1>2. /\ \A g \in Handlers : hpc'[g] = IF g = t THEN "prompt" ELSE hpc[g]
      /\ \A g \in Handlers : copy'[g] = NoSession
      /\ \A g \in Handlers : hpc'[g] \notin Working
      /\ t \in Handlers
  BY <1>1 DEF EditTypes, EditTypeOK, EditInv, LockInv, Handlers
<1>3. LockInv'
  BY <1>1, <1>2, EditAssumption DEF LockInv
<1>4. HistoryInv'
  BY <1>1, <1>2 DEF HistoryInv, Answered, NoSession, EditInv
<1>5. CountInv'
  BY <1>1, <1>2, NumbersType DEF Numbers, EditInv, CountInv, Persisting
<1>6. t \in OwnInitiative /\ copy[t].pending = t /\ t \notin discarded
  BY <1>1, <1>2 DEF EditInv, ParkedInv
<1>7. ParkedInv'
  <2>1. \A u \in discarded : u \in Handlers
    BY DEF EditTypes, EditTypeOK, Handlers
  <2>. QED
    BY <1>1, <1>2, <1>6, <2>1 DEF EditInv, ParkedInv, Parked, NoSession
<1>8. AppliedInv'
  <2>1. \A u \in Texts : u # NoChange /\ u \in Handlers
    BY SessionsAssumption DEF Handlers
  <2>2. \A g \in Presses : copy'[g].pending = NoChange
    BY <1>2 DEF NoSession, Handlers
  <2>3. AppliedInv /\ applied[t] = 0
    BY <1>1 DEF EditInv, AppliedInv
  <2>. QED
    BY <1>1, <1>2, <1>6, <2>1, <2>2, <2>3, NumbersType DEF Numbers, AppliedInv
<1>. QED
  BY <1>3, <1>4, <1>5, <1>7, <1>8 DEF EditInv

\* A generation replaces the row, whatever a holder's copy says.
LEMMA CreateSessionKeeps ==
    ASSUME EditTypes, EditInv, CreateSession, UNCHANGED <<editVars, faults>>
    PROVE  EditInv'
<1>1. /\ session'.used = 0 /\ session'.open = NoChange /\ session'.pending = NoChange
      /\ delivered' = 0
      /\ UNCHANGED <<lock, hpc, copy, applied, approved, discarded, faults>>
  BY DEF CreateSession, NewSession, NoSession, editVars
<1>2. LockInv'
  BY <1>1 DEF EditInv, LockInv
<1>3. HistoryInv'
  BY <1>1 DEF EditInv, HistoryInv, Answered
<1>4. Persisting' <=> Persisting
  BY <1>1 DEF Persisting
<1>5. CountInv'
  BY <1>1, <1>4, NumbersType DEF Numbers, EditInv, CountInv
<1>6. ParkedInv'
  BY <1>1 DEF EditInv, ParkedInv, Parked
<1>7. AppliedInv'
  BY <1>1, <1>4, SessionsAssumption DEF EditInv, AppliedInv
<1>. QED
  BY <1>2, <1>3, <1>5, <1>6, <1>7 DEF EditInv

\* The bot restarts: the lock and the copies are gone, the row is not.
LEMMA EditStopsKeeps ==
    ASSUME EditTypes, EditInv, EditStops, UNCHANGED sessionVars, faults' = faults + 1
    PROVE  EditInv'
<1>1. /\ lock' = Free /\ UNCHANGED <<session, delivered, applied, approved, discarded>>
      /\ \A g \in Handlers : hpc'[g] = IF hpc[g] = "idle" THEN "idle" ELSE "over"
      /\ \A g \in Handlers : copy'[g] = NoSession
  BY DEF EditStops, sessionVars, historyVars
<1>2. LockInv'
  BY <1>1, EditAssumption DEF LockInv
<1>3. HistoryInv'
  BY <1>1 DEF EditInv, HistoryInv, Answered, NoSession
<1>4. ~Persisting'
  BY <1>1 DEF Persisting
<1>5. CountInv'
  BY <1>1, <1>4, NumbersType DEF Numbers, EditInv, CountInv
<1>6. ParkedInv'
  <2>1. \A t \in Texts : Parked(t) => Parked(t)'
    BY <1>1 DEF Parked, Handlers
  <2>2. OwnInitiative \subseteq Texts
    BY EditAssumption
  <2>3. \A t \in discarded : t \in Texts /\ t \in Handlers
    BY DEF EditTypes, EditTypeOK, Handlers
  <2>. QED
    BY <1>1, <2>1, <2>2, <2>3 DEF EditInv, ParkedInv, Parked, NoSession
<1>7. AppliedInv'
  <2>1. \A t \in Texts : t # NoChange /\ t \in Handlers
    BY SessionsAssumption DEF Handlers
  <2>2. \A g \in Presses : copy'[g].pending = NoChange
    BY <1>1 DEF NoSession, Handlers
  <2>3. AppliedInv
    BY DEF EditInv
  <2>. QED
    BY <1>1, <2>1, <2>2, <2>3, NumbersType DEF Numbers, AppliedInv
<1>. QED
  BY <1>2, <1>3, <1>5, <1>6, <1>7 DEF EditInv

(***************************************************************************)
(* Types.                                                                  *)
(***************************************************************************)
ConversationTypes == EditTypes /\ ChatTypeOK

LEMMA RowType ==
    /\ NoSession \in SessionRow /\ NewSession \in SessionRow
    /\ \A row \in SessionRow :
        /\ Settled(row) \in SessionRow /\ Counted(row) \in SessionRow
        /\ row.pending \in Texts \cup {NoChange}
        /\ \A t \in Texts :
            Called(row, t) \in SessionRow /\ CalledAndParked(row, t) \in SessionRow
<1>1. NoSession \in SessionRow
  BY DEF NoSession, SessionRow, ChangeOrNone
<1>2. NewSession \in SessionRow
  BY DEF NewSession, NoSession, SessionRow, ChangeOrNone
<1>3. ASSUME NEW row \in SessionRow
      PROVE  /\ Settled(row) \in SessionRow /\ Counted(row) \in SessionRow
             /\ row.pending \in Texts \cup {NoChange}
  <2>1. Settled(row) \in SessionRow
    BY DEF Settled, SessionRow, ChangeOrNone
  <2>2. Counted(row) \in SessionRow
    BY DEF Counted, SessionRow
  <2>3. row.pending \in Texts \cup {NoChange}
    BY DEF SessionRow, ChangeOrNone
  <2>. QED
    BY <2>1, <2>2, <2>3
<1>4. ASSUME NEW row \in SessionRow, NEW t \in Texts
      PROVE  Called(row, t) \in SessionRow /\ CalledAndParked(row, t) \in SessionRow
  BY DEF Called, CalledAndParked, SessionRow, ChangeOrNone
<1>. QED
  BY <1>1, <1>2, <1>3, <1>4

LEMMA FaultType ==
    ASSUME FaultsTypeOK, Fault
    PROVE  FaultsTypeOK' /\ faults' = faults + 1
BY MaxFaultsAssumption DEF FaultsTypeOK, Fault

PlacesOK ==
    /\ lock \in Handlers \cup {Free}
    /\ hpc \in [Handlers -> {"idle", "waiting", "load", "brain", "fix", "persist",
                             "park", "reject", "prompt", "resume", "over"}]
    /\ epc \in [Entries -> {"idle", "load", "over"}]

RowsOK ==
    /\ session \in SessionRow /\ copy \in [Handlers -> SessionRow]
    /\ applied \in [Texts -> Nat] /\ delivered \in Nat
    /\ approved \subseteq Texts /\ discarded \subseteq Texts

LEMMA EditStepType ==
    ASSUME ConversationTypes, EditStep
    PROVE  ConversationTypes'
<1>. USE DEF ConversationTypes, EditTypes, EditTypeOK, SessionsTypeOK
<1>1. queue' \in Seq(Handlers)
  <2>1. \/ queue' = queue \/ \E h \in Texts \cup Presses : queue' = Append(queue, h)
        \/ queue # <<>> /\ queue' = Tail(queue)
    BY DEF EditStep, TextArrives, PressArrives, EntryArrives, EntryOpens, LeaveChat, editVars,
           HandlerStep, TextStep, WakeUp, LoadNothing, LoadForTurn, BrainReplies, BrainProposes, Park,
           Prompts, LoadForApproval, LoadForRejection, FixNotDelivered, FixDelivered, Persist, Reject,
           Resumes, HandlerRaises, Acquire, Leaves
  <2>2. \A h \in Texts \cup Presses : h \in Handlers
    BY DEF Handlers
  <2>3. \A h \in Handlers : Append(queue, h) \in Seq(Handlers)
    BY AppendProperties
  <2>4. queue # <<>> => Tail(queue) \in Seq(Handlers)
    BY HeadTailProperties
  <2>. QED
    BY <2>1, <2>2, <2>3, <2>4
<1>2. PlacesOK'
  <2>1. \A t \in Texts : TextArrives(t) => PlacesOK'
    BY DEF TextArrives, Acquire, Goto, PlacesOK, Handlers
  <2>2. \A h \in Presses : PressArrives(h) => PlacesOK'
    BY DEF PressArrives, Acquire, Goto, PlacesOK, Handlers
  <2>3. \A h \in Handlers : HandlerStep(h) => PlacesOK'
    BY DEF HandlerStep, TextStep, WakeUp, LoadNothing, LoadForTurn, BrainReplies, BrainProposes, Park,
           Prompts, LoadForApproval, LoadForRejection, FixNotDelivered, FixDelivered, Persist, Reject,
           Resumes, Leaves, Goto, PlacesOK
  <2>4. \A h \in Handlers : HandlerRaises(h) => PlacesOK'
    BY DEF HandlerRaises, Leaves, Goto, PlacesOK
  <2>5. \A e \in Entries : EntryArrives(e) \/ EntryOpens(e) => PlacesOK'
    BY DEF EntryArrives, EntryOpens, PlacesOK
  <2>6. LeaveChat => PlacesOK'
    BY DEF LeaveChat, editVars, PlacesOK
  <2>. QED
    BY <2>1, <2>2, <2>3, <2>4, <2>5, <2>6 DEF EditStep
<1>3. RowsOK'
  <2>1. session' = session \/ \E h \in Handlers : session' \in {copy[h], Settled(copy[h])}
    BY DEF EditStep, TextArrives, PressArrives, EntryArrives, EntryOpens, LeaveChat, editVars,
           HandlerStep, TextStep, WakeUp, LoadNothing, LoadForTurn, BrainReplies, BrainProposes, Park,
           Prompts, LoadForApproval, LoadForRejection, FixNotDelivered, FixDelivered, Persist, Reject,
           Resumes, HandlerRaises,
           PersistSession, sessionVars, Handlers
  <2>2. \/ copy' = copy
        \/ \E h \in Handlers :
            \/ copy' = [copy EXCEPT ![h] = NoSession]
            \/ copy' = [copy EXCEPT ![h] = session]
            \/ copy' = [copy EXCEPT ![h] = Settled(copy[h])]
            \/ copy' = [copy EXCEPT ![h] = Counted(Settled(copy[h]))]
            \/ h \in Texts /\ copy' = [copy EXCEPT ![h] = Called(copy[h], h)]
            \/ h \in Texts /\ copy' = [copy EXCEPT ![h] = CalledAndParked(copy[h], h)]
    BY DEF EditStep, TextArrives, PressArrives, EntryArrives, EntryOpens, LeaveChat, editVars,
           HandlerStep, TextStep, WakeUp, LoadNothing, LoadForTurn, BrainReplies, BrainProposes, Park,
           Prompts, LoadForApproval, LoadForRejection, FixNotDelivered, FixDelivered, Persist, Reject,
           Resumes, HandlerRaises,
           Leaves, Handlers
  <2>3. applied' = applied \/ \E t : applied' = [applied EXCEPT ![t] = @ + 1]
    BY DEF EditStep, TextArrives, PressArrives, EntryArrives, EntryOpens, LeaveChat, editVars,
           HandlerStep, TextStep, WakeUp, LoadNothing, LoadForTurn, BrainReplies, BrainProposes, Park,
           Prompts, LoadForApproval, LoadForRejection, FixNotDelivered, FixDelivered, Persist, Reject,
           Resumes, HandlerRaises, historyVars
  <2>4. delivered' \in {delivered, delivered + 1}
    BY DEF EditStep, TextArrives, PressArrives, EntryArrives, EntryOpens, LeaveChat, editVars,
           HandlerStep, TextStep, WakeUp, LoadNothing, LoadForTurn, BrainReplies, BrainProposes, Park,
           Prompts, LoadForApproval, LoadForRejection, FixNotDelivered, FixDelivered, Persist, Reject,
           Resumes, HandlerRaises,
           PersistSession, sessionVars
  <2>5. approved' \in {approved, approved \cup ({session.pending} \ {NoChange})}
    BY DEF EditStep, TextArrives, PressArrives, EntryArrives, EntryOpens, LeaveChat, editVars,
           HandlerStep, TextStep, WakeUp, LoadNothing, LoadForTurn, BrainReplies, BrainProposes, Park,
           Prompts, LoadForApproval, LoadForRejection, FixNotDelivered, FixDelivered, Persist, Reject,
           Resumes, HandlerRaises, historyVars
  <2>6. \/ discarded' = discarded
        \/ \E h \in Handlers : discarded' = (discarded \cup {copy[h].pending}) \ {NoChange}
    BY DEF EditStep, TextArrives, PressArrives, EntryArrives, EntryOpens, LeaveChat, editVars,
           HandlerStep, TextStep, WakeUp, LoadNothing, LoadForTurn, BrainReplies, BrainProposes, Park,
           Prompts, LoadForApproval, LoadForRejection, FixNotDelivered, FixDelivered, Persist, Reject,
           Resumes, HandlerRaises, historyVars, Handlers
  <2>7. /\ session.pending \in Texts \cup {NoChange}
        /\ \A h \in Handlers : copy[h].pending \in Texts \cup {NoChange}
    BY RowType
  <2>8. session' \in SessionRow
    BY <2>1, RowType
  <2>9. copy' \in [Handlers -> SessionRow]
    <3>1. /\ NoSession \in SessionRow /\ session \in SessionRow
          /\ \A h \in Handlers :
                /\ Settled(copy[h]) \in SessionRow /\ Counted(Settled(copy[h])) \in SessionRow
                /\ h \in Texts => /\ Called(copy[h], h) \in SessionRow
                                 /\ CalledAndParked(copy[h], h) \in SessionRow
      BY RowType
    <3>. QED
      BY <2>2, <3>1
  <2>10. applied' \in [Texts -> Nat]
    BY <2>3
  <2>11. approved' \subseteq Texts /\ discarded' \subseteq Texts
    BY <2>5, <2>6, <2>7
  <2>. QED
    BY <2>4, <2>8, <2>9, <2>10, <2>11 DEF RowsOK
<1>4. deckSaved' = deckSaved /\ (UNCHANGED faults \/ Fault)
  BY DEF EditStep, TextArrives, PressArrives, EntryArrives, EntryOpens, LeaveChat, editVars,
           HandlerStep, TextStep, WakeUp, LoadNothing, LoadForTurn, BrainReplies, BrainProposes, Park,
           Prompts, LoadForApproval, LoadForRejection, FixNotDelivered, FixDelivered, Persist, Reject,
           Resumes, HandlerRaises, PersistSession, sessionVars
<1>5. ChatTypeOK'
  <2>1. \/ UNCHANGED chatVars
        \/ fsm' \in {"talking", "awaiting"} /\ UNCHANGED linked
        \/ fsm' = "none" /\ linked' = FALSE
    <3>1. \A t \in Texts : TextArrives(t) => UNCHANGED chatVars
      BY DEF TextArrives
    <3>2. \A h \in Presses : PressArrives(h) => UNCHANGED chatVars
      BY DEF PressArrives
    <3>3. \A e \in Entries : EntryArrives(e) => UNCHANGED chatVars
      BY DEF EntryArrives
    <3>4. \A e \in Entries : EntryOpens(e) =>
              UNCHANGED chatVars \/ (fsm' \in {"talking", "awaiting"} /\ UNCHANGED linked)
      BY DEF EntryOpens, SetState
    <3>5. \A h \in Handlers : HandlerStep(h) =>
              UNCHANGED chatVars \/ (fsm' \in {"talking", "awaiting"} /\ UNCHANGED linked)
      BY DEF HandlerStep, TextStep, WakeUp, LoadNothing, LoadForTurn, BrainReplies, BrainProposes,
             Park, Prompts, LoadForApproval, LoadForRejection, FixNotDelivered, FixDelivered,
             Persist, Reject, Resumes, SetState
    <3>6. \A h \in Handlers : HandlerRaises(h) => UNCHANGED chatVars
      BY DEF HandlerRaises
    <3>7. LeaveChat => fsm' = "none" /\ linked' = FALSE
      BY DEF LeaveChat, ClearState
    <3>. QED
      BY <3>1, <3>2, <3>3, <3>4, <3>5, <3>6, <3>7 DEF EditStep
  <2>. QED
    BY <2>1 DEF ChatTypeOK, chatVars
<1>. QED
  BY <1>1, <1>2, <1>3, <1>4, <1>5, FaultType DEF PlacesOK, RowsOK, FaultsTypeOK

LEMMA GenerationStepType ==
    ASSUME ConversationTypes, GenerationTypeOK, GenerationStep, UNCHANGED editVars
    PROVE  ConversationTypes' /\ GenerationTypeOK'
<1>1. \/ UNCHANGED sessionVars \/ SaveDeck \/ CreateSession
  BY DEF GenerationStep, Pay, CancelPayment, PressRegenerate, WebJobStarts, GenerationRuns, Start,
         DeckIsSaved, PipelineFails, PipelineSucceeds, RefundOnFailure, OpenSession, ShowDeck
<1>2. SessionsTypeOK'
  <2>1. NewSession \in SessionRow
    BY RowType
  <2>2. session' \in SessionRow /\ delivered' \in Nat
    BY <1>1, <2>1 DEF ConversationTypes, EditTypes, SessionsTypeOK, sessionVars, SaveDeck, CreateSession
  <2>3. deckSaved' = deckSaved \/ deckSaved' = TRUE
    BY <1>1 DEF sessionVars, SaveDeck, CreateSession
  <2>4. deckSaved' \in BOOLEAN
    BY <2>3, Zenon DEF ConversationTypes, EditTypes, SessionsTypeOK
  <2>. QED
    BY <2>2, <2>4 DEF SessionsTypeOK
<1>3. UNCHANGED faults \/ Fault
  BY DEF GenerationStep, Pay, CancelPayment, PressRegenerate, WebJobStarts, GenerationRuns, Start,
         DeckIsSaved, PipelineFails, PipelineSucceeds, RefundOnFailure, OpenSession, ShowDeck
<1>4. ChatTypeOK'
  BY DEF GenerationStep, Pay, CancelPayment, PressRegenerate, WebJobStarts, GenerationRuns, Start,
         DeckIsSaved, PipelineFails, PipelineSucceeds, RefundOnFailure, OpenSession, ShowDeck,
         SetState, ClearState, ChatTypeOK, chatVars, ConversationTypes
<1>5. GenerationTypeOK'
  <2>1. /\ charged' = charged \/ \E g \in Generations : charged' = charged \cup {g}
        /\ refunded' = refunded \/ \E g \in Generations : refunded' = refunded \cup {g}
        /\ served' = served \/ \E g \in Generations : served' = served \cup {g}
    BY DEF GenerationStep, Pay, CancelPayment, PressRegenerate, WebJobStarts, GenerationRuns, Start,
           DeckIsSaved, PipelineFails, PipelineSucceeds, RefundOnFailure, OpenSession, ShowDeck,
           moneyVars, generationVars, Generations, Decks, FromBot
  <2>2. gpc' \in [Generations -> {"idle", "start", "pipeline", "render", "session", "show", "refund", "over"}]
    BY DEF GenerationStep, Pay, CancelPayment, PressRegenerate, WebJobStarts, GenerationRuns, Start,
           DeckIsSaved, PipelineFails, PipelineSucceeds, RefundOnFailure, OpenSession, ShowDeck,
           generationVars, Moves, GenerationTypeOK
  <2>. QED
    BY <2>1, <2>2 DEF GenerationTypeOK
<1>. QED
  BY <1>2, <1>3, <1>4, <1>5, FaultType
  DEF ConversationTypes, EditTypes, EditTypeOK, editVars, FaultsTypeOK

(***************************************************************************)
(* Types of the article conversation.  Every file is counted once.         *)
(***************************************************************************)
Sent == {u \in Files : ~At(u, "idle")}

ArticleTypes == ArticleTypeOK /\ uploads <= Cardinality(Sent)

LEMMA SentIsFinite ==
    /\ IsFiniteSet(Sent) /\ Cardinality(Sent) \in Nat /\ Cardinality(Sent) <= Cardinality(Files)
    /\ Cardinality(Files) \in Nat
<1>1. Sent \in SUBSET Files
  BY DEF Sent
<1>. QED
  BY <1>1, FS_Subset, FS_CardinalityType, ArticleAssumption

LEMMA SentGrows ==
    ASSUME Sent \subseteq Sent'
    PROVE  Cardinality(Sent) <= Cardinality(Sent')
<1>1. Sent' \in SUBSET Files
  BY DEF Sent
<1>2. IsFiniteSet(Sent')
  BY <1>1, FS_Subset, ArticleAssumption
<1>. QED
  BY <1>2, FS_Subset

LEMMA HandlerType ==
    ASSUME ArticleTypes, NEW u \in Updates, NEW s \in {"idle", "reply", "process", "questions",
               "score", "advance", "outline", "writing", "over"}
    PROVE  /\ Arrives(u, s) \/ To(u, s) \/ Ends(u) => handler' \in [Updates -> Handler]
           /\ handler[u].left \in Nat
           /\ handler[u].left > 0 /\ TakesOne(u) => handler' \in [Updates -> Handler]
<1>. USE DEF ArticleTypes, ArticleTypeOK
<1>1. handler[u] \in Handler
  OBVIOUS
<1>2. [at |-> s, titled |-> titled, index |-> index, left |-> uploads] \in Handler
  BY SentIsFinite DEF Handler
<1>3. [handler[u] EXCEPT !.at = s] \in Handler
  BY <1>1 DEF Handler
<1>4. [IdleHandler EXCEPT !.at = "over"] \in Handler
  <2>1. IdleHandler \in Handler
    BY SentIsFinite, ArticleAssumption DEF IdleHandler, Handler
  <2>. QED
    BY <2>1 DEF Handler
<1>5. handler[u].left \in 0..Cardinality(Files)
  BY <1>1 DEF Handler
<1>6. handler[u].left > 0 => [handler[u] EXCEPT !.left = @ - 1] \in Handler
  BY <1>1, <1>5, SentIsFinite DEF Handler
<1>7. Arrives(u, s) => handler' \in [Updates -> Handler]
  BY <1>2 DEF Arrives
<1>8. To(u, s) => handler' \in [Updates -> Handler]
  BY <1>3 DEF To
<1>9. Ends(u) => handler' \in [Updates -> Handler]
  BY <1>4 DEF Ends
<1>10. handler[u].left > 0 /\ TakesOne(u) => handler' \in [Updates -> Handler]
  BY <1>6 DEF TakesOne
<1>. QED
  BY <1>5, <1>7, <1>8, <1>9, <1>10, SentIsFinite

HandlerMoves(u) ==
    \/ Ends(u)
    \/ handler[u].left > 0 /\ TakesOne(u)
    \/ Arrives(u, "process") \/ Arrives(u, "score") \/ Arrives(u, "advance") \/ Arrives(u, "outline")
    \/ To(u, "reply") \/ To(u, "questions") \/ To(u, "advance") \/ To(u, "outline") \/ To(u, "writing")

\* Every update of the conversation moves its own handler.
LEMMA HandlersMove ==
    ASSUME ArticleConversation
    PROVE  \/ handler' = handler
           \/ \E u \in Updates : HandlerMoves(u)
<1>1. ASSUME NEW u \in Files, ReceiveFile(u) \/ FileReceived(u) PROVE HandlerMoves(u)
  BY <1>1 DEF HandlerMoves, ReceiveFile, FileReceived
<1>2. ASSUME NEW u \in Continues,
             ContinueFlow(u) \/ ProcessFile(u) \/ SourcesDone(u) \/ ContinueFails(u) \/ QuestionsReady(u)
      PROVE  HandlerMoves(u)
  BY <1>2 DEF HandlerMoves, ContinueFlow, ProcessFile, SourcesDone, ContinueFails, QuestionsReady
<1>3. ASSUME NEW u \in Answers, AnswerArrives(u) \/ SkipArrives(u) \/ Score(u) \/ Advance(u)
      PROVE  HandlerMoves(u)
  BY <1>3 DEF HandlerMoves, AnswerArrives, SkipArrives, Score, Advance
<1>4. ASSUME NEW u, RegenerateOutline(u) \/ GenerateOutline(u) \/ OutlineFails(u) \/ ShowOutline(u)
      PROVE  HandlerMoves(u)
  BY <1>4 DEF HandlerMoves, RegenerateOutline, GenerateOutline, OutlineFails, ShowOutline
<1>5. ASSUME Leave \/ (\E t \in Turns : PressTurn(t) \/ Turn(t)) PROVE handler' = handler
  BY <1>5 DEF Leave, PressTurn, Turn
<1>. QED
  BY <1>1, <1>2, <1>3, <1>4, <1>5 DEF ArticleConversation, Updates

\* What a step writes to each variable.
LEMMA ArticleStepWrites ==
    ASSUME ArticleTypes, ArticleStep
    PROVE  /\ \/ handler' = handler
              \/ \E u \in Updates : HandlerMoves(u)
           /\ article' \in ArticleStates
           /\ titled' \in {titled, FALSE} /\ priced' \in {priced, FALSE, TRUE}
           /\ holding' \subseteq holding \/ \E u \in Updates \cup Articles : holding' = holding \cup {u}
           /\ turning' \subseteq turning \/ \E t \in Turns : turning' = turning \cup {t}
           /\ \/ index' = index \/ index' = 0
              \/ \E u \in Updates : handler[u].index + 1 < Questions(u) /\ index' = handler[u].index + 1
           /\ \/ cache' = cache \/ cache' = EmptySlot
              \/ cache' = [cache EXCEPT !.inputs = TRUE] \/ cache' = [cache EXCEPT !.outline = TRUE]
              \/ \E n \in 1..MaxQuestions : cache' = [cache EXCEPT !.questions = n]
           /\ uploads' \in {uploads, 0} \/ \E u \in Files : ReceiveFile(u)
           /\ \/ UNCHANGED creditVars \/ (\E us : StopAsking(us)) \/ Midnight
              \/ \E u \in Grantors : AskForCredit(u) \/ ReadCap(u) \/ InsertGrant(u)
           /\ UNCHANGED faults \/ Fault
<1>. USE DEF articleVars, ArticleStep, CreditCalls, GrantRaises, ArticleConversation, FileReceived, PressTurn,
             Turn, ContinueFlow, ProcessFile, SourcesDone, ContinueFails, QuestionsReady, AnswerArrives,
             SkipArrives, Score, Advance, RegenerateOutline, GenerateOutline, OutlineFails, ShowOutline,
             Leave, ArticleGeneration, PayArticle, StartArticle, ArticleFails, RefundArticle,
             ArticleSucceeds, ShowArticle, CancelArticlePayment
<1>1. \/ handler' = handler
      \/ \E u \in Updates : HandlerMoves(u)
  <2>1. CASE ArticleConversation
    BY <2>1, HandlersMove
  <2>2. CASE ~ArticleConversation
    BY <2>2
  <2>. QED
    BY <2>1, <2>2
<1>2. article' \in ArticleStates
  <2>1. article \in ArticleStates
    BY DEF ArticleTypes, ArticleTypeOK
  <2>2. \/ article' \in {article, "none", "more", "interview", "outline", "generating", "reviewing"}
        \/ \E t \in Turns : article' = t[2]
    BY DEF ReceiveFile, InState, KeepChat, ClearArticle
  <2>3. \A t \in Turns : t[2] \in ArticleStates
    BY DEF Turns, ArticleStates
  <2>. QED
    BY <2>1, <2>2, <2>3 DEF ArticleStates
<1>3. titled' \in {titled, FALSE}
  BY DEF ReceiveFile, InState, KeepChat, ClearArticle
<1>4. priced' \in {priced, FALSE, TRUE}
  BY DEF ReceiveFile, InState, KeepChat, ClearArticle, ArticleTypes, ArticleTypeOK
<1>5. holding' \subseteq holding \/ \E u \in Updates \cup Articles : holding' = holding \cup {u}
  BY DEF ReceiveFile, DropCache, Writes, Updates
<1>6. turning' \subseteq turning \/ \E t \in Turns : turning' = turning \cup {t}
  BY DEF ReceiveFile
<1>7. \/ index' = index \/ index' = 0
      \/ \E u \in Updates : handler[u].index + 1 < Questions(u) /\ index' = handler[u].index + 1
  BY DEF ReceiveFile, InState, KeepChat, ClearArticle, Updates
<1>8. \/ cache' = cache \/ cache' = EmptySlot
      \/ cache' = [cache EXCEPT !.inputs = TRUE] \/ cache' = [cache EXCEPT !.outline = TRUE]
      \/ \E n \in 1..MaxQuestions : cache' = [cache EXCEPT !.questions = n]
  BY DEF ReceiveFile, DropCache, Writes, ArticleTypes, ArticleTypeOK, Slot
<1>9. uploads' \in {uploads, 0} \/ \E u \in Files : ReceiveFile(u)
  BY DEF InState, KeepChat, ClearArticle
<1>10. \/ UNCHANGED creditVars \/ (\E us : StopAsking(us)) \/ Midnight
       \/ \E u \in Grantors : AskForCredit(u) \/ ReadCap(u) \/ InsertGrant(u)
  BY ArticleAssumption DEF ReceiveFile
<1>11. UNCHANGED faults \/ Fault
  OBVIOUS
<1>. QED
  BY <1>1, <1>2, <1>3, <1>4, <1>5, <1>6, <1>7, <1>8, <1>9, <1>10, <1>11

LEMMA ArticleGenerationType ==
    ASSUME GenerationTypeOK, ArticleStep
    PROVE  GenerationTypeOK'
<1>1. UNCHANGED generationVars \/ ArticleGeneration
  BY DEF ArticleStep
<1>2. ASSUME ArticleGeneration
      PROVE  \E g \in Articles :
                /\ charged' \in {charged, charged \cup {g}}
                /\ refunded' \in {refunded, refunded \cup {g}}
                /\ served' \in {served, served \cup {g}}
                /\ \/ gpc' = gpc
                   \/ \E s \in {"start", "over", "pipeline", "refund", "show"} : gpc' = [gpc EXCEPT ![g] = s]
  BY <1>2 DEF ArticleGeneration, PayArticle, StartArticle, ArticleFails, RefundArticle, ArticleSucceeds,
              ShowArticle, CancelArticlePayment, generationVars, moneyVars, Moves
<1>. QED
  BY <1>1, <1>2 DEF GenerationTypeOK, Generations, generationVars

LEMMA UploadsType ==
    ASSUME ArticleTypes, handler' \in [Updates -> Handler],
           \/ uploads' \in {uploads, 0} /\ \A u \in Files : At(u, "idle")' => At(u, "idle")
           \/ \E u \in Files : ReceiveFile(u)
    PROVE  uploads' \in 0..Cardinality(Files) /\ uploads' <= Cardinality(Sent')
<1>1. uploads \in Nat /\ uploads <= Cardinality(Sent)
  BY DEF ArticleTypes, ArticleTypeOK
<1>2. Sent' \in SUBSET Files
  BY DEF Sent
<1>3. Cardinality(Sent') \in Nat /\ Cardinality(Sent') <= Cardinality(Files)
  BY <1>2, FS_Subset, FS_CardinalityType, ArticleAssumption
<1>4. ASSUME NEW u \in Files, ReceiveFile(u)
      PROVE  Cardinality(Sent') = Cardinality(Sent) + 1 /\ uploads' = uploads + 1
  <2>1. u \notin Sent /\ Sent' = Sent \cup {u}
    BY <1>4 DEF ReceiveFile, At, To, Sent, ArticleTypes, ArticleTypeOK, Updates, Handler
  <2>. QED
    BY <1>4, <2>1, SentIsFinite, FS_AddElement DEF ReceiveFile
<1>5. ASSUME uploads' \in {uploads, 0}, \A u \in Files : At(u, "idle")' => At(u, "idle")
      PROVE  uploads' <= Cardinality(Sent')
  <2>1. Sent \subseteq Sent'
    BY <1>5 DEF Sent
  <2>. QED
    BY <1>1, <1>3, <1>5, <2>1, SentGrows, SentIsFinite
<1>. QED
  BY <1>1, <1>3, <1>4, <1>5, SentIsFinite

LEMMA ArticleStepType ==
    ASSUME ArticleTypes, GenerationTypeOK, FaultsTypeOK, ArticleStep
    PROVE  ArticleTypes' /\ GenerationTypeOK' /\ FaultsTypeOK'
<1>1. CreditsTypeOK'
  BY ArticleStepWrites, CreditStepType DEF ArticleTypes, ArticleTypeOK
<1>2. handler' \in [Updates -> Handler]
  BY ArticleStepWrites, HandlerType DEF HandlerMoves, ArticleTypes, ArticleTypeOK
<1>3. /\ article' \in ArticleStates /\ holding' \subseteq Updates \cup Articles /\ turning' \subseteq Turns
      /\ titled' \in BOOLEAN /\ priced' \in BOOLEAN
  BY ArticleStepWrites DEF ArticleTypes, ArticleTypeOK
<1>4. index' \in 0..MaxQuestions
  <2>1. \A u \in Updates : handler[u].index \in Nat
    BY DEF ArticleTypes, ArticleTypeOK, Handler
  <2>2. MaxQuestions \in Nat /\ \A u \in Updates : Questions(u) \in 0..MaxQuestions
    BY ArticleAssumption DEF ArticleTypes, ArticleTypeOK, Slot, Questions
  <2>3. \/ index' = index \/ index' = 0
        \/ \E u \in Updates : handler[u].index + 1 < Questions(u) /\ index' = handler[u].index + 1
    BY ArticleStepWrites
  <2>. QED
    BY <2>1, <2>2, <2>3 DEF ArticleTypes, ArticleTypeOK
<1>5. cache' \in Slot
  <2>1. EmptySlot \in Slot
    BY ArticleAssumption DEF EmptySlot, Slot
  <2>2. \/ cache' = cache \/ cache' = EmptySlot
        \/ cache' = [cache EXCEPT !.inputs = TRUE] \/ cache' = [cache EXCEPT !.outline = TRUE]
        \/ \E n \in 1..MaxQuestions : cache' = [cache EXCEPT !.questions = n]
    BY ArticleStepWrites
  <2>3. \A n \in 1..MaxQuestions : n \in 0..MaxQuestions
    BY ArticleAssumption
  <2>. QED
    BY <2>1, <2>2, <2>3 DEF ArticleTypes, ArticleTypeOK, Slot
<1>6. uploads' \in 0..Cardinality(Files) /\ uploads' <= Cardinality(Sent')
  <2>1. uploads' \in {uploads, 0} \/ \E u \in Files : ReceiveFile(u)
    BY ArticleStepWrites
  <2>2. handler' = handler \/ \E u \in Updates : HandlerMoves(u)
    BY ArticleStepWrites
  <2>3. \A u \in Files : At(u, "idle")' => At(u, "idle")
    BY <2>2
    DEF HandlerMoves, At, To, Ends, Arrives, TakesOne, IdleHandler, ArticleTypes, ArticleTypeOK, Updates,
        Handler
  <2>. QED
    BY <1>2, <2>1, <2>3, UploadsType
<1>. QED
  BY <1>1, <1>2, <1>3, <1>4, <1>5, <1>6, ArticleStepWrites, ArticleGenerationType, FaultType
  DEF ArticleTypes, ArticleTypeOK, FaultsTypeOK

LEMMA RestartType ==
    ASSUME TypeOK, ArticleTypes, BotRestarts
    PROVE  ConversationTypes' /\ GenerationTypeOK' /\ ArticleTypes'
<1>1. FaultsTypeOK'
  BY FaultType DEF TypeOK, BotRestarts
<1>2. GenerationTypeOK'
  BY DEF BotRestarts, GenerationStops, moneyVars, TypeOK, GenerationTypeOK
<1>3. CASE product = "presentation"
  <2>1. NoSession \in SessionRow /\ <<>> \in Seq(Handlers)
    BY RowType
  <2>2. EditTypeOK'
    BY <1>3, <2>1 DEF BotRestarts, EditStops, historyVars, TypeOK, EditTypeOK
  <2>3. SessionsTypeOK' /\ ChatTypeOK'
    BY <1>3 DEF BotRestarts, ClearState, sessionVars, TypeOK, SessionsTypeOK, ChatTypeOK
  <2>4. ArticleTypes'
    BY <1>3 DEF BotRestarts, articleVars, ArticleTypes, ArticleTypeOK, Sent, At, creditVars, CreditsTypeOK
  <2>. QED
    BY <1>1, <1>2, <2>2, <2>3, <2>4 DEF ConversationTypes, EditTypes
<1>4. CASE product # "presentation"
  <2>1. SessionsTypeOK' /\ EditTypeOK' /\ ChatTypeOK'
    BY <1>4 DEF BotRestarts, presentationVars, sessionVars, chatVars, editVars, TypeOK, SessionsTypeOK,
                EditTypeOK, ChatTypeOK
  <2>2. ArticleStops
    BY <1>4 DEF BotRestarts
  <2>3. CreditsTypeOK'
    BY <2>2, CreditStepType DEF ArticleStops, ArticleTypes, ArticleTypeOK
  <2>4. /\ [IdleHandler EXCEPT !.at = "over"] \in Handler /\ EmptySlot \in Slot
        /\ [IdleHandler EXCEPT !.at = "over"].at = "over"
    <3>1. IdleHandler \in Handler
      BY SentIsFinite, ArticleAssumption DEF IdleHandler, Handler
    <3>. QED
      BY <3>1, ArticleAssumption DEF Handler, EmptySlot, Slot
  <2>5. handler' \in [Updates -> Handler]
    BY <2>2, <2>4 DEF ArticleStops, ArticleTypes, ArticleTypeOK
  <2>6. \A u \in Files : At(u, "idle")' => At(u, "idle")
    BY <2>2, <2>4 DEF ArticleStops, At, Updates
  <2>7. uploads' \in 0..Cardinality(Files) /\ uploads' <= Cardinality(Sent')
    BY <2>2, <2>5, <2>6, UploadsType DEF ArticleStops, ClearArticle
  <2>8. titled' \in BOOLEAN /\ priced' \in BOOLEAN
    BY <2>2, Zenon DEF ArticleStops, ClearArticle
  <2>9. index' \in 0..MaxQuestions
    BY <2>2, ArticleAssumption DEF ArticleStops, ClearArticle
  <2>10. ArticleTypeOK'
    BY <2>2, <2>3, <2>4, <2>5, <2>7, <2>8, <2>9
    DEF ArticleStops, ClearArticle, DropCache, ArticleTypeOK, ArticleStates
  <2>. QED
    BY <1>1, <1>2, <2>1, <2>7, <2>10 DEF ConversationTypes, EditTypes, ArticleTypes
<1>. QED
  BY <1>3, <1>4

LEMMA StepType ==
    ASSUME TypeOK, ArticleTypes, [Next]_vars
    PROVE  TypeOK' /\ ArticleTypes'
<1>1. product' = product
  BY DEF Next, vars
<1>2. CASE Presentation
  <2>1. ConversationTypes' /\ GenerationTypeOK'
    BY <1>2, EditStepType, GenerationStepType
    DEF Presentation, TypeOK, ConversationTypes, EditTypes, GenerationTypeOK, generationVars
  <2>2. ArticleTypes'
    BY <1>2 DEF Presentation, articleVars, ArticleTypes, ArticleTypeOK, Sent, At, creditVars, CreditsTypeOK
  <2>. QED
    BY <1>1, <2>1, <2>2 DEF TypeOK, ConversationTypes, EditTypes, ArticleTypes
<1>3. CASE Article
  <2>1. SessionsTypeOK' /\ EditTypeOK' /\ ChatTypeOK'
    BY <1>3 DEF Article, presentationVars, sessionVars, chatVars, editVars, TypeOK, SessionsTypeOK,
                EditTypeOK, ChatTypeOK
  <2>2. ArticleTypes' /\ GenerationTypeOK' /\ FaultsTypeOK'
    BY <1>3, ArticleStepType DEF Article, TypeOK
  <2>. QED
    BY <1>1, <2>1, <2>2 DEF TypeOK, ArticleTypes
<1>4. CASE BotRestarts
  BY <1>1, <1>4, RestartType DEF TypeOK, ConversationTypes, EditTypes, ArticleTypes
<1>5. CASE UNCHANGED vars
  BY <1>5 DEF vars, presentationVars, sessionVars, chatVars, editVars, articleVars, generationVars, creditVars,
              TypeOK, SessionsTypeOK, ChatTypeOK, EditTypeOK, ArticleTypeOK, GenerationTypeOK, FaultsTypeOK,
              CreditsTypeOK, ArticleTypes, Sent, At
<1>. QED
  BY <1>2, <1>3, <1>4, <1>5 DEF Next

LEMMA InitType ==
    ASSUME Init
    PROVE  TypeOK /\ ArticleTypes
<1>1. SessionsTypeOK /\ ChatTypeOK /\ FaultsTypeOK /\ GenerationTypeOK
  <2>1. NoSession \in SessionRow
    BY RowType
  <2>2. deckSaved \in BOOLEAN /\ linked \in BOOLEAN
    BY Zenon DEF Init, SessionsInit, ChatInit
  <2>3. SessionsTypeOK /\ ChatTypeOK
    BY <2>1, <2>2 DEF Init, SessionsInit, ChatInit, SessionsTypeOK, ChatTypeOK
  <2>4. FaultsTypeOK /\ GenerationTypeOK
    BY MaxFaultsAssumption DEF Init, FaultsInit, GenerationInit, FaultsTypeOK, GenerationTypeOK
  <2>. QED
    BY <2>3, <2>4
<1>2. EditTypeOK
  <2>1. NoSession \in SessionRow /\ <<>> \in Seq(Handlers)
    BY RowType
  <2>. QED
    BY <2>1 DEF Init, EditInit, EditTypeOK
<1>3. CreditsTypeOK
  <2>1. Cardinality(Grantors) \in Nat
    BY FS_CardinalityType, CapsAssumption
  <2>. QED
    BY <2>1, CapsAssumption DEF Init, ArticleInit, CreditsInit, CreditsTypeOK, Days
<1>4. IdleHandler \in Handler /\ EmptySlot \in Slot
  BY SentIsFinite, ArticleAssumption DEF IdleHandler, Handler, EmptySlot, Slot
<1>5. ArticleTypeOK
  <2>1. uploads \in 0..Cardinality(Files) /\ index \in 0..MaxQuestions
    BY SentIsFinite, ArticleAssumption DEF Init, ArticleInit
  <2>2. titled \in BOOLEAN /\ priced \in BOOLEAN
    BY Zenon DEF Init, ArticleInit
  <2>. QED
    BY <1>3, <1>4, <2>1, <2>2 DEF Init, ArticleInit, ArticleTypeOK, ArticleStates
<1>6. uploads <= Cardinality(Sent)
  BY SentIsFinite DEF Init, ArticleInit
<1>. QED
  BY <1>1, <1>2, <1>5, <1>6 DEF Init, TypeOK, ArticleTypes

\* A bot's conversations keep their types, however its handlers, its generations
\* and its restarts interleave.
THEOREM TypeCorrect == Spec => [](TypeOK /\ ArticleTypes)
<1>1. Init => TypeOK /\ ArticleTypes
  BY InitType
<1>2. TypeOK /\ ArticleTypes /\ [Next]_vars => (TypeOK /\ ArticleTypes)'
  BY StepType
<1>. QED
  BY <1>1, <1>2, PTL DEF Spec

(***************************************************************************)
(* The invariant of the editing sessions is inductive.                     *)
(***************************************************************************)
LEMMA EditStepKeeps ==
    ASSUME EditTypes, EditTypes', EditInv, EditStep
    PROVE  EditInv'
<1>0. faults \in Nat /\ faults' \in Nat
  BY NumbersType DEF Numbers
<1>1. ASSUME NEW h \in Handlers, Acquire(h), UNCHANGED <<sessionVars, copy, historyVars, faults>>
      PROVE  EditInv'
  <2>1. CASE lock = Free /\ queue = <<>>
    BY <1>1, <2>1, TakesLockKeeps DEF Acquire, Goto, sessionVars
  <2>2. CASE ~(lock = Free /\ queue = <<>>)
    BY <1>0, <1>1, <2>2, AsideKeeps DEF Acquire, Goto, sessionVars, EditTypes, EditTypeOK
  <2>. QED
    BY <2>1, <2>2
<1>2. ASSUME NEW t \in Texts, TextArrives(t) PROVE EditInv'
  <2>1. CASE ~linked \/ lock # Free
    BY <1>0, <1>2, <2>1, AsideKeeps DEF TextArrives, Goto, sessionVars, EditTypes, EditTypeOK
  <2>2. CASE ~(~linked \/ lock # Free)
    BY <1>1, <1>2, <2>2 DEF TextArrives, Handlers
  <2>. QED
    BY <2>1, <2>2
<1>3. ASSUME NEW h \in Presses, PressArrives(h) PROVE EditInv'
  <2>1. CASE linked
    BY <1>1, <1>3, <2>1 DEF PressArrives, Handlers
  <2>2. CASE ~linked
    BY <1>0, <1>3, <2>2, AsideKeeps DEF PressArrives, Goto, sessionVars, EditTypes, EditTypeOK
  <2>. QED
    BY <2>1, <2>2
<1>4. CASE LeaveChat \/ \E e \in Entries : EntryArrives(e) \/ EntryOpens(e)
  BY <1>0, <1>4, AsideKeeps DEF LeaveChat, EntryArrives, EntryOpens, sessionVars, editVars, historyVars
<1>5. ASSUME NEW h \in Handlers, HandlerRaises(h) PROVE EditInv'
  <2>1. faults' = faults + 1
    BY <1>5, FaultType DEF HandlerRaises, EditTypes
  <2>2. CASE hpc[h] \in {"prompt", "resume"}
    BY <1>0, <1>5, <2>1, <2>2, AsideKeeps DEF HandlerRaises, Leaves, Goto, sessionVars, EditTypes, EditTypeOK
  <2>3. CASE hpc[h] \in {"load", "persist", "park", "reject"}
    BY <1>0, <1>5, <2>1, <2>3, LeavesKeeps DEF HandlerRaises, sessionVars
  <2>. QED
    BY <1>5, <2>2, <2>3 DEF HandlerRaises
<1>6. ASSUME NEW h \in Handlers, WakeUp(h) PROVE EditInv'
  BY <1>6, TakesLockKeeps DEF WakeUp, Goto, sessionVars
<1>7. ASSUME NEW h \in Handlers, LoadNothing(h) PROVE EditInv'
  <2>1. hpc[h] = "load" /\ (Leaves(h, hpc[h], "over") \/ Leaves(h, hpc[h], "resume"))
    BY <1>7 DEF LoadNothing, Leaves, Goto
  <2>. QED
    BY <1>0, <1>7, <2>1, LeavesKeeps DEF LoadNothing, sessionVars
<1>8. ASSUME NEW t \in Texts, TextStep(t) PROVE EditInv'
  <2>1. CASE LoadForTurn(t) /\ session.pending # NoChange
    BY <1>0, <2>1, LeavesKeeps DEF LoadForTurn, Leaves, Goto, sessionVars, Handlers
  <2>2. CASE Prompts(t)
    BY <1>0, <2>2, AsideKeeps DEF Prompts, Goto, sessionVars, EditTypes, EditTypeOK
  <2>. QED
    BY <1>8, <2>1, <2>2, TurnLoadKeeps, BrainRepliesKeeps, BrainProposesKeeps, ParkKeeps DEF TextStep
<1>9. ASSUME NEW h \in Approvals, LoadForApproval(h) PROVE EditInv'
  <2>1. CASE session.pending = NoChange
    BY <1>0, <1>9, <2>1, LeavesKeeps
    DEF LoadForApproval, Leaves, Goto, sessionVars, historyVars, Handlers, Presses
  <2>. QED
    BY <1>9, <2>1, ApprovalLoadKeeps
<1>10. ASSUME NEW h \in Handlers, Persist(h) PROVE EditInv'
  <2>1. hpc[h] = "persist" /\ (Leaves(h, hpc[h], "over") \/ Leaves(h, hpc[h], "resume"))
    BY <1>10 DEF Persist, Leaves, Goto
  <2>2. copy[h].open = NoChange /\ copy[h].pending = NoChange
    BY <2>1 DEF EditInv, HistoryInv
  <2>. QED
    BY <1>10, <2>1, <2>2, WritesBackKeeps DEF Persist, historyVars
<1>11. ASSUME NEW h \in Handlers, Reject(h) PROVE EditInv'
  <2>1. /\ Settled(copy[h]).used = copy[h].used
        /\ Settled(copy[h]).open = NoChange /\ Settled(copy[h]).pending = NoChange
    BY DEF Settled, EditTypes, EditTypeOK, SessionRow
  <2>2. hpc[h] = "reject" /\ h \in Presses
    BY <1>11 DEF Reject, Leaves, Goto, EditInv, LockInv, Presses
  <2>3. copy[h].pending \in Texts \cup {NoChange}
    BY RowType DEF EditTypes, EditTypeOK
  <2>4. \A t \in discarded' : t \in discarded \/ (t \in Texts /\ t = copy[h].pending)
    BY <1>11, <2>3 DEF Reject
  <2>. QED
    BY <1>11, <2>1, <2>2, <2>4, WritesBackKeeps DEF Reject
<1>12. ASSUME NEW h \in Presses, Resumes(h) PROVE EditInv'
  BY <1>0, <1>12, AsideKeeps DEF Resumes, Goto, sessionVars, EditTypes, EditTypeOK
<1>. QED
  BY <1>2, <1>3, <1>4, <1>5, <1>6, <1>7, <1>8, <1>9, <1>10, <1>11, <1>12, RejectionLoadKeeps,
     FixNotDeliveredKeeps, FixDeliveredKeeps
  DEF EditStep, HandlerStep

LEMMA StepKeeps ==
    ASSUME TypeOK, TypeOK', EditInv, [Next]_vars
    PROVE  EditInv'
<1>1. EditTypes /\ EditTypes' /\ faults \in Nat /\ faults' \in Nat
  BY MaxFaultsAssumption DEF TypeOK, EditTypes, FaultsTypeOK
<1>2. ASSUME UNCHANGED <<session, delivered, editVars>>, faults' >= faults PROVE EditInv'
  BY <1>1, <1>2, AsideKeeps DEF editVars, historyVars
<1>3. CASE EditStep
  BY <1>1, <1>3, EditStepKeeps
<1>4. CASE GenerationStep /\ UNCHANGED editVars
  <2>1. CASE CreateSession /\ UNCHANGED faults
    BY <1>1, <1>4, <2>1, CreateSessionKeeps
  <2>2. CASE ~(CreateSession /\ UNCHANGED faults)
    <3>1. UNCHANGED <<session, delivered>> /\ (UNCHANGED faults \/ Fault)
      BY <1>4, <2>2
      DEF GenerationStep, Pay, CancelPayment, PressRegenerate, WebJobStarts, GenerationRuns, Start,
          DeckIsSaved, PipelineFails, PipelineSucceeds, RefundOnFailure, OpenSession, ShowDeck, SaveDeck,
          sessionVars
    <3>. QED
      BY <1>1, <1>2, <1>4, <3>1, FaultType DEF EditTypes
  <2>. QED
    BY <2>1, <2>2
<1>5. CASE Article
  <2>1. UNCHANGED faults \/ Fault
    BY <1>5 DEF Article, ArticleStep, GrantRaises, ArticleGeneration, PayArticle, StartArticle, ArticleFails,
                RefundArticle, ArticleSucceeds, ShowArticle, CancelArticlePayment
  <2>. QED
    BY <1>1, <1>2, <1>5, <2>1, FaultType DEF Article, presentationVars, sessionVars, EditTypes
<1>6. CASE BotRestarts
  <2>1. faults' = faults + 1
    BY <1>1, <1>6, FaultType DEF BotRestarts, EditTypes
  <2>2. CASE product = "presentation"
    BY <1>1, <1>6, <2>1, <2>2, EditStopsKeeps DEF BotRestarts
  <2>3. CASE product # "presentation"
    BY <1>1, <1>2, <1>6, <2>1, <2>3 DEF BotRestarts, presentationVars, sessionVars
  <2>. QED
    BY <2>2, <2>3
<1>7. CASE UNCHANGED vars
  BY <1>1, <1>2, <1>7 DEF vars, presentationVars, sessionVars
<1>. QED
  BY <1>3, <1>4, <1>5, <1>6, <1>7 DEF Next, Presentation

LEMMA InitEditInv ==
    ASSUME Init, TypeOK
    PROVE  EditInv
<1>. USE DEF Init, SessionsInit, EditInit, FaultsInit
<1>1. LockInv
  BY EditAssumption DEF LockInv
<1>2. HistoryInv
  BY DEF HistoryInv, Answered, NoSession
<1>3. CountInv
  BY SessionsAssumption DEF CountInv, NoSession
<1>4. ParkedInv
  BY DEF ParkedInv, NoSession
<1>5. AppliedInv
  <2>1. faults = 0 /\ \A t \in Texts : applied[t] = 0
    OBVIOUS
  <2>2. 0 <= 1 + faults /\ 0 <= faults /\ ~(0 > 0)
    BY <2>1
  <2>. HIDE DEF Init
  <2>. QED
    BY <2>1, <2>2 DEF AppliedInv
<1>. QED
  BY <1>1, <1>2, <1>3, <1>4, <1>5 DEF EditInv

\* The invariant of the editing sessions holds, whatever handlers, generations,
\* failures and restarts do to the row, the lock and the chat.
THEOREM EditInvariant == Spec => [](TypeOK /\ EditInv)
<1>1. Init => TypeOK /\ EditInv
  BY InitType, InitEditInv
<1>2. TypeOK /\ ArticleTypes /\ EditInv /\ [Next]_vars => EditInv'
  BY StepType, StepKeeps
<1>. QED
  BY <1>1, <1>2, TypeCorrect, PTL DEF Spec

\* A session delivers no more edits than its package grants, but for the counts
\* failures lost.
THEOREM AllowanceHolds == Spec => []EditsWithinAllowance
<1>1. TypeOK /\ EditInv => EditsWithinAllowance
  <2>. SUFFICES ASSUME TypeOK, EditInv PROVE EditsWithinAllowance
    OBVIOUS
  <2>1. EditTypes /\ Numbers
    BY NumbersType DEF TypeOK, EditTypes
  <2>2. CASE Persisting
    BY <2>1, <2>2 DEF Numbers, EditInv, CountInv, Persisting, EditsWithinAllowance
  <2>3. CASE ~Persisting
    BY <2>1, <2>3 DEF Numbers, EditInv, CountInv, EditsWithinAllowance
  <2>. QED
    BY <2>2, <2>3
<1>. QED
  BY <1>1, EditInvariant, PTL

\* Between its load and its write a handler holds the lock, nobody else does, and
\* no brain turn runs on an unanswered call.
THEOREM Serialized == Spec => []TurnsAreSerialized
<1>1. TypeOK /\ EditInv => TurnsAreSerialized
  <2>. SUFFICES ASSUME TypeOK, EditInv PROVE TurnsAreSerialized
    OBVIOUS
  <2>1. {h \in Handlers : hpc[h] \in {"load", "brain", "fix", "persist", "park", "reject"}} = {lock} \ {Free}
    BY EditAssumption DEF TypeOK, EditTypeOK, EditInv, LockInv
  <2>2. \A t \in Texts : hpc[t] = "brain" => copy[t].open = NoChange
    BY DEF EditInv, HistoryInv, Handlers
  <2>. QED
    BY <2>1, <2>2 DEF TurnsAreSerialized
<1>. QED
  BY <1>1, EditInvariant, PTL

\* A change is delivered as often as it was approved, and never after the user
\* was told that it is discarded.
LEMMA DiscardedStays ==
    ASSUME TypeOK, EditInv, [Next]_vars, NEW t \in discarded
    PROVE  applied'[t] = applied[t]
<1>1. ASSUME NEW h \in Handlers, FixDelivered(h) PROVE Change(h) # t
  <2>1. hpc[h] = "fix"
    BY <1>1 DEF FixDelivered, Goto
  <2>2. CASE h \in Texts
    BY <2>1, <2>2 DEF EditInv, ParkedInv, Change
  <2>3. CASE h \notin Texts
    <3>1. h \in Presses /\ copy[h].pending \in Texts
      BY <2>1, <2>3 DEF Handlers, TypeOK, EditTypeOK, EditInv, ParkedInv
    <3>. QED
      BY <2>3, <3>1, SessionsAssumption DEF EditInv, ParkedInv, Parked, Change
  <2>. QED
    BY <2>2, <2>3
<1>2. \/ applied' = applied
      \/ \E h \in Handlers : FixDelivered(h) /\ applied' = [applied EXCEPT ![Change(h)] = @ + 1]
  <2>1. CASE EditStep
    BY <2>1
    DEF EditStep, TextArrives, PressArrives, EntryArrives, EntryOpens, LeaveChat, editVars, HandlerStep,
        TextStep, WakeUp, LoadNothing, LoadForTurn, BrainReplies, BrainProposes, Park, Prompts,
        LoadForApproval, LoadForRejection, FixNotDelivered, FixDelivered, Persist, Reject, Resumes,
        HandlerRaises, historyVars
  <2>2. CASE ~EditStep
    BY <2>2 DEF Next, Presentation, Article, BotRestarts, EditStops, vars, presentationVars, editVars, historyVars
  <2>. QED
    BY <2>1, <2>2
<1>. QED
  BY <1>1, <1>2 DEF TypeOK, EditTypeOK

\* A change is applied once, but for the writes that failures lost; one of the
\* brain's own only when it was approved; a rejected one never (_apply_pending,
\* _reject_pending).
THEOREM ApprovalHolds == Spec => AppliedAsApproved
<1>1. EditInv => \A t \in Texts :
                    /\ applied[t] <= 1 + faults
                    /\ t \in OwnInitiative /\ applied[t] > 0 => t \in approved
  BY DEF EditInv, AppliedInv
<1>2. TypeOK /\ EditInv /\ [Next]_vars => [\A t \in discarded : applied'[t] = applied[t]]_vars
  BY DiscardedStays
<1>. QED
  BY <1>1, <1>2, EditInvariant, PTL DEF AppliedAsApproved, Spec

(***************************************************************************)
(* Payments from the balance: who paid is served or gets the price back.   *)
(***************************************************************************)
\* A conversation that was cleared stays so; one that was not still has the slot
\* its generations write to.
ServedInv ==
    /\ \A g \in FromBot : gpc[g] \in {"session", "show"} => g \in served \/ ~linked
    /\ \A g \in Articles :
        /\ gpc[g] = "pipeline" => g \in holding \/ ~titled
        /\ gpc[g] = "show" => g \in served \/ ~titled

ChargeInv ==
    /\ charged \subseteq Paid \cup Articles
    /\ ServedInv

\* What a generation that ended in a step with its money taken has to show.
Redeemed(g) ==
    \/ g \in served' \cup refunded'
    \/ gpc[g] # "refund" /\ (IF g \in Articles THEN ~titled ELSE ~linked)
    \/ faults' > 0

Ended(g) == gpc[g] \notin {"start", "over"} /\ gpc'[g] = "over"

\* One generation of a deck takes a step.
LEMMA DeckStepKeeps ==
    ASSUME GenerationTypeOK, ChatTypeOK, FaultsTypeOK, ChargeInv, GenerationStep, UNCHANGED <<holding, titled>>
    PROVE  ChargeInv' /\ \A g \in charged : Ended(g) => Redeemed(g)
<1>. USE GenerationsAssumption
     DEF GenerationTypeOK, ChargeInv, ServedInv, Generations, Decks, FromBot, Moves, moneyVars, generationVars,
         Ended, Redeemed
<1>0. UNCHANGED faults \/ faults' > 0
  BY MaxFaultsAssumption
  DEF FaultsTypeOK, Fault, GenerationStep, Pay, CancelPayment, PressRegenerate, WebJobStarts, GenerationRuns,
      Start, DeckIsSaved, PipelineFails, PipelineSucceeds, RefundOnFailure, OpenSession, ShowDeck
<1>1. ASSUME NEW g \in Paid, Pay(g) \/ CancelPayment(g)
      PROVE  ChargeInv' /\ \A i \in charged : gpc'[i] = "over" => gpc[i] = "over"
  BY <1>1 DEF Pay, CancelPayment, ClearState, chatVars
<1>2. CASE \/ \E g \in Regenerations : PressRegenerate(g)
           \/ \E g \in WebJobs : WebJobStarts(g)
  BY <1>2 DEF PressRegenerate, WebJobStarts, chatVars
<1>3. ASSUME NEW g \in Decks, Start(g) \/ DeckIsSaved(g) \/ PipelineFails(g) \/ PipelineSucceeds(g)
      PROVE  /\ ChargeInv'
             /\ \A i \in charged : gpc'[i] = "over" => gpc[i] \in {"start", "over"}
  BY <1>3 DEF Start, DeckIsSaved, PipelineFails, PipelineSucceeds, SetState, ClearState, chatVars
<1>4. ASSUME NEW g \in Decks, RefundOnFailure(g)
      PROVE  /\ ChargeInv'
             /\ \A i \in charged : gpc'[i] = "over" => gpc[i] = "over" \/ i \in refunded' \/ faults' > 0
  BY <1>4, <1>0, MaxFaultsAssumption DEF RefundOnFailure, Fault, FaultsTypeOK, ClearState
<1>5. ASSUME NEW g \in Decks, OpenSession(g) \/ ShowDeck(g)
      PROVE  /\ ChargeInv'
             /\ \A i \in charged : Ended(i) => Redeemed(i)
  BY <1>5 DEF OpenSession, ShowDeck, SetState, chatVars
<1>. QED
  BY <1>1, <1>2, <1>3, <1>4, <1>5 DEF GenerationStep, GenerationRuns

\* Only clearing the conversation takes a generation's slot away.
LEMMA SlotIsKept ==
    ASSUME ArticleTypeOK, ArticleConversation \/ CreditCalls \/ (\E u \in Answers : GrantRaises(u)),
           NEW g \in Articles
    PROVE  /\ g \in holding \/ ~titled => g \in holding' \/ ~titled'
           /\ ~titled => ~titled'
<1>1. g \notin Updates
  BY ArticleAssumption
<1>2. titled' \in {titled, FALSE}
  BY DEF CreditCalls, GrantRaises, ArticleConversation, ReceiveFile, FileReceived, PressTurn, Turn, ContinueFlow,
         ProcessFile, SourcesDone, ContinueFails, QuestionsReady, AnswerArrives, SkipArrives, Score, Advance,
         RegenerateOutline, GenerateOutline, OutlineFails, ShowOutline, Leave, InState, KeepChat, ClearArticle
<1>3. \/ titled' = FALSE
      \/ holding' = holding
      \/ \E u \in Updates : holding' \in {holding \cup {u}, holding \ {u}}
  BY DEF CreditCalls, GrantRaises, ArticleConversation, ReceiveFile, FileReceived, PressTurn, Turn, ContinueFlow,
         ProcessFile, SourcesDone, ContinueFails, QuestionsReady, AnswerArrives, SkipArrives, Score, Advance,
         RegenerateOutline, GenerateOutline, OutlineFails, ShowOutline, Leave, ClearArticle, Writes, Updates
<1>4. ~titled => ~titled'
  BY <1>2, Zenon
<1>5. CASE titled' = FALSE
  BY <1>4, <1>5
<1>6. CASE titled' # FALSE
  <2>1. g \in holding => g \in holding'
    BY <1>1, <1>3, <1>6
  <2>. QED
    BY <1>4, <2>1
<1>. QED
  BY <1>5, <1>6

LEMMA ArticleChargeKeeps ==
    ASSUME GenerationTypeOK, ArticleTypeOK, FaultsTypeOK, ChargeInv, ArticleGeneration, UNCHANGED linked
    PROVE  ChargeInv' /\ \A g \in charged : Ended(g) => Redeemed(g)
<1>. USE GenerationsAssumption
     DEF GenerationTypeOK, ChargeInv, ServedInv, Generations, Decks, Moves, moneyVars, generationVars, articleVars,
         InState, ClearArticle, KeepChat, Ended, Redeemed
<1>1. ASSUME NEW g \in Articles,
             \/ PayArticle(g) \/ StartArticle(g) \/ ArticleFails(g) \/ ArticleSucceeds(g)
             \/ CancelArticlePayment(g)
      PROVE  /\ ChargeInv'
             /\ \A i \in charged : gpc'[i] = "over" => gpc[i] \in {"start", "over"}
  BY <1>1 DEF PayArticle, StartArticle, ArticleFails, ArticleSucceeds, CancelArticlePayment
<1>2. ASSUME NEW g \in Articles, RefundArticle(g)
      PROVE  /\ ChargeInv'
             /\ \A i \in charged : gpc'[i] = "over" => gpc[i] = "over" \/ i \in refunded' \/ faults' > 0
  BY <1>2, MaxFaultsAssumption DEF RefundArticle, Fault, FaultsTypeOK
<1>3. ASSUME NEW g \in Articles, ShowArticle(g)
      PROVE  /\ ChargeInv'
             /\ \A i \in charged : Ended(i) => Redeemed(i)
  BY <1>3 DEF ShowArticle
<1>. QED
  BY <1>1, <1>2, <1>3 DEF ArticleGeneration

\* Data that were cleared name no project any more.
LEMMA LinkIsNotRestored ==
    ASSUME EditStep
    PROVE  ~linked => ~linked'
<1>1. linked' \in {linked, FALSE}
  BY DEF EditStep, TextArrives, PressArrives, EntryArrives, EntryOpens, LeaveChat, HandlerStep,
         TextStep, WakeUp, LoadNothing, LoadForTurn, BrainReplies, BrainProposes, Park, Prompts,
         LoadForApproval, LoadForRejection, FixNotDelivered, FixDelivered, Persist, Reject, Resumes,
         HandlerRaises, SetState, ClearState, chatVars
<1>. QED
  BY <1>1, Zenon

LEMMA ChargeStepKeeps ==
    ASSUME TypeOK, ChargeInv, [Next]_vars
    PROVE  /\ ChargeInv'
           /\ \A g \in charged : Ended(g) =>
                \/ g \in served' \cup refunded'
                \/ gpc[g] # "refund" /\ Left
                \/ faults' > 0
<1>1. CASE Presentation /\ GenerationStep
  <2>1. ChargeInv' /\ \A g \in charged : Ended(g) => Redeemed(g)
    BY <1>1, DeckStepKeeps DEF TypeOK, Presentation, articleVars
  <2>2. \A g \in charged : Ended(g) => g \notin Articles
    BY <1>1, GenerationsAssumption
    DEF GenerationStep, Pay, CancelPayment, PressRegenerate, WebJobStarts, GenerationRuns, Start, DeckIsSaved,
        PipelineFails, PipelineSucceeds, RefundOnFailure, OpenSession, ShowDeck, Moves, Decks, FromBot,
        Generations, TypeOK, GenerationTypeOK, generationVars, Ended
  <2>. QED
    BY <1>1, <2>1, <2>2 DEF Presentation, Left, Redeemed
<1>2. CASE Article /\ ArticleGeneration
  <2>1. ChargeInv' /\ \A g \in charged : Ended(g) => Redeemed(g)
    BY <1>2, ArticleChargeKeeps DEF TypeOK, Article, presentationVars, chatVars
  <2>2. \A g \in charged : Ended(g) => g \in Articles
    BY <1>2
    DEF ArticleGeneration, PayArticle, StartArticle, ArticleFails, RefundArticle, ArticleSucceeds,
        ShowArticle, CancelArticlePayment, Moves, Generations, TypeOK, GenerationTypeOK, generationVars, Ended
  <2>. QED
    BY <1>2, <2>1, <2>2 DEF Article, Left, Redeemed
<1>3. CASE Presentation /\ EditStep /\ UNCHANGED generationVars
  <2>1. ~linked => ~linked'
    BY <1>3, LinkIsNotRestored
  <2>. QED
    BY <1>3, <2>1 DEF Presentation, generationVars, articleVars, ChargeInv, ServedInv, Ended
<1>4. CASE Article /\ ~ArticleGeneration
  <2>1. UNCHANGED generationVars /\ UNCHANGED linked
    BY <1>4 DEF Article, ArticleStep, presentationVars, chatVars
  <2>2. \A g \in Articles : /\ g \in holding \/ ~titled => g \in holding' \/ ~titled'
                            /\ ~titled => ~titled'
    BY <1>4, SlotIsKept DEF Article, ArticleStep, TypeOK
  <2>. QED
    BY <2>1, <2>2 DEF generationVars, ChargeInv, ServedInv, Ended
<1>5. CASE BotRestarts
  <2>1. faults' > 0
    BY <1>5, MaxFaultsAssumption DEF BotRestarts, Fault, TypeOK, FaultsTypeOK
  <2>2. ChargeInv'
    BY <1>5, GenerationsAssumption
    DEF BotRestarts, GenerationStops, moneyVars, ChargeInv, ServedInv, Generations, Decks, FromBot
  <2>. QED
    BY <2>1, <2>2
<1>6. CASE UNCHANGED vars
  BY <1>6 DEF vars, presentationVars, chatVars, articleVars, generationVars, ChargeInv, ServedInv, Ended
<1>. QED
  BY <1>1, <1>2, <1>3, <1>4, <1>5, <1>6 DEF Next, Presentation

\* While nothing failed around it, a generation that was paid for and found its
\* project does not end before its files are in the user's reach or its price went
\* back (start_generation), unless they were made for a conversation that was
\* cleared meanwhile.
THEOREM ChargeHolds == Spec => ChargeIsServedOrReturned
<1>1. Init => ChargeInv
  BY DEF Init, GenerationInit, ChargeInv, ServedInv, Generations, Decks
<1>2. TypeOK /\ ChargeInv /\ [Next]_vars =>
        /\ ChargeInv'
        /\ [\A g \in charged :
                gpc[g] \notin {"start", "over"} /\ gpc'[g] = "over" =>
                    \/ g \in served' \cup refunded'
                    \/ gpc[g] # "refund" /\ Left
                    \/ faults' > 0]_vars
  BY ChargeStepKeeps DEF Ended
<1>. QED
  BY <1>1, <1>2, TypeCorrect, PTL DEF ChargeIsServedOrReturned, Spec

(***************************************************************************)
(* Free credits.                                                           *)
(***************************************************************************)
LEMMA CapsStepOfNext ==
    ASSUME TypeOK, ArticleTypes, CapsInv, [Next]_vars
    PROVE  CapsInv'
<1>1. \/ UNCHANGED creditVars \/ (\E us : StopAsking(us)) \/ Midnight
      \/ \E u \in Grantors : AskForCredit(u) \/ ReadCap(u) \/ InsertGrant(u)
  <2>1. CASE ArticleStep
    BY <2>1, ArticleStepWrites
  <2>2. CASE UNCHANGED articleVars \/ ArticleStops
    BY <2>2 DEF articleVars, ArticleStops
  <2>. QED
    BY <2>1, <2>2 DEF Next, Presentation, Article, BotRestarts, vars
<1>. QED
  BY <1>1, CapsStep DEF TypeOK, ArticleTypeOK

\* grant_free_credit's caps, three reads and an insert apart: whatever the
\* number of handlers, days and rows, a cap is passed by at most the calls that
\* were under way together, less the one it allows.
THEOREM CapsHold == Spec => []FreeCreditsWithinCaps
<1>1. Init => CapsInv
  BY CapsAtFirst DEF Init, ArticleInit
<1>2. TypeOK /\ ArticleTypes /\ CapsInv /\ [Next]_vars => CapsInv'
  BY CapsStepOfNext
<1>3. TypeOK /\ CapsInv => FreeCreditsWithinCaps
  BY CapsFollow DEF TypeOK, ArticleTypeOK, FreeCreditsWithinCaps, Beyond, LessOne
<1>. QED
  BY <1>1, <1>2, <1>3, TypeCorrect, PTL DEF Spec
=============================================================================
