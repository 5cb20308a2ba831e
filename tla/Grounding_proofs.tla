-------------------------- MODULE Grounding_proofs --------------------------
(***************************************************************************)
(* What holds of grounding for every thread, every answer of the model and *)
(* every policy.                                                           *)
(***************************************************************************)
EXTENDS Grounding, FiniteSetTheorems, WellFoundedInduction, TLAPS

\* The least-number principle, for the CHOOSE of Earliest: the intervals 1..i
\* are finite sets, and among finite sets there is a least one by inclusion.
LEMMA EarliestIsFirst ==
    ASSUME NEW S \in SUBSET Nat, S # {}
    PROVE  Earliest(S) \in S /\ \A j \in S : Earliest(S) <= j
<1> DEFINE Below == {1..i : i \in S}
<1>1. Below \subseteq FiniteSubsetsOf(Nat) /\ Below # {}
  <2>1. ASSUME NEW i \in S PROVE IsFiniteSet(1..i) /\ 1..i \subseteq Nat
    BY FS_Interval
  <2> QED BY <2>1 DEF FiniteSubsetsOf
<1>2. PICK T \in Below : \A U \in Below : <<U, T>> \notin StrictSubsetOrdering(Nat)
  <2> HIDE DEF Below
  <2> QED BY <1>1, FS_StrictSubsetOrderingWellFounded, WFMin
<1>3. PICK i \in S : T = 1..i
  BY <1>2
<1>4. ASSUME NEW j \in S PROVE i <= j
  <2> SUFFICES ASSUME j < i PROVE FALSE
    OBVIOUS
  <2>1. 1..j \subseteq 1..i /\ 1..j # 1..i
    <3>1. i \in 1..i /\ i \notin 1..j
      OBVIOUS
    <3> QED BY <3>1
  <2>2. <<1..j, T>> \in StrictSubsetOrdering(Nat)
    BY <1>3, <2>1 DEF StrictSubsetOrdering
  <2> QED BY <1>2, <2>2
<1> QED BY <1>4 DEF Earliest

\* A message that is found by its id is the first of the thread with that id.
LEMMA IndexedIsFirst ==
    ASSUME TypeOK, NEW id \in MessageIds, WithId(id) # {}
    PROVE  \E i \in DOMAIN thread :
             /\ Indexed(id) = thread[i]
             /\ thread[i].id = id
             /\ thread[i] \in Messages
             /\ \A j \in DOMAIN thread : thread[j].id = id => i <= j
<1>1. WithId(id) \in SUBSET Nat
  BY DEF TypeOK, WithId
<1>2. Earliest(WithId(id)) \in WithId(id) /\ \A j \in WithId(id) : Earliest(WithId(id)) <= j
  BY <1>1, EarliestIsFirst
<1>3. Earliest(WithId(id)) \in DOMAIN thread /\ thread[Earliest(WithId(id))].id = id
  BY <1>2 DEF WithId
<1>4. thread[Earliest(WithId(id))] \in Messages
  BY <1>3 DEF TypeOK
<1> QED BY <1>2, <1>3, <1>4 DEF Indexed, WithId

\* A quote that is kept is in the message.
LEMMA QuoteIsValid ==
    ASSUME TypeOK, NEW m \in Messages, NEW q \in Quotes \cup {NoQuote}
    PROVE  ValidQuote(m, q) \in m.says \cup {NoQuote} /\ ValidQuote(m, q) \in Quotes \cup {NoQuote}
BY DEF ValidQuote, Messages

\* Whoever an action item is given to was asked for, or is cited.
LEMMA AssigneeIsReal ==
    ASSUME TypeOK, NEW name, NEW cs \in Seq(Citations)
    PROVE  \/ Assignee(name, cs) = NoAuthor
           \/ /\ Assignee(name, cs) \in Authors
              /\ MayBeAssigned(Assignee(name, cs), name, cs)
<1>1. CASE Named(name) # {}
  <2> DEFINE i == Earliest(Named(name))
  <2>1. Named(name) \in SUBSET Nat
    BY DEF TypeOK, Named, FirstOfAuthor
  <2>2. i \in Named(name)
    BY <1>1, <2>1, EarliestIsFirst
  <2> HIDE DEF i
  <2>3. /\ i \in DOMAIN thread /\ thread[i].author.display = name
        /\ \A j \in DOMAIN thread : thread[j].author.id = thread[i].author.id => i <= j
    BY <2>2 DEF Named, FirstOfAuthor
  <2>4. thread[i].author \in Authors
    BY <2>3 DEF TypeOK, Messages
  <2>5. Assignee(name, cs) = thread[i].author
    BY <1>1 DEF Assignee, i
  <2> QED BY <2>3, <2>4, <2>5 DEF MayBeAssigned
<1>2. CASE Named(name) = {} /\ cs # <<>>
  <2>1. 1 \in DOMAIN cs /\ Assignee(name, cs) = cs[1].author
    BY <1>2 DEF Assignee
  <2>2. cs[1] \in Citations
    BY <2>1
  <2>3. cs[1].author \in Authors
    BY <2>2 DEF Citations
  <2> QED BY <2>1, <2>3 DEF MayBeAssigned
<1>3. CASE Named(name) = {} /\ cs = <<>>
  BY <1>3 DEF Assignee
<1> QED BY <1>1, <1>2, <1>3

-----------------------------------------------------------------------------
\* The inductive invariant: what is grounded of the current item is genuine too.
GroundInv ==
    /\ TypeOK
    /\ stage = "asking" => log = EmptyAnswer
    /\ AttributionIsReal
    /\ \A c \in DOMAIN grounded : IsGenuine(grounded[c])

LEMMA GroundInvInit == Init => GroundInv
<1> SUFFICES ASSUME Init PROVE GroundInv
  OBVIOUS
<1>1. TypeOK
  BY ThreadsAssumption DEF Init, TypeOK, EmptyAnswer, Reports
<1> QED BY <1>1 DEF Init, GroundInv, AttributionIsReal, EmptyAnswer

\* The citation an action is at.
LEMMA CitationType ==
    ASSUME TypeOK, AtCitation
    PROVE  /\ Raw.citations[cite].message_id \in MessageIds
           /\ Raw.citations[cite].quote \in Quotes \cup {NoQuote}
<1>1. section \in 1..3 /\ item \in DOMAIN answer[section]
  BY DEF TypeOK, AtCitation
<1>2. Raw \in RawItems
  BY <1>1 DEF TypeOK, Raw
<1>3. Raw.citations \in Seq(RawCitations) /\ cite \in DOMAIN Raw.citations
  BY <1>2 DEF RawItems, TypeOK, AtCitation
<1>4. Raw.citations[cite] \in RawCitations
  BY <1>3
<1> QED BY <1>4 DEF RawCitations

\* Counting keeps a report a report.
LEMMA CountingTypes ==
    ASSUME NEW r \in Reports
    PROVE  /\ [r EXCEPT !.hallucinated = @ + 1] \in Reports
           /\ [r EXCEPT !.invalid_quotes = @ + 1] \in Reports
           /\ [r EXCEPT !.items = @ + 1] \in Reports
BY DEF Reports

\* The loop variables keep their types from citation to citation ...
LEMMA NextCitationTypes ==
    ASSUME TypeOK, NextCitation, grounded' \in Seq(Citations),
           seen' \subseteq MessageIds \X (Quotes \cup {NoQuote}), report' \in Reports
    PROVE  TypeOK'
<1>1. cite' \in Nat \ {0}
  BY DEF TypeOK, NextCitation
<1> QED BY <1>1 DEF TypeOK, NextCitation

\* ... and from item to item.
LEMMA NextItemTypes ==
    ASSUME TypeOK, NextItem, log' \in [1..3 -> Seq(Items)], report' \in Reports
    PROVE  TypeOK'
<1>1. item' \in Nat \ {0} /\ cite' \in Nat \ {0}
  BY DEF TypeOK, NextItem
<1>2. grounded' \in Seq(Citations) /\ seen' \subseteq MessageIds \X (Quotes \cup {NoQuote})
  BY DEF NextItem
<1> QED BY <1>1, <1>2 DEF TypeOK, NextItem

LEMMA GroundInvStep == GroundInv /\ [Next]_vars => GroundInv'
<1> SUFFICES ASSUME GroundInv, [Next]_vars PROVE GroundInv'
  OBVIOUS
<1> USE DEF GroundInv
<1>1. CASE Ask
  <2>1. TypeOK'
    BY <1>1, AnswersAssumption DEF Ask, TypeOK, EmptyAnswer
  <2>2. log' = EmptyAnswer /\ stage' = "grounding" /\ UNCHANGED grounded
    BY <1>1 DEF Ask
  <2>3. AttributionIsReal'
    BY <2>2 DEF AttributionIsReal, EmptyAnswer
  <2> QED BY <1>1, <2>1, <2>2, <2>3 DEF Ask, IsGenuine
<1>2. CASE AskRaises
  BY <1>2 DEF AskRaises, TypeOK, AttributionIsReal, IsGenuine, MayBeAssigned
<1>3. CASE DropHallucinated
  <2>1. NextCitation /\ UNCHANGED <<grounded, seen>> /\ report' = [report EXCEPT !.hallucinated = @ + 1]
    BY <1>3 DEF DropHallucinated
  <2>2. TypeOK'
    BY <2>1, NextCitationTypes, CountingTypes DEF TypeOK
  <2> QED BY <2>1, <2>2 DEF NextCitation, AttributionIsReal, IsGenuine, MayBeAssigned
<1>4. CASE DropDuplicate
  <2>1. NextCitation /\ UNCHANGED <<grounded, seen>> /\ CountQuote
    BY <1>4 DEF DropDuplicate
  <2>2. report' \in Reports
    BY <2>1, CountingTypes DEF CountQuote, TypeOK
  <2>3. TypeOK'
    BY <2>1, <2>2, NextCitationTypes DEF TypeOK
  <2> QED BY <2>1, <2>3 DEF NextCitation, AttributionIsReal, IsGenuine, MayBeAssigned
<1>5. CASE KeepCitation
  <2> DEFINE id == Raw.citations[cite].message_id
             c0 == [message_id |-> Indexed(id).id, author |-> Indexed(id).author,
                    permalink |-> Indexed(id).permalink, quote |-> Quote]
  <2>1. id \in MessageIds /\ Raw.citations[cite].quote \in Quotes \cup {NoQuote} /\ WithId(id) # {}
    BY <1>5, CitationType DEF KeepCitation
  <2>2. PICK i \in DOMAIN thread :
             /\ Indexed(id) = thread[i]
             /\ thread[i].id = id
             /\ thread[i] \in Messages
             /\ \A j \in DOMAIN thread : thread[j].id = id => i <= j
    BY <2>1, IndexedIsFirst
  <2>3. Quote \in thread[i].says \cup {NoQuote} /\ Quote \in Quotes \cup {NoQuote}
    BY <2>1, <2>2, QuoteIsValid DEF Quote
  <2>4. c0 \in Citations /\ IsGenuine(c0)
    BY <2>2, <2>3 DEF Citations, IsGenuine, Messages
  <2>5. grounded' = Append(grounded, c0) /\ seen' = seen \cup {<<c0.message_id, c0.quote>>}
    BY <1>5 DEF KeepCitation
  <2>6. NextCitation /\ report' \in Reports
    <3>1. CountQuote /\ NextCitation
      BY <1>5 DEF KeepCitation
    <3> QED BY <3>1, CountingTypes DEF CountQuote, TypeOK
  <2> HIDE DEF c0
  <2>7. grounded' \in Seq(Citations) /\ \A c \in DOMAIN grounded' : IsGenuine(grounded'[c])
    BY <2>4, <2>5 DEF TypeOK
  <2>8. seen' \subseteq MessageIds \X (Quotes \cup {NoQuote})
    BY <2>4, <2>5 DEF TypeOK, Citations
  <2>9. TypeOK'
    BY <2>6, <2>7, <2>8, NextCitationTypes
  <2>10. UNCHANGED <<thread, log, answer, stage>>
    BY <2>6 DEF NextCitation
  <2>11. AttributionIsReal'
    BY <2>10 DEF AttributionIsReal, IsGenuine, MayBeAssigned
  <2>12. (\A c \in DOMAIN grounded : IsGenuine(grounded[c]))'
    BY <2>7, <2>10 DEF IsGenuine
  <2> QED BY <1>5, <2>9, <2>10, <2>11, <2>12 DEF KeepCitation, AtCitation
<1>6. CASE DropItem
  <2>1. NextItem /\ UNCHANGED log /\ report' = [report EXCEPT !.items = @ + 1]
    BY <1>6 DEF DropItem
  <2>2. TypeOK'
    BY <2>1, NextItemTypes, CountingTypes DEF TypeOK
  <2> QED BY <2>1, <2>2 DEF NextItem, AttributionIsReal, IsGenuine, MayBeAssigned
<1>7. CASE KeepItem
  <2> DEFINE a0 == IF Sections[section] = "action_items" THEN Assignee(Raw.assignee, grounded) ELSE NoAuthor
             i0 == [raw |-> item, citations |-> grounded, assignee |-> a0]
  <2>1. section \in 1..3 /\ log' = [log EXCEPT ![section] = Append(@, i0)]
    BY <1>7 DEF KeepItem, AtItemEnd, TypeOK
  <2>2. a0 = NoAuthor \/ (a0 \in Authors /\ MayBeAssigned(a0, Raw.assignee, grounded))
    BY AssigneeIsReal DEF TypeOK
  <2>3. i0 \in Items
    <3> HIDE DEF a0
    <3> QED BY <2>2 DEF TypeOK, Items
  <2>4. /\ i0.raw = item /\ i0.citations = grounded
        /\ i0.assignee # NoAuthor => MayBeAssigned(i0.assignee, Raw.assignee, grounded)
    <3> HIDE DEF a0
    <3> QED BY <2>2
  <2> HIDE DEF i0, a0
  <2>5. log' \in [1..3 -> Seq(Items)]
    BY <2>1, <2>3 DEF TypeOK
  <2>6. TypeOK'
    <3>1. NextItem /\ UNCHANGED report
      BY <1>7 DEF KeepItem
    <3> QED BY <2>5, <3>1, NextItemTypes DEF TypeOK
  <2>7. UNCHANGED <<thread, answer, stage>> /\ grounded' = <<>> /\ stage # "asking"
    BY <1>7 DEF KeepItem, AtItemEnd, NextItem
  <2>8. AttributionIsReal'
    <3> DEFINE IsReal(it, name) ==
                 /\ \A c \in DOMAIN it.citations : IsGenuine(it.citations[c])
                 /\ it.assignee # NoAuthor => MayBeAssigned(it.assignee, name, it.citations)
    <3>1. ASSUME NEW s \in 1..3, NEW k \in DOMAIN log'[s]
          PROVE  IsReal(log'[s][k], answer[s][log'[s][k].raw].assignee)
      <4>1. CASE s = section /\ k = Len(log[s]) + 1
        <5>1. log'[s][k] = i0
          BY <2>1, <2>3, <4>1 DEF TypeOK
        <5> QED BY <2>4, <4>1, <5>1 DEF Raw
      <4>2. CASE ~(s = section /\ k = Len(log[s]) + 1)
        <5>1. k \in DOMAIN log[s] /\ log'[s][k] = log[s][k]
          <6>1. CASE s = section
            <7>1. log'[s] = Append(log[s], i0) /\ log[s] \in Seq(Items)
              BY <2>1, <6>1 DEF TypeOK
            <7> QED BY <2>3, <4>2, <6>1, <7>1
          <6>2. CASE s # section
            BY <2>1, <6>2 DEF TypeOK
          <6> QED BY <6>1, <6>2
        <5> QED BY <5>1 DEF AttributionIsReal
      <4> QED BY <4>1, <4>2
    <3> QED BY <2>7, <3>1 DEF AttributionIsReal, IsGenuine, MayBeAssigned
  <2> QED BY <2>6, <2>7, <2>8
<1>8. CASE NextSection
  <2>1. TypeOK'
    BY <1>8 DEF NextSection, TypeOK
  <2> QED BY <1>8, <2>1 DEF NextSection, AttributionIsReal, IsGenuine, MayBeAssigned
<1>9. CASE Return
  BY <1>9 DEF Return, TypeOK, AttributionIsReal, IsGenuine, MayBeAssigned
<1>10. CASE UNCHANGED vars
  BY <1>10 DEF vars, TypeOK, AttributionIsReal, IsGenuine, MayBeAssigned
<1> QED
  BY <1>1, <1>2, <1>3, <1>4, <1>5, <1>6, <1>7, <1>8, <1>9, <1>10 DEF Next

LEMMA GroundInvAlways == Spec => []GroundInv
BY GroundInvInit, GroundInvStep, PTL DEF Spec

\* Grounding never leaves its type: no made-up string becomes an author, a link
\* or a quote, whatever the model answers.
THEOREM TypeCorrect == Spec => []TypeOK
<1>1. GroundInv => TypeOK
  BY DEF GroundInv
<1> QED BY <1>1, GroundInvAlways, PTL

\* No log ever holds an invented attribution: for every thread, every answer of
\* the model and every policy, every citation is the author, the link and the
\* words of a message of the thread.
THEOREM NothingInvented == Spec => []AttributionIsReal
<1>1. GroundInv => AttributionIsReal
  BY DEF GroundInv
<1> QED BY <1>1, GroundInvAlways, PTL

-----------------------------------------------------------------------------
(* What is kept is exactly what is supported.                              *)

\* What a citation of the answer points at, <<>> if at nothing.
Point(s, n, c) ==
    LET id == answer[s][n].citations[c].message_id
    IN  IF WithId(id) = {} THEN <<>>
        ELSE <<id, ValidQuote(Indexed(id), answer[s][n].citations[c].quote)>>

\* The points of the whole answer: grounding does not change them.
Points == [s \in 1..3 |-> [n \in DOMAIN answer[s] |->
             [c \in DOMAIN answer[s][n].citations |-> Point(s, n, c)]]]

PairOf(c) == <<c.message_id, c.quote>>

\* The citations cs are the points t of the positions X, each once.
IsEvidence(cs, t, X) ==
    /\ \A c \in X : t[c] # <<>> => \E d \in DOMAIN cs : PairOf(cs[d]) = t[c]
    /\ \A d \in DOMAIN cs : \E c \in X : t[c] = PairOf(cs[d])
    /\ \A c, d \in DOMAIN cs : PairOf(cs[c]) = PairOf(cs[d]) => c = d

\* An item with points t is to be kept.
IsWanted(drop, t) == drop => \E c \in DOMAIN t : t[c] # <<>>

\* The log l of a section is what is to be kept of its first p items.
IsLog(l, T, drop, p) ==
    /\ \A n \in 1..p : IsWanted(drop, T[n]) => \E k \in DOMAIN l : l[k].raw = n
    /\ \A k \in DOMAIN l :
         /\ l[k].raw \in 1..p
         /\ IsWanted(drop, T[l[k].raw])
         /\ IsEvidence(l[k].citations, T[l[k].raw], DOMAIN T[l[k].raw])
    /\ \A j, k \in DOMAIN l : j < k => l[j].raw < l[k].raw

\* A citation that resolves to nothing, or to what is there, adds nothing.
LEMMA EvidenceSkip ==
    ASSUME NEW cs, NEW t, NEW x \in Nat, IsEvidence(cs, t, 1..x),
           t[x + 1] = <<>> \/ \E d \in DOMAIN cs : PairOf(cs[d]) = t[x + 1]
    PROVE  IsEvidence(cs, t, 1..(x + 1))
BY DEF IsEvidence

\* A citation that resolves to something new is appended.
LEMMA EvidenceAppend ==
    ASSUME NEW cs \in Seq(Citations), NEW c0 \in Citations, NEW t, NEW x \in Nat,
           IsEvidence(cs, t, 1..x), t[x + 1] = PairOf(c0),
           \A d \in DOMAIN cs : PairOf(cs[d]) # PairOf(c0)
    PROVE  IsEvidence(Append(cs, c0), t, 1..(x + 1))
<1> DEFINE ds == Append(cs, c0)
<1>1. /\ DOMAIN ds = DOMAIN cs \cup {Len(cs) + 1}
      /\ ds[Len(cs) + 1] = c0
      /\ \A d \in DOMAIN cs : ds[d] = cs[d]
      /\ Len(cs) + 1 \in DOMAIN ds /\ Len(cs) + 1 \notin DOMAIN cs
  OBVIOUS
<1>2. 1..(x + 1) = (1..x) \cup {x + 1}
  OBVIOUS
<1> HIDE DEF ds
<1>3. ASSUME NEW c \in 1..(x + 1), t[c] # <<>> PROVE \E d \in DOMAIN ds : PairOf(ds[d]) = t[c]
  BY <1>1, <1>2, <1>3 DEF IsEvidence
<1>4. ASSUME NEW d \in DOMAIN ds PROVE \E c \in 1..(x + 1) : t[c] = PairOf(ds[d])
  BY <1>1, <1>2 DEF IsEvidence
<1>5. ASSUME NEW c \in DOMAIN ds, NEW d \in DOMAIN ds, PairOf(ds[c]) = PairOf(ds[d]) PROVE c = d
  BY <1>1, <1>5 DEF IsEvidence
<1>6. IsEvidence(ds, t, 1..(x + 1))
  BY <1>3, <1>4, <1>5 DEF IsEvidence
<1> QED BY <1>6 DEF ds

\* An item that is not to be kept leaves the log as it is.
LEMMA LogSkip ==
    ASSUME NEW l, NEW T, NEW drop, NEW p \in Nat, IsLog(l, T, drop, p),
           ~IsWanted(drop, T[p + 1])
    PROVE  IsLog(l, T, drop, p + 1)
<1>1. 1..(p + 1) = (1..p) \cup {p + 1}
  OBVIOUS
<1> QED BY <1>1 DEF IsLog

\* An item that is to be kept goes to the end of the log, with its evidence.
LEMMA LogAppend ==
    ASSUME NEW l \in Seq(Items), NEW i0 \in Items, NEW T, NEW drop, NEW p \in Nat,
           IsLog(l, T, drop, p), i0.raw = p + 1, IsWanted(drop, T[p + 1]),
           IsEvidence(i0.citations, T[p + 1], DOMAIN T[p + 1])
    PROVE  IsLog(Append(l, i0), T, drop, p + 1)
<1> DEFINE m == Append(l, i0)
<1>1. /\ DOMAIN m = DOMAIN l \cup {Len(l) + 1}
      /\ m[Len(l) + 1] = i0
      /\ \A k \in DOMAIN l : m[k] = l[k]
      /\ Len(l) \in Nat /\ DOMAIN l = 1..Len(l)
  OBVIOUS
<1>2. 1..(p + 1) = (1..p) \cup {p + 1}
  OBVIOUS
<1> HIDE DEF m
<1>3. ASSUME NEW n \in 1..(p + 1), IsWanted(drop, T[n]) PROVE \E k \in DOMAIN m : m[k].raw = n
  BY <1>1, <1>2, <1>3 DEF IsLog
<1>4. ASSUME NEW k \in DOMAIN m
      PROVE  /\ m[k].raw \in 1..(p + 1)
             /\ IsWanted(drop, T[m[k].raw])
             /\ IsEvidence(m[k].citations, T[m[k].raw], DOMAIN T[m[k].raw])
  BY <1>1, <1>2 DEF IsLog
<1>5. ASSUME NEW j \in DOMAIN m, NEW k \in DOMAIN m, j < k PROVE m[j].raw < m[k].raw
  <2>1. j \in DOMAIN l /\ m[j].raw \in 1..p
    BY <1>1, <1>5 DEF IsLog
  <2>2. CASE k \in DOMAIN l
    BY <1>1, <1>5, <2>1, <2>2 DEF IsLog
  <2>3. CASE k = Len(l) + 1
    BY <1>1, <2>1, <2>3
  <2> QED BY <1>1, <2>2, <2>3
<1>6. IsLog(m, T, drop, p + 1)
  BY <1>3, <1>4, <1>5 DEF IsLog
<1> QED BY <1>6 DEF m

-----------------------------------------------------------------------------
\* How many items of a section have been through grounding.
Processed(s) ==
    IF s < section THEN Len(answer[s]) ELSE IF s = section THEN item - 1 ELSE 0

\* An item is being grounded.
AtItem == section <= 3 /\ item <= Len(answer[section])

\* The log is right for the items before the current one ...
LogInv ==
    \A s \in 1..3 :
        /\ Processed(s) \in 0..Len(answer[s])
        /\ IsLog(log[s], Points[s], policy.drop_zero_citation_items, Processed(s))

\* ... and the citations of that one are right as far as they have been looked at.
CurrentInv ==
    /\ AtItem => /\ cite - 1 \in 0..Len(Raw.citations)
                 /\ IsEvidence(grounded, Points[section][item], 1..(cite - 1))
    /\ ~AtItem => cite = 1 /\ grounded = <<>> /\ seen = {}
    /\ \A c \in DOMAIN grounded : PairOf(grounded[c]) \in seen
    /\ \A p \in seen : \E c \in DOMAIN grounded : PairOf(grounded[c]) = p

StageInv ==
    /\ stage = "asking" =>
         section = 1 /\ item = 1 /\ answer = EmptyAnswer /\ log = EmptyAnswer
    /\ stage = "returned" => section = 4

\* The inductive invariant of the log.
KeptInv == GroundInv /\ LogInv /\ CurrentInv /\ StageInv

\* Grounding reads thread, policy and answer, and changes none of them.
LEMMA PointsSame ==
    ASSUME UNCHANGED <<thread, policy, answer>>
    PROVE  Points' = Points
BY DEF Points, Point, ValidQuote, Indexed, WithId

LEMMA KeptInvInit == Init => KeptInv
<1> SUFFICES ASSUME Init PROVE KeptInv
  OBVIOUS
<1>1. LogInv
  <2> SUFFICES ASSUME NEW s \in 1..3
               PROVE  /\ Processed(s) \in 0..Len(answer[s])
                      /\ IsLog(log[s], Points[s], policy.drop_zero_citation_items, Processed(s))
    BY DEF LogInv
  <2>1. Processed(s) = 0 /\ answer[s] = <<>> /\ log[s] = <<>>
    BY DEF Init, EmptyAnswer, Processed
  <2> QED BY <2>1 DEF IsLog
<1>2. CurrentInv
  BY DEF Init, EmptyAnswer, CurrentInv, AtItem
<1>3. StageInv
  BY DEF Init, EmptyAnswer, StageInv
<1> QED BY <1>1, <1>2, <1>3, GroundInvInit DEF KeptInv

\* How LogInv' is shown: section by section.
LEMMA LogInvNext ==
    ASSUME \A s \in 1..3 :
             /\ Processed(s)' \in 0..Len(answer'[s])
             /\ IsLog(log'[s], Points'[s], policy'.drop_zero_citation_items, Processed(s)')
    PROVE  LogInv'
BY DEF LogInv, IsLog, IsWanted, IsEvidence, PairOf

\* A section that a step does not touch.
LEMMA LogSame ==
    ASSUME LogInv, UNCHANGED <<thread, policy, answer>>, NEW s \in 1..3,
           log'[s] = log[s], Processed(s)' = Processed(s)
    PROVE  /\ Processed(s)' \in 0..Len(answer'[s])
           /\ IsLog(log'[s], Points'[s], policy'.drop_zero_citation_items, Processed(s)')
BY PointsSame DEF LogInv

\* No citation of the next item has been looked at.
LEMMA FreshItem ==
    ASSUME TypeOK', cite' = 1, grounded' = <<>>, seen' = {}
    PROVE  CurrentInv'
<1>1. AtItem' => cite' - 1 \in 0..Len(Raw'.citations)
  <2> SUFFICES ASSUME AtItem' PROVE cite' - 1 \in 0..Len(Raw'.citations)
    OBVIOUS
  <2>1. section' \in 1..3 /\ item' \in DOMAIN answer'[section']
    BY DEF AtItem, TypeOK
  <2>2. Raw' \in RawItems
    BY <2>1 DEF Raw, TypeOK
  <2>3. Len(Raw'.citations) \in Nat
    BY <2>2 DEF RawItems
  <2> QED BY <2>3
<1> QED BY <1>1 DEF CurrentInv, IsEvidence

\* The answer arrives; nothing of it has been grounded.
LEMMA KeptAsk == KeptInv /\ Ask => (LogInv /\ CurrentInv /\ StageInv)'
<1> SUFFICES ASSUME KeptInv, Ask PROVE (LogInv /\ CurrentInv /\ StageInv)'
  OBVIOUS
<1> USE DEF KeptInv
<1>1. /\ section = 1 /\ item = 1 /\ section' = 1 /\ item' = 1 /\ cite' = 1
      /\ grounded' = <<>> /\ seen' = {} /\ log' = EmptyAnswer
  BY DEF Ask, StageInv, CurrentInv, AtItem, EmptyAnswer
<1>2. answer' \in [1..3 -> Seq(RawItems)]
  BY GroundInvStep DEF Next, GroundInv, TypeOK
<1>3. LogInv'
  <2> SUFFICES ASSUME NEW s \in 1..3
               PROVE  /\ Processed(s)' \in 0..Len(answer'[s])
                      /\ IsLog(log'[s], Points'[s], policy'.drop_zero_citation_items, Processed(s)')
    BY LogInvNext
  <2>1. Processed(s)' = 0 /\ Len(answer'[s]) \in Nat /\ log'[s] = <<>>
    BY <1>1, <1>2 DEF Processed, EmptyAnswer
  <2> QED BY <2>1 DEF IsLog
<1>4. CurrentInv'
  BY <1>1, FreshItem, GroundInvStep DEF Next, GroundInv
<1>5. StageInv'
  BY DEF Ask, StageInv
<1> QED BY <1>3, <1>4, <1>5

\* The current item and its points.
LEMMA CurrentItem ==
    ASSUME KeptInv, AtItem
    PROVE  /\ section \in 1..3 /\ item \in 1..Len(answer[section])
           /\ Raw.citations \in Seq(RawCitations)
           /\ cite \in 1..(Len(Raw.citations) + 1)
           /\ DOMAIN Points[section][item] = 1..Len(Raw.citations)
           /\ \A c \in 1..Len(Raw.citations) :
                Points[section][item][c] = Point(section, item, c)
<1> USE DEF KeptInv, GroundInv
<1>1. section \in 1..3 /\ item \in 1..Len(answer[section])
  BY DEF AtItem, TypeOK
<1>2. item \in DOMAIN answer[section] /\ Raw \in RawItems
  BY <1>1 DEF TypeOK, Raw
<1>3. Raw.citations \in Seq(RawCitations)
  BY <1>2 DEF RawItems
<1>4. cite \in 1..(Len(Raw.citations) + 1)
  BY <1>3 DEF CurrentInv, TypeOK
<1>5. Points[section][item] = [c \in DOMAIN Raw.citations |-> Point(section, item, c)]
  BY <1>1, <1>2 DEF Points, Raw
<1> QED BY <1>1, <1>3, <1>4, <1>5

\* A citation is dropped or kept: the log stays, the evidence grows with it.
LEMMA KeptCitation ==
    ASSUME KeptInv, AtCitation, NextCitation,
           IsEvidence(grounded', Points[section][item], 1..cite),
           \A c \in DOMAIN grounded' : PairOf(grounded'[c]) \in seen',
           \A p \in seen' : \E c \in DOMAIN grounded' : PairOf(grounded'[c]) = p
    PROVE  (LogInv /\ CurrentInv /\ StageInv)'
<1> USE DEF KeptInv
<1>1. UNCHANGED <<thread, policy, stage, answer, section, item, log>> /\ cite' = cite + 1
  BY DEF NextCitation
<1>2. Points' = Points
  BY <1>1, PointsSame
<1>3. AtItem /\ AtItem' /\ cite <= Len(Raw.citations) /\ Raw' = Raw
  BY <1>1 DEF AtCitation, AtItem, Raw
<1>4. LogInv'
  <2>1. ASSUME NEW s \in 1..3 PROVE Processed(s)' = Processed(s) /\ log'[s] = log[s]
    BY <1>1 DEF Processed
  <2> QED BY <1>1, <2>1, LogSame, LogInvNext
<1>5. cite' - 1 \in 0..Len(Raw'.citations) /\ cite' - 1 = cite
  BY <1>1, <1>3, CurrentItem
<1>6. IsEvidence(grounded', Points'[section'][item'], 1..(cite' - 1))
  BY <1>1, <1>2, <1>5
<1>7. CurrentInv'
  BY <1>3, <1>5, <1>6 DEF CurrentInv, IsEvidence, PairOf
<1>8. StageInv'
  BY <1>1 DEF StageInv, AtCitation
<1> QED BY <1>4, <1>7, <1>8

\* The section and item of a citation, and what the citation points at.
LEMMA CurrentPoint ==
    ASSUME KeptInv, AtCitation
    PROVE  /\ AtItem /\ section \in 1..3 /\ cite - 1 \in Nat /\ (cite - 1) + 1 = cite
           /\ IsEvidence(grounded, Points[section][item], 1..(cite - 1))
           /\ Points[section][item][cite] =
                IF WithId(Raw.citations[cite].message_id) = {} THEN <<>>
                ELSE <<Raw.citations[cite].message_id, Quote>>
<1>1. AtItem /\ cite <= Len(Raw.citations)
  BY DEF AtCitation, AtItem
<1>2. cite \in 1..Len(Raw.citations) /\ section \in 1..3
  BY <1>1, CurrentItem
<1>3. Points[section][item][cite] = Point(section, item, cite)
  BY <1>1, <1>2, CurrentItem
<1> QED BY <1>1, <1>2, <1>3 DEF Point, Raw, Quote, KeptInv, CurrentInv

LEMMA KeptHallucinated == KeptInv /\ DropHallucinated => (LogInv /\ CurrentInv /\ StageInv)'
<1> SUFFICES ASSUME KeptInv, DropHallucinated PROVE (LogInv /\ CurrentInv /\ StageInv)'
  OBVIOUS
<1>1. AtCitation /\ NextCitation /\ UNCHANGED <<grounded, seen>>
  BY DEF DropHallucinated
<1>2. Points[section][item][cite] = <<>>
  BY <1>1, CurrentPoint DEF DropHallucinated
<1>3. IsEvidence(grounded, Points[section][item], 1..((cite - 1) + 1))
  BY <1>1, <1>2, CurrentPoint, EvidenceSkip
<1>4. IsEvidence(grounded', Points[section][item], 1..cite)
  BY <1>1, <1>3, CurrentPoint
<1>5. /\ \A c \in DOMAIN grounded : PairOf(grounded[c]) \in seen
      /\ \A p \in seen : \E c \in DOMAIN grounded : PairOf(grounded[c]) = p
  BY DEF KeptInv, CurrentInv
<1> QED BY <1>1, <1>4, <1>5, KeptCitation

LEMMA KeptDuplicate == KeptInv /\ DropDuplicate => (LogInv /\ CurrentInv /\ StageInv)'
<1> SUFFICES ASSUME KeptInv, DropDuplicate PROVE (LogInv /\ CurrentInv /\ StageInv)'
  OBVIOUS
<1>1. AtCitation /\ NextCitation /\ UNCHANGED <<grounded, seen>>
  BY DEF DropDuplicate
<1>2. /\ \A c \in DOMAIN grounded : PairOf(grounded[c]) \in seen
      /\ \A p \in seen : \E c \in DOMAIN grounded : PairOf(grounded[c]) = p
  BY DEF KeptInv, CurrentInv
<1>3. Points[section][item][cite] \in seen
  BY <1>1, CurrentPoint DEF DropDuplicate
<1>4. IsEvidence(grounded, Points[section][item], 1..((cite - 1) + 1))
  BY <1>1, <1>2, <1>3, CurrentPoint, EvidenceSkip
<1>5. IsEvidence(grounded', Points[section][item], 1..cite)
  BY <1>1, <1>4, CurrentPoint
<1> QED BY <1>1, <1>2, <1>5, KeptCitation

LEMMA KeptKeep == KeptInv /\ KeepCitation => (LogInv /\ CurrentInv /\ StageInv)'
<1> SUFFICES ASSUME KeptInv, KeepCitation PROVE (LogInv /\ CurrentInv /\ StageInv)'
  OBVIOUS
<1> DEFINE id == Raw.citations[cite].message_id
           c0 == [message_id |-> Indexed(id).id, author |-> Indexed(id).author,
                  permalink |-> Indexed(id).permalink, quote |-> Quote]
<1>1. /\ AtCitation /\ NextCitation /\ WithId(id) # {} /\ <<id, Quote>> \notin seen
      /\ grounded' = Append(grounded, c0) /\ seen' = seen \cup {<<Indexed(id).id, Quote>>}
  BY DEF KeepCitation
<1>2. TypeOK /\ grounded \in Seq(Citations) /\ id \in MessageIds
      /\ Raw.citations[cite].quote \in Quotes \cup {NoQuote}
  BY <1>1, CitationType DEF KeptInv, GroundInv, TypeOK
<1>3. PICK i \in DOMAIN thread :
         Indexed(id) = thread[i] /\ thread[i].id = id /\ thread[i] \in Messages
  BY <1>1, <1>2, IndexedIsFirst
<1>4. Quote \in Quotes \cup {NoQuote}
  BY <1>2, <1>3, QuoteIsValid DEF Quote
<1>5. c0 \in Citations /\ PairOf(c0) = <<id, Quote>>
  BY <1>3, <1>4 DEF Citations, Messages, PairOf
<1>6. seen' = seen \cup {PairOf(c0)} /\ PairOf(c0) \notin seen
  BY <1>1, <1>3, <1>5
<1>7. Points[section][item][cite] = PairOf(c0)
  BY <1>1, <1>5, CurrentPoint
<1> HIDE DEF c0, id
<1>8. /\ \A c \in DOMAIN grounded : PairOf(grounded[c]) \in seen
      /\ \A p \in seen : \E c \in DOMAIN grounded : PairOf(grounded[c]) = p
  BY DEF KeptInv, CurrentInv
<1>9. \A d \in DOMAIN grounded : PairOf(grounded[d]) # PairOf(c0)
  BY <1>6, <1>8
<1>10. IsEvidence(Append(grounded, c0), Points[section][item], 1..((cite - 1) + 1))
  BY <1>1, <1>2, <1>5, <1>7, <1>9, CurrentPoint, EvidenceAppend
<1>11. IsEvidence(grounded', Points[section][item], 1..cite)
  BY <1>1, <1>10, CurrentPoint
<1>12. /\ DOMAIN grounded' = DOMAIN grounded \cup {Len(grounded) + 1}
       /\ grounded'[Len(grounded) + 1] = c0
       /\ \A c \in DOMAIN grounded : grounded'[c] = grounded[c]
  BY <1>1, <1>2, <1>5
<1>13. \A c \in DOMAIN grounded' : PairOf(grounded'[c]) \in seen'
  BY <1>6, <1>8, <1>12
<1>14. \A p \in seen' : \E c \in DOMAIN grounded' : PairOf(grounded'[c]) = p
  BY <1>6, <1>8, <1>12
<1> QED BY <1>1, <1>11, <1>13, <1>14, KeptCitation

\* The item is dropped or kept, with all of its citations looked at.
LEMMA KeptNextItem ==
    ASSUME KeptInv, TypeOK', AtItemEnd, NextItem,
           \A s \in 1..3 : s # section => log'[s] = log[s],
           IsLog(log'[section], Points[section], policy.drop_zero_citation_items, item)
    PROVE  (LogInv /\ CurrentInv /\ StageInv)'
<1> USE DEF KeptInv
<1>1. /\ UNCHANGED <<thread, policy, stage, answer, section>> /\ item' = item + 1
      /\ cite' = 1 /\ grounded' = <<>> /\ seen' = {}
  BY DEF NextItem
<1>2. AtItem /\ section \in 1..3 /\ item \in 1..Len(answer[section])
  <2>1. AtItem
    BY DEF AtItemEnd, AtItem
  <2> QED BY <2>1, CurrentItem
<1>3. LogInv'
  <2> SUFFICES ASSUME NEW s \in 1..3
               PROVE  /\ Processed(s)' \in 0..Len(answer'[s])
                      /\ IsLog(log'[s], Points'[s], policy'.drop_zero_citation_items, Processed(s)')
    BY LogInvNext
  <2>1. CASE s = section
    <3>1. Processed(s)' = item
      BY <1>1, <1>2, <2>1 DEF Processed
    <3>2. Processed(s)' \in 0..Len(answer'[s])
      BY <1>1, <1>2, <2>1, <3>1
    <3> QED BY <1>1, <2>1, <3>1, <3>2, PointsSame
  <2>2. CASE s # section
    <3>1. Processed(s)' = Processed(s)
      BY <1>1, <1>2, <2>2 DEF Processed
    <3> QED BY <1>1, <2>2, <3>1, LogSame
  <2> QED BY <2>1, <2>2
<1>4. CurrentInv'
  BY <1>1, FreshItem
<1>5. StageInv'
  BY <1>1 DEF StageInv, AtItemEnd
<1> QED BY <1>3, <1>4, <1>5

\* What is known of an item when all its citations have been looked at.
LEMMA ItemEnd ==
    ASSUME KeptInv, AtItemEnd
    PROVE  /\ section \in 1..3 /\ item - 1 \in Nat /\ (item - 1) + 1 = item
           /\ IsLog(log[section], Points[section], policy.drop_zero_citation_items, item - 1)
           /\ IsEvidence(grounded, Points[section][item], DOMAIN Points[section][item])
           /\ IsWanted(policy.drop_zero_citation_items, Points[section][item])
                <=> (policy.drop_zero_citation_items => grounded # <<>>)
<1> USE DEF KeptInv
<1>1. AtItem
  BY DEF AtItemEnd, AtItem
<1>2. /\ section \in 1..3 /\ item \in 1..Len(answer[section])
      /\ cite \in 1..(Len(Raw.citations) + 1)
      /\ DOMAIN Points[section][item] = 1..Len(Raw.citations)
  BY <1>1, CurrentItem
<1>3. cite - 1 = Len(Raw.citations)
  BY <1>2 DEF AtItemEnd
<1>4. IsEvidence(grounded, Points[section][item], DOMAIN Points[section][item])
  BY <1>1, <1>2, <1>3 DEF CurrentInv
<1>5. Processed(section) = item - 1
  BY <1>2 DEF Processed
<1>6. IsLog(log[section], Points[section], policy.drop_zero_citation_items, item - 1)
  BY <1>2, <1>5 DEF LogInv
<1>7. (\E c \in DOMAIN Points[section][item] : Points[section][item][c] # <<>>)
        <=> (\E d \in DOMAIN grounded : TRUE)
  <2>1. ASSUME NEW d \in DOMAIN grounded
        PROVE  \E c \in DOMAIN Points[section][item] : Points[section][item][c] # <<>>
    <3>1. PICK c \in DOMAIN Points[section][item] : Points[section][item][c] = PairOf(grounded[d])
      BY <1>4 DEF IsEvidence
    <3>2. PairOf(grounded[d]) # <<>>
      BY DEF PairOf
    <3> QED BY <3>1, <3>2
  <2> QED BY <1>4, <2>1 DEF IsEvidence
<1>8. grounded \in Seq(Citations)
  BY DEF GroundInv, TypeOK
<1>9. (\E d \in DOMAIN grounded : TRUE) <=> grounded # <<>>
  <2>1. grounded # <<>> => 1 \in DOMAIN grounded
    BY <1>8
  <2>2. grounded = <<>> => DOMAIN grounded = {}
    OBVIOUS
  <2> QED BY <2>1, <2>2
<1>10. IsWanted(policy.drop_zero_citation_items, Points[section][item])
         <=> (policy.drop_zero_citation_items => grounded # <<>>)
  BY <1>7, <1>9 DEF IsWanted
<1>11. item \in Nat \ {0}
  BY DEF GroundInv, TypeOK
<1>12. item - 1 \in Nat /\ (item - 1) + 1 = item
  BY <1>11
<1> QED BY <1>2, <1>4, <1>6, <1>10, <1>12

LEMMA KeptDropItem == KeptInv /\ DropItem => (LogInv /\ CurrentInv /\ StageInv)'
<1> SUFFICES ASSUME KeptInv, DropItem PROVE (LogInv /\ CurrentInv /\ StageInv)'
  OBVIOUS
<1>1. AtItemEnd /\ NextItem /\ log' = log /\ grounded = <<>> /\ policy.drop_zero_citation_items
  BY DEF DropItem
<1>2. TypeOK'
  BY GroundInvStep DEF KeptInv, GroundInv, Next
<1>3. ~IsWanted(policy.drop_zero_citation_items, Points[section][(item - 1) + 1])
  BY <1>1, ItemEnd
<1>4. IsLog(log[section], Points[section], policy.drop_zero_citation_items, (item - 1) + 1)
  BY <1>1, <1>3, ItemEnd, LogSkip
<1>5. IsLog(log'[section], Points[section], policy.drop_zero_citation_items, item)
  BY <1>1, <1>4, ItemEnd
<1> QED BY <1>1, <1>2, <1>5, KeptNextItem

LEMMA KeptKeepItem == KeptInv /\ KeepItem => (LogInv /\ CurrentInv /\ StageInv)'
<1> SUFFICES ASSUME KeptInv, KeepItem PROVE (LogInv /\ CurrentInv /\ StageInv)'
  OBVIOUS
<1> DEFINE i0 == [raw |-> item, citations |-> grounded,
                  assignee |-> IF Sections[section] = "action_items"
                                 THEN Assignee(Raw.assignee, grounded) ELSE NoAuthor]
<1>1. /\ AtItemEnd /\ NextItem /\ log' = [log EXCEPT ![section] = Append(@, i0)]
      /\ policy.drop_zero_citation_items => grounded # <<>>
  BY DEF KeepItem
<1>2. TypeOK /\ TypeOK'
  BY GroundInvStep DEF KeptInv, GroundInv, Next
<1>3. i0.raw = item /\ i0.citations = grounded
  OBVIOUS
<1>4. i0 \in Items
  <2>1. \/ i0.assignee = NoAuthor
        \/ i0.assignee \in Authors
    BY <1>2, AssigneeIsReal DEF KeptInv, GroundInv, TypeOK
  <2> QED BY <1>2, <2>1 DEF TypeOK, Items
<1> HIDE DEF i0
<1>5. log[section] \in Seq(Items) /\ log'[section] = Append(log[section], i0)
  BY <1>1, <1>2, ItemEnd DEF TypeOK
<1>6. /\ item - 1 \in Nat /\ i0.raw = (item - 1) + 1
      /\ IsWanted(policy.drop_zero_citation_items, Points[section][(item - 1) + 1])
      /\ IsEvidence(i0.citations, Points[section][(item - 1) + 1], DOMAIN Points[section][(item - 1) + 1])
      /\ IsLog(log[section], Points[section], policy.drop_zero_citation_items, item - 1)
  BY <1>1, <1>3, ItemEnd
<1>7. IsLog(Append(log[section], i0), Points[section], policy.drop_zero_citation_items, (item - 1) + 1)
  BY <1>4, <1>5, <1>6, LogAppend
<1>8. IsLog(log'[section], Points[section], policy.drop_zero_citation_items, item)
  BY <1>1, <1>5, <1>7, ItemEnd
<1>9. \A s \in 1..3 : s # section => log'[s] = log[s]
  BY <1>1, <1>2 DEF TypeOK
<1> QED BY <1>1, <1>2, <1>8, <1>9, KeptNextItem

LEMMA KeptNextSection == KeptInv /\ NextSection => (LogInv /\ CurrentInv /\ StageInv)'
<1> SUFFICES ASSUME KeptInv, NextSection PROVE (LogInv /\ CurrentInv /\ StageInv)'
  OBVIOUS
<1> USE DEF KeptInv
<1>1. /\ UNCHANGED <<thread, policy, stage, answer, log>> /\ section' = section + 1 /\ item' = 1
      /\ UNCHANGED <<cite, grounded, seen>>
      /\ section <= 3 /\ item > Len(answer[section]) /\ stage = "grounding"
  BY DEF NextSection
<1>2. TypeOK /\ TypeOK'
  BY GroundInvStep DEF GroundInv, Next
<1>3. section \in 1..3 /\ item \in Nat /\ answer[section] \in Seq(RawItems)
  BY <1>1, <1>2 DEF TypeOK
<1>4. Len(answer[section]) \in Nat
  BY <1>3
<1>5. cite' = 1 /\ grounded' = <<>> /\ seen' = {}
  BY <1>1, <1>3, <1>4 DEF CurrentInv, AtItem
<1>6. \A s \in 1..3 : Processed(s)' = Processed(s)
  <2>1. Processed(section) \in 0..Len(answer[section])
    BY <1>3 DEF LogInv
  <2>2. Processed(section) = item - 1
    BY <1>3 DEF Processed
  <2>3. item - 1 = Len(answer[section])
    BY <1>1, <1>3, <1>4, <2>1, <2>2
  <2> QED BY <1>1, <1>3, <2>3 DEF Processed
<1>7. LogInv'
  BY <1>1, <1>6, LogSame, LogInvNext
<1>8. CurrentInv'
  BY <1>2, <1>5, FreshItem
<1>9. StageInv'
  BY <1>1 DEF StageInv
<1> QED BY <1>7, <1>8, <1>9

\* Steps that ground nothing.
LEMMA KeptFrame ==
    ASSUME KeptInv,
           UNCHANGED <<thread, policy, answer, section, item, cite, grounded, seen, log>>
    PROVE  (LogInv /\ CurrentInv)'
<1>1. \A s \in 1..3 : Processed(s)' = Processed(s)
  BY DEF Processed
<1>2. LogInv'
  BY <1>1, LogSame, LogInvNext DEF KeptInv
<1>3. Points' = Points
  BY PointsSame
<1>4. CurrentInv'
  BY <1>3 DEF KeptInv, CurrentInv, AtItem, Raw, IsEvidence, PairOf
<1> QED BY <1>2, <1>4

LEMMA KeptInvStep == KeptInv /\ [Next]_vars => KeptInv'
<1> SUFFICES ASSUME KeptInv, [Next]_vars PROVE (LogInv /\ CurrentInv /\ StageInv)'
  BY GroundInvStep DEF KeptInv
<1>1. CASE AskRaises
  <2>1. StageInv'
    BY <1>1 DEF AskRaises, StageInv
  <2> QED BY <1>1, <2>1, KeptFrame DEF AskRaises
<1>2. CASE Return
  <2>1. StageInv'
    BY <1>2 DEF Return, StageInv, KeptInv, GroundInv, TypeOK
  <2> QED BY <1>2, <2>1, KeptFrame DEF Return
<1>3. CASE UNCHANGED vars
  <2>1. StageInv'
    BY <1>3 DEF vars, StageInv, KeptInv
  <2> QED BY <1>3, <2>1, KeptFrame DEF vars
<1> QED
  BY <1>1, <1>2, <1>3, KeptAsk, KeptHallucinated, KeptDuplicate, KeptKeep, KeptDropItem,
     KeptKeepItem, KeptNextSection DEF Next

LEMMA KeptInvAlways == Spec => []KeptInv
BY KeptInvInit, KeptInvStep, PTL DEF Spec

\* A digest that returns has been through every item of the answer.
LEMMA ReturnedLog ==
    ASSUME KeptInv, stage = "returned", NEW s \in 1..3
    PROVE  /\ answer[s] \in Seq(RawItems)
           /\ IsLog(log[s], Points[s], policy.drop_zero_citation_items, Len(answer[s]))
<1>1. section = 4 /\ answer[s] \in Seq(RawItems)
  BY DEF KeptInv, StageInv, GroundInv, TypeOK
<1>2. Processed(s) = Len(answer[s])
  BY <1>1 DEF Processed
<1> QED BY <1>1, <1>2 DEF KeptInv, LogInv

\* The points of an item, in the words of the property.
LEMMA PointsOfItem ==
    ASSUME TypeOK, NEW s \in 1..3, NEW n \in 1..Len(answer[s])
    PROVE  /\ n \in DOMAIN answer[s]
           /\ DOMAIN Points[s][n] = DOMAIN answer[s][n].citations
           /\ \A c \in DOMAIN answer[s][n].citations : Points[s][n][c] = Point(s, n, c)
           /\ IsWanted(TRUE, Points[s][n]) <=> n \in Supported(s)
           /\ \A p : p \in Evidence(s, n) <=>
                  \E c \in DOMAIN Points[s][n] : p = Points[s][n][c] /\ Points[s][n][c] # <<>>
<1>1. n \in DOMAIN answer[s]
  BY DEF TypeOK
<1>2. Points[s][n] = [c \in DOMAIN answer[s][n].citations |-> Point(s, n, c)]
  BY <1>1 DEF Points
<1>3. \A c \in DOMAIN answer[s][n].citations :
        Point(s, n, c) # <<>> <=> WithId(answer[s][n].citations[c].message_id) # {}
  BY DEF Point
<1>4. IsWanted(TRUE, Points[s][n]) <=> n \in Supported(s)
  BY <1>1, <1>2, <1>3 DEF IsWanted, Supported
<1>5. ASSUME NEW p
      PROVE  p \in Evidence(s, n) <=>
               \E c \in DOMAIN Points[s][n] : p = Points[s][n][c] /\ Points[s][n][c] # <<>>
  BY <1>2, <1>3 DEF Evidence, Point
<1> QED BY <1>1, <1>2, <1>4, <1>5

LEMMA KeptInvSuffices == KeptInv => KeptIffSupported
<1> SUFFICES ASSUME KeptInv, stage = "returned", NEW s \in 1..3
             PROVE  /\ {log[s][k].raw : k \in DOMAIN log[s]} =
                         IF policy.drop_zero_citation_items THEN Supported(s) ELSE DOMAIN answer[s]
                    /\ \A j, k \in DOMAIN log[s] : j < k => log[s][j].raw < log[s][k].raw
                    /\ \A k \in DOMAIN log[s] :
                         LET cs == log[s][k].citations
                         IN  /\ {<<cs[c].message_id, cs[c].quote>> : c \in DOMAIN cs}
                                  = Evidence(s, log[s][k].raw)
                             /\ \A c, d \in DOMAIN cs :
                                  cs[c].message_id = cs[d].message_id /\ cs[c].quote = cs[d].quote => c = d
  BY DEF KeptIffSupported
<1>1. TypeOK /\ answer[s] \in Seq(RawItems)
      /\ IsLog(log[s], Points[s], policy.drop_zero_citation_items, Len(answer[s]))
  BY ReturnedLog DEF KeptInv, GroundInv
<1>2. DOMAIN answer[s] = 1..Len(answer[s]) /\ Supported(s) \subseteq DOMAIN answer[s]
  BY <1>1 DEF Supported
<1>3. \A n \in 1..Len(answer[s]) :
        IsWanted(policy.drop_zero_citation_items, Points[s][n]) <=>
          (policy.drop_zero_citation_items => n \in Supported(s))
  BY <1>1, PointsOfItem DEF IsWanted
<1>4. {log[s][k].raw : k \in DOMAIN log[s]} =
        IF policy.drop_zero_citation_items THEN Supported(s) ELSE DOMAIN answer[s]
  BY <1>1, <1>2, <1>3 DEF IsLog
<1>5. \A j, k \in DOMAIN log[s] : j < k => log[s][j].raw < log[s][k].raw
  BY <1>1 DEF IsLog
<1>6. ASSUME NEW k \in DOMAIN log[s]
      PROVE  LET cs == log[s][k].citations
             IN  /\ {<<cs[c].message_id, cs[c].quote>> : c \in DOMAIN cs} = Evidence(s, log[s][k].raw)
                 /\ \A c, d \in DOMAIN cs :
                      cs[c].message_id = cs[d].message_id /\ cs[c].quote = cs[d].quote => c = d
  <2> DEFINE cs == log[s][k].citations
             n == log[s][k].raw
  <2>1. n \in 1..Len(answer[s]) /\ IsEvidence(cs, Points[s][n], DOMAIN Points[s][n])
    BY <1>1 DEF IsLog
  <2> HIDE DEF cs, n
  <2>2. ASSUME NEW p
        PROVE  p \in Evidence(s, n) <=> \E d \in DOMAIN cs : p = PairOf(cs[d])
    <3>1. p \in Evidence(s, n) <=>
            \E c \in DOMAIN Points[s][n] : p = Points[s][n][c] /\ Points[s][n][c] # <<>>
      <4>1. \A q : q \in Evidence(s, n) <=>
              \E c \in DOMAIN Points[s][n] : q = Points[s][n][c] /\ Points[s][n][c] # <<>>
        BY <1>1, <2>1, PointsOfItem, Zenon
      <4> QED BY <4>1, Zenon
    <3>2. \A d \in DOMAIN cs : PairOf(cs[d]) # <<>>
      BY DEF PairOf
    <3> QED BY <2>1, <3>1, <3>2 DEF IsEvidence
  <2>3. {<<cs[c].message_id, cs[c].quote>> : c \in DOMAIN cs} = Evidence(s, n)
    BY <2>2 DEF PairOf
  <2>4. \A c, d \in DOMAIN cs :
          cs[c].message_id = cs[d].message_id /\ cs[c].quote = cs[d].quote => c = d
    BY <2>1 DEF IsEvidence, PairOf
  <2> QED BY <2>3, <2>4 DEF cs, n
<1> QED BY <1>4, <1>5, <1>6

\* Grounding prunes nothing but the unsupported: for every thread, answer and
\* policy the log has exactly the items and the evidence that resolve, in order
\* and without duplicates.
THEOREM NothingGenuineLost == Spec => []KeptIffSupported
BY KeptInvAlways, KeptInvSuffices, PTL

-----------------------------------------------------------------------------
(* The report counts every drop.                                           *)

\* The loops have passed a citation.
Passed(s, n, c) ==
    \/ s < section
    \/ s = section /\ n < item
    \/ s = section /\ n = item /\ c < cite

Visited == {p \in AllCitations : Passed(p[1], p[2], p[3])}

CitationAt(p) == answer[p[1]][p[2]].citations[p[3]]

Resolves(p) == WithId(CitationAt(p).message_id) # {}

HasBadQuote(p) == IsFabricated(Indexed(CitationAt(p).message_id), CitationAt(p).quote)

MadeUp == {p \in Visited : ~Resolves(p)}

Misquoted == {p \in Visited : Resolves(p) /\ HasBadQuote(p)}

\* How many items of a section are in the log.
Logged(s) == Len(log[s])

\* The counters are right for what the loops have passed.
CountInv ==
    /\ stage = "asking" =>
         report.hallucinated = 0 /\ report.invalid_quotes = 0 /\ report.items = 0
    /\ IsFiniteSet(MadeUp) /\ report.hallucinated = Cardinality(MadeUp)
    /\ IsFiniteSet(Misquoted) /\ report.invalid_quotes = Cardinality(Misquoted)
    /\ report.items + Logged(1) + Logged(2) + Logged(3) =
         Processed(1) + Processed(2) + Processed(3)

\* A citation of the answer is a section, an item and a position.
LEMMA CitationTriple ==
    ASSUME TypeOK, NEW p \in AllCitations
    PROVE  /\ p = <<p[1], p[2], p[3]>>
           /\ p[1] \in 1..3 /\ p[2] \in 1..Len(answer[p[1]])
           /\ p[3] \in DOMAIN answer[p[1]][p[2]].citations /\ p[3] \in Nat \ {0}
           /\ CitationAt(p) \in RawCitations
<1>1. PICK s \in 1..3 : \E n \in DOMAIN answer[s] :
        \E c \in DOMAIN answer[s][n].citations : p = <<s, n, c>>
  BY DEF AllCitations, CitationsAt
<1>n. PICK n \in DOMAIN answer[s] : \E c \in DOMAIN answer[s][n].citations : p = <<s, n, c>>
  BY <1>1
<1>c. PICK c \in DOMAIN answer[s][n].citations : p = <<s, n, c>>
  BY <1>n
<1>2. answer[s] \in Seq(RawItems)
  BY DEF TypeOK
<1>3. n \in 1..Len(answer[s]) /\ answer[s][n] \in RawItems
  BY <1>2
<1>4. answer[s][n].citations \in Seq(RawCitations)
  BY <1>3 DEF RawItems
<1>5. c \in Nat \ {0} /\ answer[s][n].citations[c] \in RawCitations
  BY <1>4
<1> QED BY <1>c, <1>3, <1>5 DEF CitationAt

\* Grounding a citation passes it, and only it.
LEMMA PassesCitation ==
    ASSUME KeptInv, AtCitation, NextCitation
    PROVE  /\ <<section, item, cite>> \notin Visited
           /\ Visited' = Visited \cup {<<section, item, cite>>}
           /\ CitationAt(<<section, item, cite>>) = Raw.citations[cite]
<1>1. /\ TypeOK /\ section \in 1..3 /\ item \in 1..Len(answer[section])
      /\ cite \in 1..Len(Raw.citations) /\ Raw.citations \in Seq(RawCitations)
  <2>1. AtItem /\ cite <= Len(Raw.citations)
    BY DEF AtCitation, AtItem
  <2> QED BY <2>1, CurrentItem DEF KeptInv, GroundInv
<1>2. answer[section] \in Seq(RawItems)
  BY <1>1 DEF TypeOK
<1>3. /\ cite' = cite + 1 /\ AllCitations' = AllCitations
      /\ section' = section /\ item' = item
  BY DEF NextCitation, AllCitations, CitationsAt
<1>4. <<section, item, cite>> \in AllCitations
  <2>1. item \in DOMAIN answer[section] /\ cite \in DOMAIN answer[section][item].citations
    BY <1>1, <1>2 DEF Raw
  <2> QED BY <1>1, <2>1 DEF AllCitations, CitationsAt
<1>5. ASSUME NEW p \in AllCitations
      PROVE  Passed(p[1], p[2], p[3])'
               <=> Passed(p[1], p[2], p[3]) \/ p = <<section, item, cite>>
  <2>1. p = <<p[1], p[2], p[3]>> /\ p[1] \in Nat /\ p[2] \in Nat /\ p[3] \in Nat
    BY <1>1, CitationTriple
  <2>2. section \in Nat /\ item \in Nat /\ cite \in Nat
    BY <1>1
  <2>3. p = <<section, item, cite>> <=> p[1] = section /\ p[2] = item /\ p[3] = cite
    BY <2>1
  <2> QED BY <1>3, <2>1, <2>2, <2>3 DEF Passed
<1>6. ~Passed(section, item, cite)
  BY <1>1 DEF Passed
<1> QED BY <1>3, <1>4, <1>5, <1>6 DEF Visited, CitationAt, Raw

\* What a citation resolves to does not change while grounding.
LEMMA SameCitations ==
    ASSUME UNCHANGED <<thread, policy, answer>>
    PROVE  /\ AllCitations' = AllCitations
           /\ \A p : Resolves(p)' = Resolves(p) /\ HasBadQuote(p)' = HasBadQuote(p)
BY DEF AllCitations, CitationsAt, Resolves, HasBadQuote, CitationAt, WithId, IsFabricated, Indexed

\* A citation is counted once, in the counter it belongs to.
LEMMA CountCitation ==
    ASSUME KeptInv, CountInv, AtCitation, NextCitation, report' \in Reports,
           report'.hallucinated = report.hallucinated
             + IF WithId(Raw.citations[cite].message_id) = {} THEN 1 ELSE 0,
           report'.invalid_quotes = report.invalid_quotes
             + IF /\ WithId(Raw.citations[cite].message_id) # {}
                  /\ IsFabricated(Indexed(Raw.citations[cite].message_id),
                                  Raw.citations[cite].quote)
               THEN 1 ELSE 0,
           report'.items = report.items
    PROVE  CountInv'
<1> DEFINE here == <<section, item, cite>>
<1>1. UNCHANGED <<thread, policy, stage, answer, section, item, log>> /\ stage = "grounding"
  BY DEF NextCitation, AtCitation
<1>2. /\ here \notin Visited /\ Visited' = Visited \cup {here}
      /\ Resolves(here) <=> WithId(Raw.citations[cite].message_id) # {}
      /\ HasBadQuote(here) <=> IsFabricated(Indexed(Raw.citations[cite].message_id),
                                            Raw.citations[cite].quote)
  BY PassesCitation DEF Resolves, HasBadQuote
<1>3. \A p : Resolves(p)' = Resolves(p) /\ HasBadQuote(p)' = HasBadQuote(p)
  BY <1>1, SameCitations
<1>4. report.hallucinated \in Nat /\ report.invalid_quotes \in Nat
  BY DEF KeptInv, GroundInv, TypeOK, Reports
<1> HIDE DEF here
<1>5. IsFiniteSet(MadeUp') /\ report'.hallucinated = Cardinality(MadeUp')
  <2>1. CASE Resolves(here)
    <3>1. MadeUp' = MadeUp
      BY <1>2, <1>3, <2>1 DEF MadeUp
    <3> QED BY <1>2, <1>4, <2>1, <3>1 DEF CountInv
  <2>2. CASE ~Resolves(here)
    <3>1. MadeUp' = MadeUp \cup {here} /\ here \notin MadeUp
      BY <1>2, <1>3, <2>2 DEF MadeUp
    <3>2. IsFiniteSet(MadeUp')  /\ Cardinality(MadeUp') = Cardinality(MadeUp) + 1
      BY <3>1, FS_AddElement DEF CountInv
    <3> QED BY <1>2, <2>2, <3>2 DEF CountInv
  <2> QED BY <2>1, <2>2
<1>6. IsFiniteSet(Misquoted') /\ report'.invalid_quotes = Cardinality(Misquoted')
  <2>1. CASE ~(Resolves(here) /\ HasBadQuote(here))
    <3>1. Misquoted' = Misquoted
      BY <1>2, <1>3, <2>1 DEF Misquoted
    <3> QED BY <1>2, <1>4, <2>1, <3>1 DEF CountInv
  <2>2. CASE Resolves(here) /\ HasBadQuote(here)
    <3>1. Misquoted' = Misquoted \cup {here} /\ here \notin Misquoted
      BY <1>2, <1>3, <2>2 DEF Misquoted
    <3>2. IsFiniteSet(Misquoted') /\ Cardinality(Misquoted') = Cardinality(Misquoted) + 1
      BY <3>1, FS_AddElement DEF CountInv
    <3> QED BY <1>2, <2>2, <3>2 DEF CountInv
  <2> QED BY <2>1, <2>2
<1>7. Processed(1)' = Processed(1) /\ Processed(2)' = Processed(2) /\ Processed(3)' = Processed(3)
  BY <1>1 DEF Processed
<1> QED BY <1>1, <1>5, <1>6, <1>7 DEF CountInv, Logged

\* A step that passes no citation keeps the counts of citations.
LEMMA CountsStay ==
    ASSUME CountInv, UNCHANGED <<thread, policy, answer>>, Visited' = Visited,
           report'.hallucinated = report.hallucinated,
           report'.invalid_quotes = report.invalid_quotes
    PROVE  /\ IsFiniteSet(MadeUp') /\ report'.hallucinated = Cardinality(MadeUp')
           /\ IsFiniteSet(Misquoted') /\ report'.invalid_quotes = Cardinality(Misquoted')
<1>1. MadeUp' = MadeUp /\ Misquoted' = Misquoted
  BY SameCitations DEF MadeUp, Misquoted
<1> QED BY <1>1 DEF CountInv

\* An item that is done was passed with all its citations.
LEMMA PassesItem ==
    ASSUME KeptInv, AtItemEnd, NextItem
    PROVE  /\ Visited' = Visited
           /\ \A s \in 1..3 : Processed(s)' = Processed(s) + IF s = section THEN 1 ELSE 0
<1>1. /\ TypeOK /\ AtItem /\ section \in 1..3 /\ item \in 1..Len(answer[section])
      /\ Raw.citations \in Seq(RawCitations) /\ cite > Len(Raw.citations)
  BY CurrentItem DEF AtItemEnd, AtItem, KeptInv, GroundInv
<1>2. /\ item' = item + 1 /\ cite' = 1 /\ section' = section /\ answer' = answer
      /\ AllCitations' = AllCitations
  BY DEF NextItem, AllCitations, CitationsAt
<1>3. ASSUME NEW p \in AllCitations
      PROVE  Passed(p[1], p[2], p[3])' <=> Passed(p[1], p[2], p[3])
  <2>1. /\ p[1] \in Nat /\ p[2] \in Nat /\ p[3] \in Nat \ {0}
        /\ p[3] \in DOMAIN answer[p[1]][p[2]].citations
    BY <1>1, CitationTriple
  <2>2. section \in Nat /\ item \in Nat /\ cite \in Nat
    BY <1>1 DEF TypeOK
  <2>3. p[1] = section /\ p[2] = item => p[3] < cite
    <3>1. ASSUME p[1] = section, p[2] = item PROVE p[3] < cite
      <4>1. p[3] \in 1..Len(Raw.citations)
        BY <1>1, <2>1, <3>1 DEF Raw
      <4> QED BY <1>1, <2>2, <4>1
    <3> QED BY <3>1
  <2> QED BY <1>2, <2>1, <2>2, <2>3 DEF Passed
<1>4. \A s \in 1..3 : Processed(s)' = Processed(s) + IF s = section THEN 1 ELSE 0
  <2> SUFFICES ASSUME NEW s \in 1..3
               PROVE  Processed(s)' = Processed(s) + IF s = section THEN 1 ELSE 0
    OBVIOUS
  <2>1. item \in Nat /\ item' = item + 1 /\ answer'[s] = answer[s]
    BY <1>1, <1>2
  <2>2. CASE s < section
    <3>1. answer[s] \in Seq(RawItems)
      BY <1>1 DEF TypeOK
    <3>2. Len(answer[s]) \in Nat
      BY <3>1
    <3>3. Processed(s)' = Len(answer[s]) /\ Processed(s) = Len(answer[s]) /\ s # section
      BY <1>1, <1>2, <2>2 DEF Processed
    <3> QED BY <3>2, <3>3
  <2>3. CASE s = section
    <3>1. Processed(s)' = item' - 1 /\ Processed(s) = item - 1
      BY <1>1, <1>2, <2>3 DEF Processed
    <3> QED BY <2>1, <2>3, <3>1
  <2>4. CASE s > section
    <3>1. Processed(s)' = 0 /\ Processed(s) = 0 /\ s # section
      BY <1>1, <1>2, <2>4 DEF Processed
    <3> QED BY <3>1
  <2> QED BY <1>1, <2>2, <2>3, <2>4
<1> QED BY <1>2, <1>3, <1>4 DEF Visited

\* A section that is done was passed with all its items.
LEMMA PassesSection ==
    ASSUME KeptInv, NextSection
    PROVE  /\ Visited' = Visited
           /\ \A s \in 1..3 : Processed(s)' = Processed(s)
<1>1. /\ TypeOK /\ section \in 1..3 /\ item > Len(answer[section]) /\ cite = 1
      /\ section' = section + 1 /\ item' = 1 /\ cite' = cite /\ answer' = answer
      /\ AllCitations' = AllCitations
  BY DEF KeptInv, GroundInv, TypeOK, CurrentInv, AtItem, NextSection, AllCitations, CitationsAt
<1>2. ASSUME NEW p \in AllCitations
      PROVE  Passed(p[1], p[2], p[3])' <=> Passed(p[1], p[2], p[3])
  <2>1. /\ p[1] \in 1..3 /\ p[2] \in 1..Len(answer[p[1]]) /\ p[3] \in Nat \ {0}
    BY <1>1, CitationTriple
  <2>2. answer[p[1]] \in Seq(RawItems) /\ item \in Nat
    BY <1>1, <2>1 DEF TypeOK
  <2>3. p[1] = section => p[2] < item
    BY <1>1, <2>1, <2>2
  <2> QED BY <1>1, <2>1, <2>2, <2>3 DEF Passed
<1>3. ASSUME NEW s \in 1..3 PROVE Processed(s)' = Processed(s)
  <2>1. Processed(s) \in 0..Len(answer[s]) /\ answer[s] \in Seq(RawItems) /\ item \in Nat
    BY <1>1 DEF KeptInv, LogInv, TypeOK
  <2>2. CASE s = section
    BY <1>1, <2>1, <2>2 DEF Processed
  <2>3. CASE s # section
    BY <1>1, <2>1, <2>3 DEF Processed
  <2> QED BY <2>2, <2>3
<1> QED BY <1>1, <1>2, <1>3 DEF Visited

\* An item is counted in the first of four numbers, or in one of the others.
LEMMA CountedEither ==
    ASSUME NEW n \in Nat, NEW a \in Nat, NEW b \in Nat, NEW c \in Nat
    PROVE  /\ (n + 1) + a + b + c = (n + a + b + c) + 1
           /\ \A x, y, z \in Nat :
                x + y + z = a + b + c + 1 => n + x + y + z = (n + a + b + c) + 1
OBVIOUS

\* Every step keeps the counters right.
LEMMA CountStep == KeptInv /\ CountInv /\ [Next]_vars => CountInv'
<1> SUFFICES ASSUME KeptInv, CountInv, [Next]_vars PROVE CountInv'
  OBVIOUS
<1>0. /\ TypeOK /\ TypeOK' /\ report \in Reports
      /\ report.hallucinated \in Nat /\ report.invalid_quotes \in Nat /\ report.items \in Nat
      /\ \A s \in 1..3 : log[s] \in Seq(Items) /\ Logged(s) \in Nat
      /\ \A s \in 1..3 : Processed(s) \in Nat
  <2>1. TypeOK /\ TypeOK'
    BY GroundInvStep DEF KeptInv, GroundInv
  <2>2. \A s \in 1..3 : log[s] \in Seq(Items) /\ answer[s] \in Seq(RawItems)
    BY <2>1 DEF TypeOK
  <2>3. \A s \in 1..3 : Processed(s) \in 0..Len(answer[s])
    BY DEF KeptInv, LogInv
  <2>4. report \in Reports
    BY <2>1 DEF TypeOK
  <2>5. \A s \in 1..3 : Len(log[s]) \in Nat /\ Len(answer[s]) \in Nat
    BY <2>2
  <2>6. \A s \in 1..3 : Processed(s) \in Nat
    BY <2>3, <2>5
  <2>7. report.hallucinated \in Nat /\ report.invalid_quotes \in Nat /\ report.items \in Nat
    BY <2>4 DEF Reports
  <2> QED BY <2>1, <2>2, <2>4, <2>5, <2>6, <2>7 DEF Logged
<1>a. /\ report.items \in Nat
      /\ Logged(1) \in Nat /\ Logged(2) \in Nat /\ Logged(3) \in Nat
      /\ Processed(1) \in Nat /\ Processed(2) \in Nat /\ Processed(3) \in Nat
  BY <1>0
<1>1. CASE Ask
  <2>1. /\ section' = 1 /\ item' = 1 /\ cite' = 1 /\ log' = EmptyAnswer
        /\ report' = report /\ stage' = "grounding"
        /\ report.hallucinated = 0 /\ report.invalid_quotes = 0 /\ report.items = 0
    BY <1>1 DEF Ask, KeptInv, StageInv, CountInv, CurrentInv, AtItem, EmptyAnswer
  <2>2. Visited' = {}
    <3> SUFFICES ASSUME NEW p \in AllCitations' PROVE ~Passed(p[1], p[2], p[3])'
      BY DEF Visited
    <3>1. (p[1] \in 1..3 /\ p[2] \in 1..Len(answer'[p[1]]) /\ p[3] \in Nat \ {0})
      <4>1. PICK s \in 1..3 : \E n \in DOMAIN answer'[s] :
              \E c \in DOMAIN answer'[s][n].citations : p = <<s, n, c>>
        BY DEF AllCitations, CitationsAt
      <4>n. PICK n \in DOMAIN answer'[s] :
              \E c \in DOMAIN answer'[s][n].citations : p = <<s, n, c>>
        BY <4>1
      <4>c. PICK c \in DOMAIN answer'[s][n].citations : p = <<s, n, c>>
        BY <4>n
      <4>2. answer'[s] \in Seq(RawItems)
        BY <1>0 DEF TypeOK
      <4>3. n \in 1..Len(answer'[s]) /\ answer'[s][n] \in RawItems
        BY <4>2
      <4>4. answer'[s][n].citations \in Seq(RawCitations)
        BY <4>3 DEF RawItems
      <4>5. c \in Nat \ {0}
        BY <4>4
      <4> QED BY <4>c, <4>3, <4>5
    <3> QED BY <2>1, <3>1 DEF Passed
  <2>3. MadeUp' = {} /\ Misquoted' = {}
    BY <2>2 DEF MadeUp, Misquoted
  <2>4. IsFiniteSet({}) /\ Cardinality({}) = 0
    BY FS_EmptySet
  <2>5. Processed(1)' = 0 /\ Processed(2)' = 0 /\ Processed(3)' = 0
    BY <2>1 DEF Processed
  <2>6. Logged(1)' = 0 /\ Logged(2)' = 0 /\ Logged(3)' = 0
    BY <2>1 DEF EmptyAnswer, Logged
  <2> QED BY <2>1, <2>3, <2>4, <2>5, <2>6 DEF CountInv
<1>2. CASE DropHallucinated
  <2>1. /\ AtCitation /\ NextCitation /\ WithId(Raw.citations[cite].message_id) = {}
        /\ report' = [report EXCEPT !.hallucinated = @ + 1]
    BY <1>2 DEF DropHallucinated
  <2>2. /\ report' \in Reports /\ report'.hallucinated = report.hallucinated + 1
        /\ report'.invalid_quotes = report.invalid_quotes /\ report'.items = report.items
    <3>1. report \in Reports /\ report' = [report EXCEPT !.hallucinated = @ + 1]
      BY <1>0, <2>1
    <3>2. report' \in Reports
      BY <3>1, CountingTypes
    <3> QED BY <3>1, <3>2 DEF Reports
  <2>3. report'.invalid_quotes = report.invalid_quotes + 0
    BY <1>0, <2>2
  <2> QED BY <2>1, <2>2, <2>3, CountCitation
<1>3. CASE DropDuplicate \/ KeepCitation
  <2>1. AtCitation /\ NextCitation /\ CountQuote /\ WithId(Raw.citations[cite].message_id) # {}
    BY <1>3 DEF DropDuplicate, KeepCitation
  <2>2. report' \in Reports
    BY <1>0 DEF TypeOK
  <2> QED BY <1>0, <2>1, <2>2, CountCitation DEF CountQuote, Reports
<1>4. CASE DropItem
  <2>1. /\ AtItemEnd /\ NextItem /\ log' = log /\ report'.items = report.items + 1
        /\ report'.hallucinated = report.hallucinated
        /\ report'.invalid_quotes = report.invalid_quotes
        /\ UNCHANGED <<thread, policy, answer, stage>> /\ stage = "grounding"
    BY <1>0, <1>4 DEF DropItem, Reports, NextItem, AtItemEnd
  <2>2. section \in 1..3
    BY <1>0, <2>1 DEF AtItemEnd, TypeOK
  <2>3. Processed(1)' + Processed(2)' + Processed(3)' = Processed(1) + Processed(2) + Processed(3) + 1
    <3>1. /\ Processed(1)' = Processed(1) + IF 1 = section THEN 1 ELSE 0
          /\ Processed(2)' = Processed(2) + IF 2 = section THEN 1 ELSE 0
          /\ Processed(3)' = Processed(3) + IF 3 = section THEN 1 ELSE 0
      BY <2>1, PassesItem
    <3>2. CASE section = 1
      BY <1>a, <3>1, <3>2
    <3>3. CASE section = 2
      BY <1>a, <3>1, <3>3
    <3>4. CASE section = 3
      BY <1>a, <3>1, <3>4
    <3> QED BY <2>2, <3>2, <3>3, <3>4
  <2>4. /\ IsFiniteSet(MadeUp') /\ report'.hallucinated = Cardinality(MadeUp')
        /\ IsFiniteSet(Misquoted') /\ report'.invalid_quotes = Cardinality(Misquoted')
    BY <2>1, PassesItem, CountsStay
  <2>5. report.items + Logged(1) + Logged(2) + Logged(3) =
          Processed(1) + Processed(2) + Processed(3)
    BY DEF CountInv
  <2>6. report'.items + Logged(1)' + Logged(2)' + Logged(3)' =
          Processed(1)' + Processed(2)' + Processed(3)'
    <3>1. (report.items + 1) + Logged(1) + Logged(2) + Logged(3) =
            (report.items + Logged(1) + Logged(2) + Logged(3)) + 1
      BY <1>a, CountedEither
    <3>2. Logged(1)' = Logged(1) /\ Logged(2)' = Logged(2) /\ Logged(3)' = Logged(3)
      BY <2>1 DEF Logged
    <3> QED BY <2>1, <2>3, <2>5, <3>1, <3>2
  <2> QED BY <2>1, <2>4, <2>6 DEF CountInv
<1>5. CASE KeepItem
  <2>1. /\ AtItemEnd /\ NextItem /\ report' = report
        /\ UNCHANGED <<thread, policy, answer, stage>> /\ stage = "grounding"
    BY <1>5 DEF KeepItem, NextItem, AtItemEnd
  <2>2. section \in 1..3
    BY <1>0, <2>1 DEF AtItemEnd, TypeOK
  <2>3. PICK kept : log' = [log EXCEPT ![section] = Append(@, kept)]
    BY <1>5 DEF KeepItem
  <2>4. \A s \in 1..3 : Logged(s)' = Logged(s) + IF s = section THEN 1 ELSE 0
    <3> SUFFICES ASSUME NEW s \in 1..3
                 PROVE  Len(log'[s]) = Len(log[s]) + IF s = section THEN 1 ELSE 0
      BY DEF Logged
    <3>1. log'[s] = IF s = section THEN Append(log[s], kept) ELSE log[s]
      BY <1>0, <2>3 DEF TypeOK
    <3>2. log[s] \in Seq(Items) /\ Len(log[s]) \in Nat
      BY <1>0 DEF Logged
    <3>3. Len(Append(log[s], kept)) = Len(log[s]) + 1
      BY <3>2
    <3>4. CASE s = section
      BY <3>1, <3>3, <3>4
    <3>5. CASE s # section
      <4>1. Len(log'[s]) = Len(log[s])
        BY <3>1, <3>5
      <4> QED BY <3>2, <3>5, <4>1
    <3> QED BY <3>4, <3>5
  <2>5. Processed(1)' + Processed(2)' + Processed(3)' = Processed(1) + Processed(2) + Processed(3) + 1
    <3>1. /\ Processed(1)' = Processed(1) + IF 1 = section THEN 1 ELSE 0
          /\ Processed(2)' = Processed(2) + IF 2 = section THEN 1 ELSE 0
          /\ Processed(3)' = Processed(3) + IF 3 = section THEN 1 ELSE 0
      BY <2>1, PassesItem
    <3>2. CASE section = 1
      BY <1>a, <3>1, <3>2
    <3>3. CASE section = 2
      BY <1>a, <3>1, <3>3
    <3>4. CASE section = 3
      BY <1>a, <3>1, <3>4
    <3> QED BY <2>2, <3>2, <3>3, <3>4
  <2>6. Logged(1)' + Logged(2)' + Logged(3)' = Logged(1) + Logged(2) + Logged(3) + 1
    <3>1. /\ Logged(1)' = Logged(1) + IF 1 = section THEN 1 ELSE 0
          /\ Logged(2)' = Logged(2) + IF 2 = section THEN 1 ELSE 0
          /\ Logged(3)' = Logged(3) + IF 3 = section THEN 1 ELSE 0
      BY <2>4
    <3>2. CASE section = 1
      BY <1>a, <3>1, <3>2
    <3>3. CASE section = 2
      BY <1>a, <3>1, <3>3
    <3>4. CASE section = 3
      BY <1>a, <3>1, <3>4
    <3> QED BY <2>2, <3>2, <3>3, <3>4
  <2>7. Logged(1)' \in Nat /\ Logged(2)' \in Nat /\ Logged(3)' \in Nat
    BY <1>0, <2>4
  <2>8. /\ IsFiniteSet(MadeUp') /\ report'.hallucinated = Cardinality(MadeUp')
        /\ IsFiniteSet(Misquoted') /\ report'.invalid_quotes = Cardinality(Misquoted')
    BY <2>1, PassesItem, CountsStay
  <2>9. report.items + Logged(1) + Logged(2) + Logged(3) =
          Processed(1) + Processed(2) + Processed(3)
    BY DEF CountInv
  <2>10. report'.items + Logged(1)' + Logged(2)' + Logged(3)' =
           Processed(1)' + Processed(2)' + Processed(3)'
    <3>1. report.items + Logged(1)' + Logged(2)' + Logged(3)' =
            (report.items + Logged(1) + Logged(2) + Logged(3)) + 1
      BY <1>a, <2>6, <2>7, CountedEither
    <3> QED BY <2>1, <2>5, <2>9, <3>1
  <2> QED BY <2>1, <2>8, <2>10 DEF CountInv
<1>6. CASE NextSection
  <2>1. UNCHANGED <<thread, policy, answer, stage, log, report>> /\ stage = "grounding"
    BY <1>6 DEF NextSection
  <2> QED BY <1>0, <1>6, <2>1, PassesSection, CountsStay DEF CountInv, Logged
<1>7. CASE AskRaises \/ Return \/ UNCHANGED vars
  <2>1. /\ UNCHANGED <<thread, policy, answer, section, item, cite, log, report>>
        /\ stage' = "asking" => stage = "asking"
    BY <1>7 DEF AskRaises, Return, vars
  <2>2. Visited' = Visited
    BY <2>1 DEF Visited, Passed, AllCitations, CitationsAt
  <2>3. Processed(1)' = Processed(1) /\ Processed(2)' = Processed(2) /\ Processed(3)' = Processed(3)
    BY <2>1 DEF Processed
  <2> QED BY <2>1, <2>2, <2>3, CountsStay DEF CountInv, Logged
<1> QED BY <1>1, <1>2, <1>3, <1>4, <1>5, <1>6, <1>7 DEF Next

\* Nothing is counted at the start.
LEMMA CountInit == Init => CountInv
<1> SUFFICES ASSUME Init PROVE CountInv
  OBVIOUS
<1>1. MadeUp = {} /\ Misquoted = {}
  BY DEF Init, EmptyAnswer, MadeUp, Misquoted, Visited, AllCitations, CitationsAt
<1>2. Processed(1) = 0 /\ Processed(2) = 0 /\ Processed(3) = 0
  BY DEF Init, Processed, EmptyAnswer
<1>3. Logged(1) = 0 /\ Logged(2) = 0 /\ Logged(3) = 0
  BY DEF Init, Logged
<1>4. report.hallucinated = 0 /\ report.invalid_quotes = 0 /\ report.items = 0
  BY DEF Init
<1> QED BY <1>1, <1>2, <1>3, <1>4, FS_EmptySet DEF CountInv

\* The report of a digest that returns counts each made-up id and each
\* fabricated quote once per citation, and every item is in the log or in
\* the count, for every thread, answer and policy.
THEOREM EveryDropIsCounted == Spec => []ReportIsAccurate
<1>1. KeptInv /\ CountInv => ReportIsAccurate
  <2> SUFFICES ASSUME KeptInv, CountInv, stage = "returned" PROVE ReportIsAccurate
    BY DEF ReportIsAccurate
  <2>1. section = 4 /\ TypeOK
    BY DEF KeptInv, StageInv, GroundInv
  <2>2. Visited = AllCitations
    <3>1. ASSUME NEW p \in AllCitations PROVE Passed(p[1], p[2], p[3])
      <4>1. p[1] \in 1..3
        BY <2>1, CitationTriple
      <4> QED BY <2>1, <4>1 DEF Passed
    <3> QED BY <3>1 DEF Visited
  <2>3. MadeUp = AllCitations \ {p \in AllCitations : Resolves(p)}
    BY <2>2 DEF MadeUp
  <2>4. Misquoted = {p \in {q \in AllCitations : Resolves(q)} : HasBadQuote(p)}
    BY <2>2 DEF Misquoted
  <2>5. \A s \in 1..3 : Processed(s) = Len(answer[s])
    BY <2>1 DEF Processed
  <2>6. report.items + Len(log[1]) + Len(log[2]) + Len(log[3]) =
          Len(answer[1]) + Len(answer[2]) + Len(answer[3])
    <3>1. /\ Processed(1) = Len(answer[1])
          /\ Processed(2) = Len(answer[2]) /\ Processed(3) = Len(answer[3])
      BY <2>5
    <3> QED BY <3>1 DEF CountInv, Logged
  <2>7. /\ report.hallucinated = Cardinality(AllCitations \ {p \in AllCitations : Resolves(p)})
        /\ report.invalid_quotes = Cardinality({p \in {q \in AllCitations : Resolves(q)} : HasBadQuote(p)})
    BY <2>3, <2>4 DEF CountInv
  <2> QED BY <2>6, <2>7, Zenon DEF ReportIsAccurate, Resolves, HasBadQuote, CitationAt
<1> QED BY <1>1, CountInit, CountStep, KeptInvAlways, PTL DEF Spec
=============================================================================
