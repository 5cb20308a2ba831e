----------------------------- MODULE Grounding -----------------------------
(***************************************************************************)
(* digest_with_report of digest.py and ground_with_report of grounding.py: *)
(* the model answers with items and citations of its own making, and       *)
(* grounding keeps what the thread supports, citation by citation, item by *)
(* item, section by section.                                               *)
(*                                                                         *)
(* A text is what grounding can tell of it: says is the set of quotes that *)
(* are, with whitespace collapsed, a part of it, and leading is its first  *)
(* leading_text_chars characters, NoQuote when these are blank.  A quote   *)
(* that is absent or blank is NoQuote.  A name is a display name after     *)
(* casefold.  An item keeps its number in the answer for its text, which   *)
(* grounding passes on.                                                    *)
(***************************************************************************)
EXTENDS Naturals, Sequences, FiniteSets

CONSTANTS
    MessageIds,  \* ids of messages, and ids a model makes up
    AuthorIds,   \* ids of authors
    Names,       \* display names, and names a model asks for
    Links,       \* permalinks
    Quotes,      \* quotes, real and fabricated
    NoName, NoLink, NoQuote, NoAuthor,  \* None, for each of these
    Threads,     \* the threads fetched
    Answers      \* the RawDecisionLogs the model returns

Sections == <<"decisions", "action_items", "open_questions">>

Authors == [id : AuthorIds, display : Names]

Messages ==
    {m \in [id : MessageIds, author : Authors, permalink : Links \cup {NoLink},
            says : SUBSET Quotes, leading : Quotes \cup {NoQuote}] :
        m.leading \in m.says \cup {NoQuote}}

RawCitations == [message_id : MessageIds, quote : Quotes \cup {NoQuote}]

RawItems == [citations : Seq(RawCitations), assignee : Names \cup {NoName}]

Citations ==
    [message_id : MessageIds, author : Authors,
     permalink : Links \cup {NoLink}, quote : Quotes \cup {NoQuote}]

Items ==
    [raw : Nat \ {0}, citations : Seq(Citations), assignee : Authors \cup {NoAuthor}]

\* GroundingPolicy; leading_text_chars is part of what a message is.
Policies == [drop_zero_citation_items : BOOLEAN,
             replace_invalid_quote_with_leading_text : BOOLEAN]

\* GroundingReport
Reports == [hallucinated : Nat, invalid_quotes : Nat, items : Nat]

ASSUME ThreadsAssumption == Threads \subseteq Seq(Messages)
ASSUME AnswersAssumption == Answers \subseteq [1..3 -> Seq(RawItems)]
ASSUME NoneAssumption ==
    /\ NoName \notin Names
    /\ NoQuote \notin Quotes
    /\ NoLink \notin Links
    /\ NoAuthor \notin Authors

VARIABLES
    thread,    \* the thread to digest
    policy,    \* the grounding policy
    stage,     \* asking, grounding, returned or raised
    answer,    \* raw_log
    section,   \* the section of raw_log that is grounded
    item,      \* the item of that section
    cite,      \* the citation of that item
    grounded,  \* the citations of that item grounded so far
    seen,      \* the (message_id, quote) pairs among them
    log,       \* the items of each section that were kept
    report     \* the counters

vars == <<thread, policy, stage, answer, section, item, cite, grounded, seen,
          log, report>>

-----------------------------------------------------------------------------

EmptyAnswer == [s \in 1..3 |-> <<>>]

Init ==
    /\ thread \in Threads
    /\ policy \in Policies
    /\ stage = "asking"
    /\ answer = EmptyAnswer
    /\ section = 1
    /\ item = 1
    /\ cite = 1
    /\ grounded = <<>>
    /\ seen = {}
    /\ log = [s \in 1..3 |-> <<>>]
    /\ report = [hallucinated |-> 0, invalid_quotes |-> 0, items |-> 0]

\* The model is asked, unless there is nothing to ask about.
Ask ==
    /\ stage = "asking"
    /\ stage' = "grounding"
    /\ answer' \in IF thread = <<>> THEN {EmptyAnswer} ELSE Answers
    /\ UNCHANGED <<thread, policy, section, item, cite, grounded, seen, log, report>>

\* complete_json raises: no digest.
AskRaises ==
    /\ stage = "asking"
    /\ thread # <<>>
    /\ stage' = "raised"
    /\ UNCHANGED <<thread, policy, answer, section, item, cite, grounded, seen, log, report>>

\* The positions in the thread of the messages with an id.
WithId(id) == {i \in DOMAIN thread : thread[i].id = id}

\* The first of a set of positions.
Earliest(S) == CHOOSE i \in S : \A j \in S : i <= j

\* index_by_id: the first message with an id stands for it.
Indexed(id) == thread[Earliest(WithId(id))]

\* Variant: a quote holds if any message of the thread has it.
ValidQuoteAnywhere(m, quote) ==
    IF \E i \in DOMAIN thread : quote \in thread[i].says THEN quote ELSE NoQuote

\* _validate_quote: what becomes of a candidate quote of a message.
ValidQuote(m, quote) ==
    IF quote \in m.says \cup {NoQuote} THEN quote
    ELSE IF policy.replace_invalid_quote_with_leading_text THEN m.leading
    ELSE NoQuote

\* Whether a candidate counts as an invalid quote of a message.
IsFabricated(m, quote) == quote \notin m.says \cup {NoQuote}

Raw == answer[section][item]

\* A citation of the item is left to ground.
AtCitation ==
    /\ stage = "grounding"
    /\ section <= 3
    /\ item <= Len(answer[section])
    /\ cite <= Len(Raw.citations)

NextCitation ==
    /\ cite' = cite + 1
    /\ UNCHANGED <<thread, policy, stage, answer, section, item, log>>

\* No message has the id.
DropHallucinated ==
    /\ AtCitation
    /\ WithId(Raw.citations[cite].message_id) = {}
    /\ report' = [report EXCEPT !.hallucinated = @ + 1]
    /\ NextCitation
    /\ UNCHANGED <<grounded, seen>>

\* The quote that grounding gives the citation it is at.
Quote == ValidQuote(Indexed(Raw.citations[cite].message_id), Raw.citations[cite].quote)

CountQuote ==
    report' = IF IsFabricated(Indexed(Raw.citations[cite].message_id), Raw.citations[cite].quote)
                THEN [report EXCEPT !.invalid_quotes = @ + 1]
                ELSE report

\* Variant: a duplicate is dropped before its quote is looked at.
DropDuplicateUncounted ==
    /\ AtCitation
    /\ WithId(Raw.citations[cite].message_id) # {}
    /\ <<Raw.citations[cite].message_id, Quote>> \in seen
    /\ UNCHANGED report
    /\ NextCitation
    /\ UNCHANGED <<grounded, seen>>

\* The message was cited with the same quote before; a bad quote still counts.
DropDuplicate ==
    /\ AtCitation
    /\ WithId(Raw.citations[cite].message_id) # {}
    /\ <<Raw.citations[cite].message_id, Quote>> \in seen
    /\ CountQuote
    /\ NextCitation
    /\ UNCHANGED <<grounded, seen>>

\* Author and permalink come from the message.
KeepCitation ==
    /\ AtCitation
    /\ WithId(Raw.citations[cite].message_id) # {}
    /\ <<Raw.citations[cite].message_id, Quote>> \notin seen
    /\ LET m == Indexed(Raw.citations[cite].message_id)
       IN  /\ grounded' = Append(grounded, [message_id |-> m.id, author |-> m.author,
                                            permalink |-> m.permalink, quote |-> Quote])
           /\ seen' = seen \cup {<<m.id, Quote>>}
    /\ CountQuote
    /\ NextCitation

\* All citations of the item are grounded.
AtItemEnd ==
    /\ stage = "grounding"
    /\ section <= 3
    /\ item <= Len(answer[section])
    /\ cite > Len(Raw.citations)

\* Variant: one set of seen citations for the whole answer.
NextItemSeen ==
    /\ item' = item + 1
    /\ cite' = 1
    /\ grounded' = <<>>
    /\ UNCHANGED <<thread, policy, stage, answer, section, seen>>

NextItem ==
    /\ item' = item + 1
    /\ cite' = 1
    /\ grounded' = <<>>
    /\ seen' = {}
    /\ UNCHANGED <<thread, policy, stage, answer, section>>

\* participants: the first message of each author.
FirstOfAuthor == {i \in DOMAIN thread :
                    \A j \in DOMAIN thread : thread[j].author.id = thread[i].author.id => i <= j}

\* The participants that go by a name.
Named(name) == {i \in FirstOfAuthor : thread[i].author.display = name}

\* _resolve_assignee
Assignee(name, citations) ==
    IF Named(name) # {} THEN thread[Earliest(Named(name))].author
    ELSE IF citations # <<>> THEN citations[1].author ELSE NoAuthor

\* No citation is left, and the policy is to drop such items.
DropItem ==
    /\ AtItemEnd
    /\ grounded = <<>>
    /\ policy.drop_zero_citation_items
    /\ report' = [report EXCEPT !.items = @ + 1]
    /\ UNCHANGED log
    /\ NextItem

\* The item goes into the log; only an action item has an assignee.
KeepItem ==
    /\ AtItemEnd
    /\ grounded # <<>> \/ ~policy.drop_zero_citation_items
    /\ log' = [log EXCEPT ![section] = Append(@,
                 [raw |-> item, citations |-> grounded,
                  assignee |-> IF Sections[section] = "action_items"
                                 THEN Assignee(Raw.assignee, grounded) ELSE NoAuthor])]
    /\ UNCHANGED report
    /\ NextItem

NextSection ==
    /\ stage = "grounding"
    /\ section <= 3
    /\ item > Len(answer[section])
    /\ section' = section + 1
    /\ item' = 1
    /\ UNCHANGED <<thread, policy, stage, answer, cite, grounded, seen, log, report>>

Return ==
    /\ stage = "grounding"
    /\ section > 3
    /\ stage' = "returned"
    /\ UNCHANGED <<thread, policy, answer, section, item, cite, grounded, seen, log, report>>

Next ==
    \/ Ask \/ AskRaises
    \/ DropHallucinated \/ DropDuplicate \/ KeepCitation
    \/ DropItem \/ KeepItem \/ NextSection
    \/ Return

Spec == Init /\ [][Next]_vars

-----------------------------------------------------------------------------
(* Properties *)

\* Every variable has its type.
TypeOK ==
    /\ thread \in Seq(Messages)
    /\ policy \in Policies
    /\ stage \in {"asking", "grounding", "returned", "raised"}
    /\ answer \in [1..3 -> Seq(RawItems)]
    /\ section \in 1..4
    /\ item \in Nat \ {0}
    /\ cite \in Nat \ {0}
    /\ grounded \in Seq(Citations)
    /\ seen \subseteq MessageIds \X (Quotes \cup {NoQuote})
    /\ log \in [1..3 -> Seq(Items)]
    /\ report \in Reports

\* A citation that holds nothing but what the first message with its id says.
IsGenuine(c) ==
    \E i \in DOMAIN thread :
        /\ \A j \in DOMAIN thread : thread[j].id = thread[i].id => i <= j
        /\ c.message_id = thread[i].id
        /\ c.author = thread[i].author
        /\ c.permalink = thread[i].permalink
        /\ c.quote \in thread[i].says \cup {NoQuote}

\* The people an action item may be given to: an author its citations name, or
\* the participant who was asked for, by the name of their first message.
MayBeAssigned(author, name, citations) ==
    \/ \E c \in DOMAIN citations : citations[c].author = author
    \/ /\ author.display = name
       /\ \E i \in DOMAIN thread :
             /\ thread[i].author = author
             /\ \A j \in DOMAIN thread : thread[j].author.id = author.id => i <= j

\* grounding.py:3-18, never present an invented source: whatever the model
\* makes up, every citation in the log is the author, the link and the words of
\* a message of the thread, also where the quote was replaced, and an action
\* item is given to nobody but a participant of that name or, where there is
\* none or only one who was renamed to it, to somebody it cites.
AttributionIsReal ==
    \A s \in 1..3 : \A k \in DOMAIN log[s] :
        LET it == log[s][k]
        IN  /\ \A c \in DOMAIN it.citations : IsGenuine(it.citations[c])
            /\ it.assignee # NoAuthor =>
                 MayBeAssigned(it.assignee, answer[s][it.raw].assignee, it.citations)

\* The items of a section that cite a message of the thread.
Supported(s) ==
    {n \in DOMAIN answer[s] :
        \E c \in DOMAIN answer[s][n].citations : WithId(answer[s][n].citations[c].message_id) # {}}

\* What the citations of an item point at: messages, with the quotes that hold.
Evidence(s, n) ==
    {<<answer[s][n].citations[c].message_id,
       ValidQuote(Indexed(answer[s][n].citations[c].message_id), answer[s][n].citations[c].quote)>> :
        c \in {d \in DOMAIN answer[s][n].citations : WithId(answer[s][n].citations[d].message_id) # {}}}

\* Grounding prunes what is not supported and nothing else: the log has, section
\* by section and in the order of the answer, exactly the items with a citation
\* that resolves (all of them if the policy keeps unsourced ones), each with
\* all its evidence, once.
KeptIffSupported ==
    stage = "returned" =>
        \A s \in 1..3 :
            /\ {log[s][k].raw : k \in DOMAIN log[s]} =
                 IF policy.drop_zero_citation_items THEN Supported(s) ELSE DOMAIN answer[s]
            /\ \A j, k \in DOMAIN log[s] : j < k => log[s][j].raw < log[s][k].raw
            /\ \A k \in DOMAIN log[s] :
                 LET cs == log[s][k].citations
                 IN  /\ {<<cs[c].message_id, cs[c].quote>> : c \in DOMAIN cs} = Evidence(s, log[s][k].raw)
                     /\ \A c, d \in DOMAIN cs :
                          cs[c].message_id = cs[d].message_id /\ cs[c].quote = cs[d].quote => c = d

\* The citations of the answer, by section, item and position.
CitationsAt(s) ==
    UNION {{<<s, n, c>> : c \in DOMAIN answer[s][n].citations} : n \in DOMAIN answer[s]}

AllCitations == CitationsAt(1) \cup CitationsAt(2) \cup CitationsAt(3)

\* GroundingReport, "surfaces those drops": each made-up id and each fabricated
\* quote counts once per citation, also when the citation turns out to be a
\* duplicate, and every item of the answer is in the log or in the count.
ReportIsAccurate ==
    stage = "returned" =>
        LET Cited(p) == answer[p[1]][p[2]].citations[p[3]]
            Real == {p \in AllCitations : WithId(Cited(p).message_id) # {}}
        IN  /\ report.hallucinated = Cardinality(AllCitations \ Real)
            /\ report.invalid_quotes =
                 Cardinality({p \in Real : IsFabricated(Indexed(Cited(p).message_id), Cited(p).quote)})
            /\ report.items + Len(log[1]) + Len(log[2]) + Len(log[3]) =
                 Len(answer[1]) + Len(answer[2]) + Len(answer[3])
=============================================================================
