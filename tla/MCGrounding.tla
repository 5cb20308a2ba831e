---------------------------- MODULE MCGrounding ----------------------------
(***************************************************************************)
(* Two threads and the empty one.  In the first, ann and bob talk, then    *)
(* ann has renamed herself eve; in the second two messages share an id,    *)
(* and two people share a name.  An answer has one action item with up to  *)
(* three citations, or two items in any sections with one citation each;   *)
(* an id, a quote and a name in it may be made up.                         *)
(***************************************************************************)
EXTENDS Grounding

CONSTANTS
    m1, m2, m3,      \* message ids
    a1, a2, a3,      \* author ids
    ann, bob, eve,   \* names
    link,            \* a permalink
    q1, q2, q3       \* quotes

MCMessageIds == {m1, m2, m3}
MCAuthorIds == {a1, a2, a3}
MCNames == {ann, bob, eve}
MCLinks == {link}
MCQuotes == {q1, q2, q3}

Said(m, a, name, l, says, leading) ==
    [id |-> m, author |-> [id |-> a, display |-> name], permalink |-> l,
     says |-> says, leading |-> leading]

MCThreads ==
    {<<>>,
     <<Said(m1, a1, ann, link, {q1}, q1), Said(m2, a2, bob, NoLink, {q1, q2}, NoQuote),
       Said(m3, a1, eve, NoLink, {}, NoQuote)>>,
     <<Said(m1, a1, ann, NoLink, {q1, q2}, q2), Said(m1, a2, bob, link, {q3}, q3),
       Said(m3, a3, bob, link, {q2}, q2)>>}

Lists(n) == UNION {[1..k -> RawCitations] : k \in 0..n}

ItemsOf(n, names) == [citations : Lists(n), assignee : names]

\* One item in section 2.
Deep == {[s \in 1..3 |-> IF s = 2 THEN <<i>> ELSE <<>>] :
            i \in ItemsOf(2, {NoName, ann, bob, eve}) \cup ItemsOf(3, {NoName})}

\* One item in section p and one in section q.
Two(p, q) == {[s \in 1..3 |-> (IF s = p THEN <<i>> ELSE <<>>) \o (IF s = q THEN <<j>> ELSE <<>>)] :
                i, j \in ItemsOf(1, {NoName})}

MCAnswers == Deep \cup UNION {Two(p, q) : p, q \in 1..3}
=============================================================================
