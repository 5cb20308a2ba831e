---------------------------- MODULE MCSearchLogs ----------------------------
(***************************************************************************)
(* Two files and up to two entries, some there before the search and some  *)
(* appended meanwhile.  The entries: one with items in two sections, the   *)
(* first of them with several citations; one of another channel without a  *)
(* label; an empty one; and one full of texts and quotes that look like    *)
(* something else.                                                         *)
(***************************************************************************)
EXTENDS SearchLogs

CONSTANTS
    A, B,          \* channels
    x, y,          \* what queries look for
    one, two       \* links

Cite(label, permalink, quote) == [label |-> label, permalink |-> permalink, quote |-> quote]
Plain(link) == Cite(NoLink, link, NoLink)
Item(words, cites) == [text |-> Line("item", words), citations |-> cites]
Odd(line, cites) == [text |-> line, citations |-> cites]

Full ==
    [label |-> 2, channel |-> A, key |-> 1, participants |-> {x},
     items |-> <<<<Item({x}, <<Plain(NoLink), Plain(one), Plain(two)>>), Item({y}, <<>>)>>,
                 <<>>,
                 <<Item({x, y}, <<Plain(two)>>)>>>>]

Unlabelled ==
    [label |-> 0, channel |-> B, key |-> 3, participants |-> {y},
     items |-> <<<<>>, <<Item({x}, <<Plain(NoLink)>>)>>, <<>>>>]

Nothing == [label |-> 1, channel |-> A, key |-> 2, participants |-> {x},
            items |-> <<<<>>, <<>>, <<>>>>]

Forged ==
    [label |-> 2, channel |-> A, key |-> 4, participants |-> {x, y},
     items |-> <<<<Item({x}, <<Cite(NoLink, NoLink, one)>>), Odd(Line("channel", B), <<Plain(two)>>)>>,
                 <<Odd(Line("none", ""), <<Plain(one)>>)>>,
                 <<Odd(Line("key", 1), <<>>), Item({y}, <<Cite(two, one, NoLink)>>)>>>>]

MCEntries == {Full, Unlabelled, Nothing, Forged}

Q(text, channel, k, since, until) ==
    [text |-> text, channel |-> channel, kind |-> k, since |-> since, until |-> until]

MCQueries ==
    {Q(x, NoChannel, NoKind, 0, 0), Q(y, A, NoKind, 0, 0), Q(x, NoChannel, "action_item", 0, 0),
     Q(x, B, NoKind, 2, 3), Q(x, NoChannel, "decision", 2, 2), Q(y, NoChannel, NoKind, 3, 1)}
=============================================================================
