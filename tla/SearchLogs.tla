----------------------------- MODULE SearchLogs -----------------------------
(***************************************************************************)
(* search_logs of search.py over the files that render_markdown_entry of   *)
(* render.py and DecisionStore.append wrote, while appends go on.  Every   *)
(* file is read at once (a write replaces the file), split at its          *)
(* headings, and parsed line by line.                                      *)
(*                                                                         *)
(* A line is what the parser can tell of it: a tag and a value.  The text  *)
(* of an item is the line that "- " and the text make: an "item", but also *)
(* a "none" line for the text _none_ and a "channel" or "key" line for a   *)
(* text that looks like one.  The value of an item is the set of queries   *)
(* that find it.  The lines that match no branch of the parser wherever    *)
(* they stand (blank ones, rationales) are left out.                       *)
(*                                                                         *)
(* Labels and keys are compared as strings: here they are numbers in the   *)
(* same order, 0 being the empty string.                                   *)
(***************************************************************************)
EXTENDS Naturals, SequencesExt

CONSTANTS
    FileCount,   \* how many log files there are, sorted by name
    Entries,     \* the DecisionLogs that may be appended
    Queries,     \* the calls of search_logs
    NoLink, NoKind, NoChannel,   \* None, for each of these
    MaxEntries   \* bound: entries appended

Files == 1..FileCount

\* The sections, in the order they are rendered.
Kinds == <<"decision", "action_item", "open_question">>

ASSUME BoundsAssumption == FileCount \in Nat /\ MaxEntries \in Nat

VARIABLES
    log,      \* per file: the entries appended to it
    query,    \* the call of search_logs
    before,   \* log when the search listed the files
    stage,    \* idle, reading, parsing or returned
    file,     \* the file search_logs is at
    blocks,   \* its entry blocks
    block,    \* the block it is at
    pos,      \* the line of that block it is at
    kind,     \* current_kind
    pending,  \* the item that is pending, as its place in entry.items, or 0
    entry,    \* the entry parsed so far
    hits      \* the hits so far

vars == <<log, query, before, stage, file, blocks, block, pos, kind, pending, entry, hits>>

-----------------------------------------------------------------------------
(* render_markdown_entry                                                   *)

Line(tag, value) == [tag |-> tag, value |-> value]

\* The links on a Sources line, from left to right: each citation shows the
\* display name of its author, its permalink and its quote.
LinksOf(cites) ==
    SelectSeq(FlattenSeq([c \in DOMAIN cites |->
                 <<cites[c].label, cites[c].permalink, cites[c].quote>>]),
              LAMBDA l : l # NoLink)

RenderSection(k, items) ==
    <<Line("section", k)>> \o
    IF items = <<>> THEN <<Line("none", "")>>
    ELSE FlattenSeq([i \in DOMAIN items |->
             <<items[i].text, Line("sources", LinksOf(items[i].citations))>>])

\* The participants are a bullet like that of an item, and so is the note of a
\* truncated thread, which is left out.
Render(e) ==
    <<Line("heading", e.label), Line("channel", e.channel),
      Line("item", e.participants), Line("key", e.key)>>
    \o FlattenSeq([k \in 1..3 |-> RenderSection(Kinds[k], e.items[k])])

\* The text of a file.
Text(es) == FlattenSeq([i \in DOMAIN es |-> Render(es[i])])

-----------------------------------------------------------------------------
(* search_logs                                                             *)

\* _split_entry_blocks: from each heading to the next; a preamble is ignored.
Blocks(text) ==
    LET heads == SetToSortSeq({i \in DOMAIN text : text[i].tag = "heading"}, <)
    IN  [b \in DOMAIN heads |->
           SubSeq(text, heads[b], IF b = Len(heads) THEN Len(text) ELSE heads[b + 1] - 1)]

NoEntry == [label |-> 0, channel |-> NoChannel, key |-> 0, items |-> <<>>]

Init ==
    /\ log = [f \in Files |-> <<>>]
    /\ query \in Queries
    /\ before = log
    /\ stage = "idle"
    /\ file = 1
    /\ blocks = <<>>
    /\ block = 1
    /\ pos = 1
    /\ kind = NoKind
    /\ pending = 0
    /\ entry = NoEntry
    /\ hits = <<>>

\* DecisionStore.append: the entry goes to the end of its file, unless its key
\* is there already.
AppendEntry(f, e) ==
    /\ SumFunction([g \in Files |-> Len(log[g])]) < MaxEntries
    /\ \A i \in DOMAIN log[f] : log[f][i].key # e.key
    /\ log' = [log EXCEPT ![f] = Append(@, e)]
    /\ UNCHANGED <<query, before, stage, file, blocks, block, pos, kind, pending, entry, hits>>

\* The files with entries are listed; the others do not exist yet.
Begin ==
    /\ stage = "idle"
    /\ stage' = "reading"
    /\ before' = log
    /\ UNCHANGED <<log, query, file, blocks, block, pos, kind, pending, entry, hits>>

\* The next file is read and split; one that was not there to list is not.
ReadFile ==
    /\ stage = "reading"
    /\ file <= FileCount
    /\ blocks' = IF before[file] = <<>> THEN <<>> ELSE Blocks(Text(log[file]))
    /\ block' = 1
    /\ stage' = "splitting"
    /\ UNCHANGED <<log, query, before, file, pos, kind, pending, entry, hits>>

\* _parse_entry begins: the label is what follows the heading mark.
StartBlock ==
    /\ stage = "splitting"
    /\ block <= Len(blocks)
    /\ entry' = [NoEntry EXCEPT !.label = blocks[block][1].value]
    /\ kind' = NoKind
    /\ pending' = 0
    /\ pos' = 1
    /\ stage' = "parsing"
    /\ UNCHANGED <<log, query, before, file, blocks, block, hits>>

NextFile ==
    /\ stage = "splitting"
    /\ block > Len(blocks)
    /\ file' = file + 1
    /\ stage' = "reading"
    /\ UNCHANGED <<log, query, before, blocks, block, pos, kind, pending, entry, hits>>

Current == blocks[block][pos]

\* The parser is at a line with one of these tags, and goes on to the next.
AtLine(tags) ==
    /\ stage = "parsing"
    /\ pos <= Len(blocks[block])
    /\ Current.tag \in tags
    /\ pos' = pos + 1
    /\ UNCHANGED <<log, query, before, stage, file, blocks, block, hits>>

SectionLine ==
    /\ AtLine({"section"})
    /\ kind' = Current.value
    /\ pending' = 0
    /\ UNCHANGED entry

ChannelLine ==
    /\ AtLine({"channel"})
    /\ entry' = [entry EXCEPT !.channel = Current.value]
    /\ UNCHANGED <<kind, pending>>

KeyLine ==
    /\ AtLine({"key"})
    /\ entry' = [entry EXCEPT !.key = Current.value]
    /\ UNCHANGED <<kind, pending>>

\* The marker of an empty section, or an item whose text is that marker.
NoneLine ==
    /\ AtLine({"none"})
    /\ kind # NoKind
    /\ pending' = 0
    /\ UNCHANGED <<kind, entry>>

ItemLine ==
    /\ AtLine({"item"})
    /\ kind # NoKind
    /\ entry' = [entry EXCEPT !.items =
                   Append(@, [kind |-> kind, text |-> Current.value, permalink |-> NoLink])]
    /\ pending' = Len(entry'.items)
    /\ UNCHANGED kind

\* Variant: the last link on the line.
SourcesLineLast ==
    /\ AtLine({"sources"})
    /\ pending # 0
    /\ entry' = IF Current.value = <<>> THEN entry
                ELSE [entry EXCEPT !.items[pending].permalink = Last(Current.value)]
    /\ UNCHANGED <<kind, pending>>

\* The first link on the line, if it has one, is the permalink.
SourcesLine ==
    /\ AtLine({"sources"})
    /\ pending # 0
    /\ entry' = IF Current.value = <<>> THEN entry
                ELSE [entry EXCEPT !.items[pending].permalink = Current.value[1]]
    /\ UNCHANGED <<kind, pending>>

\* No branch of the parser: a heading, a bullet before the first section, the
\* sources of an item that was not taken for one.
OtherLine ==
    /\ AtLine({"heading", "none", "item", "sources"})
    /\ Current.tag \in {"none", "item"} => kind = NoKind
    /\ Current.tag = "sources" => pending = 0
    /\ UNCHANGED <<kind, pending, entry>>

\* _window_key, _in_window; 0 is no bound.
InWindow(label, key) ==
    LET at == IF label # 0 THEN label ELSE key
    IN  (query.since = 0 \/ at >= query.since) /\ (query.until = 0 \/ at <= query.until)

\* Whether a query asks for an item of an entry with this channel, label and key.
Matches(channel, label, key, i) ==
    /\ query.channel \in {NoChannel, channel}
    /\ InWindow(label, key)
    /\ query.kind \in {NoKind, i.kind}
    /\ query.text \in i.text

\* The hits of one entry; from is where it stands, for the properties.
HitsOf(e, where) ==
    LET found == SelectSeq(e.items, LAMBDA i : Matches(e.channel, e.label, e.key, i))
    IN  [h \in DOMAIN found |->
           [channel |-> e.channel, digest_key |-> e.key, kind |-> found[h].kind,
            line |-> found[h].text, permalink |-> found[h].permalink, from |-> where]]

\* The entry is parsed: its hits are collected.
EndBlock ==
    /\ stage = "parsing"
    /\ pos > Len(blocks[block])
    /\ hits' = hits \o HitsOf(entry, <<file, block>>)
    /\ block' = block + 1
    /\ stage' = "splitting"
    /\ UNCHANGED <<log, query, before, file, blocks, pos, kind, pending, entry>>

Return ==
    /\ stage = "reading"
    /\ file > FileCount
    /\ stage' = "returned"
    /\ UNCHANGED <<log, query, before, file, blocks, block, pos, kind, pending, entry, hits>>

Search ==
    \/ Begin \/ ReadFile \/ StartBlock \/ NextFile
    \/ SectionLine \/ ChannelLine \/ KeyLine \/ NoneLine \/ ItemLine \/ SourcesLine \/ OtherLine
    \/ EndBlock \/ Return

Next == Search \/ \E f \in Files, e \in Entries : AppendEntry(f, e)

Spec == Init /\ [][Next]_vars

-----------------------------------------------------------------------------
(* Properties *)

\* An entry whose texts look like nothing else and hold no links of their own.
IsPlain(e) ==
    \A k \in 1..3 : \A i \in Range(e.items[k]) :
        /\ i.text.tag = "item"
        /\ \A c \in Range(i.citations) : c.label = NoLink /\ c.quote = NoLink

\* The first permalink among the citations of an item.
FirstPermalink(cites) ==
    IF \E c \in DOMAIN cites : cites[c].permalink # NoLink
      THEN SelectSeq(cites, LAMBDA c : c.permalink # NoLink)[1].permalink
      ELSE NoLink

\* What a query should find of an entry of a DecisionLog.
Expected(e, where) ==
    HitsOf([channel |-> e.channel, label |-> e.label, key |-> e.key,
            items |-> FlattenSeq([k \in 1..3 |-> [i \in DOMAIN e.items[k] |->
                        [kind |-> Kinds[k], text |-> e.items[k][i].text.value,
                         permalink |-> FirstPermalink(e.items[k][i].citations)]]])],
           where)

\* search.py:175-198.  A search that returns has found, of every entry that was
\* recorded before it began, exactly the items it asked for, each with its own
\* channel, key, section and first permalink; of an entry appended meanwhile
\* all of them or none; in the order of the files and entries; and nothing else,
\* whatever other entries of the same files look like.
SearchIsExact ==
    stage = "returned" =>
        /\ \A f \in Files : \A b \in DOMAIN log[f] :
             IsPlain(log[f][b]) =>
               LET found == SelectSeq(hits, LAMBDA h : h.from = <<f, b>>)
               IN  \/ found = Expected(log[f][b], <<f, b>>)
                   \/ b > Len(before[f]) /\ found = <<>>
        /\ \A i, j \in DOMAIN hits : i < j =>
             \/ hits[i].from[1] < hits[j].from[1]
             \/ hits[i].from[1] = hits[j].from[1] /\ hits[i].from[2] <= hits[j].from[2]
        /\ \A h \in Range(hits) : h.from[1] \in Files /\ h.from[2] \in DOMAIN log[h.from[1]]
=============================================================================
