----------------------------- MODULE Permalinks -----------------------------
(***************************************************************************)
(* The link builders of links.py.  A string is a sequence of tokens: one   *)
(* digit or dot at a time where a builder looks at them, and one token for *)
(* the prefix -100 and for a name that matches the pattern of its kind.    *)
(* A URL is the concatenation a builder makes of them, so that two URLs    *)
(* are equal exactly if their strings are.  Signs, underscores and the     *)
(* digits of other scripts, which int and isdigit also take, are left out. *)
(***************************************************************************)
EXTENDS SequencesExt

CONSTANTS
    Handles,        \* names that are well-formed Telegram usernames
    Workspaces,     \* names that are well-formed Slack workspaces
    SlackChannels,  \* names that are well-formed Slack channel ids
    FractionDigits  \* digits after the dot of a Slack timestamp

NoLink == <<>>  \* None

Digits == {"0", "1", "2", "3", "4", "5", "6", "7", "8", "9"}

IsDigits(s) == s # <<>> /\ ToSet(s) \subseteq Digits

IsName(s, names) == Len(s) = 1 /\ s[1] \in names

From(s, i) == SubSeq(s, i, Len(s))

Space == " "

\* str.strip
Strip(s) ==
    LET solid == {i \in DOMAIN s : s[i] # Space}
    IN  IF solid = {} THEN <<>> ELSE SubSeq(s, Min(solid), Max(solid))

\* _coerce_positive_int: the number as it is printed, or nothing.
PositiveInt(s) ==
    LET digits == Strip(s)
        leading == {i \in DOMAIN digits : digits[i] # "0"}
    IN  IF IsDigits(digits) /\ leading # {} THEN From(digits, Min(leading)) ELSE <<>>

\* Variant: any negative id is taken for that of a supergroup.
PrivatePermalinkAnyGroup(chat, message) ==
    LET internal == From(Strip(chat), 2)
    IN  IF IsDigits(internal) /\ PositiveInt(message) # <<>>
        THEN <<"t.me/c/">> \o internal \o <<"/">> \o PositiveInt(message)
        ELSE NoLink

telegram_private_permalink(chat, message) ==
    LET internal == From(Strip(chat), 2)
    IN  IF /\ IsPrefix(<<"-100">>, Strip(chat))
           /\ IsDigits(internal)
           /\ PositiveInt(message) # <<>>
        THEN <<"t.me/c/">> \o internal \o <<"/">> \o PositiveInt(message)
        ELSE NoLink

\* A username, trimmed, without the @ it may have.
Handle(username) ==
    LET name == Strip(username)
    IN  IF IsPrefix(<<"@">>, name) THEN Tail(name) ELSE name

telegram_public_permalink(username, message) ==
    IF IsName(Handle(username), Handles) /\ PositiveInt(message) # <<>>
    THEN <<"t.me/">> \o Handle(username) \o <<"/">> \o PositiveInt(message)
    ELSE NoLink

IsTimestamp(ts) ==
    \E dot \in DOMAIN ts :
        /\ ts[dot] = "."
        /\ IsDigits(SubSeq(ts, 1, dot - 1))
        /\ IsDigits(From(ts, dot + 1))
        /\ Len(ts) - dot = FractionDigits

\* The digits before the dot and the digits after it.
Undotted(ts) ==
    LET dot == CHOOSE i \in DOMAIN ts : ts[i] = "."
    IN  SubSeq(ts, 1, dot - 1) \o From(ts, dot + 1)

slack_archives_permalink(workspace, channel, ts) ==
    IF /\ IsName(Strip(workspace), Workspaces)
       /\ IsName(Strip(channel), SlackChannels)
       /\ IsTimestamp(Strip(ts))
    THEN Strip(workspace) \o <<".slack.com/archives/">> \o Strip(channel) \o <<"/p">>
           \o Undotted(Strip(ts))
    ELSE NoLink

slack_thread_reply_permalink(workspace, channel, ts, parent) ==
    LET base == slack_archives_permalink(workspace, channel, ts)
    IN  IF base # NoLink /\ IsTimestamp(Strip(parent))
        THEN base \o <<"?thread_ts=">> \o Strip(parent) \o <<"&cid=">> \o Strip(channel)
        ELSE NoLink

\* No guild is a direct message; a guild that is no number is refused.
discord_permalink(guild, channel, message) ==
    LET segment == IF guild = <<>> THEN <<"@me">> ELSE PositiveInt(guild)
    IN  IF segment # <<>> /\ PositiveInt(channel) # <<>> /\ PositiveInt(message) # <<>>
        THEN <<"discord.com/channels/">> \o segment \o <<"/">> \o PositiveInt(channel)
               \o <<"/">> \o PositiveInt(message)
        ELSE NoLink

\* build_permalink of telegram.py and of slack.py: for Telegram the public
\* link if there is one, else the private one.
build_permalink(place, message) ==
    CASE place.platform = "telegram" ->
           LET public == telegram_public_permalink(place.name, message)
           IN  IF public # NoLink THEN public
               ELSE telegram_private_permalink(place.id, message)
      [] place.platform = "slack" -> slack_archives_permalink(place.name, place.id, message)
      [] place.platform = "discord" -> discord_permalink(place.name, place.id, message)
=============================================================================
