------------------------------ MODULE Threads ------------------------------
(***************************************************************************)
(* What becomes of a request before the store sees it: the arguments of a  *)
(* /digest or the window of a rollup are resolved (service.py, rollup.py), *)
(* a thread is fetched by the contract that FakePlatform implements        *)
(* (platforms/fake.py), and the identity of the result is computed         *)
(* (types.py).  Channels are seeded, replaced and made to fail between     *)
(* requests.  The messages of a thread are its ids.                        *)
(***************************************************************************)
EXTENDS Naturals, Integers, Identity, Permalinks

CONSTANTS
    Channels,       \* records: id, platform, name (username, workspace or guild)
    Histories,      \* the message ids a channel may be seeded with
    Requests,       \* what users and the scheduler ask for
    MaxMessages,    \* max_messages of a channel
    default_last_n, \* DigestService.default_last_n
    MaxSetups,      \* bound: channels seeded or made to fail
    MaxRequests     \* bound: requests

\* Seeded with max_messages = 0 a channel is returned whole: [-0:] is [0:].
ASSUME CapAssumption == MaxMessages \in Nat \ {0} /\ default_last_n \in Nat \ {0}

\* Ids, names and periods are strings of tokens, whatever the tokens are.
IsText(s) == s \in Seq(ToSet(s))

\* An id is as its platform prints it: without spaces, and without leading
\* zeros if it is a number.
IsPlain(id) == Space \notin ToSet(id) /\ (IsDigits(id) => id[1] # "0")

\* A handle is that of one chat.
ASSUME ChannelsAssumption ==
    \A c \in Channels :
        /\ IsText(c.id) /\ IsText(c.name) /\ IsPlain(c.id)
        /\ c.platform \in {"telegram", "slack", "discord"}
        /\ \A d \in Channels :
               /\ c.platform = "telegram" /\ d.platform = "telegram"
               /\ IsName(Handle(c.name), Handles) /\ Handle(c.name) = Handle(d.name)
               => c.id = d.id

ASSUME HistoriesAssumption ==
    \A h \in Histories :
        h \in Seq(ToSet(h)) /\ \A i \in DOMAIN h : IsText(h[i]) /\ IsPlain(h[i])

\* A rollup has one argument, its last_n.
ASSUME RequestsAssumption ==
    \A r \in Requests : /\ r.kind \in {"digest", "rollup"}
                        /\ r.args \in Seq(Int)
                        /\ r.kind # "digest" => r.args # <<>>
                        /\ IsText(r.period)

VARIABLES
    channels,      \* the seeded channels, by id, with their messages
    fail_channels, \* ids whose fetch is set to fail
    setups,        \* how often channels were seeded or made to fail
    results        \* what became of the requests so far

vars == <<channels, fail_channels, setups, results>>

NoReply == <<"no reply">>

Init ==
    /\ channels = {}
    /\ fail_channels = {}
    /\ setups = 0
    /\ results = <<>>

\* add_channel replaces what was under the id.
add_channel(c, history) ==
    LET others == {d \in channels : d.id # c.id}
        channel == [id |-> c.id, platform |-> c.platform, name |-> c.name,
                    messages |-> history]
    IN  /\ setups < MaxSetups
        /\ setups' = setups + 1
        /\ channels' = others \cup {channel}
        /\ UNCHANGED <<fail_channels, results>>

set_fetch_failure(id) ==
    /\ setups < MaxSetups
    /\ setups' = setups + 1
    /\ fail_channels' = fail_channels \cup {id}
    /\ UNCHANGED <<channels, results>>

----------------------------------------------------------------------------
(* The fetch contract *)

\* Python's s[-n:] for a positive n.
LastFew(s, n) == IF n >= Len(s) THEN s ELSE From(s, Len(s) - n + 1)

\* The replied-to message, the last one of its id, and everything after it.
FromReply(messages, id) == From(messages, Max({i \in DOMAIN messages : messages[i] = id}))

Selected(messages, reply_to, last_n) ==
    CASE reply_to # NoReply -> FromReply(messages, reply_to)
      [] reply_to = NoReply /\ last_n <= 0 -> <<>>
      [] OTHER -> LastFew(messages, last_n)

\* Variant: the first messages are kept.
CapFirst(selected) ==
    [messages |-> SubSeq(selected, 1, IF Len(selected) > MaxMessages THEN MaxMessages
                                      ELSE Len(selected)),
     truncated |-> Len(selected) > MaxMessages]

Cap(selected) ==
    [messages |-> LastFew(selected, MaxMessages), truncated |-> Len(selected) > MaxMessages]

\* The first argument that is a number; -1 stands for a word.
ResolveLastN(args) ==
    LET numbers == {i \in DOMAIN args : args[i] >= 0}
    IN  IF numbers = {} THEN default_last_n ELSE args[Min(numbers)]

\* last_n or default_last_n: 0 is no window.
RollupWindow(last_n) == IF last_n = 0 THEN default_last_n ELSE last_n

LastN(request) ==
    IF request.kind = "digest" THEN ResolveLastN(request.args)
    ELSE RollupWindow(request.args[1])

\* Otherwise fetch_thread raises FetchError or ThreadNotFoundError.
Fetchable(id, reply_to) ==
    /\ id \notin fail_channels
    /\ \E c \in channels :
           c.id = id /\ (reply_to # NoReply => reply_to \in ToSet(c.messages))

fetch_thread(c, reply_to, last_n) == Cap(Selected(c.messages, reply_to, last_n))

----------------------------------------------------------------------------
(* Requests *)

KeyOf(request, c, messages) ==
    IF request.kind = "digest"
    THEN compute_digest_key(c.id, c.platform, messages)
    ELSE compute_rollup_key(c.id, request.period)

\* A thread was fetched and digested: its key is stamped on the log.  Thread
\* refuses other platforms, a key refuses a NUL; like a thread that is not
\* found, that leaves nothing but an error.
Answer(id, request) ==
    /\ Fetchable(id, request.reply_to)
    /\ \E c \in channels :
           LET thread == fetch_thread(c, request.reply_to, LastN(request))
               key == KeyOf(request, c, thread.messages)
           IN  /\ c.id = id
               /\ c.platform \in {"telegram", "slack"}
               /\ key # Refused
               /\ results' = Append(results,
                      [request |-> request, channel |-> c, thread |-> thread,
                       key |-> key, delivery |-> DeliveryId(c.id, key)])
    /\ UNCHANGED <<channels, fail_channels, setups>>

Next ==
    \/ \E c \in Channels :
           set_fetch_failure(c.id) \/ \E history \in Histories : add_channel(c, history)
    \/ \E c \in Channels, request \in Requests :
           Len(results) < MaxRequests /\ Answer(c.id, request)

Spec == Init /\ [][Next]_vars

----------------------------------------------------------------------------
(* Properties *)

\* Two digests have the same key exactly if they cover the same messages of
\* the same channel and platform, in whatever order and number they came, two
\* rollups exactly if they are of the same channel and period, and a digest
\* never has the key of a rollup: so a skip loses nothing and a second entry
\* repeats nothing.  Delivery ids tell the same apart.
KeysIdentify ==
    \A i, j \in DOMAIN results :
        LET a == results[i]
            b == results[j]
            same == /\ a.channel.id = b.channel.id
                    /\ a.request.kind = b.request.kind
                    /\ a.request.kind = "rollup" => a.request.period = b.request.period
                    /\ a.request.kind = "digest" =>
                         /\ a.channel.platform = b.channel.platform
                         /\ ToSet(a.thread.messages) = ToSet(b.thread.messages)
        IN  (a.key = b.key <=> same) /\ (a.delivery = b.delivery <=> same)

\* The messages a request is about, as positions in the history.
Wanted(request, history) ==
    IF request.reply_to # NoReply
    THEN {i \in DOMAIN history : \A j \in DOMAIN history :
              history[j] = request.reply_to => j <= i}
    ELSE {i \in DOMAIN history : i > Len(history) - LastN(request)}

\* A thread is the end of the history, and it has all that was asked for and
\* nothing else, except that a thread marked truncated lacks the earliest
\* messages and has exactly as many as a thread may have.
NothingOmittedSilently ==
    \A i \in DOMAIN results :
        LET r == results[i]
            got == r.thread.messages
            wanted == Wanted(r.request, r.channel.messages)
        IN  /\ IsSuffix(got, r.channel.messages)
            /\ IF r.thread.truncated
               THEN Len(got) = MaxMessages /\ Cardinality(wanted) > MaxMessages
               ELSE Len(got) = Cardinality(wanted)

\* A link opens one message: no link, into the channel or into a thread of
\* it, that is built for a message is also built for another one.
LinksIdentify ==
    LET LinksOf(c, i) ==
            {build_permalink(c, c.messages[i]),
             slack_thread_reply_permalink(c.name, c.id, c.messages[i], c.messages[1])} \ {NoLink}
    IN  \A c, d \in channels : \A i \in DOMAIN c.messages, j \in DOMAIN d.messages :
            LinksOf(c, i) \cap LinksOf(d, j) # {} =>
              c.id = d.id /\ c.messages[i] = d.messages[j]
=============================================================================
