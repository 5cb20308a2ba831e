----------------------------- MODULE MCThreads -----------------------------
(***************************************************************************)
(* Chats of every kind a link builder tells apart, two of them with one id *)
(* on different platforms, one with a NUL in its id; histories with ids    *)
(* that come twice or hold a NUL, and with Slack timestamps of which one   *)
(* is too short; requests with and without a reply, a word, a zero and a   *)
(* number longer than a thread may be.                                     *)
(***************************************************************************)
EXTENDS Threads

MCHandles == {"acmehq"}
MCWorkspaces == {"acme"}
MCSlackChannels == {"C0A1"}

Chat(platform, id, name) == [platform |-> platform, id |-> id, name |-> name]

MCChannels ==
    {Chat("telegram", <<"-100", "1", "2">>, <<>>),
     Chat("telegram", <<"-", "1", "2">>, <<>>),
     Chat("telegram", <<"-100", "7">>, <<" ", "@", "acmehq">>),
     Chat("telegram", <<"C0A1">>, <<"acme">>),
     Chat("slack", <<"C0A1">>, <<"acme">>),
     Chat("slack", <<"C0A1", "NUL">>, <<"acme">>),
     Chat("discord", <<"1", "2">>, <<>>)}

Stamp(seconds, fraction) == seconds \o <<".">> \o fraction

MCHistories ==
    {<<>>,
     <<<<"1">>, <<"2">>, <<"1", "2">>>>,
     <<<<"2">>, <<"1">>, <<"2">>>>,
     <<<<"b">>, <<"b", "NUL", "b">>>>,
     <<<<"b", "NUL", "b", "NUL", "b">>>>,
     <<Stamp(<<"1">>, <<"0", "0", "0", "0", "0", "1">>),
       Stamp(<<"1", "0">>, <<"0", "0", "0", "0", "1">>)>>}

MCDigest(reply_to, args) ==
    [kind |-> "digest", reply_to |-> reply_to, args |-> args, period |-> <<>>]

MCRollup(period, last_n) ==
    [kind |-> "rollup", reply_to |-> NoReply, args |-> <<last_n>>, period |-> period]

MCRequests ==
    {MCDigest(NoReply, <<>>), MCDigest(NoReply, <<-1, 1>>), MCDigest(NoReply, <<0>>),
     MCDigest(NoReply, <<3>>), MCDigest(<<"2">>, <<1>>),
     MCRollup(<<"W1">>, 0), MCRollup(<<"W2">>, 2)}
=============================================================================
