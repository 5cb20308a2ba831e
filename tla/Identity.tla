------------------------------ MODULE Identity ------------------------------
(***************************************************************************)
(* The keys of types.py that the store and the receivers of deliveries     *)
(* tell digests apart by.  A string is a sequence of tokens, among them    *)
(* NUL; sha256 is taken to have no collisions, so that a key is its        *)
(* payload, and as a part of another string it is one token.               *)
(***************************************************************************)
EXTENDS SequencesExt

NUL == "NUL"
Refused == <<>>  \* the key of fields that are refused with a ValueError

\* str.join
Joined(fields) ==
    LET joined[n \in 1..Len(fields)] ==
            IF n = 1 THEN fields[1] ELSE joined[n - 1] \o <<NUL>> \o fields[n]
    IN  joined[Len(fields)]

\* Variant: the fields are joined whatever is in them.
JoinUnchecked(fields) == Joined(fields)

\* _join_key_fields
JoinKeyFields(fields) ==
    IF \E i \in DOMAIN fields : NUL \in ToSet(fields[i]) THEN Refused ELSE Joined(fields)

\* The sorted unique ids: one order for every set.
compute_digest_key(channel, platform, ids) ==
    JoinKeyFields(<<channel, <<platform>>>> \o SetToSeq(ToSet(ids)))

compute_rollup_key(channel, period) == JoinKeyFields(<<channel, <<"rollup">>, period>>)

\* The delivery_id of delivery_for.
DeliveryId(channel, key) == channel \o <<NUL, key>>
=============================================================================
