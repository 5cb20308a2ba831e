--------------------------- MODULE Threads_proofs ---------------------------
(***************************************************************************)
(* What holds of the fetch contract and of the keys for every channel,     *)
(* history, request and limit.  A thread is always the last messages of    *)
(* its history, so the proof about threads is about how many: IsEnd(t, h,  *)
(* k) says that t is the last k messages of h.  The proof about keys reads *)
(* the joined fields back off the key, from its last NUL on; the one about *)
(* links reads a message off the end of a link, then its place.            *)
(***************************************************************************)
EXTENDS Threads, FiniteSetTheorems, SequenceTheorems, WellFoundedInduction, TLAPS

\* The least-number principle: the intervals 1..i are finite sets, and among
\* finite sets there is a least one by inclusion.
LEMMA HasLeast ==
    ASSUME NEW S \in SUBSET Nat, S # {}
    PROVE  \E i \in S : \A j \in S : i <= j
<1> DEFINE Below == {1..i : i \in S}
<1>1. Below \subseteq FiniteSubsetsOf(Nat) /\ Below # {}
  <2>1. ASSUME NEW i \in S PROVE IsFiniteSet(1..i) /\ 1..i \subseteq Nat
    BY FS_Interval
  <2> QED BY <2>1 DEF FiniteSubsetsOf
<1>2. PICK T \in Below : \A U \in Below : <<U, T>> \notin StrictSubsetOrdering(Nat)
  <2> HIDE DEF Below
  <2> QED BY <1>1, FS_StrictSubsetOrderingWellFounded, WFMin
<1>3. PICK i \in S : T = 1..i
  BY <1>2
<1>4. ASSUME NEW j \in S PROVE i <= j
  <2> SUFFICES ASSUME j < i PROVE FALSE
    OBVIOUS
  <2>1. i \in 1..i /\ i \notin 1..j /\ 1..j \subseteq 1..i
    OBVIOUS
  <2>2. 1..j \subseteq 1..i /\ 1..j # 1..i
    BY <2>1
  <2>3. <<1..j, T>> \in StrictSubsetOrdering(Nat)
    BY <1>3, <2>2 DEF StrictSubsetOrdering
  <2> QED BY <1>2, <2>3
<1> QED BY <1>4

LEMMA MinOf ==
    ASSUME NEW S \in SUBSET Nat, S # {}
    PROVE  Min(S) \in S /\ \A j \in S : Min(S) <= j
BY HasLeast DEF Min

\* A set of positions has a last one: n - i is least.
LEMMA MaxOf ==
    ASSUME NEW n \in Nat, NEW S \in SUBSET (1..n), S # {}
    PROVE  Max(S) \in S /\ \A j \in S : j <= Max(S)
<1>1. PICK d \in {n - i : i \in S} : \A e \in {n - i : i \in S} : d <= e
  <2>1. \A i \in S : n - i \in Nat
    OBVIOUS
  <2>2. {n - i : i \in S} \in SUBSET Nat /\ {n - i : i \in S} # {}
    BY <2>1
  <2> QED BY <2>2, HasLeast
<1>2. PICK i \in S : d = n - i
  BY <1>1
<1>3. \A j \in S : j <= i
  BY <1>1, <1>2
<1> QED BY <1>3 DEF Max

-----------------------------------------------------------------------------
(* The fetch contract.                                                     *)

\* t is the last k elements of h.
IsEnd(t, h, k) ==
    /\ t \in Seq(ToSet(h)) /\ Len(t) = k /\ k \in 0..Len(h)
    /\ \A i \in 1..k : t[i] = h[Len(h) - k + i]

LEMMA FromIsEnd ==
    ASSUME NEW h, h \in Seq(ToSet(h)), NEW i \in 1..(Len(h) + 1)
    PROVE  IsEnd(From(h, i), h, Len(h) - i + 1)
<1> DEFINE S == ToSet(h)
           n == Len(h)
<1>1. n \in Nat /\ i \in Int /\ \A j \in i..n : h[j] \in S
  BY DEF ToSet
<1> HIDE DEF S
<1>2. /\ SubSeq(h, i, n) \in Seq(S)
      /\ Len(SubSeq(h, i, n)) = IF i <= n THEN n - i + 1 ELSE 0
      /\ \A j \in 1..(n - i + 1) : SubSeq(h, i, n)[j] = h[i + j - 1]
  BY <1>1, SubSeqProperties
<1> HIDE DEF n
<1>3. n - i + 1 \in 0..n /\ (i > n => n - i + 1 = 0)
  BY <1>1 DEF n
<1>4. \A j \in 1..(n - i + 1) : i + j - 1 = n - (n - i + 1) + j
  BY <1>1
<1>5. IsEnd(SubSeq(h, i, n), h, n - i + 1)
  BY <1>1, <1>2, <1>3, <1>4 DEF IsEnd, S, n
<1> QED BY <1>5 DEF From, n

\* A sequence of elements of S.
LEMMA SeqOfElements ==
    ASSUME NEW T, NEW S, NEW u \in Seq(T), \A i \in 1..Len(u) : u[i] \in S
    PROVE  u \in Seq(S)
<1>1. u = [i \in 1..Len(u) |-> u[i]] /\ Len(u) \in Nat
  OBVIOUS
<1>2. [i \in 1..Len(u) |-> u[i]] \in Seq(S)
  OBVIOUS
<1> QED BY <1>1, <1>2

\* The end of an end is an end.
LEMMA EndOfEnd ==
    ASSUME NEW h, NEW t, NEW u, NEW k, NEW l, h \in Seq(ToSet(h)),
           IsEnd(t, h, k), IsEnd(u, t, l)
    PROVE  IsEnd(u, h, l)
<1>1. Len(h) \in Nat /\ k \in 0..Len(h) /\ l \in 0..k /\ Len(t) = k /\ Len(u) = l
  BY DEF IsEnd
<1>2. ASSUME NEW i \in 1..l PROVE u[i] = h[Len(h) - l + i] /\ u[i] \in ToSet(h)
  <2>1. u[i] = t[k - l + i] /\ k - l + i \in 1..k
    BY <1>1 DEF IsEnd
  <2>2. t[k - l + i] = h[Len(h) - k + (k - l + i)]
    BY <2>1 DEF IsEnd
  <2>3. Len(h) - k + (k - l + i) = Len(h) - l + i
    BY <1>1
  <2>4. Len(h) - l + i \in DOMAIN h
    BY <1>1
  <2> QED BY <2>1, <2>2, <2>3, <2>4 DEF ToSet
<1>3. u \in Seq(ToSet(h))
  <2>1. u \in Seq(ToSet(t))
    BY DEF IsEnd
  <2>2. \A i \in 1..Len(u) : u[i] \in ToSet(h)
    BY <1>1, <1>2
  <2> QED BY <2>1, <2>2, SeqOfElements
<1> QED BY <1>1, <1>2, <1>3 DEF IsEnd

\* An end is a suffix.
LEMMA EndIsSuffix ==
    ASSUME NEW h, NEW t, NEW k, h \in Seq(ToSet(h)), IsEnd(t, h, k)
    PROVE  IsSuffix(t, h)
<1> DEFINE rt == Reverse(t)
           rh == Reverse(h)
           S == ToSet(h)
<1>1. Len(h) \in Nat /\ k \in 0..Len(h) /\ Len(t) = k /\ DOMAIN h = 1..Len(h)
  BY DEF IsEnd
<1>2. \A i \in 1..Len(h) : h[i] \in S
  BY <1>1 DEF ToSet
<1> HIDE DEF S
<1>3. \A i \in 1..k : rt[i] = h[Len(h) - i + 1]
  <2> SUFFICES ASSUME NEW i \in 1..k PROVE rt[i] = h[Len(h) - i + 1]
    OBVIOUS
  <2>1. rt[i] = t[(k - i) + 1] /\ (k - i) + 1 \in 1..k
    BY <1>1 DEF Reverse
  <2>2. Len(h) - k + ((k - i) + 1) = Len(h) - i + 1
    BY <1>1
  <2> QED BY <2>1, <2>2 DEF IsEnd
<1>4. \A i \in 1..Len(h) : rh[i] = h[Len(h) - i + 1] /\ rh[i] \in S
  <2> SUFFICES ASSUME NEW i \in 1..Len(h) PROVE rh[i] = h[Len(h) - i + 1] /\ rh[i] \in S
    OBVIOUS
  <2>1. rh[i] = h[(Len(h) - i) + 1] /\ (Len(h) - i) + 1 \in 1..Len(h)
    BY <1>1 DEF Reverse
  <2> QED BY <1>2, <2>1
<1>5. \A i \in 1..k : rt[i] = rh[i] /\ rt[i] \in S /\ rh[i] \in S
  BY <1>1, <1>3, <1>4
<1>6. Len(rt) = k /\ Len(rh) = Len(h)
  BY <1>1 DEF Reverse
<1> HIDE DEF rt, rh
<1>7. /\ SubSeq(rt, 1, k) \in Seq(S) /\ SubSeq(rh, 1, k) \in Seq(S)
      /\ Len(SubSeq(rt, 1, k)) = k /\ Len(SubSeq(rh, 1, k)) = k
      /\ \A i \in 1..k : SubSeq(rt, 1, k)[i] = rt[i] /\ SubSeq(rh, 1, k)[i] = rh[i]
  <2>1. k \in Int /\ 1 \in Int /\ (1 <= k \/ k = 0) /\ k - 1 + 1 = k
        /\ \A i \in 1..k : 1 + i - 1 = i
    BY <1>1
  <2> QED BY <1>5, <2>1, SubSeqProperties
<1>8. SubSeq(rt, 1, k) = SubSeq(rh, 1, k)
  BY <1>1, <1>5, <1>7, SeqEqual
<1> QED BY <1>1, <1>6, <1>8 DEF IsSuffix, IsPrefix, rt, rh

\* s[-n:]
LEMMA LastFewIsEnd ==
    ASSUME NEW h, h \in Seq(ToSet(h)), NEW n \in Nat \ {0}
    PROVE  IsEnd(LastFew(h, n), h, IF n >= Len(h) THEN Len(h) ELSE n)
<1>1. CASE n >= Len(h)
  <2>1. \A i \in 1..Len(h) : Len(h) - Len(h) + i = i
    OBVIOUS
  <2>2. IsEnd(h, h, Len(h))
    BY <2>1 DEF IsEnd
  <2> QED BY <1>1, <2>2 DEF LastFew
<1>2. CASE n < Len(h)
  <2>1. Len(h) - n + 1 \in 1..(Len(h) + 1) /\ Len(h) - (Len(h) - n + 1) + 1 = n
    BY <1>2
  <2>2. IsEnd(From(h, Len(h) - n + 1), h, n)
    BY <2>1, FromIsEnd
  <2> QED BY <1>2, <2>2 DEF LastFew
<1> QED BY <1>1, <1>2

\* Before it is cut a thread is the last messages of the history, as many as
\* are wanted.
LEMMA SelectedIsWanted ==
    ASSUME NEW h, h \in Seq(ToSet(h)), NEW request, LastN(request) \in Int,
           request.reply_to # NoReply => request.reply_to \in ToSet(h)
    PROVE  IsEnd(Selected(h, request.reply_to, LastN(request)), h,
                 Cardinality(Wanted(request, h)))
<1> DEFINE reply == request.reply_to
           n == LastN(request)
           selected == Selected(h, reply, n)
<1>1. Len(h) \in Nat /\ DOMAIN h = 1..Len(h)
  OBVIOUS
<1>2. CASE reply # NoReply
  <2> DEFINE S == {i \in DOMAIN h : h[i] = reply}
  <2>1. S \in SUBSET (1..Len(h)) /\ S # {}
    BY <1>1, <1>2 DEF ToSet
  <2>2. Max(S) \in S /\ \A j \in S : j <= Max(S)
    <3> HIDE DEF S
    <3> QED BY <1>1, <2>1, MaxOf
  <2>3. Max(S) \in 1..Len(h) /\ selected = From(h, Max(S))
    BY <1>1, <1>2, <2>2 DEF Selected, FromReply
  <2>4. Wanted(request, h) = Max(S)..Len(h)
    <3>1. Wanted(request, h) = {i \in DOMAIN h : \A j \in DOMAIN h : h[j] = reply => j <= i}
      BY <1>2 DEF Wanted
    <3>2. ASSUME NEW i \in 1..Len(h)
          PROVE  (\A j \in DOMAIN h : h[j] = reply => j <= i) <=> Max(S) <= i
      <4> DEFINE m == Max(S)
      <4>1. m \in 1..Len(h) /\ h[m] = reply /\ \A j \in 1..Len(h) : h[j] = reply => j <= m
        BY <1>1, <2>2
      <4> HIDE DEF m
      <4>2. (\A j \in DOMAIN h : h[j] = reply => j <= i) <=> m <= i
        BY <1>1, <4>1
      <4> QED BY <4>2 DEF m
    <3> HIDE DEF S
    <3>3. \A i : i \in Wanted(request, h) <=> i \in 1..Len(h) /\ Max(S) <= i
      BY <1>1, <3>1, <3>2
    <3>4. \A i : i \in Max(S)..Len(h) <=> i \in 1..Len(h) /\ Max(S) <= i
      BY <1>1, <2>3
    <3> QED BY <3>3, <3>4
  <2> HIDE DEF S
  <2>5. Cardinality(Max(S)..Len(h)) = Len(h) - Max(S) + 1
    BY <1>1, <2>3, FS_Interval
  <2>6. IsEnd(From(h, Max(S)), h, Len(h) - Max(S) + 1)
    BY <1>1, <2>3, FromIsEnd
  <2> QED BY <2>3, <2>4, <2>5, <2>6
<1>3. CASE reply = NoReply /\ n <= 0
  <2>1. selected = <<>>
    BY <1>3 DEF Selected
  <2>2. Wanted(request, h) = {}
    BY <1>1, <1>3 DEF Wanted
  <2>3. IsEnd(<<>>, h, 0)
    BY <1>1 DEF IsEnd
  <2> QED BY <2>1, <2>2, <2>3, FS_EmptySet
<1>4. CASE reply = NoReply /\ n > 0
  <2>1. selected = LastFew(h, n) /\ n \in Nat \ {0}
    BY <1>4 DEF Selected
  <2>2. Wanted(request, h) = {i \in DOMAIN h : i > Len(h) - n}
    BY <1>4 DEF Wanted
  <2>3. CASE n >= Len(h)
    <3>1. Wanted(request, h) = 1..Len(h)
      <4>1. \A i \in 1..Len(h) : i > Len(h) - n
        BY <1>1, <2>1, <2>3
      <4> QED BY <1>1, <2>2, <4>1
    <3>2. Cardinality(1..Len(h)) = Len(h)
      <4>1. 1 > Len(h) => Len(h) = 0
        BY <1>1
      <4>2. Len(h) - 1 + 1 = Len(h) /\ Len(h) \in Int
        BY <1>1
      <4> QED BY <4>1, <4>2, FS_Interval
    <3>3. IsEnd(LastFew(h, n), h, Len(h))
      BY <2>1, <2>3, LastFewIsEnd
    <3> QED BY <2>1, <3>1, <3>2, <3>3
  <2>4. CASE n < Len(h)
    <3>1. Wanted(request, h) = (Len(h) - n + 1)..Len(h)
      BY <1>1, <2>1, <2>2, <2>4
    <3>2. Cardinality((Len(h) - n + 1)..Len(h)) = n
      <4>1. Len(h) - n + 1 \in Int /\ ~(Len(h) - n + 1 > Len(h)) /\ Len(h) - (Len(h) - n + 1) + 1 = n
        BY <1>1, <2>1
      <4> QED BY <1>1, <4>1, FS_Interval
    <3>3. IsEnd(LastFew(h, n), h, n)
      BY <2>1, <2>4, LastFewIsEnd
    <3> QED BY <2>1, <3>1, <3>2, <3>3
  <2> QED BY <1>1, <2>1, <2>3, <2>4
<1> QED BY <1>2, <1>3, <1>4

\* The cap keeps the end, and says so.
LEMMA CapKeepsEnd ==
    ASSUME NEW h, NEW t, NEW k, h \in Seq(ToSet(h)), IsEnd(t, h, k)
    PROVE  /\ IsSuffix(Cap(t).messages, h)
           /\ \E n : IsEnd(Cap(t).messages, h, n)
           /\ Cap(t).truncated <=> k > MaxMessages
           /\ Len(Cap(t).messages) = IF k > MaxMessages THEN MaxMessages ELSE k
<1>1. Len(t) = k /\ k \in 0..Len(h) /\ Len(h) \in Nat /\ MaxMessages \in Nat \ {0}
  BY CapAssumption DEF IsEnd
<1>2. t \in Seq(ToSet(t))
  <2>1. t \in Seq(ToSet(h)) /\ DOMAIN t = 1..Len(t)
    BY <1>1 DEF IsEnd
  <2>2. \A i \in 1..Len(t) : t[i] \in ToSet(t)
    BY <2>1 DEF ToSet
  <2> QED BY <2>1, <2>2, SeqOfElements
<1>3. IsEnd(LastFew(t, MaxMessages), t, IF MaxMessages >= k THEN k ELSE MaxMessages)
  BY <1>1, <1>2, LastFewIsEnd
<1>4. /\ IsEnd(Cap(t).messages, h, IF MaxMessages >= k THEN k ELSE MaxMessages)
      /\ Cap(t).truncated <=> k > MaxMessages
  BY <1>1, <1>3, EndOfEnd DEF Cap
<1>5. IsSuffix(Cap(t).messages, h)
  BY <1>4, EndIsSuffix
<1>6. Len(Cap(t).messages) = IF MaxMessages >= k THEN k ELSE MaxMessages
  BY <1>4 DEF IsEnd
<1> QED BY <1>1, <1>4, <1>5, <1>6

-----------------------------------------------------------------------------
(* The requests.                                                           *)

LEMMA LastNIsInt ==
    ASSUME NEW request \in Requests
    PROVE  LastN(request) \in Int
<1>1. request.args \in Seq(Int) /\ (request.kind # "digest" => request.args # <<>>)
  BY RequestsAssumption
<1>2. default_last_n \in Int
  BY CapAssumption
<1>3. CASE request.kind = "digest"
  <2> DEFINE numbers == {i \in DOMAIN request.args : request.args[i] >= 0}
  <2>1. CASE numbers = {}
    BY <1>2, <1>3, <2>1 DEF LastN, ResolveLastN
  <2>2. CASE numbers # {}
    <3>1. numbers \in SUBSET Nat
      BY <1>1
    <3>2. Min(numbers) \in numbers
      <4> HIDE DEF numbers
      <4> QED BY <2>2, <3>1, MinOf
    <3>3. request.args[Min(numbers)] \in Int
      <4> DEFINE i == Min(numbers)
      <4>1. i \in 1..Len(request.args)
        BY <1>1, <3>2
      <4> HIDE DEF i
      <4>2. request.args[i] \in Int
        BY <1>1, <4>1
      <4> QED BY <4>2 DEF i
    <3> QED BY <1>3, <2>2, <3>3 DEF LastN, ResolveLastN
  <2> QED BY <2>1, <2>2
<1>4. CASE request.kind # "digest"
  <2>1. request.args[1] \in Int
    BY <1>1, <1>4
  <2> QED BY <1>2, <1>4, <2>1 DEF LastN, RollupWindow
<1> QED BY <1>3, <1>4

\* A result is what the contract makes of the request and of the history that
\* the channel had when it was fetched.
IsFetched(r) ==
    /\ r.request \in Requests
    /\ r.channel.messages \in Histories
    /\ r.request.reply_to # NoReply => r.request.reply_to \in ToSet(r.channel.messages)
    /\ r.thread = fetch_thread(r.channel, r.request.reply_to, LastN(r.request))

\* The inductive invariant.
FetchInv ==
    /\ \A c \in channels : c.messages \in Histories
    /\ \A c, d \in channels : c.id = d.id => c = d
    /\ results \in Seq(ToSet(results))
    /\ \A i \in DOMAIN results : IsFetched(results[i])

LEMMA FetchInvInit == Init => FetchInv
<1> SUFFICES ASSUME Init PROVE FetchInv
  OBVIOUS
<1>1. results = <<>> /\ channels = {}
  BY DEF Init
<1>2. <<>> \in Seq(ToSet(<<>>)) /\ DOMAIN <<>> = {}
  OBVIOUS
<1> QED BY <1>1, <1>2 DEF FetchInv

LEMMA FetchInvStep == FetchInv /\ [Next]_vars => FetchInv'
<1> SUFFICES ASSUME FetchInv, [Next]_vars PROVE FetchInv'
  OBVIOUS
<1>1. ASSUME NEW id, set_fetch_failure(id) PROVE FetchInv'
  BY <1>1 DEF set_fetch_failure, FetchInv
<1>2. ASSUME NEW c, NEW history \in Histories, add_channel(c, history) PROVE FetchInv'
  <2>1. results' = results
    BY <1>2 DEF add_channel
  <2>2. channels' = {d \in channels : d.id # c.id} \cup
                     {[id |-> c.id, platform |-> c.platform, name |-> c.name,
                       messages |-> history]}
    BY <1>2 DEF add_channel
  <2>3. \A d \in channels' : d.messages \in Histories
    BY <2>2 DEF FetchInv
  <2>4. \A d, e \in channels' : d.id = e.id => d = e
    BY <2>2 DEF FetchInv
  <2> QED BY <2>1, <2>3, <2>4 DEF FetchInv
<1>3. ASSUME NEW id, NEW request \in Requests, Answer(id, request) PROVE FetchInv'
  <2>1. PICK d \in channels :
          d.id = id /\ (request.reply_to # NoReply => request.reply_to \in ToSet(d.messages))
    BY <1>3 DEF Answer, Fetchable
  <2>2. PICK c, key, delivery :
          /\ c \in channels /\ c.id = id
          /\ results' = Append(results,
               [request |-> request, channel |-> c,
                thread |-> fetch_thread(c, request.reply_to, LastN(request)),
                key |-> key, delivery |-> delivery])
    BY <1>3 DEF Answer
  <2> DEFINE r == [request |-> request, channel |-> c,
                   thread |-> fetch_thread(c, request.reply_to, LastN(request)),
                   key |-> key, delivery |-> delivery]
  <2>3. c = d
    BY <2>1, <2>2 DEF FetchInv
  <2>4. IsFetched(r)
    BY <2>1, <2>3 DEF IsFetched, FetchInv
  <2>5. results' = Append(results, r)
    BY <2>2
  <2> HIDE DEF r
  <2>6. results \in Seq(ToSet(results)) /\ Len(results) \in Nat
    BY DEF FetchInv
  <2>7. /\ results' \in Seq(ToSet(results) \cup {r}) /\ Len(results') = Len(results) + 1
        /\ results'[Len(results) + 1] = r
        /\ \A i \in 1..Len(results) : results'[i] = results[i]
    <3>1. results \in Seq(ToSet(results) \cup {r})
      BY <2>6, SeqMonotonic
    <3> QED BY <2>5, <3>1, AppendProperties
  <2>8. results' \in Seq(ToSet(results'))
    <3>1. \A i \in 1..Len(results') : results'[i] \in ToSet(results')
      BY <2>7 DEF ToSet
    <3> QED BY <2>7, <3>1, SeqOfElements
  <2>9. \A i \in DOMAIN results' : IsFetched(results'[i])
    <3> SUFFICES ASSUME NEW i \in 1..Len(results') PROVE IsFetched(results'[i])
      BY <2>7
    <3>1. CASE i = Len(results) + 1
      BY <2>4, <2>7, <3>1
    <3>2. CASE i \in 1..Len(results)
      BY <2>6, <2>7, <3>2 DEF FetchInv
    <3> QED BY <2>6, <2>7, <3>1, <3>2
  <2>10. channels' = channels
    BY <1>3 DEF Answer
  <2> QED BY <2>8, <2>9, <2>10 DEF FetchInv, IsFetched
<1>4. CASE UNCHANGED vars
  BY <1>4 DEF vars, FetchInv
<1> QED BY <1>1, <1>2, <1>3, <1>4 DEF Next

\* fetch_thread leaves nothing out silently, for every history, request and
\* limit: a thread is the end of the history, with all that was asked for, or
\* it is marked truncated and has as many messages as a thread may have.
THEOREM NothingIsOmitted == Spec => []NothingOmittedSilently
<1>1. FetchInv => NothingOmittedSilently
  <2> SUFFICES ASSUME FetchInv, NEW i \in DOMAIN results
               PROVE  LET r == results[i]
                          got == r.thread.messages
                          wanted == Wanted(r.request, r.channel.messages)
                      IN  /\ IsSuffix(got, r.channel.messages)
                          /\ IF r.thread.truncated
                             THEN Len(got) = MaxMessages /\ Cardinality(wanted) > MaxMessages
                             ELSE Len(got) = Cardinality(wanted)
    BY DEF NothingOmittedSilently
  <2> DEFINE request == results[i].request
             h == results[i].channel.messages
             t == Selected(h, request.reply_to, LastN(request))
             k == Cardinality(Wanted(request, h))
  <2>1. /\ request \in Requests /\ h \in Seq(ToSet(h))
        /\ request.reply_to # NoReply => request.reply_to \in ToSet(h)
        /\ results[i].thread = Cap(t)
    BY HistoriesAssumption DEF FetchInv, IsFetched, fetch_thread
  <2>2. LastN(request) \in Int
    BY <2>1, LastNIsInt
  <2>3. IsEnd(t, h, k)
    <3> HIDE DEF request, h
    <3> QED BY <2>1, <2>2, SelectedIsWanted
  <2> HIDE DEF t, k, h
  <2>4. /\ IsSuffix(Cap(t).messages, h)
        /\ Cap(t).truncated <=> k > MaxMessages
        /\ Len(Cap(t).messages) = IF k > MaxMessages THEN MaxMessages ELSE k
    BY <2>1, <2>3, CapKeepsEnd
  <2> QED BY <2>1, <2>4 DEF h, k
<1> QED BY <1>1, FetchInvInit, FetchInvStep, PTL DEF Spec

-----------------------------------------------------------------------------
(* Keys.  Fields without a NUL are read off the joined string, the last one  *)
(* first: it is what follows the last NUL.                                   *)

IsJoin(j, fields, m) ==
    j = [n \in 1..m |-> IF n = 1 THEN fields[1] ELSE j[n - 1] \o <<NUL>> \o fields[n]]

\* The recursion of Joined defines a function.
LEMMA JoinExists ==
    ASSUME NEW fields, NEW m \in Nat
    PROVE  \E j : IsJoin(j, fields, m)
<1> DEFINE Bad == {n \in Nat : ~\E j : IsJoin(j, fields, n)}
<1> SUFFICES ASSUME Bad # {} PROVE FALSE
  OBVIOUS
<1>1. PICK n \in Bad : \A i \in Bad : n <= i
  <2>1. Bad \in SUBSET Nat
    OBVIOUS
  <2> HIDE DEF Bad
  <2> QED BY <2>1, HasLeast
<1>2. CASE n = 0
  <2>1. IsJoin([i \in 1..0 |-> <<>>], fields, 0)
    BY DEF IsJoin
  <2> QED BY <1>1, <1>2, <2>1
<1>3. CASE n # 0
  <2>1. n \in Nat /\ n - 1 \in Nat /\ n - 1 \notin Bad
    BY <1>1, <1>3
  <2>2. PICK j : IsJoin(j, fields, n - 1)
    BY <2>1
  <2> DEFINE last == IF n = 1 THEN fields[1] ELSE j[n - 1] \o <<NUL>> \o fields[n]
             k == [i \in 1..n |-> IF i = n THEN last ELSE j[i]]
  <2>3. ASSUME NEW i \in 1..n
        PROVE  k[i] = IF i = 1 THEN fields[1] ELSE k[i - 1] \o <<NUL>> \o fields[i]
    <3>1. CASE i = n
      BY <2>1, <3>1
    <3>2. CASE i # n
      <4>1. i \in 1..(n - 1) /\ (i # 1 => i - 1 \in 1..(n - 1) /\ i - 1 # n /\ i - 1 \in 1..n)
        BY <2>1, <3>2
      <4>2. j[i] = IF i = 1 THEN fields[1] ELSE j[i - 1] \o <<NUL>> \o fields[i]
        BY <2>2, <4>1 DEF IsJoin
      <4>3. k[i] = j[i] /\ (i # 1 => k[i - 1] = j[i - 1])
        BY <3>2, <4>1
      <4> HIDE DEF k
      <4> QED BY <4>2, <4>3
    <3> QED BY <3>1, <3>2
  <2>4. IsJoin(k, fields, n)
    <3>1. k = [i \in 1..n |-> k[i]]
      OBVIOUS
    <3> HIDE DEF k
    <3> QED BY <2>3, <3>1 DEF IsJoin
  <2> QED BY <1>1, <2>4
<1> QED BY <1>2, <1>3

\* What Joined is the end of.
LEMMA JoinedIs ==
    ASSUME NEW fields, Len(fields) \in Nat
    PROVE  \E j : IsJoin(j, fields, Len(fields)) /\ Joined(fields) = j[Len(fields)]
<1> DEFINE j == CHOOSE j : IsJoin(j, fields, Len(fields))
<1>1. IsJoin(j, fields, Len(fields))
  BY JoinExists
<1>2. Joined(fields) = j[Len(fields)]
  BY DEF Joined, IsJoin
<1> QED BY <1>1, <1>2

\* u is s with x behind it.
IsConcat(u, s, x) ==
    /\ Len(u) = Len(s) + Len(x)
    /\ \A i \in 1..Len(s) : u[i] = s[i]
    /\ \A i \in 1..Len(x) : u[Len(s) + i] = x[i]

LEMMA Concatenated ==
    ASSUME NEW T, NEW s \in Seq(T), NEW x \in Seq(T)
    PROVE  s \o x \in Seq(T) /\ IsConcat(s \o x, s, x)
<1> DEFINE u == s \o x
<1>0. Len(s) \in Nat /\ Len(x) \in Nat
  OBVIOUS
<1>1. /\ u \in Seq(T) /\ Len(u) = Len(s) + Len(x)
      /\ \A i \in 1..(Len(s) + Len(x)) : u[i] = IF i <= Len(s) THEN s[i] ELSE x[i - Len(s)]
  BY ConcatProperties
<1> HIDE DEF u
<1>2. \A i \in 1..Len(s) : u[i] = s[i]
  BY <1>0, <1>1
<1>3. ASSUME NEW i \in 1..Len(x) PROVE u[Len(s) + i] = x[i]
  <2>1. /\ Len(s) + i \in 1..(Len(s) + Len(x)) /\ ~(Len(s) + i <= Len(s))
        /\ Len(s) + i - Len(s) = i
    BY <1>0
  <2> QED BY <1>1, <2>1
<1>4. u \in Seq(T) /\ IsConcat(u, s, x)
  BY <1>1, <1>2, <1>3 DEF IsConcat
<1> QED BY <1>4 DEF u

\* A string, a separator and a field.
IsAdded(u, s, p, x) ==
    /\ Len(u) = Len(s) + 1 + Len(x)
    /\ \A i \in 1..Len(s) : u[i] = s[i]
    /\ u[Len(s) + 1] = p
    /\ \A i \in 1..Len(x) : u[Len(s) + 1 + i] = x[i]

LEMMA FieldAdded ==
    ASSUME NEW T, NEW p \in T, NEW s \in Seq(T), NEW x \in Seq(T)
    PROVE  s \o <<p>> \o x \in Seq(T) /\ IsAdded(s \o <<p>> \o x, s, p, x)
<1> DEFINE sep == <<p>>
           v == s \o sep
           u == v \o x
<1>0. Len(s) \in Nat /\ Len(x) \in Nat
  OBVIOUS
<1>1. sep \in Seq(T) /\ Len(sep) = 1 /\ sep[1] = p
  OBVIOUS
<1> HIDE DEF sep
<1>2. v \in Seq(T) /\ IsConcat(v, s, sep)
  BY <1>1, Concatenated
<1> HIDE DEF v
<1>3. u \in Seq(T) /\ IsConcat(u, v, x)
  BY <1>2, Concatenated
<1> HIDE DEF u
<1>4. Len(v) = Len(s) + 1 /\ (\A i \in 1..Len(s) : v[i] = s[i]) /\ v[Len(s) + 1] = p
  BY <1>0, <1>1, <1>2 DEF IsConcat
<1>5. /\ Len(u) = Len(s) + 1 + Len(x)
      /\ \A i \in 1..(Len(s) + 1) : u[i] = v[i]
      /\ \A i \in 1..Len(x) : u[Len(s) + 1 + i] = x[i]
  BY <1>0, <1>3, <1>4 DEF IsConcat
<1>6. Len(s) + 1 \in 1..(Len(s) + 1) /\ 1..Len(s) \subseteq 1..(Len(s) + 1)
  BY <1>0
<1>7. u \in Seq(T) /\ IsAdded(u, s, p, x)
  BY <1>3, <1>4, <1>5, <1>6 DEF IsAdded
<1> QED BY <1>7 DEF u, v, sep

\* The last field, what separates it and what is before it.
LEMMA LastField ==
    ASSUME NEW T, NEW s \in Seq(T), NEW t \in Seq(T), NEW x \in Seq(T), NEW y \in Seq(T),
           NEW p, NEW q, p \notin ToSet(y), q \notin ToSet(x),
           NEW u, IsAdded(u, s, p, x), IsAdded(u, t, q, y)
    PROVE  s = t /\ p = q /\ x = y
<1>0. Len(s) \in Nat /\ Len(x) \in Nat /\ Len(t) \in Nat /\ Len(y) \in Nat
  OBVIOUS
<1>1. /\ Len(u) = Len(s) + 1 + Len(x)
      /\ \A i \in 1..Len(s) : u[i] = s[i]
      /\ u[Len(s) + 1] = p
      /\ \A i \in 1..Len(x) : u[Len(s) + 1 + i] = x[i]
  BY DEF IsAdded
<1>2. /\ Len(u) = Len(t) + 1 + Len(y)
      /\ \A i \in 1..Len(t) : u[i] = t[i]
      /\ u[Len(t) + 1] = q
      /\ \A i \in 1..Len(y) : u[Len(t) + 1 + i] = y[i]
  BY DEF IsAdded
<1>3. (\A i \in 1..Len(x) : x[i] # q) /\ (\A i \in 1..Len(y) : y[i] # p)
  BY DEF ToSet
<1>4. ~(Len(s) < Len(t))
  <2> SUFFICES ASSUME Len(s) < Len(t) PROVE FALSE
    OBVIOUS
  <2>1. Len(t) - Len(s) \in 1..Len(x) /\ Len(s) + 1 + (Len(t) - Len(s)) = Len(t) + 1
    BY <1>0, <1>1, <1>2
  <2>2. u[Len(s) + 1 + (Len(t) - Len(s))] = x[Len(t) - Len(s)]
    BY <1>1, <2>1
  <2> QED BY <1>0, <1>2, <1>3, <2>1, <2>2
<1>5. ~(Len(t) < Len(s))
  <2> SUFFICES ASSUME Len(t) < Len(s) PROVE FALSE
    OBVIOUS
  <2>1. Len(s) - Len(t) \in 1..Len(y) /\ Len(t) + 1 + (Len(s) - Len(t)) = Len(s) + 1
    BY <1>0, <1>1, <1>2
  <2>2. u[Len(t) + 1 + (Len(s) - Len(t))] = y[Len(s) - Len(t)]
    BY <1>2, <2>1
  <2> QED BY <1>0, <1>1, <1>3, <2>1, <2>2
<1>6. Len(s) = Len(t) /\ Len(x) = Len(y)
  BY <1>0, <1>1, <1>2, <1>4, <1>5
<1>7. \A i \in 1..Len(s) : s[i] = t[i]
  BY <1>0, <1>1, <1>2, <1>6
<1>8. \A i \in 1..Len(x) : x[i] = y[i]
  BY <1>0, <1>1, <1>2, <1>6
<1> QED BY <1>1, <1>2, <1>6, <1>7, <1>8, SeqEqual

\* Every stage of a join is a string: the first field, or the stage before
\* with a NUL and the next field.
LEMMA JoinStages ==
    ASSUME NEW T, NUL \in T, NEW fields \in Seq(Seq(T)), NEW j,
           IsJoin(j, fields, Len(fields)), NEW n \in 1..Len(fields)
    PROVE  /\ j[n] \in Seq(T)
           /\ n = 1 => j[n] = fields[1]
           /\ n # 1 => n - 1 \in 1..Len(fields) /\ j[n - 1] \in Seq(T)
                         /\ IsAdded(j[n], j[n - 1], NUL, fields[n])
<1>0. Len(fields) \in Nat /\ \A i \in 1..Len(fields) : fields[i] \in Seq(T)
  OBVIOUS
<1>1. \A i \in 1..Len(fields) :
        j[i] = IF i = 1 THEN fields[1] ELSE j[i - 1] \o <<NUL>> \o fields[i]
  BY DEF IsJoin
<1> DEFINE Bad == {i \in 1..Len(fields) : j[i] \notin Seq(T)}
<1>2. Bad = {}
  <2> SUFFICES ASSUME Bad # {} PROVE FALSE
    OBVIOUS
  <2>1. PICK i \in Bad : \A k \in Bad : i <= k
    <3>1. Bad \in SUBSET Nat
      BY <1>0
    <3> HIDE DEF Bad
    <3> QED BY <3>1, HasLeast
  <2>2. i # 1
    BY <1>0, <1>1, <2>1
  <2>3. i - 1 \in 1..Len(fields) /\ i - 1 \notin Bad
    BY <1>0, <2>1, <2>2
  <2>4. j[i - 1] \o <<NUL>> \o fields[i] \in Seq(T)
    BY <1>0, <2>1, <2>3, FieldAdded
  <2> QED BY <1>1, <2>1, <2>2, <2>4
<1>t. \A i \in 1..Len(fields) : j[i] \in Seq(T)
  BY <1>2
<1> HIDE DEF Bad
<1>3. ASSUME n # 1
      PROVE  n - 1 \in 1..Len(fields) /\ j[n - 1] \in Seq(T) /\ IsAdded(j[n], j[n - 1], NUL, fields[n])
  <2>0. n - 1 \in 1..Len(fields)
    BY <1>0, <1>3
  <2>1. n - 1 \in 1..Len(fields) /\ j[n - 1] \in Seq(T)
    BY <1>t, <2>0
  <2>2. IsAdded(j[n - 1] \o <<NUL>> \o fields[n], j[n - 1], NUL, fields[n])
    BY <1>0, <2>1, FieldAdded
  <2> QED BY <1>1, <1>3, <2>1, <2>2
<1> QED BY <1>1, <1>t, <1>3

\* j has the stages of joining n strings without a NUL.
IsStages(T, j, F, n) ==
    \A i \in 1..n : /\ F[i] \in Seq(T) /\ NUL \notin ToSet(F[i])
                    /\ j[i] \in Seq(T)
                    /\ i = 1 => j[i] = F[1]
                    /\ i # 1 => IsAdded(j[i], j[i - 1], NUL, F[i])

Agree(F, G, m, n) == m = n /\ \A i \in 1..m : F[i] = G[i]

\* Two stages are equal only after the same fields.
LEMMA StagesIdentify ==
    ASSUME NEW T, NEW f, NEW F, NEW M \in Nat, IsStages(T, f, F, M),
           NEW g, NEW G, NEW N \in Nat, IsStages(T, g, G, N),
           NEW m0 \in 1..M, NEW n0 \in 1..N, f[m0] = g[n0]
    PROVE  Agree(F, G, m0, n0)
<1> DEFINE Bad == {m \in 1..M : \E n \in 1..N : f[m] = g[n] /\ ~Agree(F, G, m, n)}
<1> SUFFICES ASSUME Bad # {} PROVE FALSE
  <2>1. ASSUME ~Agree(F, G, m0, n0) PROVE m0 \in Bad
    BY <2>1
  <2> HIDE DEF Bad
  <2> QED BY <2>1
<1>1. PICK m \in Bad : \A k \in Bad : m <= k
  <2>1. Bad \in SUBSET Nat
    OBVIOUS
  <2> HIDE DEF Bad
  <2> QED BY <2>1, HasLeast
<1>2. PICK n \in 1..N : f[m] = g[n] /\ ~Agree(F, G, m, n)
  BY <1>1
<1>3. m \in 1..M
  BY <1>1
<1>4. /\ F[m] \in Seq(T) /\ NUL \notin ToSet(F[m]) /\ f[m] \in Seq(T)
      /\ m = 1 => f[m] = F[1]
      /\ m # 1 => m - 1 \in 1..M /\ f[m - 1] \in Seq(T) /\ IsAdded(f[m], f[m - 1], NUL, F[m])
  <2>1. m # 1 => m - 1 \in 1..M
    BY <1>3
  <2> QED BY <1>3, <2>1 DEF IsStages
<1>5. /\ G[n] \in Seq(T) /\ NUL \notin ToSet(G[n]) /\ g[n] \in Seq(T)
      /\ n = 1 => g[n] = G[1]
      /\ n # 1 => n - 1 \in 1..N /\ g[n - 1] \in Seq(T) /\ IsAdded(g[n], g[n - 1], NUL, G[n])
  <2>1. n # 1 => n - 1 \in 1..N
    OBVIOUS
  <2> QED BY <2>1 DEF IsStages
<1>6. ASSUME NEW s \in Seq(T), NEW x \in Seq(T), NEW u \in Seq(T), IsAdded(u, s, NUL, x)
      PROVE  NUL \in ToSet(u)
  <2>1. Len(s) \in Nat /\ Len(x) \in Nat /\ DOMAIN u = 1..Len(u)
    OBVIOUS
  <2>2. Len(s) + 1 \in DOMAIN u /\ u[Len(s) + 1] = NUL
    BY <1>6, <2>1 DEF IsAdded
  <2> QED BY <2>2 DEF ToSet
<1>7. CASE m = 1 /\ n = 1
  <2>1. F[1] = G[1]
    BY <1>2, <1>4, <1>5, <1>7
  <2> QED BY <1>2, <1>7, <2>1 DEF Agree
<1>8. CASE m = 1 /\ n # 1
  BY <1>2, <1>4, <1>5, <1>6, <1>8
<1>9. CASE m # 1 /\ n = 1
  BY <1>2, <1>4, <1>5, <1>6, <1>9
<1>10. CASE m # 1 /\ n # 1
  <2>1. IsAdded(f[m], g[n - 1], NUL, G[n])
    BY <1>2, <1>5, <1>10
  <2>2. f[m - 1] = g[n - 1] /\ F[m] = G[n]
    <3> HIDE DEF Bad
    <3> QED BY <1>4, <1>5, <1>10, <2>1, LastField
  <2>3. m - 1 \notin Bad
    <3> HIDE DEF Bad
    <3> QED BY <1>1, <1>3
  <2>4. Agree(F, G, m - 1, n - 1)
    BY <1>4, <1>5, <1>10, <2>2, <2>3
  <2>5. m = n
    BY <1>3, <2>4 DEF Agree
  <2>6. \A i \in 1..m : F[i] = G[i]
    <3>1. \A i \in 1..m : i \in 1..(m - 1) \/ i = m
      BY <1>3
    <3> QED BY <2>2, <2>4, <2>5, <3>1 DEF Agree
  <2> QED BY <1>2, <2>5, <2>6 DEF Agree
<1> QED BY <1>7, <1>8, <1>9, <1>10

\* Fields without a NUL can be read off the string they are joined to.
LEMMA JoinedIdentifies ==
    ASSUME NEW T, NUL \in T,
           NEW F \in Seq(Seq(T)), F # <<>>, \A i \in 1..Len(F) : NUL \notin ToSet(F[i]),
           NEW G \in Seq(Seq(T)), G # <<>>, \A i \in 1..Len(G) : NUL \notin ToSet(G[i]),
           Joined(F) = Joined(G)
    PROVE  F = G
<1>0. /\ Len(F) \in Nat \ {0} /\ Len(G) \in Nat \ {0}
      /\ Len(F) \in 1..Len(F) /\ Len(G) \in 1..Len(G)
  BY EmptySeq
<1>t. /\ \A i \in 1..Len(F) : F[i] \in Seq(T)
      /\ \A i \in 1..Len(G) : G[i] \in Seq(T)
  BY ElementOfSeq
<1>1. PICK f : IsJoin(f, F, Len(F)) /\ Joined(F) = f[Len(F)]
  BY <1>0, JoinedIs
<1>2. PICK g : IsJoin(g, G, Len(G)) /\ Joined(G) = g[Len(G)]
  BY <1>0, JoinedIs
<1>3. IsStages(T, f, F, Len(F))
  BY <1>1, <1>t, JoinStages DEF IsStages
<1>4. IsStages(T, g, G, Len(G))
  BY <1>2, <1>t, JoinStages DEF IsStages
<1>5. Agree(F, G, Len(F), Len(G))
  BY <1>0, <1>1, <1>2, <1>3, <1>4, StagesIdentify
<1> QED BY <1>5, SeqEqual DEF Agree

\* A finite set in some order has the elements of the set.
LEMMA InOrder ==
    ASSUME NEW S, IsFiniteSet(S)
    PROVE  SetToSeq(S) \in Seq(S) /\ ToSet(SetToSeq(S)) = S
<1> DEFINE n == Cardinality(S)
           f == SetToSeq(S)
<1>1. n \in Nat /\ ExistsBijection(1..n, S)
  BY FS_CardinalityType
<1>2. \E g \in [1..n -> S] : IsInjective(g)
  BY <1>1 DEF ExistsBijection, Bijection, Injection
<1>3. f \in [1..n -> S] /\ IsInjective(f)
  BY <1>2 DEF SetToSeq
<1> HIDE DEF f
<1>4. IsFiniteSet(1..n) /\ Cardinality(1..n) = n
  <2>1. 1 > n => n = 0
    BY <1>1
  <2>2. n - 1 + 1 = n /\ n \in Int
    BY <1>1
  <2> QED BY <2>1, <2>2, FS_Interval
<1>5. f \in Surjection(1..n, S)
  <2>1. f \in Injection(1..n, S)
    BY <1>3 DEF Injection
  <2> QED BY <1>4, <2>1, FS_Injection
<1> HIDE DEF n
<1>6. f \in Seq(S) /\ DOMAIN f = 1..n
  BY <1>1, <1>3
<1>7. ToSet(f) = S
  BY <1>3, <1>5, <1>6 DEF ToSet, Surjection
<1> QED BY <1>6, <1>7 DEF f

\* The elements of a sequence are finitely many.
LEMMA FinitelyMany ==
    ASSUME NEW s, s \in Seq(ToSet(s))
    PROVE  IsFiniteSet(ToSet(s))
<1>1. Len(s) \in Nat /\ DOMAIN s = 1..Len(s)
  OBVIOUS
<1>2. IsFiniteSet(1..Len(s))
  <2>1. 1 \in Int /\ Len(s) \in Int
    BY <1>1
  <2> QED BY <2>1, FS_Interval
<1>3. s \in Surjection(1..Len(s), ToSet(s))
  BY <1>1 DEF ToSet, Surjection
<1> QED BY <1>2, <1>3, FS_Surjection

\* What the key of a result is made of.
Fields(r) ==
    IF r.request.kind = "digest"
    THEN <<r.channel.id, <<r.channel.platform>>>> \o SetToSeq(ToSet(r.thread.messages))
    ELSE <<r.channel.id, <<"rollup">>, r.request.period>>

\* What two results must have in common to be one.
SameDigest(a, b) ==
    /\ a.channel.id = b.channel.id
    /\ a.request.kind = b.request.kind
    /\ a.request.kind = "rollup" => a.request.period = b.request.period
    /\ a.request.kind = "digest" =>
         /\ a.channel.platform = b.channel.platform
         /\ ToSet(a.thread.messages) = ToSet(b.thread.messages)

\* A result of texts, with its key.
IsKeyed(r) ==
    /\ r.request.kind \in {"digest", "rollup"}
    /\ IsText(r.request.period)
    /\ IsText(r.channel.id)
    /\ r.channel.platform \in {"telegram", "slack"}
    /\ r.thread.messages \in Seq(ToSet(r.thread.messages))
    /\ \A m \in ToSet(r.thread.messages) : IsText(m)
    /\ r.key = JoinKeyFields(Fields(r))
    /\ r.key # Refused
    /\ r.delivery = DeliveryId(r.channel.id, r.key)

\* The tokens of all of them.
Tokens(r) ==
    {NUL, r.channel.platform, "rollup"} \cup ToSet(r.channel.id) \cup ToSet(r.request.period)
      \cup UNION {ToSet(m) : m \in ToSet(r.thread.messages)}

LEMMA FieldsAreTexts ==
    ASSUME NEW r, IsKeyed(r), NEW T, Tokens(r) \subseteq T
    PROVE  /\ Fields(r) \in Seq(Seq(T)) /\ Fields(r) # <<>>
           /\ \A i \in 1..Len(Fields(r)) : NUL \notin ToSet(Fields(r)[i])
           /\ r.key = Joined(Fields(r))
           /\ Len(Fields(r)) >= 2
           /\ Fields(r)[1] = r.channel.id
           /\ Fields(r)[2] = IF r.request.kind = "digest" THEN <<r.channel.platform>> ELSE <<"rollup">>
           /\ r.request.kind = "digest" =>
                /\ SetToSeq(ToSet(r.thread.messages)) \in Seq(Seq(T))
                /\ Len(Fields(r)) = 2 + Len(SetToSeq(ToSet(r.thread.messages)))
                /\ \A i \in 1..Len(SetToSeq(ToSet(r.thread.messages))) :
                     Fields(r)[2 + i] = SetToSeq(ToSet(r.thread.messages))[i]
           /\ r.request.kind = "rollup" =>
                Len(Fields(r)) = 3 /\ Fields(r)[3] = r.request.period
<1> DEFINE id == r.channel.id
           period == r.request.period
           S == ToSet(r.thread.messages)
           q == SetToSeq(S)
           F == Fields(r)
<1>1. /\ id \in Seq(T) /\ period \in Seq(T)
      /\ <<r.channel.platform>> \in Seq(T) /\ <<"rollup">> \in Seq(T)
  <2>1. id \in Seq(ToSet(id)) /\ ToSet(id) \subseteq T
    BY DEF IsKeyed, IsText, Tokens
  <2>2. period \in Seq(ToSet(period)) /\ ToSet(period) \subseteq T
    BY DEF IsKeyed, IsText, Tokens
  <2>3. r.channel.platform \in T /\ "rollup" \in T
    BY DEF Tokens
  <2> HIDE DEF id, period
  <2> QED BY <2>1, <2>2, <2>3, SeqMonotonic
<1>2. \A m \in S : m \in Seq(T)
  <2> SUFFICES ASSUME NEW m \in S PROVE m \in Seq(T)
    OBVIOUS
  <2>1. m \in Seq(ToSet(m)) /\ ToSet(m) \subseteq T
    BY DEF IsKeyed, IsText, Tokens
  <2> QED BY <2>1, SeqMonotonic
<1>3. q \in Seq(S) /\ q \in Seq(Seq(T))
  <2>1. IsFiniteSet(S)
    BY FinitelyMany DEF IsKeyed
  <2> HIDE DEF S
  <2>2. q \in Seq(S)
    BY <2>1, InOrder
  <2> HIDE DEF q
  <2> QED BY <1>2, <2>2, SeqMonotonic
<1>4. r.key = Joined(F) /\ \A i \in DOMAIN F : NUL \notin ToSet(F[i])
  BY DEF IsKeyed, JoinKeyFields
<1>5. CASE r.request.kind = "digest"
  <2> DEFINE p == <<id, <<r.channel.platform>>>>
  <2>1. F = p \o q
    BY <1>5 DEF Fields
  <2>2. p \in Seq(Seq(T)) /\ Len(p) = 2 /\ p[1] = id /\ p[2] = <<r.channel.platform>>
    BY <1>1
  <2> HIDE DEF p, q, F
  <2>3. F \in Seq(Seq(T)) /\ IsConcat(F, p, q)
    BY <1>3, <2>1, <2>2, Concatenated
  <2>4. Len(q) \in Nat
    BY <1>3
  <2>5. Len(F) = 2 + Len(q) /\ F[1] = id /\ F[2] = <<r.channel.platform>>
        /\ \A i \in 1..Len(q) : F[2 + i] = q[i]
    BY <2>2, <2>3, <2>4 DEF IsConcat
  <2>6. F # <<>> /\ Len(F) >= 2 /\ DOMAIN F = 1..Len(F)
    BY <2>3, <2>4, <2>5
  <2> QED BY <1>3, <1>4, <1>5, <2>3, <2>5, <2>6 DEF F, q
<1>6. CASE r.request.kind = "rollup"
  <2>1. F = <<id, <<"rollup">>, period>>
    BY <1>6 DEF Fields
  <2> HIDE DEF id, period, F
  <2>2. /\ F \in Seq(Seq(T)) /\ Len(F) = 3 /\ F # <<>>
        /\ F[1] = id /\ F[2] = <<"rollup">> /\ F[3] = period
    BY <1>1, <2>1
  <2>3. DOMAIN F = 1..Len(F)
    BY <2>2
  <2> QED BY <1>4, <1>6, <2>2, <2>3 DEF F, id, period
<1> QED BY <1>5, <1>6 DEF IsKeyed

\* Two results have the same fields exactly if they are of one digest.
LEMMA FieldsIdentify ==
    ASSUME NEW a, NEW b, IsKeyed(a), IsKeyed(b)
    PROVE  Fields(a) = Fields(b) <=> SameDigest(a, b)
<1> DEFINE T == Tokens(a) \cup Tokens(b)
           A == ToSet(a.thread.messages)
           B == ToSet(b.thread.messages)
<1>0. Tokens(a) \subseteq T /\ Tokens(b) \subseteq T
  OBVIOUS
<1>1. IsFiniteSet(A) /\ IsFiniteSet(B)
  BY FinitelyMany DEF IsKeyed
<1>2. ASSUME SameDigest(a, b) PROVE Fields(a) = Fields(b)
  BY <1>2 DEF SameDigest, Fields, IsKeyed
<1> HIDE DEF T, A, B
<1>3. ASSUME Fields(a) = Fields(b) PROVE SameDigest(a, b)
  <2>1. /\ a.channel.id = b.channel.id
        /\ (IF a.request.kind = "digest" THEN <<a.channel.platform>> ELSE <<"rollup">>)
             = IF b.request.kind = "digest" THEN <<b.channel.platform>> ELSE <<"rollup">>
    BY <1>0, <1>3, FieldsAreTexts
  <2>2. a.request.kind = b.request.kind
        /\ (a.request.kind = "digest" => a.channel.platform = b.channel.platform)
    <3>1. /\ a.channel.platform # "rollup" /\ b.channel.platform # "rollup"
          /\ a.request.kind \in {"digest", "rollup"} /\ b.request.kind \in {"digest", "rollup"}
      BY DEF IsKeyed
    <3> QED BY <2>1, <3>1
  <2>3. ASSUME a.request.kind = "rollup" PROVE a.request.period = b.request.period
    BY <1>0, <1>3, <2>2, <2>3, FieldsAreTexts
  <2>4. ASSUME a.request.kind = "digest" PROVE A = B
    <3> DEFINE p == SetToSeq(A)
               q == SetToSeq(B)
    <3>1. /\ p \in Seq(Seq(T)) /\ q \in Seq(Seq(T))
          /\ 2 + Len(p) = 2 + Len(q)
          /\ \A i \in 1..Len(p) : Fields(a)[2 + i] = p[i]
          /\ \A i \in 1..Len(q) : Fields(b)[2 + i] = q[i]
      BY <1>0, <1>3, <2>2, <2>4, FieldsAreTexts DEF A, B
    <3>2. ToSet(p) = A /\ ToSet(q) = B
      BY <1>1, InOrder
    <3> HIDE DEF p, q
    <3>3. Len(p) = Len(q) /\ \A i \in 1..Len(p) : p[i] = q[i]
      BY <1>3, <3>1
    <3>4. p = q
      BY <3>1, <3>3, SeqEqual
    <3> QED BY <3>2, <3>4
  <2> QED BY <2>1, <2>2, <2>3, <2>4 DEF SameDigest, A, B
<1> QED BY <1>2, <1>3

\* The channels are texts, and every result has the key of its fields.
KeyInv ==
    /\ \A c \in channels : IsText(c.id)
    /\ \A i \in DOMAIN results : IsKeyed(results[i])

LEMMA KeyInvInit == Init => KeyInv
<1> SUFFICES ASSUME Init PROVE KeyInv
  OBVIOUS
<1>1. results = <<>> /\ channels = {}
  BY DEF Init
<1>2. DOMAIN <<>> = {}
  OBVIOUS
<1> QED BY <1>1, <1>2 DEF KeyInv

\* The messages of a thread are messages of the history.
LEMMA ThreadOfTexts ==
    ASSUME NEW h \in Histories, NEW request \in Requests,
           request.reply_to # NoReply => request.reply_to \in ToSet(h),
           NEW got, got = Cap(Selected(h, request.reply_to, LastN(request))).messages
    PROVE  got \in Seq(ToSet(got)) /\ \A m \in ToSet(got) : IsText(m)
<1>1. h \in Seq(ToSet(h)) /\ \A i \in DOMAIN h : IsText(h[i])
  BY HistoriesAssumption
<1>2. IsEnd(Selected(h, request.reply_to, LastN(request)), h, Cardinality(Wanted(request, h)))
  BY <1>1, LastNIsInt, SelectedIsWanted
<1>3. PICK n : IsEnd(got, h, n)
  BY <1>1, <1>2, CapKeepsEnd
<1>4. got \in Seq(ToSet(h))
  BY <1>3 DEF IsEnd
<1>5. \A m \in ToSet(got) : m \in ToSet(h)
  <2>1. DOMAIN got = 1..Len(got) /\ \A i \in 1..Len(got) : got[i] \in ToSet(h)
    BY <1>4, ElementOfSeq
  <2> QED BY <2>1 DEF ToSet
<1>6. \A i \in 1..Len(got) : got[i] \in ToSet(got)
  <2>1. DOMAIN got = 1..Len(got)
    BY <1>4
  <2> QED BY <2>1 DEF ToSet
<1>7. got \in Seq(ToSet(got))
  BY <1>4, <1>6, SeqOfElements
<1>8. \A m \in ToSet(h) : IsText(m)
  BY <1>1 DEF ToSet
<1> QED BY <1>5, <1>7, <1>8

LEMMA KeyInvStep == FetchInv /\ KeyInv /\ [Next]_vars => KeyInv'
<1> SUFFICES ASSUME FetchInv, KeyInv, [Next]_vars PROVE KeyInv'
  OBVIOUS
<1>1. ASSUME NEW id, set_fetch_failure(id) PROVE KeyInv'
  BY <1>1 DEF set_fetch_failure, KeyInv
<1>2. ASSUME NEW c \in Channels, NEW history, add_channel(c, history) PROVE KeyInv'
  <2>1. results' = results
    BY <1>2 DEF add_channel
  <2>2. \A d \in channels' : d \in channels \/ d.id = c.id
    BY <1>2 DEF add_channel
  <2>3. IsText(c.id)
    BY ChannelsAssumption
  <2> QED BY <2>1, <2>2, <2>3 DEF KeyInv
<1>3. ASSUME NEW id, NEW request \in Requests, Answer(id, request) PROVE KeyInv'
  <2>1. PICK d \in channels :
          d.id = id /\ (request.reply_to # NoReply => request.reply_to \in ToSet(d.messages))
    BY <1>3 DEF Answer, Fetchable
  <2>2. PICK c, thread, key, delivery :
          /\ c \in channels /\ c.id = id
          /\ thread = fetch_thread(c, request.reply_to, LastN(request))
          /\ key = KeyOf(request, c, thread.messages)
          /\ c.platform \in {"telegram", "slack"}
          /\ key # Refused
          /\ delivery = DeliveryId(c.id, key)
          /\ results' = Append(results,
               [request |-> request, channel |-> c, thread |-> thread,
                key |-> key, delivery |-> delivery])
    BY <1>3 DEF Answer
  <2> DEFINE r == [request |-> request, channel |-> c, thread |-> thread,
                   key |-> key, delivery |-> delivery]
  <2>3. c = d
    BY <2>1, <2>2 DEF FetchInv
  <2>4. IsKeyed(r)
    <3>1. request.kind \in {"digest", "rollup"} /\ IsText(request.period)
      BY RequestsAssumption
    <3>2. IsText(c.id)
      BY <2>2 DEF KeyInv
    <3>3. thread.messages \in Seq(ToSet(thread.messages))
          /\ \A m \in ToSet(thread.messages) : IsText(m)
      BY <2>1, <2>2, <2>3, ThreadOfTexts DEF fetch_thread, FetchInv
    <3>4. key = JoinKeyFields(Fields(r))
      <4>1. CASE request.kind = "digest"
        BY <2>2, <4>1 DEF KeyOf, compute_digest_key, Fields
      <4>2. CASE request.kind = "rollup"
        BY <2>2, <4>2 DEF KeyOf, compute_rollup_key, Fields
      <4> QED BY <3>1, <4>1, <4>2
    <3>5. /\ r.request = request /\ r.channel = c /\ r.thread = thread
          /\ r.key = key /\ r.delivery = delivery
      OBVIOUS
    <3> HIDE DEF r
    <3> QED BY <2>2, <3>1, <3>2, <3>3, <3>4, <3>5 DEF IsKeyed
  <2>5. results' = Append(results, r)
    BY <2>2
  <2> HIDE DEF r
  <2>6. results \in Seq(ToSet(results)) /\ Len(results) \in Nat
    BY DEF FetchInv
  <2>7. /\ DOMAIN results' = 1..(Len(results) + 1)
        /\ results'[Len(results) + 1] = r
        /\ \A i \in 1..Len(results) : results'[i] = results[i]
    <3>1. results \in Seq(ToSet(results) \cup {r})
      BY <2>6, SeqMonotonic
    <3>2. /\ results' \in Seq(ToSet(results) \cup {r}) /\ Len(results') = Len(results) + 1
          /\ results'[Len(results) + 1] = r
          /\ \A i \in 1..Len(results) : results'[i] = results[i]
      BY <2>5, <3>1, AppendProperties
    <3> QED BY <3>2
  <2>8. \A i \in DOMAIN results' : IsKeyed(results'[i])
    <3> SUFFICES ASSUME NEW i \in 1..(Len(results) + 1) PROVE IsKeyed(results'[i])
      BY <2>7
    <3>1. CASE i = Len(results) + 1
      BY <2>4, <2>7, <3>1
    <3>2. CASE i \in 1..Len(results)
      BY <2>6, <2>7, <3>2 DEF KeyInv
    <3> QED BY <2>6, <3>1, <3>2
  <2>9. channels' = channels
    BY <1>3 DEF Answer
  <2> QED BY <2>8, <2>9 DEF KeyInv
<1>4. CASE UNCHANGED vars
  BY <1>4 DEF vars, KeyInv
<1> QED BY <1>1, <1>2, <1>3, <1>4 DEF Next

\* A key says what it is the key of, because no field has a NUL in it.
LEMMA KeySays ==
    ASSUME NEW a, NEW b, IsKeyed(a), IsKeyed(b)
    PROVE  a.key = b.key <=> SameDigest(a, b)
<1> DEFINE T == Tokens(a) \cup Tokens(b)
<1>0. Tokens(a) \subseteq T /\ Tokens(b) \subseteq T /\ NUL \in T
  BY DEF Tokens
<1> HIDE DEF T
<1>1. /\ Fields(a) \in Seq(Seq(T)) /\ Fields(a) # <<>>
      /\ \A i \in 1..Len(Fields(a)) : NUL \notin ToSet(Fields(a)[i])
      /\ a.key = Joined(Fields(a))
  BY <1>0, FieldsAreTexts
<1>2. /\ Fields(b) \in Seq(Seq(T)) /\ Fields(b) # <<>>
      /\ \A i \in 1..Len(Fields(b)) : NUL \notin ToSet(Fields(b)[i])
      /\ b.key = Joined(Fields(b))
  BY <1>0, FieldsAreTexts
<1>3. ASSUME a.key = b.key PROVE Fields(a) = Fields(b)
  BY <1>0, <1>1, <1>2, <1>3, JoinedIdentifies
<1>4. ASSUME Fields(a) = Fields(b) PROVE a.key = b.key
  BY <1>1, <1>2, <1>4
<1> QED BY <1>3, <1>4, FieldsIdentify

\* A delivery id ends with the key, which is one token of it.
LEMMA DeliverySays ==
    ASSUME NEW a, NEW b, IsKeyed(a), IsKeyed(b)
    PROVE  a.delivery = b.delivery <=> SameDigest(a, b)
<1>1. ASSUME a.delivery = b.delivery PROVE a.key = b.key
  <2> DEFINE T == ToSet(a.channel.id) \cup ToSet(b.channel.id) \cup {NUL, a.key, b.key}
  <2>1. a.channel.id \in Seq(T) /\ b.channel.id \in Seq(T)
    <3>1. /\ a.channel.id \in Seq(ToSet(a.channel.id))
          /\ b.channel.id \in Seq(ToSet(b.channel.id))
      BY DEF IsKeyed, IsText
    <3> QED BY <3>1, SeqMonotonic
  <2>2. <<NUL, a.key>> \in Seq(T) /\ <<NUL, b.key>> \in Seq(T)
    OBVIOUS
  <2> HIDE DEF T
  <2>3. /\ a.delivery = a.channel.id \o <<NUL, a.key>>
        /\ b.delivery = b.channel.id \o <<NUL, b.key>>
    BY DEF IsKeyed, DeliveryId
  <2>4. /\ IsConcat(a.delivery, a.channel.id, <<NUL, a.key>>)
        /\ IsConcat(b.delivery, b.channel.id, <<NUL, b.key>>)
    BY <2>1, <2>2, <2>3, Concatenated
  <2>5. /\ Len(a.delivery) = Len(a.channel.id) + 2 /\ a.delivery[Len(a.channel.id) + 2] = a.key
        /\ Len(b.delivery) = Len(b.channel.id) + 2 /\ b.delivery[Len(b.channel.id) + 2] = b.key
    BY <2>4 DEF IsConcat
  <2>6. Len(a.channel.id) \in Nat /\ Len(b.channel.id) \in Nat
    BY <2>1
  <2> QED BY <1>1, <2>5, <2>6
<1>2. ASSUME SameDigest(a, b) PROVE a.delivery = b.delivery
  BY <1>2, KeySays DEF IsKeyed, SameDigest
<1> QED BY <1>1, <1>2, KeySays

\* Two results have one key, and one delivery id, exactly if they are of one
\* digest: whatever the channels, the histories and the requests are.
THEOREM KeysAreIdentities == Spec => []KeysIdentify
<1>1. KeyInv => KeysIdentify
  BY KeySays, DeliverySays DEF KeyInv, KeysIdentify, SameDigest
<1> QED BY <1>1, FetchInvInit, FetchInvStep, KeyInvInit, KeyInvStep, PTL DEF Spec

-----------------------------------------------------------------------------
(* Links.  A link ends with the digits of the message, and what separates   *)
(* them from the place says how they were made.                             *)

LEMMA TextFacts ==
    ASSUME NEW s, IsText(s)
    PROVE  /\ s \in Seq(ToSet(s)) /\ Len(s) \in Nat /\ DOMAIN s = 1..Len(s)
           /\ \A i \in 1..Len(s) : s[i] \in ToSet(s)
BY DEF IsText, ToSet

\* A part of a text is a text.
LEMMA PartOfText ==
    ASSUME NEW s, IsText(s), NEW i \in 1..(Len(s) + 1), NEW j \in 0..Len(s), i <= j + 1
    PROVE  /\ IsText(SubSeq(s, i, j)) /\ Len(SubSeq(s, i, j)) = j - i + 1
           /\ \A k \in 1..(j - i + 1) : SubSeq(s, i, j)[k] = s[i + k - 1]
<1> DEFINE S == ToSet(s)
           t == SubSeq(s, i, j)
<1>1. /\ Len(s) \in Nat /\ i \in Int /\ j \in Int
      /\ \A k \in i..j : s[k] \in S
  BY TextFacts
<1> HIDE DEF S
<1>2. /\ t \in Seq(S) /\ Len(t) = IF i <= j THEN j - i + 1 ELSE 0
      /\ \A k \in 1..(j - i + 1) : t[k] = s[i + k - 1]
  BY <1>1, SubSeqProperties
<1>3. (IF i <= j THEN j - i + 1 ELSE 0) = j - i + 1
  BY <1>1
<1> HIDE DEF t
<1>4. \A k \in 1..Len(t) : t[k] \in ToSet(t)
  <2>1. DOMAIN t = 1..Len(t)
    BY <1>2
  <2> QED BY <2>1 DEF ToSet
<1>5. IsText(t)
  BY <1>2, <1>4, SeqOfElements DEF IsText
<1> QED BY <1>2, <1>3, <1>5 DEF t

LEMMA StripIsText ==
    ASSUME NEW s, IsText(s)
    PROVE  IsText(Strip(s)) /\ (Space \notin ToSet(s) => Strip(s) = s)
<1> DEFINE solid == {i \in DOMAIN s : s[i] # Space}
<1>1. /\ Len(s) \in Nat /\ DOMAIN s = 1..Len(s) /\ s \in Seq(ToSet(s))
      /\ \A i \in 1..Len(s) : s[i] \in ToSet(s)
  BY TextFacts
<1>2. solid \in SUBSET (1..Len(s)) /\ solid \in SUBSET Nat
  BY <1>1
<1>3. CASE solid = {}
  <2>1. Strip(s) = <<>> /\ IsText(<<>>)
    BY <1>3 DEF Strip, IsText
  <2>2. ASSUME Space \notin ToSet(s) PROVE s = <<>>
    <3>1. \A i \in 1..Len(s) : s[i] # Space
      BY <1>1, <2>2
    <3>2. Len(s) = 0
      BY <1>1, <1>3, <3>1
    <3> QED BY <1>1, <3>2, EmptySeq
  <2> QED BY <2>1, <2>2
<1>4. CASE solid # {}
  <2>0. Strip(s) = SubSeq(s, Min(solid), Max(solid))
    BY <1>4 DEF Strip
  <2>s. \A i : i \in solid <=> i \in 1..Len(s) /\ s[i] # Space
    BY <1>1
  <2> DEFINE a == Min(solid)
             z == Max(solid)
  <2> HIDE DEF solid
  <2>1. a \in solid /\ (\A i \in solid : a <= i) /\ z \in solid /\ \A i \in solid : i <= z
    BY <1>1, <1>2, <1>4, MinOf, MaxOf
  <2> HIDE DEF a, z
  <2>2. a \in 1..Len(s) /\ z \in 1..Len(s) /\ a <= z
    BY <1>2, <2>1
  <2>3. IsText(SubSeq(s, a, z)) /\ Len(SubSeq(s, a, z)) = z - a + 1
        /\ \A k \in 1..(z - a + 1) : SubSeq(s, a, z)[k] = s[a + k - 1]
    <3>1. a \in 1..(Len(s) + 1) /\ z \in 0..Len(s) /\ a <= z + 1
      BY <1>1, <2>2
    <3> QED BY <3>1, PartOfText
  <2>4. ASSUME Space \notin ToSet(s) PROVE SubSeq(s, a, z) = s
    <3>1. 1 \in solid /\ Len(s) \in solid
      <4>1. 1 \in 1..Len(s) /\ Len(s) \in 1..Len(s)
        BY <1>1, <2>2
      <4> QED BY <1>1, <2>4, <2>s, <4>1
    <3>2. a = 1 /\ z = Len(s)
      <4>1. a <= 1 /\ Len(s) <= z
        BY <2>1, <3>1, Zenon
      <4>2. Len(s) \in Nat /\ a \in 1..Len(s) /\ z \in 1..Len(s)
        BY <1>1, <2>2
      <4> QED BY <4>1, <4>2
    <3>3. Len(SubSeq(s, a, z)) = Len(s) /\ \A k \in 1..Len(s) : SubSeq(s, a, z)[k] = s[k]
      BY <1>1, <2>3, <3>2
    <3> DEFINE t == SubSeq(s, a, z)
    <3>4. t \in Seq(ToSet(t))
      BY <2>3 DEF IsText
    <3>5. Len(t) = Len(s) /\ \A k \in 1..Len(s) : t[k] = s[k]
      BY <3>3
    <3> HIDE DEF t
    <3>6. t = s
      BY <1>1, <3>4, <3>5, SeqEqual
    <3> QED BY <3>6 DEF t
  <2> QED BY <2>0, <2>3, <2>4 DEF a, z
<1> QED BY <1>3, <1>4

\* From the first position on it is the text.
LEMMA FromText ==
    ASSUME NEW s, IsText(s), NEW i \in 1..(Len(s) + 1)
    PROVE  /\ IsText(From(s, i)) /\ Len(From(s, i)) = Len(s) - i + 1
           /\ \A k \in 1..(Len(s) - i + 1) : From(s, i)[k] = s[i + k - 1]
           /\ i = 1 => From(s, i) = s
<1>1. Len(s) \in Nat /\ s \in Seq(ToSet(s))
  BY TextFacts
<1>2. /\ IsText(From(s, i)) /\ Len(From(s, i)) = Len(s) - i + 1
      /\ \A k \in 1..(Len(s) - i + 1) : From(s, i)[k] = s[i + k - 1]
  <2>1. Len(s) \in 0..Len(s) /\ i <= Len(s) + 1
    BY <1>1
  <2> QED BY <2>1, PartOfText DEF From
<1>3. ASSUME i = 1 PROVE From(s, i) = s
  <2>1. Len(From(s, i)) = Len(s) /\ \A k \in 1..Len(s) : From(s, i)[k] = s[k]
    BY <1>1, <1>2, <1>3
  <2>2. From(s, i) \in Seq(ToSet(From(s, i)))
    BY <1>2 DEF IsText
  <2> QED BY <1>1, <2>1, <2>2, SeqEqual
<1> QED BY <1>2, <1>3

\* A text of digits, at least one.
IsNumber(s) == IsText(s) /\ IsDigits(s)

LEMMA NumberFacts ==
    ASSUME NEW s, IsNumber(s)
    PROVE  /\ s \in Seq(Digits) /\ Len(s) \in Nat /\ Len(s) >= 1
           /\ \A i \in 1..Len(s) : s[i] \in Digits
<1>1. s \in Seq(ToSet(s)) /\ ToSet(s) \subseteq Digits /\ s # <<>>
  BY DEF IsNumber, IsText, IsDigits
<1>2. s \in Seq(Digits)
  BY <1>1, SeqMonotonic
<1>3. Len(s) \in Nat /\ Len(s) # 0
  BY <1>1, <1>2, EmptySeq
<1>4. \A i \in 1..Len(s) : s[i] \in Digits
  BY <1>2, ElementOfSeq
<1> QED BY <1>2, <1>3, <1>4

\* _coerce_positive_int gives a number, of a plain id the id itself.
LEMMA PositiveIntIs ==
    ASSUME NEW s, IsText(s), PositiveInt(s) # <<>>
    PROVE  IsNumber(PositiveInt(s)) /\ (IsPlain(s) => PositiveInt(s) = s)
<1> DEFINE digits == Strip(s)
           leading == {i \in DOMAIN digits : digits[i] # "0"}
<1>1. IsDigits(digits) /\ leading # {} /\ PositiveInt(s) = From(digits, Min(leading))
  BY DEF PositiveInt
<1>2. IsText(digits) /\ (IsPlain(s) => digits = s)
  BY StripIsText DEF IsPlain
<1> DEFINE first == Min(leading)
<1>3. IsNumber(digits) /\ DOMAIN digits = 1..Len(digits)
  BY <1>1, <1>2, TextFacts DEF IsNumber
<1>l. \A i : i \in leading <=> i \in 1..Len(digits) /\ digits[i] # "0"
  BY <1>3
<1> HIDE DEF digits, leading
<1>4. first \in leading /\ \A i \in leading : first <= i
  <2>1. leading \in SUBSET Nat
    BY <1>l
  <2> QED BY <1>1, <2>1, MinOf
<1>5. first \in 1..Len(digits) /\ Len(digits) \in Nat
  BY <1>3, <1>4, <1>l, NumberFacts
<1> HIDE DEF first
<1> DEFINE u == From(digits, first)
<1>6. /\ IsText(u) /\ Len(u) = Len(digits) - first + 1
      /\ \A k \in 1..(Len(digits) - first + 1) : u[k] = digits[first + k - 1]
      /\ first = 1 => u = digits
  <2>1. first \in 1..(Len(digits) + 1)
    BY <1>5
  <2> QED BY <1>2, <2>1, FromText
<1> HIDE DEF u
<1>7. IsNumber(u)
  <2>1. Len(u) >= 1
    BY <1>5, <1>6
  <2>2. \A k \in 1..Len(u) : u[k] \in Digits
    <3> SUFFICES ASSUME NEW k \in 1..Len(u) PROVE u[k] \in Digits
      OBVIOUS
    <3>1. first + k - 1 \in 1..Len(digits) /\ u[k] = digits[first + k - 1]
      BY <1>5, <1>6
    <3> QED BY <1>3, <3>1, NumberFacts
  <2>3. DOMAIN u = 1..Len(u)
    BY <1>6, TextFacts
  <2> QED BY <1>6, <2>1, <2>2, <2>3 DEF IsNumber, IsDigits, ToSet
<1>8. ASSUME IsPlain(s) PROVE u = s
  <2>1. digits = s /\ s[1] # "0"
    BY <1>1, <1>2, <1>8 DEF IsPlain
  <2>2. 1 \in leading
    BY <1>5, <1>l, <2>1
  <2>3. first = 1
    BY <1>4, <1>5, <2>2
  <2> QED BY <1>6, <2>1, <2>3
<1> QED BY <1>1, <1>7, <1>8 DEF u, first

\* A timestamp is digits, a dot and FractionDigits digits; the digits alone
\* say what it was.
LEMMA TimestampIs ==
    ASSUME NEW m, IsText(m), IsTimestamp(m), NEW d, d = Len(m) - FractionDigits
    PROVE  /\ IsNumber(Undotted(m)) /\ Len(Undotted(m)) = Len(m) - 1
           /\ d \in 1..Len(m) /\ m[d] = "."
           /\ \A i \in 1..(d - 1) : Undotted(m)[i] = m[i]
           /\ \A i \in d..(Len(m) - 1) : Undotted(m)[i] = m[i + 1]
<1> DEFINE dot == CHOOSE i \in DOMAIN m : m[i] = "."
<1>0. Len(m) \in Nat /\ DOMAIN m = 1..Len(m)
  BY TextFacts
<1>1. PICK k \in 1..Len(m) : /\ m[k] = "."
                             /\ IsDigits(SubSeq(m, 1, k - 1))
                             /\ IsDigits(From(m, k + 1))
                             /\ Len(m) - k = FractionDigits
  BY <1>0 DEF IsTimestamp
<1> DEFINE before == SubSeq(m, 1, k - 1)
           after == From(m, k + 1)
<1>2. /\ IsNumber(before) /\ Len(before) = k - 1
      /\ \A i \in 1..(k - 1) : before[i] = m[i]
  <2>1. 1 \in 1..(Len(m) + 1) /\ k - 1 \in 0..Len(m) /\ 1 <= (k - 1) + 1
    BY <1>0
  <2>2. /\ IsText(before) /\ Len(before) = (k - 1) - 1 + 1
        /\ \A i \in 1..((k - 1) - 1 + 1) : before[i] = m[1 + i - 1]
    BY <2>1, PartOfText
  <2> HIDE DEF before
  <2>3. \A i \in 1..(k - 1) : i \in 1..((k - 1) - 1 + 1) /\ 1 + i - 1 = i
    BY <1>0
  <2>4. Len(before) = k - 1 /\ \A i \in 1..(k - 1) : before[i] = m[i]
    BY <1>0, <2>2, <2>3
  <2> QED BY <1>1, <2>2, <2>4 DEF IsNumber, before
<1>3. /\ IsNumber(after) /\ Len(after) = Len(m) - k
      /\ \A i \in 1..(Len(m) - k) : after[i] = m[k + i]
  <2>1. k + 1 \in 1..(Len(m) + 1)
    BY <1>0
  <2>2. /\ IsText(after) /\ Len(after) = Len(m) - (k + 1) + 1
        /\ \A i \in 1..(Len(m) - (k + 1) + 1) : after[i] = m[(k + 1) + i - 1]
    BY <2>1, FromText
  <2> HIDE DEF after
  <2>3. \A i \in 1..(Len(m) - k) : i \in 1..(Len(m) - (k + 1) + 1) /\ (k + 1) + i - 1 = k + i
    BY <1>0
  <2>4. Len(after) = Len(m) - k /\ \A i \in 1..(Len(m) - k) : after[i] = m[k + i]
    BY <1>0, <2>2, <2>3
  <2> QED BY <1>1, <2>2, <2>4 DEF IsNumber, after
<1>4. dot = k
  <2>1. dot \in 1..Len(m) /\ m[dot] = "."
    BY <1>0, <1>1
  <2> HIDE DEF dot, before, after
  <2>2. "." \notin Digits
    BY DEF Digits
  <2>3. ~(dot < k)
    <3> SUFFICES ASSUME dot < k PROVE FALSE
      OBVIOUS
    <3>1. dot \in 1..(k - 1) /\ dot \in 1..Len(before)
      BY <1>0, <1>2, <2>1
    <3> QED BY <1>2, <2>1, <2>2, <3>1, NumberFacts
  <2>4. ~(dot > k)
    <3> SUFFICES ASSUME dot > k PROVE FALSE
      OBVIOUS
    <3>1. dot - k \in 1..(Len(m) - k) /\ dot - k \in 1..Len(after) /\ k + (dot - k) = dot
      BY <1>0, <1>3, <2>1
    <3> QED BY <1>3, <2>1, <2>2, <3>1, NumberFacts
  <2> QED BY <1>0, <2>1, <2>3, <2>4
<1>5. Undotted(m) = before \o after
  BY <1>4 DEF Undotted
<1>6. d = k
  BY <1>0, <1>1
<1> HIDE DEF before, after, dot
<1> DEFINE u == Undotted(m)
<1>7. u \in Seq(Digits) /\ IsConcat(u, before, after)
  BY <1>2, <1>3, <1>5, Concatenated, NumberFacts
<1> HIDE DEF u
<1>8. /\ Len(u) = Len(m) - 1
      /\ \A i \in 1..(k - 1) : u[i] = m[i]
  BY <1>0, <1>2, <1>3, <1>7 DEF IsConcat
<1>9. ASSUME NEW i \in k..(Len(m) - 1) PROVE u[i] = m[i + 1]
  <2> DEFINE l == i - (k - 1)
  <2>1. l \in 1..(Len(m) - k) /\ (k - 1) + l = i /\ k + l = i + 1
    BY <1>0
  <2> HIDE DEF l
  <2>2. u[Len(before) + l] = after[l] /\ after[l] = m[k + l]
    BY <1>3, <1>7, <2>1 DEF IsConcat
  <2> QED BY <1>2, <2>1, <2>2
<1>10. IsNumber(u)
  <2>1. Len(u) >= 1 /\ DOMAIN u = 1..Len(u)
    BY <1>0, <1>2, <1>3, <1>7, <1>8, NumberFacts
  <2>2. (\A i \in 1..Len(u) : u[i] \in Digits) /\ \A i \in 1..Len(u) : u[i] \in ToSet(u)
    BY <1>7, <2>1, ElementOfSeq DEF ToSet
  <2>3. u \in Seq(ToSet(u))
    BY <1>7, <2>2, SeqOfElements
  <2> QED BY <2>1, <2>2, <2>3 DEF IsNumber, IsText, IsDigits, ToSet
<1> QED BY <1>1, <1>6, <1>8, <1>9, <1>10 DEF u

LEMMA UndottedIdentifies ==
    ASSUME NEW m, IsText(m), IsTimestamp(m), NEW n, IsText(n), IsTimestamp(n),
           Undotted(m) = Undotted(n)
    PROVE  m = n
<1> DEFINE d == Len(m) - FractionDigits
           e == Len(n) - FractionDigits
           u == Undotted(m)
<1>0. /\ Len(m) \in Nat /\ Len(n) \in Nat
      /\ m \in Seq(ToSet(m)) /\ n \in Seq(ToSet(n))
  BY TextFacts
<1>1. /\ Len(u) = Len(m) - 1 /\ d \in 1..Len(m) /\ m[d] = "."
      /\ \A i \in 1..(d - 1) : u[i] = m[i]
      /\ \A i \in d..(Len(m) - 1) : u[i] = m[i + 1]
  BY TimestampIs
<1>2. /\ Len(u) = Len(n) - 1 /\ e \in 1..Len(n) /\ n[e] = "."
      /\ \A i \in 1..(e - 1) : u[i] = n[i]
      /\ \A i \in e..(Len(n) - 1) : u[i] = n[i + 1]
  BY TimestampIs
<1>3. Len(m) = Len(n)
  BY <1>0, <1>1, <1>2
<1>4. d = e
  BY <1>3
<1> HIDE DEF d, e, u
<1>5. ASSUME NEW i \in 1..Len(m) PROVE m[i] = n[i]
  <2>1. CASE i < d
    <3>1. i \in 1..(d - 1)
      BY <1>0, <1>1, <2>1
    <3> QED BY <1>1, <1>2, <1>4, <3>1
  <2>2. CASE i = d
    BY <1>1, <1>2, <1>4, <2>2
  <2>3. CASE i > d
    <3>1. i - 1 \in d..(Len(m) - 1) /\ (i - 1) + 1 = i
      BY <1>0, <1>1, <2>3
    <3> QED BY <1>1, <1>2, <1>3, <1>4, <3>1
  <2> QED BY <1>0, <1>1, <2>1, <2>2, <2>3
<1> QED BY <1>0, <1>3, <1>5, SeqEqual

\* What links are made of.
LinkTokens ==
    Digits \cup Handles \cup Workspaces \cup SlackChannels \cup
    {"t.me/", "t.me/c/", "discord.com/channels/", "@me", ".slack.com/archives/",
     "/", "/p", ".", "?thread_ts=", "&cid="}

\* Before the separator p a link says which chat it opens.
IsPlace(b, p, c) ==
    \/ /\ p = "/"
       /\ c.platform = "telegram" /\ IsName(Handle(c.name), Handles)
       /\ b = <<"t.me/">> \o Handle(c.name) /\ Handle(c.name) \in Seq(LinkTokens)
    \/ /\ p = "/"
       /\ \E n : IsNumber(n) /\ IsConcat(c.id, <<"-100">>, n) /\ b = <<"t.me/c/">> \o n
    \/ /\ p = "/"
       /\ IsNumber(c.id)
       /\ \E g \in Seq(LinkTokens) : b = <<"discord.com/channels/">> \o g \o <<"/">> \o c.id
    \/ /\ p = "/p"
       /\ IsName(c.id, SlackChannels)
       /\ \E w \in LinkTokens : b = <<w, ".slack.com/archives/">> \o c.id

\* And behind it which message.
IsMessage(x, p, m) ==
    /\ IsNumber(x)
    /\ \/ p = "/" /\ x = m
       \/ p = "/p" /\ IsTimestamp(m) /\ x = Undotted(m)

IsLink(u, c, m) ==
    \E b, x \in Seq(LinkTokens) : \E p \in LinkTokens :
        /\ IsPlace(b, p, c) /\ IsMessage(x, p, m)
        /\ u = b \o <<p>> \o x

\* A chat or a message as a platform knows it.
IsChat(c) ==
    /\ IsText(c.id) /\ IsText(c.name) /\ IsPlain(c.id)
    /\ c.platform \in {"telegram", "slack", "discord"}

IsId(m) == IsText(m) /\ IsPlain(m)

LEMMA LinkIsText ==
    ASSUME NEW u, NEW c, NEW m, IsLink(u, c, m)
    PROVE  u \in Seq(LinkTokens)
BY FieldAdded DEF IsLink

LEMMA NumbersAreTokens ==
    ASSUME NEW s, IsNumber(s)
    PROVE  s \in Seq(LinkTokens)
BY NumberFacts, SeqMonotonic DEF LinkTokens

LEMMA TelegramPublicLink ==
    ASSUME NEW c, IsChat(c), c.platform = "telegram", NEW m, IsId(m),
           telegram_public_permalink(c.name, m) # NoLink
    PROVE  IsLink(telegram_public_permalink(c.name, m), c, m)
<1> DEFINE h == Handle(c.name)
           x == PositiveInt(m)
<1>1. /\ IsName(h, Handles) /\ x # <<>>
      /\ telegram_public_permalink(c.name, m) = <<"t.me/">> \o h \o <<"/">> \o x
  BY DEF telegram_public_permalink
<1>2. IsNumber(x) /\ x = m
  BY <1>1, PositiveIntIs DEF IsId
<1>3. h \in Seq(LinkTokens)
  <2>1. IsText(Strip(c.name))
    BY StripIsText DEF IsChat
  <2>2. h \in Seq(ToSet(Strip(c.name)))
    <3>1. CASE IsPrefix(<<"@">>, Strip(c.name))
      <4> DEFINE name == Strip(c.name)
      <4>1. name \in Seq(ToSet(name)) /\ h = Tail(name)
        BY <2>1, <3>1 DEF IsText, Handle
      <4>2. Len(name) # 0
        <5>1. Len(<<"@">>) = 1 /\ Len(<<"@">>) <= Len(name)
          BY <3>1 DEF IsPrefix
        <5> QED BY <5>1
      <4> HIDE DEF name, h
      <4>3. name # <<>>
        BY <4>1, <4>2, EmptySeq
      <4>4. Tail(name) \in Seq(ToSet(name))
        BY <4>1, <4>3, HeadTailProperties
      <4> QED BY <4>1, <4>4 DEF name
    <3>2. CASE ~IsPrefix(<<"@">>, Strip(c.name))
      BY <2>1, <3>2 DEF IsText, Handle
    <3> QED BY <3>1, <3>2
  <2>3. Len(h) = 1 /\ h[1] \in LinkTokens
    BY <1>1 DEF IsName, LinkTokens
  <2> HIDE DEF h
  <2>4. \A i \in 1..Len(h) : h[i] \in LinkTokens
    BY <2>3
  <2> QED BY <2>2, <2>4, SeqOfElements
<1>4. x \in Seq(LinkTokens)
  BY <1>2, NumbersAreTokens
<1>5. <<"t.me/">> \o h \in Seq(LinkTokens)
  <2>1. <<"t.me/">> \in Seq(LinkTokens)
    BY DEF LinkTokens
  <2> HIDE DEF h
  <2> QED BY <1>3, <2>1, ConcatProperties
<1>6. IsPlace(<<"t.me/">> \o h, "/", c)
  BY <1>1, <1>3 DEF IsPlace
<1>7. IsMessage(x, "/", m)
  BY <1>2 DEF IsMessage
<1>8. "/" \in LinkTokens
  BY DEF LinkTokens
<1> HIDE DEF h, x
<1> QED BY <1>1, <1>4, <1>5, <1>6, <1>7, <1>8 DEF IsLink

LEMMA TelegramPrivateLink ==
    ASSUME NEW c, IsChat(c), NEW m, IsId(m), telegram_private_permalink(c.id, m) # NoLink
    PROVE  IsLink(telegram_private_permalink(c.id, m), c, m)
<1> DEFINE chat == c.id
           n == From(chat, 2)
           x == PositiveInt(m)
<1>1. Strip(chat) = chat /\ IsText(chat)
  BY StripIsText DEF IsChat, IsPlain
<1>2. /\ IsPrefix(<<"-100">>, chat) /\ IsDigits(n) /\ x # <<>>
      /\ telegram_private_permalink(chat, m) = <<"t.me/c/">> \o n \o <<"/">> \o x
  BY <1>1 DEF telegram_private_permalink
<1>3. IsNumber(x) /\ x = m
  BY <1>2, PositiveIntIs DEF IsId
<1> HIDE DEF chat
<1>4. Len(chat) \in Nat /\ Len(chat) >= 1 /\ chat[1] = "-100"
  <2>1. chat \in Seq(ToSet(chat)) /\ Len(chat) \in Nat
    BY <1>1, TextFacts
  <2>2. Len(<<"-100">>) = 1 /\ 1 <= Len(chat)
    BY <1>2 DEF IsPrefix
  <2>3. SubSeq(<<"-100">>, 1, 1) = SubSeq(chat, 1, 1)
    BY <1>2, <2>2 DEF IsPrefix
  <2>4. SubSeq(chat, 1, 1)[1] = chat[1]
    BY <2>1, <2>2
  <2>5. SubSeq(<<"-100">>, 1, 1)[1] = "-100"
    OBVIOUS
  <2> QED BY <2>1, <2>2, <2>3, <2>4, <2>5
<1>5. IsNumber(n) /\ IsConcat(chat, <<"-100">>, n)
  <2>1. 2 \in 1..(Len(chat) + 1)
    BY <1>4
  <2>2. /\ IsText(n) /\ Len(n) = Len(chat) - 2 + 1
        /\ \A k \in 1..(Len(chat) - 2 + 1) : n[k] = chat[2 + k - 1]
    BY <1>1, <2>1, FromText
  <2> HIDE DEF n
  <2>3. \A k \in 1..Len(n) : k \in 1..(Len(chat) - 2 + 1) /\ 2 + k - 1 = 1 + k
    BY <1>4, <2>2
  <2>4. Len(chat) = 1 + Len(n) /\ \A k \in 1..Len(n) : chat[1 + k] = n[k]
    BY <1>4, <2>2, <2>3
  <2>5. Len(<<"-100">>) = 1 /\ \A i \in 1..1 : chat[i] = <<"-100">>[i]
    BY <1>4
  <2>6. IsConcat(chat, <<"-100">>, n)
    BY <2>4, <2>5 DEF IsConcat
  <2> QED BY <1>2, <2>2, <2>6 DEF IsNumber
<1> HIDE DEF n
<1>6. x \in Seq(LinkTokens) /\ n \in Seq(LinkTokens)
  BY <1>3, <1>5, NumbersAreTokens
<1>7. <<"t.me/c/">> \o n \in Seq(LinkTokens) /\ "/" \in LinkTokens
  <2>1. <<"t.me/c/">> \in Seq(LinkTokens) /\ "/" \in LinkTokens
    BY DEF LinkTokens
  <2> QED BY <1>6, <2>1, ConcatProperties
<1>8. IsPlace(<<"t.me/c/">> \o n, "/", c)
  BY <1>5 DEF IsPlace, chat
<1>9. IsMessage(x, "/", m)
  BY <1>3 DEF IsMessage
<1> HIDE DEF x
<1> QED BY <1>2, <1>6, <1>7, <1>8, <1>9 DEF IsLink, chat

LEMMA DiscordLink ==
    ASSUME NEW c, IsChat(c), NEW m, IsId(m), discord_permalink(c.name, c.id, m) # NoLink
    PROVE  IsLink(discord_permalink(c.name, c.id, m), c, m)
<1> DEFINE g == IF c.name = <<>> THEN <<"@me">> ELSE PositiveInt(c.name)
           k == PositiveInt(c.id)
           x == PositiveInt(m)
           b == <<"discord.com/channels/">> \o g \o <<"/">> \o k
<1>1. /\ g # <<>> /\ k # <<>> /\ x # <<>>
      /\ discord_permalink(c.name, c.id, m) = b \o <<"/">> \o x
  BY DEF discord_permalink
<1>2. IsNumber(x) /\ x = m
  BY <1>1, PositiveIntIs DEF IsId
<1>3. IsNumber(k) /\ k = c.id
  BY <1>1, PositiveIntIs DEF IsChat
<1>4. g \in Seq(LinkTokens)
  <2>1. CASE c.name = <<>>
    BY <2>1 DEF LinkTokens
  <2>2. CASE c.name # <<>>
    BY <1>1, <2>2, PositiveIntIs, NumbersAreTokens DEF IsChat
  <2> QED BY <2>1, <2>2
<1> HIDE DEF g, k
<1>5. x \in Seq(LinkTokens) /\ k \in Seq(LinkTokens)
  BY <1>2, <1>3, NumbersAreTokens
<1>6. "/" \in LinkTokens /\ <<"discord.com/channels/">> \in Seq(LinkTokens)
  BY DEF LinkTokens
<1>7. b \in Seq(LinkTokens)
  <2>1. <<"discord.com/channels/">> \o g \in Seq(LinkTokens)
    BY <1>4, <1>6, ConcatProperties
  <2> QED BY <1>5, <1>6, <2>1, FieldAdded
<1>8. IsPlace(b, "/", c)
  BY <1>3, <1>4 DEF IsPlace
<1>9. IsMessage(x, "/", m)
  BY <1>2 DEF IsMessage
<1> HIDE DEF x, b
<1> QED BY <1>1, <1>5, <1>6, <1>7, <1>8, <1>9 DEF IsLink

LEMMA Pair ==
    ASSUME NEW T, NEW a \in T, NEW b \in T
    PROVE  <<a>> \o <<b>> = <<a, b>>
<1> DEFINE s == <<a>>
           t == <<b>>
           u == <<a, b>>
           v == s \o t
<1>1. /\ s \in Seq(T) /\ Len(s) = 1 /\ s[1] = a
      /\ t \in Seq(T) /\ Len(t) = 1 /\ t[1] = b
      /\ u \in Seq(T) /\ Len(u) = 2 /\ u[1] = a /\ u[2] = b
  OBVIOUS
<1> HIDE DEF s, t, u
<1>2. v \in Seq(T) /\ IsConcat(v, s, t)
  BY <1>1, Concatenated
<1> HIDE DEF v
<1>3. Len(v) = 2 /\ v[1] = a /\ v[2] = b
  BY <1>1, <1>2 DEF IsConcat
<1>4. v = u
  BY <1>1, <1>2, <1>3, SeqEqual
<1> QED BY <1>4 DEF s, t, u, v

LEMMA SlackLink ==
    ASSUME NEW c, IsChat(c), NEW m, IsId(m),
           slack_archives_permalink(c.name, c.id, m) # NoLink
    PROVE  /\ IsLink(slack_archives_permalink(c.name, c.id, m), c, m)
           /\ \E k \in LinkTokens : Strip(c.id) = <<k>>
<1> DEFINE ws == Strip(c.name)
           x == Undotted(m)
           b == ws \o <<".slack.com/archives/">> \o c.id
<1>1. Strip(c.id) = c.id /\ IsText(c.id) /\ Strip(m) = m /\ IsText(m) /\ IsText(ws)
  BY StripIsText DEF IsChat, IsId, IsPlain
<1>2. /\ IsName(ws, Workspaces) /\ IsName(c.id, SlackChannels) /\ IsTimestamp(m)
      /\ slack_archives_permalink(c.name, c.id, m) = b \o <<"/p">> \o x
  BY <1>1 DEF slack_archives_permalink
<1>3. IsNumber(x)
  BY <1>1, <1>2, TimestampIs
<1>4. ASSUME NEW s, IsText(s), NEW names, IsName(s, names), names \subseteq LinkTokens
      PROVE  s = <<s[1]>> /\ s[1] \in LinkTokens /\ s \in Seq(LinkTokens)
  <2>1. s \in Seq(ToSet(s)) /\ Len(s) = 1 /\ s[1] \in LinkTokens
    BY <1>4, TextFacts DEF IsName
  <2>2. s = <<s[1]>>
    BY <2>1
  <2>3. \A i \in 1..Len(s) : s[i] \in LinkTokens
    BY <2>1
  <2> QED BY <2>1, <2>2, <2>3, SeqOfElements
<1>5. Workspaces \subseteq LinkTokens /\ SlackChannels \subseteq LinkTokens
  BY DEF LinkTokens
<1>6. /\ ws = <<ws[1]>> /\ ws[1] \in LinkTokens /\ ws \in Seq(LinkTokens)
      /\ c.id = <<c.id[1]>> /\ c.id[1] \in LinkTokens /\ c.id \in Seq(LinkTokens)
  BY <1>1, <1>2, <1>4, <1>5
<1>7. "/p" \in LinkTokens /\ ".slack.com/archives/" \in LinkTokens
  BY DEF LinkTokens
<1> DEFINE w == ws[1]
<1>8. w \in LinkTokens
  BY <1>6
<1>9. ws \o <<".slack.com/archives/">> = <<w, ".slack.com/archives/">>
  <2>1. ws = <<w>>
    BY <1>6
  <2> HIDE DEF ws, w
  <2>2. <<w>> \o <<".slack.com/archives/">> = <<w, ".slack.com/archives/">>
    BY <1>7, <1>8, Pair
  <2> QED BY <2>1, <2>2, Zenon
<1> HIDE DEF ws, w
<1>10. b \in Seq(LinkTokens) /\ x \in Seq(LinkTokens)
  BY <1>3, <1>6, <1>7, FieldAdded, NumbersAreTokens
<1>11. IsPlace(b, "/p", c)
  BY <1>2, <1>8, <1>9 DEF IsPlace
<1>12. IsMessage(x, "/p", m)
  BY <1>2, <1>3 DEF IsMessage
<1> HIDE DEF x, b
<1>13. IsLink(slack_archives_permalink(c.name, c.id, m), c, m)
  BY <1>2, <1>7, <1>10, <1>11, <1>12 DEF IsLink
<1> QED BY <1>1, <1>6, <1>13

\* What follows one token, or two.
LEMMA Headed ==
    ASSUME NEW T, NEW a \in T, NEW v \in T, NEW s \in Seq(T), NEW t \in Seq(T),
           <<a>> \o s = <<v>> \o t
    PROVE  a = v /\ s = t
<1> DEFINE u == <<a>> \o s
<1>1. <<a>> \in Seq(T) /\ <<v>> \in Seq(T) /\ Len(<<a>>) = 1 /\ Len(<<v>>) = 1
      /\ <<a>>[1] = a /\ <<v>>[1] = v
  OBVIOUS
<1>2. IsConcat(u, <<a>>, s) /\ IsConcat(u, <<v>>, t)
  BY <1>1, Concatenated
<1> HIDE DEF u
<1>3. Len(s) \in Nat /\ Len(t) \in Nat
  OBVIOUS
<1>4. Len(s) = Len(t)
  BY <1>1, <1>2, <1>3 DEF IsConcat
<1>5. \A i \in 1..Len(s) : s[i] = t[i]
  BY <1>1, <1>2, <1>4 DEF IsConcat
<1> QED BY <1>1, <1>2, <1>4, <1>5, SeqEqual DEF IsConcat

\* A place is that of one chat.
LEMMA PlaceIdentifies ==
    ASSUME NEW c, IsChat(c), NEW d, IsChat(d), NEW b, NEW p,
           IsPlace(b, p, c), IsPlace(b, p, d),
           /\ c.platform = "telegram" /\ d.platform = "telegram"
           /\ IsName(Handle(c.name), Handles) /\ Handle(c.name) = Handle(d.name)
           => c.id = d.id
    PROVE  c.id = d.id
<1> DEFINE Public(e) == /\ e.platform = "telegram" /\ IsName(Handle(e.name), Handles)
                        /\ b = <<"t.me/">> \o Handle(e.name)
                        /\ Handle(e.name) \in Seq(LinkTokens)
           Private(e) == \E n : /\ IsNumber(n) /\ IsConcat(e.id, <<"-100">>, n)
                                /\ b = <<"t.me/c/">> \o n
           Discord(e) == /\ IsNumber(e.id)
                         /\ \E g \in Seq(LinkTokens) :
                              b = <<"discord.com/channels/">> \o g \o <<"/">> \o e.id
           Slack(e) == /\ IsName(e.id, SlackChannels)
                       /\ \E w \in LinkTokens : b = <<w, ".slack.com/archives/">> \o e.id
           T == LinkTokens
<1>0. /\ {"t.me/", "t.me/c/", "discord.com/channels/", "/", ".slack.com/archives/"} \subseteq T
      /\ SlackChannels \subseteq T
  BY DEF LinkTokens
<1>1. /\ p = "/p" => Slack(c) /\ Slack(d)
      /\ p # "/p" => Public(c) \/ Private(c) \/ Discord(c)
      /\ p # "/p" => Public(d) \/ Private(d) \/ Discord(d)
  BY DEF IsPlace
<1> HIDE DEF T
<1>h. \A a, v \in T, s, t \in Seq(T) : <<a>> \o s = <<v>> \o t => a = v /\ s = t
  BY Headed
<1>pub. ASSUME NEW e, Public(e)
        PROVE  \E s \in Seq(T) : b = <<"t.me/">> \o s /\ s = Handle(e.name)
  BY <1>pub DEF T
<1>pri. ASSUME NEW e, Private(e)
        PROVE  \E s \in Seq(T) : b = <<"t.me/c/">> \o s /\ IsConcat(e.id, <<"-100">>, s)
  BY <1>pri, NumbersAreTokens DEF T
<1>dis. ASSUME NEW e, Discord(e)
        PROVE  \E s, g \in Seq(T) : /\ b = <<"discord.com/channels/">> \o s
                                    /\ g \in Seq(T) /\ e.id \in Seq(T) /\ "/" \notin ToSet(e.id)
                                    /\ IsAdded(b, <<"discord.com/channels/">> \o g, "/", e.id)
  <2>1. PICK g \in Seq(T) : b = <<"discord.com/channels/">> \o g \o <<"/">> \o e.id
    BY <1>dis DEF T
  <2>2. e.id \in Seq(T) /\ e.id \in Seq(Digits)
    BY <1>dis, NumbersAreTokens, NumberFacts DEF T
  <2>3. "/" \notin ToSet(e.id)
    <3>1. "/" \notin Digits /\ ToSet(e.id) \subseteq Digits
      BY <1>dis DEF IsNumber, IsDigits, Digits
    <3> QED BY <3>1
  <2> DEFINE h == <<"discord.com/channels/">>
             sep == <<"/">>
             i == e.id
  <2>4. h \in Seq(T) /\ sep \in Seq(T) /\ "/" \in T
    BY <1>0
  <2>5. b = h \o g \o sep \o i /\ i \in Seq(T)
    BY <2>1, <2>2
  <2>6. IsAdded(b, h \o g, "/", i)
    <3>1. h \o g \in Seq(T)
      BY <2>4, ConcatProperties
    <3> HIDE DEF h, i
    <3> QED BY <2>4, <2>5, <3>1, FieldAdded
  <2>7. g \o sep \o i \in Seq(T) /\ b = h \o (g \o sep \o i)
    <3> HIDE DEF h, i, sep
    <3>1. g \o sep \in Seq(T) /\ g \o sep \o i \in Seq(T)
      BY <2>4, <2>5, ConcatProperties
    <3>2. (h \o g) \o sep = h \o (g \o sep)
      BY <2>4, ConcatAssociative
    <3>3. (h \o (g \o sep)) \o i = h \o ((g \o sep) \o i)
      <4> DEFINE k == g \o sep
      <4>1. h \in Seq(T) /\ k \in Seq(T) /\ i \in Seq(T)
        BY <2>4, <2>5, <3>1
      <4> HIDE DEF k
      <4>2. (h \o k) \o i = h \o (k \o i)
        BY <4>1, ConcatAssociative
      <4> QED BY <4>2 DEF k
    <3> QED BY <2>5, <3>1, <3>2, <3>3, Zenon
  <2> QED BY <2>2, <2>3, <2>6, <2>7
<1>sla. ASSUME NEW e, IsChat(e), Slack(e)
        PROVE  \E k, w \in T : e.id = <<k>> /\ b = <<w, ".slack.com/archives/">> \o <<k>>
  <2>1. e.id \in Seq(ToSet(e.id)) /\ Len(e.id) = 1 /\ e.id[1] \in T
    BY <1>0, <1>sla DEF IsChat, IsText, IsName
  <2>2. e.id = <<e.id[1]>>
    BY <2>1
  <2>3. PICK w \in T : b = <<w, ".slack.com/archives/">> \o e.id
    BY <1>sla DEF T
  <2> QED BY <2>1, <2>2, <2>3, Zenon
<1> HIDE DEF Public, Private, Discord, Slack
<1>2. CASE p = "/p"
  <2>1. PICK k, w \in T : c.id = <<k>> /\ b = <<w, ".slack.com/archives/">> \o <<k>>
    BY <1>1, <1>2, <1>sla
  <2>2. PICK l, v \in T : d.id = <<l>> /\ b = <<v, ".slack.com/archives/">> \o <<l>>
    BY <1>1, <1>2, <1>sla
  <2>3. (<<w, ".slack.com/archives/">> \o <<k>>)[3] = k
        /\ (<<v, ".slack.com/archives/">> \o <<l>>)[3] = l
    OBVIOUS
  <2> QED BY <2>1, <2>2, <2>3, Zenon
<1>3. CASE p # "/p"
  <2>1. CASE Public(c) /\ Public(d)
    <3>1. Handle(c.name) = Handle(d.name)
      BY <1>0, <1>h, <1>pub, <2>1
    <3> QED BY <2>1, <3>1 DEF Public
  <2>2. CASE Private(c) /\ Private(d)
    <3>1. PICK s \in Seq(T) : b = <<"t.me/c/">> \o s /\ IsConcat(c.id, <<"-100">>, s)
      BY <1>pri, <2>2
    <3>2. PICK t \in Seq(T) : b = <<"t.me/c/">> \o t /\ IsConcat(d.id, <<"-100">>, t)
      BY <1>pri, <2>2
    <3>3. s = t
      BY <1>0, <1>h, <3>1, <3>2
    <3>4. Len(c.id) = Len(d.id) /\ \A i \in 1..Len(c.id) : c.id[i] = d.id[i]
      <4>1. Len(<<"-100">>) = 1 /\ Len(s) \in Nat
        OBVIOUS
      <4>2. /\ Len(c.id) = 1 + Len(s) /\ Len(d.id) = 1 + Len(s)
            /\ \A i \in 1..1 : c.id[i] = d.id[i]
            /\ \A i \in 1..Len(s) : c.id[1 + i] = d.id[1 + i]
        BY <3>1, <3>2, <3>3, <4>1 DEF IsConcat
      <4>3. ASSUME NEW i \in 1..Len(c.id) PROVE c.id[i] = d.id[i]
        <5>1. CASE i = 1
          <6>1. i \in 1..1
            BY <5>1
          <6> QED BY <4>2, <6>1
        <5>2. CASE i # 1
          <6>1. i - 1 \in 1..Len(s) /\ 1 + (i - 1) = i
            BY <4>1, <4>2, <5>2
          <6>2. c.id[1 + (i - 1)] = d.id[1 + (i - 1)]
            BY <4>2, <6>1
          <6> QED BY <6>1, <6>2
        <5> QED BY <5>1, <5>2
      <4> QED BY <4>2, <4>3
    <3> DEFINE i == c.id
               j == d.id
    <3>5. i \in Seq(ToSet(i)) /\ j \in Seq(ToSet(j))
      BY DEF IsChat, IsText
    <3>6. Len(i) = Len(j) /\ \A k \in 1..Len(i) : i[k] = j[k]
      BY <3>4
    <3> HIDE DEF i, j
    <3>7. i = j
      BY <3>5, <3>6, SeqEqual
    <3> QED BY <3>7 DEF i, j
  <2>3. CASE Discord(c) /\ Discord(d)
    <3>1. PICK g \in Seq(T) : /\ c.id \in Seq(T) /\ "/" \notin ToSet(c.id)
                              /\ IsAdded(b, <<"discord.com/channels/">> \o g, "/", c.id)
      BY <1>dis, <2>3
    <3>2. PICK h \in Seq(T) : /\ d.id \in Seq(T) /\ "/" \notin ToSet(d.id)
                              /\ IsAdded(b, <<"discord.com/channels/">> \o h, "/", d.id)
      BY <1>dis, <2>3
    <3>3. <<"discord.com/channels/">> \in Seq(T)
      BY <1>0
    <3>4. <<"discord.com/channels/">> \o g \in Seq(T) /\ <<"discord.com/channels/">> \o h \in Seq(T)
      BY <3>3, ConcatProperties
    <3> QED BY <3>1, <3>2, <3>4, LastField
  <2>4. ASSUME NEW s \in Seq(T), NEW t \in Seq(T)
        PROVE  /\ ~(<<"t.me/">> \o s = <<"t.me/c/">> \o t)
               /\ ~(<<"t.me/">> \o s = <<"discord.com/channels/">> \o t)
               /\ ~(<<"t.me/c/">> \o s = <<"discord.com/channels/">> \o t)
    <3>1. /\ "t.me/" # "t.me/c/" /\ "t.me/" # "discord.com/channels/"
          /\ "t.me/c/" # "discord.com/channels/"
      OBVIOUS
    <3> QED BY <1>0, <1>h, <3>1
  <2>5. ~(Public(c) /\ Private(d)) /\ ~(Public(d) /\ Private(c))
    BY <1>pub, <1>pri, <2>4
  <2>6. ~(Public(c) /\ Discord(d)) /\ ~(Public(d) /\ Discord(c))
    BY <1>pub, <1>dis, <2>4
  <2>7. ~(Private(c) /\ Discord(d)) /\ ~(Private(d) /\ Discord(c))
    BY <1>pri, <1>dis, <2>4
  <2> QED BY <1>1, <1>3, <2>1, <2>2, <2>3, <2>5, <2>6, <2>7
<1> QED BY <1>2, <1>3

\* A message is told by its digits.
LEMMA MessageIdentifies ==
    ASSUME NEW m, IsId(m), NEW n, IsId(n), NEW x, NEW p, IsMessage(x, p, m), IsMessage(x, p, n)
    PROVE  m = n
<1>1. "/" # "/p"
  OBVIOUS
<1> QED BY <1>1, UndottedIdentifies DEF IsMessage, IsId

\* What two chats share is shared: a handle is that of one chat.
LEMMA LinkIdentifies ==
    ASSUME NEW c, IsChat(c), NEW d, IsChat(d), NEW m, IsId(m), NEW n, IsId(n),
           /\ c.platform = "telegram" /\ d.platform = "telegram"
           /\ IsName(Handle(c.name), Handles) /\ Handle(c.name) = Handle(d.name)
           => c.id = d.id,
           NEW u, IsLink(u, c, m), IsLink(u, d, n)
    PROVE  c.id = d.id /\ m = n
<1>1. PICK b, x \in Seq(LinkTokens) : \E p \in LinkTokens :
        IsPlace(b, p, c) /\ IsMessage(x, p, m) /\ u = b \o <<p>> \o x
  BY DEF IsLink
<1>2. PICK p \in LinkTokens : IsPlace(b, p, c) /\ IsMessage(x, p, m) /\ u = b \o <<p>> \o x
  BY <1>1
<1>3. PICK a, y \in Seq(LinkTokens) : \E q \in LinkTokens :
        IsPlace(a, q, d) /\ IsMessage(y, q, n) /\ u = a \o <<q>> \o y
  BY DEF IsLink
<1>4. PICK q \in LinkTokens : IsPlace(a, q, d) /\ IsMessage(y, q, n) /\ u = a \o <<q>> \o y
  BY <1>3
<1>5. p \notin ToSet(y) /\ q \notin ToSet(x)
  <2>1. p \in {"/", "/p"} /\ q \in {"/", "/p"}
    BY <1>2, <1>4 DEF IsMessage
  <2>2. ToSet(x) \subseteq Digits /\ ToSet(y) \subseteq Digits
    BY <1>2, <1>4 DEF IsMessage, IsNumber, IsDigits
  <2>3. "/" \notin Digits /\ "/p" \notin Digits
    BY DEF Digits
  <2> QED BY <2>1, <2>2, <2>3
<1>6. IsAdded(u, b, p, x) /\ IsAdded(u, a, q, y)
  BY <1>2, <1>4, FieldAdded
<1>7. b = a /\ p = q /\ x = y
  <2> DEFINE T == LinkTokens
  <2>1. b \in Seq(T) /\ a \in Seq(T) /\ x \in Seq(T) /\ y \in Seq(T)
    OBVIOUS
  <2> HIDE DEF T
  <2> QED BY <1>5, <1>6, <2>1, LastField
<1> QED BY <1>2, <1>4, <1>7, PlaceIdentifies, MessageIdentifies

\* A link into a thread: one of Slack's, the thread and the channel.
IsThreadLink(u, c, m) ==
    \E base, parent \in Seq(LinkTokens), k \in LinkTokens :
        /\ IsLink(base, c, m)
        /\ "?thread_ts=" \notin ToSet(parent)
        /\ u = base \o <<"?thread_ts=">> \o parent \o <<"&cid=">> \o <<k>>

LEMMA TimestampTokens ==
    ASSUME NEW t, IsText(t), IsTimestamp(t)
    PROVE  t \in Seq(Digits \cup {"."})
<1> DEFINE d == Len(t) - FractionDigits
           u == Undotted(t)
<1>0. t \in Seq(ToSet(t)) /\ Len(t) \in Nat
  BY TextFacts
<1>1. /\ IsNumber(u) /\ Len(u) = Len(t) - 1 /\ d \in 1..Len(t) /\ t[d] = "."
      /\ \A i \in 1..(d - 1) : u[i] = t[i]
      /\ \A i \in d..(Len(t) - 1) : u[i] = t[i + 1]
  BY TimestampIs
<1>2. \A i \in 1..(Len(t) - 1) : u[i] \in Digits
  BY <1>1, NumberFacts
<1> HIDE DEF d, u
<1>3. ASSUME NEW i \in 1..Len(t) PROVE t[i] \in Digits \cup {"."}
  <2>1. CASE i < d
    <3>1. i \in 1..(d - 1) /\ i \in 1..(Len(t) - 1)
      BY <1>0, <1>1, <2>1
    <3> QED BY <1>1, <1>2, <3>1
  <2>2. CASE i = d
    BY <1>1, <2>2
  <2>3. CASE i > d
    <3>1. i - 1 \in d..(Len(t) - 1) /\ i - 1 \in 1..(Len(t) - 1) /\ (i - 1) + 1 = i
      BY <1>0, <1>1, <2>3
    <3>2. t[(i - 1) + 1] \in Digits
      BY <1>1, <1>2, <3>1
    <3> QED BY <3>1, <3>2
  <2> QED BY <1>0, <1>1, <2>1, <2>2, <2>3
<1> QED BY <1>0, <1>3, SeqOfElements

LEMMA SlackThreadLink ==
    ASSUME NEW c, IsChat(c), NEW m, IsId(m), NEW t, IsText(t),
           slack_thread_reply_permalink(c.name, c.id, m, t) # NoLink
    PROVE  IsThreadLink(slack_thread_reply_permalink(c.name, c.id, m, t), c, m)
<1> DEFINE base == slack_archives_permalink(c.name, c.id, m)
           parent == Strip(t)
<1>1. /\ base # NoLink /\ IsTimestamp(parent)
      /\ slack_thread_reply_permalink(c.name, c.id, m, t)
           = base \o <<"?thread_ts=">> \o parent \o <<"&cid=">> \o Strip(c.id)
  BY DEF slack_thread_reply_permalink
<1>2. IsText(parent)
  BY StripIsText
<1>3. parent \in Seq(Digits \cup {"."})
  BY <1>1, <1>2, TimestampTokens
<1>4. parent \in Seq(LinkTokens)
  <2>1. Digits \cup {"."} \subseteq LinkTokens
    BY DEF LinkTokens
  <2> QED BY <1>3, <2>1, SeqMonotonic
<1>5. "?thread_ts=" \notin ToSet(parent)
  <2>1. "?thread_ts=" \notin Digits \cup {"."}
    BY DEF Digits
  <2>2. DOMAIN parent = 1..Len(parent) /\ \A i \in 1..Len(parent) : parent[i] \in Digits \cup {"."}
    BY <1>3, ElementOfSeq
  <2> QED BY <2>1, <2>2 DEF ToSet
<1>6. IsLink(base, c, m) /\ \E k \in LinkTokens : Strip(c.id) = <<k>>
  BY <1>1, SlackLink
<1>7. base \in Seq(LinkTokens)
  BY <1>6, LinkIsText
<1> HIDE DEF base, parent
<1> QED BY <1>1, <1>4, <1>5, <1>6, <1>7 DEF IsThreadLink

\* The last token but one of a link into a channel is a digit or a separator.
LEMMA LinkEnds ==
    ASSUME NEW u, NEW c, NEW m, IsLink(u, c, m)
    PROVE  u[Len(u) - 1] # "&cid="
<1>1. PICK b, x \in Seq(LinkTokens) : \E p \in LinkTokens :
        IsPlace(b, p, c) /\ IsMessage(x, p, m) /\ u = b \o <<p>> \o x
  BY DEF IsLink
<1>2. PICK p \in LinkTokens : IsPlace(b, p, c) /\ IsMessage(x, p, m) /\ u = b \o <<p>> \o x
  BY <1>1
<1>3. IsAdded(u, b, p, x)
  BY <1>2, FieldAdded
<1>4. /\ Len(u) = Len(b) + 1 + Len(x) /\ u[Len(b) + 1] = p
      /\ \A i \in 1..Len(x) : u[Len(b) + 1 + i] = x[i]
  BY <1>3 DEF IsAdded
<1>5. /\ p \in {"/", "/p"} /\ IsNumber(x)
      /\ Len(x) \in Nat /\ Len(x) >= 1 /\ \A i \in 1..Len(x) : x[i] \in Digits
  BY <1>2, NumberFacts DEF IsMessage
<1>6. "&cid=" \notin Digits /\ "&cid=" \notin {"/", "/p"}
  BY DEF Digits
<1>7. Len(b) \in Nat
  OBVIOUS
<1>8. CASE Len(x) = 1
  <2>1. Len(u) - 1 = Len(b) + 1
    BY <1>4, <1>7, <1>8
  <2> QED BY <1>4, <1>5, <1>6, <2>1
<1>9. CASE Len(x) # 1
  <2>0. Len(u) = Len(b) + 1 + Len(x) /\ Len(x) \in Nat /\ Len(x) >= 1
    BY <1>4, <1>5
  <2> DEFINE i == Len(x) - 1
             l == Len(x)
  <2>1. i \in 1..Len(x) /\ Len(u) - 1 = Len(b) + 1 + i
    <3>1. l \in Nat /\ l >= 1 /\ l # 1
      BY <1>9, <2>0
    <3>2. i = l - 1 /\ Len(u) = Len(b) + 1 + l
      BY <2>0
    <3> HIDE DEF i, l
    <3>3. i \in 1..l /\ Len(u) - 1 = Len(b) + 1 + i
      BY <1>7, <3>1, <3>2
    <3> QED BY <3>3 DEF l
  <2> HIDE DEF i, l
  <2>2. u[Len(b) + 1 + i] = x[i] /\ x[i] \in Digits
    BY <1>4, <1>5, <2>1
  <2> QED BY <1>6, <2>1, <2>2
<1> QED BY <1>8, <1>9

\* Of a link into a thread it says that it is one, and before it comes a link
\* into the channel.
LEMMA ThreadLinkEnds ==
    ASSUME NEW u, NEW c, NEW m, IsThreadLink(u, c, m)
    PROVE  /\ u[Len(u) - 1] = "&cid="
           /\ \E base, parent, mid \in Seq(LinkTokens) :
                /\ IsLink(base, c, m)
                /\ "?thread_ts=" \notin ToSet(parent)
                /\ IsAdded(mid, base, "?thread_ts=", parent)
                /\ Len(u) = Len(mid) + 2
                /\ \A i \in 1..Len(mid) : u[i] = mid[i]
<1>1. PICK base, parent \in Seq(LinkTokens), k \in LinkTokens :
        /\ IsLink(base, c, m)
        /\ "?thread_ts=" \notin ToSet(parent)
        /\ u = base \o <<"?thread_ts=">> \o parent \o <<"&cid=">> \o <<k>>
  BY DEF IsThreadLink
<1>2. "?thread_ts=" \in LinkTokens /\ "&cid=" \in LinkTokens
  BY DEF LinkTokens
<1> DEFINE mid == base \o <<"?thread_ts=">> \o parent
           last == <<k>>
<1>3. mid \in Seq(LinkTokens) /\ IsAdded(mid, base, "?thread_ts=", parent)
  BY <1>2, FieldAdded
<1>4. u = mid \o <<"&cid=">> \o last /\ last \in Seq(LinkTokens) /\ Len(last) = 1
  BY <1>1
<1> HIDE DEF mid, last
<1>5. IsAdded(u, mid, "&cid=", last) /\ Len(mid) \in Nat
  BY <1>2, <1>3, <1>4, FieldAdded
<1>6. /\ Len(u) = Len(mid) + 1 + 1 /\ u[Len(mid) + 1] = "&cid="
      /\ \A i \in 1..Len(mid) : u[i] = mid[i]
  BY <1>4, <1>5 DEF IsAdded
<1>7. Len(u) = Len(mid) + 2 /\ Len(u) - 1 = Len(mid) + 1
  BY <1>5, <1>6
<1> QED BY <1>1, <1>3, <1>6, <1>7

LEMMA ThreadLinkIdentifies ==
    ASSUME NEW c, IsChat(c), NEW d, IsChat(d), NEW m, IsId(m), NEW n, IsId(n),
           /\ c.platform = "telegram" /\ d.platform = "telegram"
           /\ IsName(Handle(c.name), Handles) /\ Handle(c.name) = Handle(d.name)
           => c.id = d.id,
           NEW u, IsThreadLink(u, c, m), IsThreadLink(u, d, n)
    PROVE  c.id = d.id /\ m = n
<1>1. PICK base, parent, mid \in Seq(LinkTokens) :
        /\ IsLink(base, c, m)
        /\ "?thread_ts=" \notin ToSet(parent)
        /\ IsAdded(mid, base, "?thread_ts=", parent)
        /\ Len(u) = Len(mid) + 2
        /\ \A i \in 1..Len(mid) : u[i] = mid[i]
  BY ThreadLinkEnds
<1>2. PICK root, thread, front \in Seq(LinkTokens) :
        /\ IsLink(root, d, n)
        /\ "?thread_ts=" \notin ToSet(thread)
        /\ IsAdded(front, root, "?thread_ts=", thread)
        /\ Len(u) = Len(front) + 2
        /\ \A i \in 1..Len(front) : u[i] = front[i]
  BY ThreadLinkEnds
<1>3. mid = front
  <2>1. Len(mid) = Len(front)
    <3>1. Len(mid) \in Nat /\ Len(front) \in Nat
      OBVIOUS
    <3>2. Len(mid) + 2 = Len(front) + 2
      BY <1>1, <1>2
    <3> QED BY <3>1, <3>2
  <2>2. \A i \in 1..Len(mid) : mid[i] = front[i]
    BY <1>1, <1>2, <2>1
  <2> DEFINE T == LinkTokens
  <2>3. mid \in Seq(T) /\ front \in Seq(T)
    OBVIOUS
  <2> HIDE DEF T
  <2> QED BY <2>1, <2>2, <2>3, SeqEqual
<1>4. base = root
  <2> DEFINE T == LinkTokens
             p == "?thread_ts="
  <2>1. base \in Seq(T) /\ root \in Seq(T) /\ parent \in Seq(T) /\ thread \in Seq(T)
    OBVIOUS
  <2>2. /\ IsAdded(mid, base, p, parent) /\ IsAdded(mid, root, p, thread)
        /\ p \notin ToSet(parent) /\ p \notin ToSet(thread)
    BY <1>1, <1>2, <1>3
  <2> HIDE DEF T, p
  <2> QED BY <2>1, <2>2, LastField
<1> QED BY <1>1, <1>2, <1>4, LinkIdentifies

\* build_permalink builds links into the channel.
LEMMA BuiltLink ==
    ASSUME NEW c, IsChat(c), NEW m, IsId(m), build_permalink(c, m) # NoLink
    PROVE  IsLink(build_permalink(c, m), c, m)
<1>1. CASE c.platform = "telegram"
  <2>1. build_permalink(c, m) =
          IF telegram_public_permalink(c.name, m) # NoLink
          THEN telegram_public_permalink(c.name, m)
          ELSE telegram_private_permalink(c.id, m)
    BY <1>1 DEF build_permalink
  <2> QED BY <1>1, <2>1, TelegramPublicLink, TelegramPrivateLink
<1>2. CASE c.platform = "slack"
  <2>1. build_permalink(c, m) = slack_archives_permalink(c.name, c.id, m)
    BY <1>2 DEF build_permalink
  <2> QED BY <2>1, SlackLink
<1>3. CASE c.platform = "discord"
  <2>1. build_permalink(c, m) = discord_permalink(c.name, c.id, m)
    BY <1>3 DEF build_permalink
  <2> QED BY <2>1, DiscordLink
<1> QED BY <1>1, <1>2, <1>3 DEF IsChat

\* A seeded channel is one of the chats, with a history.
LinkInv ==
    \A c \in channels : \E k \in Channels :
        c.id = k.id /\ c.platform = k.platform /\ c.name = k.name /\ c.messages \in Histories

LEMMA LinkInvInit == Init => LinkInv
BY DEF Init, LinkInv

LEMMA LinkInvStep == LinkInv /\ [Next]_vars => LinkInv'
<1> SUFFICES ASSUME LinkInv, [Next]_vars PROVE LinkInv'
  OBVIOUS
<1>1. ASSUME NEW id, set_fetch_failure(id) PROVE LinkInv'
  BY <1>1 DEF set_fetch_failure, LinkInv
<1>2. ASSUME NEW c \in Channels, NEW history \in Histories, add_channel(c, history)
      PROVE  LinkInv'
  <2>1. channels' = {d \in channels : d.id # c.id} \cup
                     {[id |-> c.id, platform |-> c.platform, name |-> c.name,
                       messages |-> history]}
    BY <1>2 DEF add_channel
  <2> QED BY <2>1 DEF LinkInv
<1>3. ASSUME NEW id, NEW request, Answer(id, request) PROVE LinkInv'
  BY <1>3 DEF Answer, LinkInv
<1>4. CASE UNCHANGED vars
  BY <1>4 DEF vars, LinkInv
<1> QED BY <1>1, <1>2, <1>3, <1>4 DEF Next

\* A link opens one message: whatever chats, histories and names there are, if
\* a link is built for a message, into the channel or into a thread, then it is
\* built for no other message and for no other chat.
THEOREM LinksAreIdentities == Spec => []LinksIdentify
<1>1. LinkInv => LinksIdentify
  <2> DEFINE LinksOf(c, i) ==
        {build_permalink(c, c.messages[i]),
         slack_thread_reply_permalink(c.name, c.id, c.messages[i], c.messages[1])} \ {NoLink}
  <2> SUFFICES ASSUME LinkInv, NEW c \in channels, NEW d \in channels,
                      NEW i \in DOMAIN c.messages, NEW j \in DOMAIN d.messages,
                      NEW u, u \in LinksOf(c, i), u \in LinksOf(d, j)
               PROVE  c.id = d.id /\ c.messages[i] = d.messages[j]
    BY DEF LinksIdentify
  <2>1. ASSUME NEW e \in channels, NEW k \in DOMAIN e.messages, u \in LinksOf(e, k)
        PROVE  /\ IsChat(e) /\ IsId(e.messages[k])
               /\ IsLink(u, e, e.messages[k]) \/ IsThreadLink(u, e, e.messages[k])
    <3>1. IsChat(e)
      BY ChannelsAssumption DEF LinkInv, IsChat
    <3>2. e.messages \in Seq(ToSet(e.messages))
          /\ \A l \in DOMAIN e.messages : IsId(e.messages[l])
      BY HistoriesAssumption DEF LinkInv, IsId
    <3>3. 1 \in DOMAIN e.messages
      <4>1. DOMAIN e.messages = 1..Len(e.messages) /\ Len(e.messages) \in Nat
        BY <3>2
      <4> QED BY <4>1
    <3>4. IsId(e.messages[k]) /\ IsText(e.messages[1])
      BY <3>2, <3>3 DEF IsId
    <3> QED BY <2>1, <3>1, <3>4, BuiltLink, SlackThreadLink
  <2>2. /\ c.platform = "telegram" /\ d.platform = "telegram"
        /\ IsName(Handle(c.name), Handles) /\ Handle(c.name) = Handle(d.name)
        => c.id = d.id
    BY ChannelsAssumption DEF LinkInv
  <2> DEFINE m == c.messages[i]
             n == d.messages[j]
  <2>3. /\ IsChat(c) /\ IsId(m) /\ (IsLink(u, c, m) \/ IsThreadLink(u, c, m))
        /\ IsChat(d) /\ IsId(n) /\ (IsLink(u, d, n) \/ IsThreadLink(u, d, n))
    BY <2>1
  <2> HIDE DEF m, n
  <2>4. CASE IsLink(u, c, m) /\ IsLink(u, d, n)
    BY <2>2, <2>3, <2>4, LinkIdentifies DEF m, n
  <2>5. CASE IsThreadLink(u, c, m) /\ IsThreadLink(u, d, n)
    BY <2>2, <2>3, <2>5, ThreadLinkIdentifies DEF m, n
  <2> QED BY <2>3, <2>4, <2>5, LinkEnds, ThreadLinkEnds
<1> QED BY <1>1, LinkInvInit, LinkInvStep, PTL DEF Spec
=============================================================================
