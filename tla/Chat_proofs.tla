---------------------------- MODULE Chat_proofs ----------------------------
(***************************************************************************)
(* Proofs about Chat, for any users, administrators, limit and number of   *)
(* messages, over either storage.                                          *)
(*                                                                         *)
(* The invariant is about what the handlers still have to do.  That is     *)
(* read from their lists of work by a few operators (LoadingIn to WayIn)   *)
(* whose values for every kind of work are computed once; one lemma for    *)
(* each action then says what it changes of them, and the invariant is     *)
(* proved from those lemmas without looking at the lists again.            *)
(***************************************************************************)
EXTENDS Chat, FiniteSetTheorems, WellFoundedInduction, TLAPS

-----------------------------------------------------------------------------
(* What Only leaves of a list, by induction over its length.               *)

\* A set of naturals that is not empty has a least element.
LEMMA Least ==
  ASSUME NEW T, T \subseteq Nat, T # {}
  PROVE  \E n \in T : \A m \in T : n <= m
<1>1. PICK n \in T : \A m \in T : <<m, n>> \notin OpToRel(<, Nat)
  BY NatLessThanWellFounded, WFMin
<1>2. \A m \in T : m < n => <<m, n>> \in OpToRel(<, Nat)
  BY DEF OpToRel
<1>3. ASSUME NEW m \in T PROVE n <= m
  <2>1. ~(m < n)
    BY <1>1, <1>2
  <2>2. m \in Nat /\ n \in Nat
    OBVIOUS
  <2>. QED BY <2>1, <2>2
<1>. QED BY <1>3

\* Induction for a set: the rule with an operator is out of the provers' reach.
LEMMA SetInduction ==
  ASSUME NEW S, 0 \in S, \A n \in Nat : n \in S => n + 1 \in S
  PROVE  Nat \subseteq S
<1>. DEFINE T == Nat \ S
<1>1. SUFFICES ASSUME T # {} PROVE FALSE
  OBVIOUS
<1>2. PICK n \in T : \A m \in T : n <= m
  BY <1>1, Least
<1>3. n # 0 /\ n - 1 \in Nat /\ n - 1 \notin T
  BY <1>2
<1>. QED BY <1>2, <1>3

\* r holds the entries of the first n of seq that are in S, in their order:
\* its k-th is the at[k]-th of seq.
Picked(r, seq, S, n) ==
  /\ r \in Seq(Range(seq))
  /\ \E at \in [DOMAIN r -> 1..n] :
       /\ \A k \in DOMAIN r : r[k] = seq[at[k]] /\ r[k] \in S
       /\ \A k, l \in DOMAIN r : k < l => at[k] < at[l]
       /\ \A i \in 1..n : seq[i] \in S => \E k \in DOMAIN r : at[k] = i

\* One more entry is picked or left.
LEMMA PickNext ==
  ASSUME NEW X, NEW seq \in Seq(X), NEW S, NEW r, NEW n \in Nat, n < Len(seq),
         Picked(r, seq, S, n)
  PROVE  Picked(IF seq[n + 1] \in S THEN Append(r, seq[n + 1]) ELSE r, seq, S, n + 1)
<1>1. PICK at \in [DOMAIN r -> 1..n] :
       /\ \A k \in DOMAIN r : r[k] = seq[at[k]] /\ r[k] \in S
       /\ \A k, l \in DOMAIN r : k < l => at[k] < at[l]
       /\ \A i \in 1..n : seq[i] \in S => \E k \in DOMAIN r : at[k] = i
  BY DEF Picked
<1>2. r \in Seq(Range(seq)) /\ seq[n + 1] \in Range(seq) /\ Len(r) \in Nat
      /\ DOMAIN r = 1..Len(r)
  BY DEF Picked, Range
<1>3. CASE seq[n + 1] \notin S
  <2>1. at \in [DOMAIN r -> 1..n + 1]
    BY <1>1
  <2>2. \A i \in 1..n + 1 : seq[i] \in S => i \in 1..n
    BY <1>3
  <2>3. Picked(r, seq, S, n + 1)
    BY <1>1, <1>2, <2>1, <2>2, ZenonT(30) DEF Picked
  <2>. QED BY <1>3, <2>3
<1>4. CASE seq[n + 1] \in S
  <2>. DEFINE q == Append(r, seq[n + 1])
              to == [k \in 1..Len(r) + 1 |-> IF k = Len(r) + 1 THEN n + 1 ELSE at[k]]
  <2>1. /\ q \in Seq(Range(seq)) /\ Len(q) = Len(r) + 1 /\ DOMAIN q = 1..Len(r) + 1
        /\ q[Len(r) + 1] = seq[n + 1] /\ \A k \in 1..Len(r) : q[k] = r[k]
    BY <1>2
  <2>2. to \in [DOMAIN q -> 1..n + 1]
    BY <1>1, <1>2, <2>1
  <2>3. \A k \in DOMAIN q : q[k] = seq[to[k]] /\ q[k] \in S
    BY <1>1, <1>2, <1>4, <2>1
  <2>4. \A k, l \in DOMAIN q : k < l => to[k] < to[l]
    <3>1. \A k \in 1..Len(r) : at[k] \in Nat /\ at[k] <= n
      BY <1>1, <1>2
    <3>. QED BY <1>1, <1>2, <2>1, <3>1
  <2>5. \A i \in 1..n + 1 : seq[i] \in S => \E k \in DOMAIN q : to[k] = i
    <3>. TAKE i \in 1..n + 1
    <3>. HAVE seq[i] \in S
    <3>1. CASE i = n + 1
      <4>1. to[Len(r) + 1] = i /\ Len(r) + 1 \in DOMAIN q
        BY <1>2, <2>1, <3>1
      <4>. QED BY <4>1
    <3>2. CASE i \in 1..n
      <4>1. PICK k \in DOMAIN r : at[k] = i
        BY <1>1, <3>2
      <4>2. k \in DOMAIN q /\ to[k] = i
        BY <1>2, <2>1, <4>1
      <4>. QED BY <4>2
    <3>. QED BY <3>1, <3>2
  <2>6. Picked(q, seq, S, n + 1)
    <3>. HIDE DEF q, to
    <3>. QED BY <2>1, <2>2, <2>3, <2>4, <2>5 DEF Picked
  <2>. QED BY <1>4, <2>6
<1>. QED BY <1>3, <1>4

\* The recursive function that Only is read from: f computes seq up to n.
Steps(f, seq, S, n) ==
  f = [i \in 0..n |->
         IF i = 0 THEN <<>>
         ELSE IF seq[i] \in S THEN Append(f[i - 1], seq[i]) ELSE f[i - 1]]

\* The recursive function is defined for every list.
LEMMA StepsExist ==
  ASSUME NEW X, NEW seq \in Seq(X), NEW S
  PROVE  \E f : Steps(f, seq, S, Len(seq))
<1>. DEFINE T == {n \in Nat : n <= Len(seq) => \E f : Steps(f, seq, S, n)}
<1>1. 0 \in T
  <2>1. Steps([i \in 0..0 |-> <<>>], seq, S, 0)
    BY DEF Steps
  <2>. QED BY <2>1
<1>2. ASSUME NEW n \in Nat, n \in T
      PROVE  n + 1 \in T
  <2>. SUFFICES ASSUME n + 1 <= Len(seq) PROVE \E f : Steps(f, seq, S, n + 1)
    OBVIOUS
  <2>1. PICK f : Steps(f, seq, S, n)
    BY <1>2
  <2>. DEFINE next == IF seq[n + 1] \in S THEN Append(f[n], seq[n + 1]) ELSE f[n]
              g == [i \in 0..n + 1 |-> IF i = n + 1 THEN next ELSE f[i]]
  <2>2. \A i \in 0..n : f[i] = IF i = 0 THEN <<>>
         ELSE IF seq[i] \in S THEN Append(f[i - 1], seq[i]) ELSE f[i - 1]
    BY <2>1 DEF Steps
  <2>3. g[n + 1] = next /\ \A i \in 0..n : g[i] = f[i]
    OBVIOUS
  <2>4. \A i \in 0..n + 1 : g[i] = IF i = 0 THEN <<>>
         ELSE IF seq[i] \in S THEN Append(g[i - 1], seq[i]) ELSE g[i - 1]
    BY <2>2, <2>3
  <2>5. g = [i \in 0..n + 1 |-> g[i]]
    OBVIOUS
  <2>6. Steps(g, seq, S, n + 1)
    <3>. HIDE DEF g
    <3>. QED BY <2>4, <2>5 DEF Steps
  <2>. QED BY <2>6
<1>3. Nat \subseteq T
  <2>. HIDE DEF T
  <2>. QED BY <1>1, <1>2, SetInduction
<1>. QED BY <1>3

\* Only picks its entries from the whole list.
LEMMA OnlyPicks ==
  ASSUME NEW X, NEW seq \in Seq(X), NEW S
  PROVE  Picked(Only(seq, S), seq, S, Len(seq))
<1>. DEFINE f == CHOOSE f : Steps(f, seq, S, Len(seq))
<1>1. Steps(f, seq, S, Len(seq))
  BY StepsExist
<1>2. Only(seq, S) = f[Len(seq)]
  BY DEF Only, Steps
<1>. HIDE DEF f
<1>. DEFINE T == {n \in Nat : n <= Len(seq) => Picked(f[n], seq, S, n)}
<1>3. \A i \in 0..Len(seq) : f[i] = IF i = 0 THEN <<>>
         ELSE IF seq[i] \in S THEN Append(f[i - 1], seq[i]) ELSE f[i - 1]
  BY <1>1 DEF Steps
<1>4. 0 \in T
  <2>1. f[0] = <<>>
    BY <1>3
  <2>2. Picked(<<>>, seq, S, 0)
    <3>1. DOMAIN <<>> = {} /\ 1..0 = {} /\ <<>> \in Seq(Range(seq))
      OBVIOUS
    <3>2. [k \in {} |-> 0] \in [DOMAIN <<>> -> 1..0]
      BY <3>1
    <3>. QED BY <3>1, <3>2 DEF Picked
  <2>. QED BY <2>1, <2>2
<1>5. ASSUME NEW n \in Nat, n \in T PROVE n + 1 \in T
  <2>. SUFFICES ASSUME n + 1 <= Len(seq) PROVE Picked(f[n + 1], seq, S, n + 1)
    OBVIOUS
  <2>1. f[n + 1] = IF seq[n + 1] \in S THEN Append(f[n], seq[n + 1]) ELSE f[n]
    BY <1>3
  <2>2. Picked(f[n], seq, S, n) /\ n < Len(seq)
    BY <1>5
  <2>3. Picked(IF seq[n + 1] \in S THEN Append(f[n], seq[n + 1]) ELSE f[n], seq, S, n + 1)
    BY <2>2, PickNext
  <2>. QED BY <2>1, <2>3
<1>6. Nat \subseteq T
  <2>. HIDE DEF T
  <2>. QED BY <1>4, <1>5, SetInduction
<1>. QED BY <1>2, <1>6

NoTwo(seq, m) == \A i, j \in DOMAIN seq : seq[i] = m /\ seq[j] = m => i = j
NoThree(seq, m) ==
  \A i, j, k \in DOMAIN seq :
    seq[i] = m /\ seq[j] = m /\ seq[k] = m => i = j \/ j = k \/ i = k

\* Of one author, and of none that crossed, the earlier message is above.
InOrder(seq, cross, by) ==
  \A i, j \in DOMAIN seq :
    /\ i < j
    /\ by[seq[i]] = by[seq[j]]
    /\ seq[i] \notin cross /\ seq[j] \notin cross
    => seq[i] <= seq[j]

\* What is left of a list: its entries in S, none of them more often than
\* before, and in the order they had.
LEMMA OnlyFacts ==
  ASSUME NEW X, NEW seq \in Seq(X), NEW S
  PROVE  /\ Only(seq, S) \in Seq(X)
         /\ Range(Only(seq, S)) = Range(seq) \cap S
         /\ \A m : NoTwo(seq, m) => NoTwo(Only(seq, S), m)
         /\ \A m : NoThree(seq, m) => NoThree(Only(seq, S), m)
         /\ \A cross, by : InOrder(seq, cross, by) => InOrder(Only(seq, S), cross, by)
<1>. DEFINE r == Only(seq, S)
<1>0. Picked(r, seq, S, Len(seq))
  BY OnlyPicks
<1>. HIDE DEF r
<1>1. PICK at \in [DOMAIN r -> 1..Len(seq)] :
       /\ \A k \in DOMAIN r : r[k] = seq[at[k]] /\ r[k] \in S
       /\ \A k, l \in DOMAIN r : k < l => at[k] < at[l]
       /\ \A i \in 1..Len(seq) : seq[i] \in S => \E k \in DOMAIN r : at[k] = i
  BY <1>0 DEF Picked
<1>2. r \in Seq(Range(seq)) /\ Len(r) \in Nat /\ DOMAIN r = 1..Len(r)
  BY <1>0 DEF Picked
<1>3. Range(seq) \subseteq X /\ DOMAIN seq = 1..Len(seq) /\ Len(seq) \in Nat
  BY DEF Range
<1>4. r \in Seq(X)
  BY <1>2, <1>3
<1>5. Range(r) = Range(seq) \cap S
  <2>1. \A x \in Range(r) : x \in Range(seq) /\ x \in S
    BY <1>1, <1>3 DEF Range
  <2>2. ASSUME NEW x \in Range(seq), x \in S PROVE x \in Range(r)
    <3>1. PICK i \in DOMAIN seq : seq[i] = x
      BY DEF Range
    <3>2. PICK k \in DOMAIN r : at[k] = i
      BY <1>1, <1>3, <2>2, <3>1
    <3>. QED BY <1>1, <3>1, <3>2 DEF Range
  <2>. QED BY <2>1, <2>2
<1>6. \A k, l \in DOMAIN r : at[k] \in 1..Len(seq) /\ (at[k] = at[l] => k = l)
  <2>. TAKE k, l \in DOMAIN r
  <2>1. at[k] \in 1..Len(seq) /\ at[l] \in 1..Len(seq)
    BY <1>1
  <2>2. k < l \/ k = l \/ l < k
    BY <1>2
  <2>. QED BY <1>1, <1>3, <2>1, <2>2
<1>7. \A m : NoTwo(seq, m) => NoTwo(r, m)
  BY <1>1, <1>3, <1>6 DEF NoTwo
<1>8. \A m : NoThree(seq, m) => NoThree(r, m)
  BY <1>1, <1>3, <1>6 DEF NoThree
<1>9. \A cross, by : InOrder(seq, cross, by) => InOrder(r, cross, by)
  BY <1>1, <1>3, <1>6 DEF InOrder
<1>. QED BY <1>4, <1>5, <1>7, <1>8, <1>9 DEF r

\* A history is sorted.
LEMMA ByTimeFacts ==
  ASSUME ChatAssumption, NEW S \in SUBSET Msg
  PROVE  /\ ByTime(S) \in Seq(Msg)
         /\ Range(ByTime(S)) = S
         /\ \A i, j \in DOMAIN ByTime(S) : i < j => ByTime(S)[i] < ByTime(S)[j]
<1>. DEFINE all == [m \in Msg |-> m]
            r == ByTime(S)
<1>1. all \in Seq(Msg) /\ Len(all) = MaxMsgs /\ Range(all) = Msg
  BY ChatAssumption DEF Msg, Range
<1>2. Picked(r, all, S, Len(all)) /\ r \in Seq(Msg) /\ Range(r) = S
  <2>1. r = Only(all, S)
    BY DEF ByTime
  <2>. HIDE DEF all, r
  <2>2. Picked(r, all, S, Len(all))
    BY <1>1, <2>1, OnlyPicks
  <2>3. r \in Seq(Msg) /\ Range(r) = Range(all) \cap S
    BY <1>1, <2>1, OnlyFacts
  <2>. QED BY <1>1, <2>2, <2>3
<1>3. PICK at \in [DOMAIN r -> 1..Len(all)] :
       /\ \A k \in DOMAIN r : r[k] = all[at[k]] /\ r[k] \in S
       /\ \A k, l \in DOMAIN r : k < l => at[k] < at[l]
  BY <1>2 DEF Picked
<1>4. \A k \in DOMAIN r : r[k] = at[k]
  BY <1>1, <1>3 DEF Msg
<1>. QED BY <1>2, <1>3, <1>4

\* What appending a message does to a list.
LEMMA AppendFacts ==
  ASSUME NEW X, NEW seq \in Seq(X), NEW m \in X
  PROVE  /\ Append(seq, m) \in Seq(X)
         /\ Range(Append(seq, m)) = Range(seq) \cup {m}
         /\ m \notin Range(seq) => NoTwo(Append(seq, m), m)
         /\ NoTwo(seq, m) => NoThree(Append(seq, m), m)
         /\ \A n : n # m /\ NoTwo(seq, n) => NoTwo(Append(seq, m), n)
         /\ \A n : n # m /\ NoThree(seq, n) => NoThree(Append(seq, m), n)
<1>. DEFINE r == Append(seq, m)
<1>1. /\ r \in Seq(X) /\ Len(seq) \in Nat /\ DOMAIN seq = 1..Len(seq)
      /\ DOMAIN r = 1..Len(seq) + 1 /\ r[Len(seq) + 1] = m
      /\ \A i \in 1..Len(seq) : r[i] = seq[i]
  OBVIOUS
<1>. HIDE DEF r
<1>2. \A i \in DOMAIN r : i \in DOMAIN seq \/ i = Len(seq) + 1
  BY <1>1
<1>3. Range(r) = Range(seq) \cup {m}
  BY <1>1, <1>2 DEF Range
<1>4. m \notin Range(seq) => NoTwo(r, m)
  BY <1>1, <1>2 DEF NoTwo, Range
<1>5. NoTwo(seq, m) => NoThree(r, m)
  BY <1>1, <1>2 DEF NoTwo, NoThree
<1>6. \A n : n # m /\ NoTwo(seq, n) => NoTwo(r, n)
  BY <1>1, <1>2 DEF NoTwo
<1>7. \A n : n # m /\ NoThree(seq, n) => NoThree(r, n)
  BY <1>1, <1>2 DEF NoThree
<1>. QED BY <1>1, <1>3, <1>4, <1>5, <1>6, <1>7 DEF r

\* No three entries are the same message: it is shown at most twice.
LEMMA NoThreeCounts ==
  ASSUME NEW X, NEW seq \in Seq(X), NEW m, NoThree(seq, m)
  PROVE  Cardinality({i \in DOMAIN seq : seq[i] = m}) <= 2
<1>. DEFINE T == {i \in DOMAIN seq : seq[i] = m}
<1>1. \A i, j, k \in T : i = j \/ j = k \/ i = k
  BY DEF NoThree
<1>. HIDE DEF T
<1>2. CASE T = {}
  BY <1>2, FS_EmptySet DEF T
<1>3. CASE T # {}
  <2>1. PICK i \in T : TRUE
    BY <1>3
  <2>2. CASE T = {i}
    <3>1. Cardinality(T) = 1
      BY <2>2, FS_Singleton
    <3>. QED BY <3>1 DEF T
  <2>3. CASE T # {i}
    <3>1. PICK j \in T : j # i
      BY <2>1, <2>3
    <3>2. T = {i} \cup {j}
      BY <1>1, <2>1, <3>1
    <3>3. IsFiniteSet({i}) /\ Cardinality({i}) = 1
      BY FS_Singleton
    <3>4. j \notin {i}
      BY <3>1
    <3>5. Cardinality({i} \cup {j}) = Cardinality({i}) + 1
      BY <3>3, <3>4, FS_AddElement
    <3>6. PICK U : U = {i} \cup {j}
      OBVIOUS
    <3>7. T = U /\ Cardinality(U) = 1 + 1
      BY <3>2, <3>3, <3>5, <3>6
    <3>8. Cardinality(T) <= 2
      BY <3>7
    <3>. QED BY <3>8 DEF T
  <2>. QED BY <2>2, <2>3
<1>. QED BY <1>2, <1>3

-----------------------------------------------------------------------------
(* What a handler still has to do, read from its list of work alone.       *)

HistoryWork   == [op |-> "history"]
SaveWork(m)   == [op |-> "save", id |-> m]
DeleteWork(m) == [op |-> "delete", id |-> m]

\* The history is still to be read; its first frame is still to be sent; its
\* messages that are still to be sent.
LoadingIn(seq)  == seq = <<HistoryWork>>
ClearingIn(seq) == seq # <<>> /\ Head(seq) = ReplyWork(ChannelJoined)
PendingIn(seq)  ==
  {m \in Msg : \E i \in DOMAIN seq : seq[i] = ReplyWork(MessageFrame(m))}

\* Client d is still to be sent message m, saved or not; frame f.
DueIn(seq, m, d) ==
  \/ seq = <<SaveWork(m)>>
  \/ seq = <<CastWork(MessageFrame(m))>>
  \/ \E to \in SUBSET User : d \in to /\ seq = <<SendWork(MessageFrame(m), to)>>
WayIn(seq, f, d) ==
  seq # <<>> /\ LET w == Head(seq) IN
    /\ w.op \in {"cast", "send"} /\ w.frame = f
    /\ w.op = "send" => d \in w.to

\* The rest of a history, after its first frame or with it.
RestOfHistory(seq) ==
  /\ \A i \in DOMAIN seq : \E m \in Msg : seq[i] = ReplyWork(MessageFrame(m))
  /\ \A i, j \in DOMAIN seq : i < j => seq[i].frame.id < seq[j].frame.id
History(seq) ==
  /\ seq # <<>>
  /\ RestOfHistory(seq) \/ (ClearingIn(seq) /\ RestOfHistory(Tail(seq)))

Nothing(seq) ==
  /\ ~LoadingIn(seq) /\ ~ClearingIn(seq) /\ PendingIn(seq) = {}
  /\ \A m \in Msg, d \in User : ~DueIn(seq, m, d)
  /\ \A f \in Frame, d \in User : ~WayIn(seq, f, d)

\* The fields that tell one kind of work from another.
LEMMA WorkParts ==
  /\ HistoryWork.op = "history"
  /\ \A m : SaveWork(m).op = "save" /\ SaveWork(m).id = m
  /\ \A m : DeleteWork(m).op = "delete" /\ DeleteWork(m).id = m
  /\ \A f : ReplyWork(f).op = "reply" /\ ReplyWork(f).frame = f
  /\ \A f : CastWork(f).op = "cast" /\ CastWork(f).frame = f
  /\ \A f, to : /\ SendWork(f, to).op = "send" /\ SendWork(f, to).frame = f
                /\ SendWork(f, to).to = to
BY DEF HistoryWork, SaveWork, DeleteWork, ReplyWork, CastWork, SendWork

\* The fields that tell one kind of frame from another.
LEMMA FrameParts ==
  /\ ChannelJoined.type = "ChannelJoined"
  /\ \A m : MessageFrame(m).type = "Message" /\ MessageFrame(m).id = m
  /\ \A m : DeletedFrame(m).type = "MessageDeleted" /\ DeletedFrame(m).id = m
BY DEF ChannelJoined, MessageFrame, DeletedFrame

\* A list with one entry.
LEMMA OneEntry ==
  \A x : /\ <<x>> # <<>> /\ Head(<<x>>) = x /\ Tail(<<x>>) = <<>>
         /\ DOMAIN <<x>> = {1} /\ <<x>>[1] = x
OBVIOUS

\* The values of those operators for each kind of work.
LEMMA EmptyWork == Nothing(<<>>)
BY WorkParts, FrameParts, OneEntry
DEF Nothing, LoadingIn, ClearingIn, PendingIn, DueIn, WayIn

LEMMA LoadingWork ==
  LET seq == <<HistoryWork>> IN
  /\ LoadingIn(seq) /\ ~ClearingIn(seq) /\ PendingIn(seq) = {}
  /\ \A m \in Msg, d \in User : ~DueIn(seq, m, d)
  /\ \A f \in Frame, d \in User : ~WayIn(seq, f, d)
BY WorkParts, FrameParts, OneEntry
DEF LoadingIn, ClearingIn, PendingIn, DueIn, WayIn

LEMMA DeletingWork ==
  ASSUME NEW n \in Msg
  PROVE  Nothing(<<DeleteWork(n)>>)
BY WorkParts, FrameParts, OneEntry
DEF Nothing, LoadingIn, ClearingIn, PendingIn, DueIn, WayIn

LEMMA SavingWork ==
  ASSUME NEW n \in Msg
  PROVE  LET seq == <<SaveWork(n)>> IN
         /\ ~LoadingIn(seq) /\ ~ClearingIn(seq) /\ PendingIn(seq) = {}
         /\ \A m \in Msg, d \in User : DueIn(seq, m, d) <=> m = n
         /\ \A f \in Frame, d \in User : ~WayIn(seq, f, d)
BY WorkParts, FrameParts, OneEntry
DEF LoadingIn, ClearingIn, PendingIn, DueIn, WayIn

LEMMA CastingWork ==
  ASSUME NEW g \in Frame
  PROVE  LET seq == <<CastWork(g)>> IN
         /\ ~LoadingIn(seq) /\ ~ClearingIn(seq) /\ PendingIn(seq) = {}
         /\ \A m \in Msg, d \in User : DueIn(seq, m, d) <=> g = MessageFrame(m)
         /\ \A f \in Frame, d \in User : WayIn(seq, f, d) <=> f = g
BY WorkParts, FrameParts, OneEntry
DEF LoadingIn, ClearingIn, PendingIn, DueIn, WayIn

LEMMA SendingWork ==
  ASSUME NEW g \in Frame, NEW to \in SUBSET User
  PROVE  LET seq == <<SendWork(g, to)>> IN
         /\ ~LoadingIn(seq) /\ ~ClearingIn(seq) /\ PendingIn(seq) = {}
         /\ \A m \in Msg, d \in User : DueIn(seq, m, d) <=> g = MessageFrame(m) /\ d \in to
         /\ \A f \in Frame, d \in User : WayIn(seq, f, d) <=> f = g /\ d \in to
BY WorkParts, FrameParts, OneEntry
DEF LoadingIn, ClearingIn, PendingIn, DueIn, WayIn

-----------------------------------------------------------------------------
(* The inductive invariant.                                                *)

Loading(u)  == LoadingIn(todo[u])
Clearing(u) == ClearingIn(todo[u])
Pending(u)  == PendingIn(todo[u])
Due(m, d)   == \E v \in User : DueIn(todo[v], m, d)

\* Message m is the last one its author, user u, has written.
LastOf(u, m) ==
  /\ m <= written /\ author[m] = u
  /\ \A n \in 1..written : author[n] = u => n <= m

Broadcasts(u, f) ==
  \/ todo[u] = <<CastWork(f)>>
  \/ \E to \in SUBSET open : to # {} /\ todo[u] = <<SendWork(f, to)>>

\* What a handler can have to do, and what its request has done before.
HandlerOK(u) ==
  \/ todo[u] = <<>>
  \/ /\ u \in open
     /\ \/ todo[u] = <<HistoryWork>>
        \/ History(todo[u])
        \/ \E m \in Msg :
             \/ todo[u] = <<DeleteWork(m)>>
             \/ stored[m] = "unsaved" /\ LastOf(u, m) /\ todo[u] = <<SaveWork(m)>>
             \/ stored[m] # "unsaved" /\ LastOf(u, m) /\ Broadcasts(u, MessageFrame(m))
             \/ stored[m] = "deleted" /\ Broadcasts(u, DeletedFrame(m))
HandlersOK == \A u \in User : HandlerOK(u)

\* Only messages that were saved are shown and loaded.
SavedOK ==
  /\ \A m \in Msg : stored[m] # "unsaved" => m <= written
  /\ \A u \in User : \A m \in Range(view[u]) \cup Pending(u) : stored[m] # "unsaved"

\* A visible message is on the client's list or on its way there.
VisibleOK ==
  \A u \in open : \A m \in Msg \ (crossed[u] \cup outside[u]) :
    stored[m] = "visible" /\ ~Loading(u) =>
      \/ m \in Pending(u)
      \/ m \in Range(view[u]) /\ ~Clearing(u)
      \/ OnItsWay(MessageFrame(m), u)

\* For a deleted message the frame that takes it off the list is on its way.
DeletedOK ==
  \A u \in open : \A m \in Msg \ crossed[u] :
    \/ m \in Pending(u)
    \/ m \in Range(view[u]) /\ ~Clearing(u) /\ ~Loading(u)
    => stored[m] \in {"visible", "silent"} \/ OnItsWay(DeletedFrame(m), u)

\* The memory storage leaves out only what is older than another message.
OutsideOK ==
  backend = "memory" =>
    \A u \in User : \A m \in outside[u] : \E n \in Msg : n > m /\ stored[n] # "unsaved"

\* A second copy comes from a history, and a broadcast adds one more at most.
CopiesOK ==
  \A u \in User, m \in Msg :
    /\ NoThree(view[u], m)
    /\ Due(m, u) => NoTwo(view[u], m)
    /\ m \in Pending(u) /\ ~Clearing(u) =>
         /\ NoTwo(view[u], m)
         /\ Due(m, u) => m \notin Range(view[u])

OrderOK == \A u \in User : InOrder(view[u], crossed[u], author)

\* What a client shows of a history it is receiving is older than the rest of
\* that history.
AheadOK ==
  \A u \in User : ~Clearing(u) =>
    \A m \in Range(view[u]), n \in Pending(u) : m \in crossed[u] \/ m < n

Inv ==
  /\ TypeOK /\ HandlersOK /\ SavedOK
  /\ VisibleOK /\ DeletedOK /\ OutsideOK
  /\ CopiesOK /\ OrderOK /\ AheadOK

-----------------------------------------------------------------------------
(* What an action changes of the work to do.                               *)

\* Work and frames have the types that TypeOK names.
LEMMA WorkTyped ==
  /\ HistoryWork \in Work
  /\ \A m \in Msg : SaveWork(m) \in Work /\ DeleteWork(m) \in Work
  /\ \A m \in Msg : MessageFrame(m) \in Frame /\ DeletedFrame(m) \in Frame
  /\ ChannelJoined \in Frame
  /\ \A f \in Frame : ReplyWork(f) \in Work /\ CastWork(f) \in Work
  /\ \A f \in Frame, to \in SUBSET User : SendWork(f, to) \in Work
BY DEF HistoryWork, SaveWork, DeleteWork, ReplyWork, CastWork, SendWork, Work,
       MessageFrame, DeletedFrame, ChannelJoined, Frame

\* What the handlers do when one of them gets other work.
LEMMA OneHandler ==
  ASSUME NEW X, todo \in [User -> X], NEW u \in User, NEW work,
         todo' = [todo EXCEPT ![u] = work]
  PROVE  /\ todo'[u] = work /\ \A v \in User \ {u} : todo'[v] = todo[v]
         /\ (Loading(u)' <=> LoadingIn(work)) /\ (Clearing(u)' <=> ClearingIn(work))
         /\ Pending(u)' = PendingIn(work)
         /\ \A v \in User \ {u} : /\ Loading(v)' <=> Loading(v)
                                  /\ Clearing(v)' <=> Clearing(v)
                                  /\ Pending(v)' = Pending(v)
         /\ \A m \in Msg, d \in User :
              Due(m, d)' => \/ DueIn(work, m, d)
                            \/ \E v \in User \ {u} : DueIn(todo[v], m, d)
         /\ \A f \in Frame, d \in User :
              /\ OnItsWay(f, d) => OnItsWay(f, d)' \/ WayIn(todo[u], f, d)
              /\ WayIn(work, f, d) => OnItsWay(f, d)'
<1>1. todo'[u] = work /\ \A v \in User \ {u} : todo'[v] = todo[v]
  OBVIOUS
<1>2. ASSUME NEW m \in Msg, NEW d \in User, Due(m, d)'
      PROVE  \/ DueIn(work, m, d)
             \/ \E v \in User \ {u} : DueIn(todo[v], m, d)
  <2>1. PICK v \in User : DueIn(todo'[v], m, d)
    BY <1>2 DEF Due, DueIn
  <2>. QED BY <1>1, <2>1
<1>3. ASSUME NEW f \in Frame, NEW d \in User
      PROVE  /\ OnItsWay(f, d) <=> \E v \in User : WayIn(todo[v], f, d)
             /\ OnItsWay(f, d)' <=> \E v \in User : WayIn(todo'[v], f, d)
  BY DEF OnItsWay, WayIn
<1>. QED BY <1>1, <1>2, <1>3 DEF Loading, Clearing, Pending, LoadingIn, ClearingIn, PendingIn

\* A handler that sends a history has a reply to send next.
LEMMA HistoryReplies ==
  ASSUME NEW seq \in Seq(Work), History(seq)
  PROVE  seq # <<>> /\ Head(seq).op = "reply"
<1>1. CASE ClearingIn(seq)
  BY <1>1, WorkParts DEF ClearingIn
<1>2. CASE RestOfHistory(seq)
  <2>1. 1 \in DOMAIN seq /\ Head(seq) = seq[1]
    BY DEF History
  <2>. QED BY <1>2, <2>1, WorkParts DEF RestOfHistory, History
<1>. QED BY <1>1, <1>2 DEF History

\* A message that is to be broadcast is the handler's own, and its last.
LEMMA DueIsLast ==
  ASSUME TypeOK, HandlersOK, NEW u \in User, NEW m \in Msg, NEW d \in User, DueIn(todo[u], m, d)
  PROVE  LastOf(u, m)
<1>1. /\ todo[u] # <<>> /\ Head(todo[u]).op \in {"save", "cast", "send"}
      /\ Head(todo[u]).op = "save" => Head(todo[u]).id = m
      /\ Head(todo[u]).op # "save" => Head(todo[u]).frame = MessageFrame(m)
  <2>1. CASE todo[u] = <<SaveWork(m)>>
    BY <2>1, WorkParts, OneEntry
  <2>2. CASE todo[u] = <<CastWork(MessageFrame(m))>>
    BY <2>2, WorkParts, OneEntry
  <2>3. ASSUME NEW to, todo[u] = <<SendWork(MessageFrame(m), to)>>
        PROVE  todo[u] # <<>> /\ Head(todo[u]).op = "send"
               /\ Head(todo[u]).frame = MessageFrame(m)
    BY <2>3, WorkParts, OneEntry
  <2>. QED BY <2>1, <2>2, <2>3 DEF DueIn
<1>2. PICK n \in Msg :
        \/ LastOf(u, n) /\ todo[u] = <<SaveWork(n)>>
        \/ LastOf(u, n) /\ Broadcasts(u, MessageFrame(n))
        \/ Broadcasts(u, DeletedFrame(n))
  <2>1. todo[u] \in Seq(Work)
    BY DEF TypeOK
  <2>. QED BY <1>1, <2>1, WorkParts, OneEntry, HistoryReplies DEF HandlersOK, HandlerOK
<1>3. \A f : Broadcasts(u, f) => Head(todo[u]).op # "save" /\ Head(todo[u]).frame = f
  BY WorkParts, OneEntry DEF Broadcasts
<1>. QED BY <1>1, <1>2, <1>3, WorkParts, FrameParts, OneEntry

LEMMA NextWorks ==
  ASSUME TypeOK, HandlersOK, NEW u \in User
  PROVE  /\ NextWork(u, "save") =>
              u \in open /\ \E m \in Msg : /\ todo[u] = <<SaveWork(m)>>
                                           /\ stored[m] = "unsaved" /\ LastOf(u, m)
         /\ NextWork(u, "delete") =>
              u \in open /\ \E m \in Msg : todo[u] = <<DeleteWork(m)>>
         /\ NextWork(u, "history") => u \in open /\ todo[u] = <<HistoryWork>>
         /\ NextWork(u, "reply") => u \in open /\ History(todo[u])
         /\ NextWork(u, "cast") =>
              u \in open /\ \E m \in Msg :
                \/ /\ todo[u] = <<CastWork(MessageFrame(m))>>
                   /\ stored[m] # "unsaved" /\ LastOf(u, m)
                \/ todo[u] = <<CastWork(DeletedFrame(m))>> /\ stored[m] = "deleted"
         /\ NextWork(u, "send") =>
              u \in open /\ \E m \in Msg, to \in SUBSET open : to # {} /\
                \/ /\ todo[u] = <<SendWork(MessageFrame(m), to)>>
                   /\ stored[m] # "unsaved" /\ LastOf(u, m)
                \/ todo[u] = <<SendWork(DeletedFrame(m), to)>> /\ stored[m] = "deleted"
<1>. SUFFICES ASSUME todo[u] # <<>>
              PROVE  LET next == Head(todo[u]).op IN
                     /\ u \in open
                     /\ next = "save" =>
                          \E m \in Msg : /\ todo[u] = <<SaveWork(m)>>
                                         /\ stored[m] = "unsaved" /\ LastOf(u, m)
                     /\ next = "delete" => \E m \in Msg : todo[u] = <<DeleteWork(m)>>
                     /\ next = "history" => todo[u] = <<HistoryWork>>
                     /\ next = "reply" => History(todo[u])
                     /\ next = "cast" =>
                          \E m \in Msg :
                            \/ /\ todo[u] = <<CastWork(MessageFrame(m))>>
                               /\ stored[m] # "unsaved" /\ LastOf(u, m)
                            \/ todo[u] = <<CastWork(DeletedFrame(m))>> /\ stored[m] = "deleted"
                     /\ next = "send" =>
                          \E m \in Msg, to \in SUBSET open : to # {} /\
                            \/ /\ todo[u] = <<SendWork(MessageFrame(m), to)>>
                               /\ stored[m] # "unsaved" /\ LastOf(u, m)
                            \/ todo[u] = <<SendWork(DeletedFrame(m), to)>> /\ stored[m] = "deleted"
  BY DEF NextWork
<1>1. u \in open
  BY DEF HandlersOK, HandlerOK
<1>2. CASE todo[u] = <<HistoryWork>>
  BY <1>1, <1>2, WorkParts, OneEntry
<1>3. CASE History(todo[u])
  <2>1. todo[u] \in Seq(Work)
    BY DEF TypeOK
  <2>. QED BY <1>1, <1>3, <2>1, HistoryReplies
<1>4. ASSUME NEW m \in Msg, todo[u] = <<DeleteWork(m)>>
      PROVE  Head(todo[u]).op = "delete"
  BY <1>4, WorkParts, OneEntry
<1>5. ASSUME NEW m \in Msg, todo[u] = <<SaveWork(m)>>
      PROVE  Head(todo[u]).op = "save"
  BY <1>5, WorkParts, OneEntry
<1>6. ASSUME NEW f, Broadcasts(u, f)
      PROVE  \/ Head(todo[u]).op = "cast" /\ todo[u] = <<CastWork(f)>>
             \/ /\ Head(todo[u]).op = "send"
                /\ \E to \in SUBSET open : to # {} /\ todo[u] = <<SendWork(f, to)>>
  BY <1>6, WorkParts, OneEntry DEF Broadcasts
<1>7. ASSUME NEW m \in Msg,
             \/ todo[u] = <<DeleteWork(m)>>
             \/ stored[m] = "unsaved" /\ LastOf(u, m) /\ todo[u] = <<SaveWork(m)>>
             \/ stored[m] # "unsaved" /\ LastOf(u, m) /\ Broadcasts(u, MessageFrame(m))
             \/ stored[m] = "deleted" /\ Broadcasts(u, DeletedFrame(m))
      PROVE  LET next == Head(todo[u]).op IN
             \/ next = "delete" /\ todo[u] = <<DeleteWork(m)>>
             \/ next = "save" /\ todo[u] = <<SaveWork(m)>> /\ stored[m] = "unsaved" /\ LastOf(u, m)
             \/ next = "cast" /\
                  \/ /\ todo[u] = <<CastWork(MessageFrame(m))>>
                     /\ stored[m] # "unsaved" /\ LastOf(u, m)
                  \/ todo[u] = <<CastWork(DeletedFrame(m))>> /\ stored[m] = "deleted"
             \/ next = "send" /\
                  \E to \in SUBSET open : to # {} /\
                    \/ /\ todo[u] = <<SendWork(MessageFrame(m), to)>>
                       /\ stored[m] # "unsaved" /\ LastOf(u, m)
                    \/ todo[u] = <<SendWork(DeletedFrame(m), to)>> /\ stored[m] = "deleted"
  BY <1>4, <1>5, <1>6, <1>7
<1>. QED BY <1>1, <1>2, <1>3, <1>7 DEF HandlersOK, HandlerOK

SameHistories ==
  \A v \in User : /\ Loading(v)' <=> Loading(v)
                  /\ Clearing(v)' <=> Clearing(v)
                  /\ Pending(v)' = Pending(v)
NoNewDue == \A m \in Msg, d \in User : Due(m, d)' => Due(m, d)
KeepsWay == \A f \in Frame, d \in User : OnItsWay(f, d) => OnItsWay(f, d)'

\* A request, or the end of one, that has nothing to do with histories.
LEMMA QuietWork ==
  ASSUME TypeOK, NEW u \in User, NEW work,
         todo' = [todo EXCEPT ![u] = work],
         ~LoadingIn(todo[u]), ~ClearingIn(todo[u]), PendingIn(todo[u]) = {},
         ~LoadingIn(work), ~ClearingIn(work), PendingIn(work) = {}
  PROVE  SameHistories
<1>1. todo \in [User -> Seq(Work)]
  BY DEF TypeOK
<1>2. \A v \in User : v = u \/ v \in User \ {u}
  OBVIOUS
<1>. QED BY <1>1, <1>2, OneHandler DEF SameHistories, Loading, Clearing, Pending

\* No message becomes due that was not due before.
LEMMA QuietDue ==
  ASSUME TypeOK, NEW u \in User, NEW work,
         todo' = [todo EXCEPT ![u] = work],
         \A m \in Msg, d \in User : DueIn(work, m, d) => DueIn(todo[u], m, d)
  PROVE  NoNewDue
<1>1. todo \in [User -> Seq(Work)]
  BY DEF TypeOK
<1>2. \A m \in Msg, d \in User :
        Due(m, d)' => DueIn(work, m, d) \/ \E v \in User \ {u} : DueIn(todo[v], m, d)
  BY <1>1, OneHandler
<1>. QED BY <1>2 DEF NoNewDue, Due

\* Whatever was on its way still is.
LEMMA QuietWay ==
  ASSUME TypeOK, NEW u \in User, NEW work,
         todo' = [todo EXCEPT ![u] = work],
         \A f \in Frame, d \in User : WayIn(todo[u], f, d) => WayIn(work, f, d)
  PROVE  KeepsWay
<1>1. todo \in [User -> Seq(Work)]
  BY DEF TypeOK
<1>2. \A f \in Frame, d \in User :
        /\ OnItsWay(f, d) => OnItsWay(f, d)' \/ WayIn(todo[u], f, d)
        /\ WayIn(work, f, d) => OnItsWay(f, d)'
  BY <1>1, OneHandler
<1>. QED BY <1>2 DEF KeepsWay

\* A history is asked for, on connecting or by the button.
LEMMA LoadingStarts ==
  ASSUME TypeOK, NEW u \in User, todo[u] = <<>>,
         todo' = [todo EXCEPT ![u] = <<HistoryWork>>]
  PROVE  /\ NoNewDue /\ KeepsWay
         /\ Loading(u)' /\ ~Clearing(u)' /\ Pending(u)' = {}
         /\ \A v \in User \ {u} : /\ Loading(v)' <=> Loading(v)
                                  /\ Clearing(v)' <=> Clearing(v)
                                  /\ Pending(v)' = Pending(v)
<1>1. todo \in [User -> Seq(Work)]
  BY DEF TypeOK
<1>2. NoNewDue
  BY LoadingWork, QuietDue
<1>3. KeepsWay
  BY EmptyWork, QuietWay, ZenonT(30) DEF Nothing
<1>. QED BY <1>1, <1>2, <1>3, OneHandler, LoadingWork

LEMMA ConnectWork ==
  ASSUME TypeOK, NEW u \in User, Connect(u) \/ JoinChannel(u)
  PROVE  /\ NoNewDue /\ KeepsWay
         /\ Loading(u)' /\ ~Clearing(u)' /\ Pending(u)' = {}
         /\ \A v \in User \ {u} : /\ Loading(v)' <=> Loading(v)
                                  /\ Clearing(v)' <=> Clearing(v)
                                  /\ Pending(v)' = Pending(v)
BY LoadingStarts DEF Connect, JoinChannel, Idle, HistoryWork

\* A new message becomes due to everybody.
LEMMA SendMessageWork ==
  ASSUME TypeOK, ChatAssumption, NEW u \in User, SendMessage(u)
  PROVE  /\ SameHistories /\ KeepsWay
         /\ \A m \in Msg, d \in User : Due(m, d)' => Due(m, d) \/ m = written + 1
<1>1. /\ todo[u] = <<>> /\ todo' = [todo EXCEPT ![u] = <<SaveWork(written + 1)>>]
      /\ written + 1 \in Msg /\ todo \in [User -> Seq(Work)]
  BY ChatAssumption DEF SendMessage, Idle, SaveWork, Msg, TypeOK
<1>0. LET w == <<SaveWork(written + 1)>> IN
        ~LoadingIn(w) /\ ~ClearingIn(w) /\ PendingIn(w) = {}
  BY <1>1, SavingWork
<1>2. SameHistories
  BY <1>0, <1>1, QuietWork, EmptyWork DEF Nothing
<1>3. KeepsWay
  BY <1>1, QuietWay, EmptyWork, ZenonT(30) DEF Nothing
<1>4. \A m \in Msg, d \in User :
        Due(m, d)' => \/ DueIn(<<SaveWork(written + 1)>>, m, d)
                      \/ \E v \in User \ {u} : DueIn(todo[v], m, d)
  BY <1>1, OneHandler
<1>5. \A m \in Msg, d \in User : DueIn(<<SaveWork(written + 1)>>, m, d) => m = written + 1
  BY <1>1, SavingWork
<1>. QED BY <1>2, <1>3, <1>4, <1>5 DEF Due

LEMMA DeleteMessageWork ==
  ASSUME TypeOK, NEW u \in User, NEW m \in Msg, DeleteMessage(u, m)
  PROVE  SameHistories /\ NoNewDue /\ KeepsWay
<1>1. todo[u] = <<>> /\ todo' = [todo EXCEPT ![u] = <<DeleteWork(m)>>]
  BY DEF DeleteMessage, Idle, DeleteWork
<1>2. Nothing(<<>>) /\ Nothing(<<DeleteWork(m)>>)
  BY EmptyWork, DeletingWork
<1>3. SameHistories
  BY <1>1, <1>2, QuietWork DEF Nothing
<1>4. NoNewDue
  BY <1>1, <1>2, QuietDue DEF Nothing
<1>5. KeepsWay
  <2>1. \A f \in Frame, d \in User : ~WayIn(todo[u], f, d)
    BY <1>1, <1>2 DEF Nothing
  <2>. QED BY <1>1, <2>1, QuietWay
<1>. QED BY <1>3, <1>4, <1>5

\* Saving puts the message on its way to everybody, or fails.
LEMMA SaveWorks ==
  ASSUME TypeOK, HandlersOK, NEW u \in User, Save(u)
  PROVE  \E m \in Msg :
         /\ todo[u] = <<SaveWork(m)>> /\ stored[m] = "unsaved" /\ LastOf(u, m)
         /\ SameHistories /\ NoNewDue /\ KeepsWay
         /\ \/ /\ stored' = [stored EXCEPT ![m] = "visible"]
               /\ todo' = [todo EXCEPT ![u] = <<CastWork(MessageFrame(m))>>]
               /\ \A d \in User : OnItsWay(MessageFrame(m), d)'
            \/ todo' = [todo EXCEPT ![u] = <<>>] /\ stored' = stored
<1>1. PICK m \in Msg : /\ todo[u] = <<SaveWork(m)>>
                       /\ stored[m] = "unsaved" /\ LastOf(u, m)
  BY NextWorks DEF Save
<1>2. Head(todo[u]).id = m
  BY <1>1, OneEntry, WorkParts
<1>3. CASE /\ stored' = [stored EXCEPT ![m] = "visible"]
           /\ todo' = [todo EXCEPT ![u] = <<CastWork(MessageFrame(m))>>]
  <2>1. MessageFrame(m) \in Frame /\ todo \in [User -> Seq(Work)]
    BY WorkTyped DEF TypeOK
  <2>2. SameHistories
    <3>1. ~LoadingIn(todo[u]) /\ ~ClearingIn(todo[u]) /\ PendingIn(todo[u]) = {}
      BY <1>1, SavingWork
    <3>2. LET w == <<CastWork(MessageFrame(m))>> IN
            ~LoadingIn(w) /\ ~ClearingIn(w) /\ PendingIn(w) = {}
      BY <2>1, CastingWork
    <3>. QED BY <1>3, <3>1, <3>2, QuietWork
  <2>3. NoNewDue
    <3>1. \A n \in Msg, d \in User : DueIn(<<CastWork(MessageFrame(m))>>, n, d) => n = m
      BY <2>1, CastingWork, FrameParts
    <3>2. \A n \in Msg, d \in User : n = m => DueIn(todo[u], n, d)
      BY <1>1, SavingWork
    <3>. QED BY <1>3, <3>1, <3>2, QuietDue
  <2>4. KeepsWay
    <3>1. \A f \in Frame, d \in User : ~WayIn(todo[u], f, d)
      BY <1>1, SavingWork
    <3>. QED BY <1>3, <3>1, QuietWay
  <2>5. \A d \in User : OnItsWay(MessageFrame(m), d)'
    BY <1>3, <2>1, OneHandler, CastingWork
  <2>. QED BY <1>1, <1>3, <2>2, <2>3, <2>4, <2>5
<1>4. CASE todo' = [todo EXCEPT ![u] = <<>>] /\ stored' = stored
  <2>1. /\ ~LoadingIn(todo[u]) /\ ~ClearingIn(todo[u]) /\ PendingIn(todo[u]) = {}
        /\ \A f \in Frame, d \in User : ~WayIn(todo[u], f, d)
    BY <1>1, SavingWork
  <2>2. SameHistories
    BY <1>4, <2>1, QuietWork, EmptyWork DEF Nothing
  <2>3. NoNewDue
    BY <1>4, QuietDue, EmptyWork DEF Nothing
  <2>4. KeepsWay
    BY <1>4, <2>1, QuietWay
  <2>. QED BY <1>1, <1>4, <2>2, <2>3, <2>4
<1>. QED BY <1>2, <1>3, <1>4 DEF Save

\* Deleting puts the frame on its way to everybody, or fails.
LEMMA DeleteWorks ==
  ASSUME TypeOK, HandlersOK, NEW u \in User, Delete(u)
  PROVE  \E m \in Msg :
         /\ todo[u] = <<DeleteWork(m)>>
         /\ SameHistories /\ NoNewDue /\ KeepsWay
         /\ \/ /\ stored[m] = "visible" /\ stored' = [stored EXCEPT ![m] = "deleted"]
               /\ todo' = [todo EXCEPT ![u] = <<CastWork(DeletedFrame(m))>>]
               /\ \A d \in User : OnItsWay(DeletedFrame(m), d)'
            \/ /\ todo' = [todo EXCEPT ![u] = <<>>]
               /\ \/ stored' = stored
                  \/ stored[m] = "visible" /\ stored' = [stored EXCEPT ![m] = "silent"]
<1>1. PICK m \in Msg : todo[u] = <<DeleteWork(m)>>
  BY NextWorks DEF Delete
<1>2. Head(todo[u]).id = m
  BY <1>1, OneEntry, WorkParts
<1>3. CASE /\ stored[m] = "visible" /\ stored' = [stored EXCEPT ![m] = "deleted"]
           /\ todo' = [todo EXCEPT ![u] = <<CastWork(DeletedFrame(m))>>]
  <2>1. DeletedFrame(m) \in Frame /\ todo \in [User -> Seq(Work)]
    BY WorkTyped DEF TypeOK
  <2>2. SameHistories
    BY <1>1, <1>3, <2>1, QuietWork, DeletingWork, CastingWork DEF Nothing
  <2>3. NoNewDue
    <3>1. \A n \in Msg, d \in User : ~DueIn(<<CastWork(DeletedFrame(m))>>, n, d)
      BY <2>1, CastingWork, FrameParts
    <3>. QED BY <1>3, <3>1, QuietDue
  <2>4. KeepsWay
    <3>1. \A f \in Frame, d \in User : ~WayIn(todo[u], f, d)
      BY <1>1, DeletingWork DEF Nothing
    <3>. QED BY <1>3, <3>1, QuietWay
  <2>5. \A d \in User : OnItsWay(DeletedFrame(m), d)'
    BY <1>3, <2>1, OneHandler, CastingWork
  <2>. QED BY <1>1, <1>3, <2>2, <2>3, <2>4, <2>5
<1>4. CASE /\ todo' = [todo EXCEPT ![u] = <<>>]
           /\ \/ stored' = stored
              \/ stored[m] = "visible" /\ stored' = [stored EXCEPT ![m] = "silent"]
  <2>1. Nothing(todo[u]) /\ Nothing(<<>>)
    BY <1>1, DeletingWork, EmptyWork
  <2>2. SameHistories
    BY <1>4, <2>1, QuietWork DEF Nothing
  <2>3. NoNewDue
    BY <1>4, <2>1, QuietDue DEF Nothing
  <2>4. KeepsWay
    BY <1>4, <2>1, QuietWay DEF Nothing
  <2>. QED BY <1>1, <1>4, <2>2, <2>3, <2>4
<1>. QED BY <1>2, <1>3, <1>4 DEF Delete

\* What send_channel_history has to send once it has read the messages.
Answer(messages) ==
  <<ReplyWork(ChannelJoined)>>
    \o [i \in DOMAIN messages |-> ReplyWork(MessageFrame(messages[i]))]

\* What is read in the answer to a history.
LEMMA AnsweringWork ==
  ASSUME NEW messages \in Seq(Msg),
         \A i, j \in DOMAIN messages : i < j => messages[i] < messages[j]
  PROVE  LET seq == Answer(messages) IN
         /\ seq \in Seq(Work) /\ History(seq)
         /\ ClearingIn(seq) /\ PendingIn(seq) = Range(messages)
<1>. DEFINE seq == Answer(messages)
            rest == [i \in DOMAIN messages |-> ReplyWork(MessageFrame(messages[i]))]
            n == Len(messages)
<1>1. n \in Nat /\ DOMAIN messages = 1..n /\ \A i \in 1..n : messages[i] \in Msg
  OBVIOUS
<1>2. \A i \in 1..n : ReplyWork(MessageFrame(messages[i])) \in Work
  BY <1>1, WorkTyped
<1>3. rest \in Seq(Work) /\ Len(rest) = n
      /\ \A i \in 1..n : rest[i] = ReplyWork(MessageFrame(messages[i]))
  BY <1>1, <1>2
<1>4. ReplyWork(ChannelJoined) \in Work
  BY WorkTyped
<1>. HIDE DEF rest
<1>5. seq = <<ReplyWork(ChannelJoined)>> \o rest
  BY DEF Answer, rest
<1>6. /\ seq \in Seq(Work) /\ Len(seq) = n + 1 /\ seq[1] = ReplyWork(ChannelJoined)
      /\ \A i \in 2..n + 1 : seq[i] = rest[i - 1]
  BY <1>1, <1>3, <1>4, <1>5
<1>. HIDE DEF seq
<1>7. seq # <<>> /\ Head(seq) = seq[1] /\ Len(Tail(seq)) = n
      /\ \A i \in 1..n : Tail(seq)[i] = rest[i]
  BY <1>1, <1>6
<1>8. ClearingIn(seq)
  BY <1>6, <1>7 DEF ClearingIn
<1>9. RestOfHistory(Tail(seq))
  <2>1. Tail(seq) \in Seq(Work) /\ DOMAIN Tail(seq) = 1..n
    BY <1>1, <1>6, <1>7
  <2>2. \A i \in 1..n : Tail(seq)[i] = ReplyWork(MessageFrame(messages[i]))
    BY <1>3, <1>7
  <2>3. \A i \in 1..n : Tail(seq)[i].frame.id = messages[i]
    <3>1. \A m : ReplyWork(MessageFrame(m)).frame.id = m
      BY WorkParts, FrameParts
    <3>. QED BY <2>2, <3>1
  <2>. QED BY <1>1, <2>1, <2>2, <2>3 DEF RestOfHistory
<1>10. PendingIn(seq) = Range(messages)
  <2>1. ASSUME NEW i \in DOMAIN seq, NEW m \in Msg, seq[i] = ReplyWork(MessageFrame(m))
        PROVE  m \in Range(messages)
    <3>1. i # 1
      BY <1>6, <2>1, WorkParts, FrameParts
    <3>2. i - 1 \in 1..n /\ seq[i] = rest[i - 1]
      BY <1>1, <1>6, <3>1
    <3>3. ReplyWork(MessageFrame(messages[i - 1])) = ReplyWork(MessageFrame(m))
      BY <1>3, <2>1, <3>2
    <3>4. \A k : ReplyWork(MessageFrame(k)).frame.id = k
      BY WorkParts, FrameParts
    <3>5. messages[i - 1] = m
      BY <3>3, <3>4
    <3>. QED BY <1>1, <3>2, <3>5 DEF Range
  <2>2. ASSUME NEW i \in 1..n
        PROVE  i + 1 \in DOMAIN seq /\ seq[i + 1] = ReplyWork(MessageFrame(messages[i]))
    BY <1>1, <1>3, <1>6
  <2>3. \A m \in PendingIn(seq) : m \in Range(messages)
    BY <2>1 DEF PendingIn
  <2>4. \A m \in Range(messages) : m \in PendingIn(seq)
    BY <1>1, <2>2 DEF PendingIn, Range
  <2>. QED BY <2>3, <2>4
<1>. QED BY <1>6, <1>7, <1>8, <1>9, <1>10 DEF History, seq

\* A handler that sends a history sends nothing else.
LEMMA ReplyingWork ==
  ASSUME NEW seq \in Seq(Work), History(seq)
  PROVE  /\ ~LoadingIn(seq)
         /\ \A m \in Msg, d \in User : ~DueIn(seq, m, d)
         /\ \A f \in Frame, d \in User : ~WayIn(seq, f, d)
<1>1. seq # <<>> /\ Head(seq).op = "reply"
  BY HistoryReplies
<1>. QED BY <1>1, WorkParts, OneEntry DEF LoadingIn, DueIn, WayIn

\* What is left after the next frame of a history.
LEMMA ReplyNext ==
  ASSUME NEW seq \in Seq(Work), History(seq)
  PROVE  /\ Tail(seq) \in Seq(Work)
         /\ Tail(seq) = <<>> \/ History(Tail(seq))
         /\ ~ClearingIn(Tail(seq))
         /\ ClearingIn(seq) => PendingIn(Tail(seq)) = PendingIn(seq)
         /\ ~ClearingIn(seq) =>
              \E m \in PendingIn(seq) :
                /\ Head(seq) = ReplyWork(MessageFrame(m))
                /\ PendingIn(Tail(seq)) = PendingIn(seq) \ {m}
                /\ \A n \in PendingIn(Tail(seq)) : m < n
<1>. DEFINE rest == Tail(seq)
            n == Len(seq)
<1>1. /\ n \in Nat /\ n > 0 /\ DOMAIN seq = 1..n /\ Head(seq) = seq[1]
      /\ rest \in Seq(Work) /\ Len(rest) = n - 1 /\ DOMAIN rest = 1..n - 1
      /\ \A i \in 1..n - 1 : rest[i] = seq[i + 1]
  BY DEF History
<1>. HIDE DEF rest
<1>2. RestOfHistory(rest)
  <2>1. CASE RestOfHistory(seq)
    <3>1. \A i \in 1..n - 1 : i + 1 \in 1..n
      BY <1>1
    <3>2. \A i \in 1..n - 1 : \E m \in Msg : rest[i] = ReplyWork(MessageFrame(m))
      BY <1>1, <2>1, <3>1 DEF RestOfHistory
    <3>3. \A i, j \in 1..n - 1 : i < j => rest[i].frame.id < rest[j].frame.id
      <4>. TAKE i, j \in 1..n - 1
      <4>. HAVE i < j
      <4>1. i + 1 \in 1..n /\ j + 1 \in 1..n /\ i + 1 < j + 1
        BY <1>1
      <4>2. seq[i + 1].frame.id < seq[j + 1].frame.id
        BY <1>1, <2>1, <4>1 DEF RestOfHistory
      <4>. QED BY <1>1, <4>2
    <3>. QED BY <1>1, <3>2, <3>3 DEF RestOfHistory
  <2>. QED BY <2>1 DEF History, rest
<1>3. rest = <<>> \/ History(rest)
  BY <1>2 DEF History
<1>4. ~ClearingIn(rest)
  <2>. SUFFICES ASSUME rest # <<>>, Head(rest) = ReplyWork(ChannelJoined) PROVE FALSE
    BY DEF ClearingIn
  <2>1. 1 \in DOMAIN rest /\ Head(rest) = rest[1]
    BY <1>1
  <2>. QED BY <1>2, <2>1, WorkParts, FrameParts DEF RestOfHistory
<1>5. \A m \in Msg : m \in PendingIn(seq) <=>
        m \in PendingIn(rest) \/ Head(seq) = ReplyWork(MessageFrame(m))
  <2>. TAKE m \in Msg
  <2>1. \A i \in 1..n : i = 1 \/ (i - 1 \in 1..n - 1 /\ rest[i - 1] = seq[i])
    BY <1>1
  <2>2. \A i \in 1..n - 1 : i + 1 \in 1..n /\ rest[i] = seq[i + 1]
    BY <1>1
  <2>3. ASSUME m \in PendingIn(seq)
        PROVE  m \in PendingIn(rest) \/ Head(seq) = ReplyWork(MessageFrame(m))
    BY <1>1, <2>1, <2>3 DEF PendingIn
  <2>4. ASSUME m \in PendingIn(rest)
        PROVE  m \in PendingIn(seq)
    BY <1>1, <2>2, <2>4 DEF PendingIn
  <2>5. ASSUME Head(seq) = ReplyWork(MessageFrame(m))
        PROVE  m \in PendingIn(seq)
    BY <1>1, <2>5 DEF PendingIn
  <2>. QED BY <2>3, <2>4, <2>5
<1>6. CASE ClearingIn(seq)
  <2>1. \A m \in Msg : Head(seq) # ReplyWork(MessageFrame(m))
    BY <1>6, WorkParts, FrameParts DEF ClearingIn
  <2>2. PendingIn(rest) = PendingIn(seq)
    BY <1>5, <2>1 DEF PendingIn
  <2>. QED BY <1>1, <1>3, <1>4, <1>6, <2>2 DEF rest
<1>7. CASE ~ClearingIn(seq)
  <2>1. RestOfHistory(seq)
    BY <1>7 DEF History
  <2>2. PICK m \in Msg : seq[1] = ReplyWork(MessageFrame(m))
    BY <1>1, <2>1 DEF RestOfHistory
  <2>3. m \in PendingIn(seq)
    BY <1>1, <1>5, <2>2
  <2>4. \A k \in PendingIn(rest) : m < k
    <3>. TAKE k \in PendingIn(rest)
    <3>1. PICK i \in 1..n - 1 : rest[i] = ReplyWork(MessageFrame(k))
      BY <1>1 DEF PendingIn
    <3>2. i + 1 \in 1..n /\ 1 < i + 1 /\ seq[i + 1] = rest[i] /\ 1 \in 1..n
      BY <1>1
    <3>3. seq[1].frame.id < seq[i + 1].frame.id
      BY <1>1, <2>1, <3>2 DEF RestOfHistory
    <3>. QED BY <2>2, <3>1, <3>2, <3>3, WorkParts, FrameParts
  <2>5. \A k \in Msg : Head(seq) = ReplyWork(MessageFrame(k)) <=> k = m
    BY <1>1, <2>2, WorkParts, FrameParts
  <2>6. m \notin PendingIn(rest)
    BY <2>4 DEF Msg, PendingIn
  <2>7. PendingIn(rest) = PendingIn(seq) \ {m}
    BY <1>5, <2>5, <2>6 DEF PendingIn
  <2>. QED BY <1>1, <1>3, <1>4, <1>7, <2>2, <2>3, <2>4, <2>7 DEF rest
<1>. QED BY <1>6, <1>7

\* The history read is sorted and visible; the memory storage leaves out only what is older.
LEMMA LoadHistoryWorks ==
  ASSUME ChatAssumption, TypeOK, HandlersOK, NEW u \in User, LoadHistory(u)
  PROVE  \E messages \in Seq(Msg) :
         /\ Range(messages) \subseteq Visible
         /\ \A i, j \in DOMAIN messages : i < j => messages[i] < messages[j]
         /\ backend = "memory" =>
              \A m \in Visible \ Range(messages) : \E n \in Visible : n > m
         /\ outside' = [outside EXCEPT ![u] = Visible \ Range(messages)]
         /\ u \in open /\ todo[u] = <<HistoryWork>>
         /\ todo' = [todo EXCEPT ![u] = Answer(messages)]
         /\ NoNewDue /\ KeepsWay
         /\ ~Loading(u)' /\ Clearing(u)' /\ Pending(u)' = Range(messages)
         /\ \A v \in User \ {u} : /\ Loading(v)' <=> Loading(v)
                                  /\ Clearing(v)' <=> Clearing(v)
                                  /\ Pending(v)' = Pending(v)
<1>1. u \in open /\ todo[u] = <<HistoryWork>> /\ todo \in [User -> Seq(Work)]
  BY NextWorks DEF LoadHistory, TypeOK
<1>2. PICK messages \in {Recent} \cup (IF MayFail THEN {<<>>} ELSE {}) :
        /\ todo' = [todo EXCEPT ![u] = Answer(messages)]
        /\ outside' = [outside EXCEPT ![u] = Visible \ Range(messages)]
  BY DEF LoadHistory, Answer
<1>3. /\ messages \in Seq(Msg) /\ Range(messages) \subseteq Visible
      /\ \A i, j \in DOMAIN messages : i < j => messages[i] < messages[j]
      /\ backend = "memory" =>
           \A m \in Visible \ Range(messages) : \E n \in Visible : n > m
  <2>1. CASE messages = <<>> /\ MayFail
    BY <2>1 DEF MayFail, Range
  <2>2. CASE messages = Recent
    <3>. DEFINE newest == {m \in Visible : Cardinality({n \in Visible : n > m}) < Limit}
                oldest == {m \in Visible : Cardinality({n \in Visible : n < m}) < Limit}
                kept == IF backend = "memory" THEN newest ELSE oldest
    <3>1. kept \in SUBSET Msg /\ kept \subseteq Visible
      BY DEF Visible
    <3>2. Recent = ByTime(kept)
      BY DEF Recent
    <3>3. ASSUME NEW m \in Visible, {n \in Visible : n > m} = {}
          PROVE  m \in newest
      <4>1. Cardinality({n \in Visible : n > m}) = 0
        BY <3>3, FS_EmptySet
      <4>. QED BY <4>1, ChatAssumption
    <3>4. backend = "memory" => \A m \in Visible \ kept : \E n \in Visible : n > m
      BY <3>3
    <3>. HIDE DEF kept
    <3>. QED BY <2>2, <3>1, <3>2, <3>4, ByTimeFacts
  <2>. QED BY <1>2, <2>1, <2>2
<1>4. LET seq == Answer(messages) IN
        /\ seq \in Seq(Work) /\ History(seq)
        /\ ClearingIn(seq) /\ PendingIn(seq) = Range(messages)
  BY <1>3, AnsweringWork
<1>5. /\ ~LoadingIn(Answer(messages))
      /\ \A m \in Msg, d \in User : ~DueIn(Answer(messages), m, d)
  BY <1>4, ReplyingWork
<1>6. \A f \in Frame, d \in User : ~WayIn(todo[u], f, d)
  BY <1>1, LoadingWork
<1>7. NoNewDue
  BY <1>2, <1>5, QuietDue
<1>8. KeepsWay
  BY <1>2, <1>6, QuietWay
<1>. DEFINE seq == Answer(messages)
<1>9. /\ ~LoadingIn(seq) /\ ClearingIn(seq) /\ PendingIn(seq) = Range(messages)
      /\ todo' = [todo EXCEPT ![u] = seq]
  BY <1>2, <1>4, <1>5
<1>. HIDE DEF seq
<1>10. /\ ~Loading(u)' /\ Clearing(u)' /\ Pending(u)' = Range(messages)
       /\ \A v \in User \ {u} : /\ Loading(v)' <=> Loading(v)
                                /\ Clearing(v)' <=> Clearing(v)
                                /\ Pending(v)' = Pending(v)
  BY <1>1, <1>9, OneHandler
<1>. QED BY <1>1, <1>2, <1>3, <1>7, <1>8, <1>10

\* The next frame of a history moves from what is pending to the list.
LEMMA SendReplyWorks ==
  ASSUME TypeOK, HandlersOK, NEW u \in User, SendReply(u)
  PROVE  /\ u \in open /\ History(todo[u])
         /\ todo' = [todo EXCEPT ![u] = Tail(todo[u])]
         /\ Tail(todo[u]) \in Seq(Work) /\ (Tail(todo[u]) = <<>> \/ History(Tail(todo[u])))
         /\ NoNewDue /\ KeepsWay
         /\ ~Loading(u) /\ ~Loading(u)' /\ ~Clearing(u)'
         /\ Clearing(u) =>
              Pending(u)' = Pending(u) /\ view' = [view EXCEPT ![u] = <<>>]
         /\ ~Clearing(u) =>
              \E m \in Pending(u) : /\ Pending(u)' = Pending(u) \ {m}
                                    /\ \A n \in Pending(u)' : m < n
                                    /\ view' = [view EXCEPT ![u] = Append(@, m)]
         /\ \A v \in User \ {u} : /\ Loading(v)' <=> Loading(v)
                                  /\ Clearing(v)' <=> Clearing(v)
                                  /\ Pending(v)' = Pending(v)
<1>. DEFINE seq == todo[u]
            rest == Tail(todo[u])
<1>1. u \in open /\ History(seq) /\ seq \in Seq(Work) /\ todo \in [User -> Seq(Work)]
      /\ todo' = [todo EXCEPT ![u] = rest]
      /\ view' = [view EXCEPT ![u] = Shown(@, Head(seq).frame)]
  BY NextWorks DEF SendReply, TypeOK
<1>2. /\ rest \in Seq(Work) /\ (rest = <<>> \/ History(rest)) /\ ~ClearingIn(rest)
      /\ ClearingIn(seq) => PendingIn(rest) = PendingIn(seq)
      /\ ~ClearingIn(seq) =>
           \E m \in PendingIn(seq) :
                /\ Head(seq) = ReplyWork(MessageFrame(m))
                /\ PendingIn(rest) = PendingIn(seq) \ {m}
                /\ \A n \in PendingIn(rest) : m < n
  BY <1>1, ReplyNext
<1>3. ~LoadingIn(seq) /\ \A f \in Frame, d \in User : ~WayIn(seq, f, d)
  BY <1>1, ReplyingWork
<1>4. ~LoadingIn(rest) /\ \A m \in Msg, d \in User : ~DueIn(rest, m, d)
  BY <1>2, ReplyingWork, EmptyWork DEF Nothing
<1>5. ClearingIn(seq) => Shown(view[u], Head(seq).frame) = <<>>
  BY WorkParts, FrameParts DEF ClearingIn, Shown
<1>6. \A m : Head(seq) = ReplyWork(MessageFrame(m)) =>
        Shown(view[u], Head(seq).frame) = Append(view[u], m)
  BY WorkParts, FrameParts DEF Shown
<1>. HIDE DEF rest
<1>7. NoNewDue
  BY <1>1, <1>4, QuietDue
<1>8. KeepsWay
  BY <1>1, <1>3, QuietWay
<1>9. /\ (Loading(u)' <=> LoadingIn(rest)) /\ (Clearing(u)' <=> ClearingIn(rest))
      /\ Pending(u)' = PendingIn(rest)
      /\ \A v \in User \ {u} : /\ Loading(v)' <=> Loading(v)
                               /\ Clearing(v)' <=> Clearing(v)
                               /\ Pending(v)' = Pending(v)
  BY <1>1, OneHandler
<1>10. view \in [User -> Seq(Msg)]
  BY DEF TypeOK
<1>11. Clearing(u) =>
         Pending(u)' = Pending(u) /\ view' = [view EXCEPT ![u] = <<>>]
  BY <1>1, <1>2, <1>5, <1>9, <1>10 DEF Clearing, Pending
<1>12. ~Clearing(u) =>
         \E m \in Pending(u) : /\ Pending(u)' = Pending(u) \ {m}
                               /\ \A n \in Pending(u)' : m < n
                               /\ view' = [view EXCEPT ![u] = Append(@, m)]
  BY <1>1, <1>2, <1>6, <1>9, <1>10 DEF Clearing, Pending
<1>. QED BY <1>1, <1>2, <1>3, <1>4, <1>7, <1>8, <1>9, <1>11, <1>12
     DEF rest, Loading, Clearing

\* The loop over the targets, which is over at once when there are none.
Loop(f, to) == IF to = {} THEN <<>> ELSE <<SendWork(f, to)>>

\* Before, for a handler that has nothing else to do.
LEMMA BeforeNothing ==
  ASSUME NEW f, NEW to
  PROVE  Before(SendWork(f, to), <<>>) = Loop(f, to)
BY WorkParts DEF Before, Loop

\* The values of the operators for such a loop.
LEMMA LoopingWork ==
  ASSUME NEW g \in Frame, NEW to \in SUBSET User
  PROVE  LET seq == Loop(g, to) IN
         /\ seq \in Seq(Work)
         /\ ~LoadingIn(seq) /\ ~ClearingIn(seq) /\ PendingIn(seq) = {}
         /\ \A m \in Msg, d \in User : DueIn(seq, m, d) <=> g = MessageFrame(m) /\ d \in to
         /\ \A f \in Frame, d \in User : WayIn(seq, f, d) <=> f = g /\ d \in to
<1>1. CASE to = {}
  <2>1. Loop(g, to) = <<>>
    BY <1>1 DEF Loop
  <2>2. Nothing(<<>>) /\ <<>> \in Seq(Work)
    BY EmptyWork
  <2>. HIDE DEF Loop
  <2>. QED BY <1>1, <2>1, <2>2 DEF Nothing
<1>2. CASE to # {}
  <2>1. Loop(g, to) = <<SendWork(g, to)>> /\ SendWork(g, to) \in Work
    BY <1>2, WorkTyped DEF Loop
  <2>2. Loop(g, to) \in Seq(Work)
    BY <2>1
  <2>. QED BY <2>1, <2>2, SendingWork
<1>. QED BY <1>1, <1>2

Announces(f, m) ==
  \/ f = MessageFrame(m) /\ stored[m] # "unsaved"
  \/ f = DeletedFrame(m) /\ stored[m] = "deleted"

\* Everybody who is connected is a target.
LEMMA CollectTargetsWorks ==
  ASSUME TypeOK, HandlersOK, NEW u \in User, CollectTargets(u)
  PROVE  \E m \in Msg, f \in Frame :
         /\ u \in open /\ Announces(f, m)
         /\ f = MessageFrame(m) => LastOf(u, m)
         /\ todo[u] = <<CastWork(f)>>
         /\ todo' = [todo EXCEPT ![u] = Loop(f, open)]
         /\ SameHistories /\ NoNewDue
         /\ \A g \in Frame, d \in open : OnItsWay(g, d) => OnItsWay(g, d)'
<1>1. PICK m \in Msg, f \in Frame :
        /\ u \in open /\ Announces(f, m)
        /\ f = MessageFrame(m) => LastOf(u, m)
        /\ todo[u] = <<CastWork(f)>>
  <2>1. \A m, n : MessageFrame(m) # DeletedFrame(n)
    BY FrameParts
  <2>. QED BY <2>1, NextWorks, WorkTyped DEF CollectTargets, Announces
<1>2. /\ Head(todo[u]).frame = f /\ Tail(todo[u]) = <<>> /\ open \in SUBSET User
      /\ todo \in [User -> Seq(Work)]
  BY <1>1, OneEntry, WorkParts DEF TypeOK
<1>3. todo' = [todo EXCEPT ![u] = Loop(f, open)]
  BY <1>2, BeforeNothing DEF CollectTargets
<1>. DEFINE seq == Loop(f, open)
<1>4. /\ ~LoadingIn(seq) /\ ~ClearingIn(seq) /\ PendingIn(seq) = {}
      /\ \A n \in Msg, d \in User : DueIn(seq, n, d) <=> f = MessageFrame(n) /\ d \in open
      /\ \A g \in Frame, d \in User : WayIn(seq, g, d) <=> g = f /\ d \in open
  BY <1>2, LoopingWork
<1>5. /\ ~LoadingIn(todo[u]) /\ ~ClearingIn(todo[u]) /\ PendingIn(todo[u]) = {}
      /\ \A n \in Msg, d \in User : DueIn(todo[u], n, d) <=> f = MessageFrame(n)
      /\ \A g \in Frame, d \in User : WayIn(todo[u], g, d) <=> g = f
  BY <1>1, CastingWork
<1>. HIDE DEF seq
<1>6. todo' = [todo EXCEPT ![u] = seq]
  BY <1>3 DEF seq
<1>7. SameHistories
  BY <1>4, <1>5, <1>6, QuietWork
<1>8. NoNewDue
  BY <1>4, <1>5, <1>6, QuietDue
<1>9. \A g \in Frame, d \in User :
        /\ OnItsWay(g, d) => OnItsWay(g, d)' \/ WayIn(todo[u], g, d)
        /\ WayIn(seq, g, d) => OnItsWay(g, d)'
  BY <1>2, <1>6, OneHandler
<1>10. \A g \in Frame, d \in open : OnItsWay(g, d) => OnItsWay(g, d)'
  BY <1>2, <1>4, <1>5, <1>9
<1>. QED BY <1>1, <1>3, <1>7, <1>8, <1>10

\* A client that is being sent a history is not sent anything else unnoticed.
LEMMA PendingReplies ==
  ASSUME TypeOK, HandlersOK, NEW d \in User, Clearing(d) \/ Pending(d) # {}
  PROVE  NextWork(d, "reply")
<1>1. History(todo[d])
  <2>1. CASE Clearing(d)
    <3>1. todo[d] # <<>> /\ Head(todo[d]).op = "reply"
      BY <2>1, WorkParts DEF Clearing, ClearingIn
    <3>. QED BY <3>1, NextWorks DEF NextWork
  <2>2. CASE Pending(d) # {}
    <3>1. /\ todo[d] # <<>> /\ todo[d] # <<HistoryWork>>
          /\ \A m \in Msg : todo[d] # <<DeleteWork(m)>> /\ todo[d] # <<SaveWork(m)>>
          /\ \A m \in Msg : /\ todo[d] # <<CastWork(MessageFrame(m))>>
                            /\ todo[d] # <<CastWork(DeletedFrame(m))>>
      BY <2>2, EmptyWork, LoadingWork, DeletingWork, SavingWork, CastingWork, WorkTyped
      DEF Pending, Nothing
    <3>2. \A m \in Msg, to \in SUBSET User :
            /\ todo[d] # <<SendWork(MessageFrame(m), to)>>
            /\ todo[d] # <<SendWork(DeletedFrame(m), to)>>
      BY <2>2, SendingWork, WorkTyped, SMTT(30) DEF Pending
    <3>. QED BY <3>1, <3>2 DEF HandlersOK, HandlerOK, Broadcasts, TypeOK
  <2>. QED BY <2>1, <2>2
<1>2. todo[d] \in Seq(Work)
  BY DEF TypeOK
<1>. QED BY <1>1, <1>2, HistoryReplies DEF NextWork

\* Client d is sent frame f about message m, one of those it is still to be sent to.
Sent(u, m, f, to, d) ==
  /\ u \in open /\ Announces(f, m) /\ f.id = m
  /\ f = MessageFrame(m) =>
       /\ LastOf(u, m) /\ Due(m, d) /\ ~Due(m, d)'
       /\ view' = [view EXCEPT ![d] = Append(@, m)]
  /\ f = DeletedFrame(m) => view' = [view EXCEPT ![d] = Only(@, Msg \ {m})]
  /\ todo[u] = <<SendWork(f, to)>>
  /\ todo' = [todo EXCEPT ![u] = Loop(f, to \ {d})]
  /\ crossed' = [crossed EXCEPT ![d] = IF Crosses(f, d) THEN @ \cup {m} ELSE @]
  /\ SameHistories /\ NoNewDue
  /\ \A g \in Frame, e \in User :
       OnItsWay(g, e) => OnItsWay(g, e)' \/ (g = f /\ e = d)

LEMMA SendOneWorks ==
  ASSUME TypeOK, HandlersOK, NEW u \in User, SendOne(u)
  PROVE  \E m \in Msg, f \in Frame, to \in SUBSET open : \E d \in to :
         Sent(u, m, f, to, d)
<1>1. PICK m \in Msg, f \in Frame, to \in SUBSET open :
        /\ u \in open /\ Announces(f, m)
        /\ f = MessageFrame(m) => LastOf(u, m)
        /\ todo[u] = <<SendWork(f, to)>>
  <2>1. \A m, n : MessageFrame(m) # DeletedFrame(n)
    BY FrameParts
  <2>. QED BY <2>1, NextWorks, WorkTyped DEF SendOne, Announces
<1>2. /\ Head(todo[u]) = SendWork(f, to) /\ Tail(todo[u]) = <<>> /\ to \in SUBSET User
      /\ todo \in [User -> Seq(Work)] /\ view \in [User -> Seq(Msg)] /\ f.id = m
      /\ crossed \in [User -> SUBSET Msg]
  BY <1>1, OneEntry, FrameParts DEF TypeOK, Announces
<1>3. PICK d \in to :
        /\ todo' = [todo EXCEPT ![u] = Before(SendWork(f, to \ {d}), <<>>)]
        /\ view' = [view EXCEPT ![d] = Shown(@, f)]
        /\ crossed' = [crossed EXCEPT ![d] = IF Crosses(f, d) THEN @ \cup {m} ELSE @]
  <2>. DEFINE w == Head(todo[u])
  <2>1. w.frame = f /\ w.to = to /\ w.frame.id = m
    BY <1>2, WorkParts
  <2>2. PICK d \in w.to :
          /\ todo' = [todo EXCEPT ![u] = Before(SendWork(w.frame, w.to \ {d}), Tail(@))]
          /\ view' = [view EXCEPT ![d] = Shown(@, w.frame)]
          /\ crossed' = [crossed EXCEPT ![d] =
                            IF Crosses(w.frame, d) THEN @ \cup {w.frame.id} ELSE @]
    BY DEF SendOne
  <2>. HIDE DEF w
  <2>. QED BY <1>2, <2>1, <2>2
<1>4. todo' = [todo EXCEPT ![u] = Loop(f, to \ {d})]
  BY <1>3, BeforeNothing
<1>. DEFINE seq == Loop(f, to \ {d})
<1>5. /\ ~LoadingIn(seq) /\ ~ClearingIn(seq) /\ PendingIn(seq) = {}
      /\ \A n \in Msg, e \in User : DueIn(seq, n, e) <=> f = MessageFrame(n) /\ e \in to \ {d}
      /\ \A g \in Frame, e \in User : WayIn(seq, g, e) <=> g = f /\ e \in to \ {d}
  <2>1. to \ {d} \in SUBSET User
    BY <1>2
  <2>. QED BY <2>1, LoopingWork
<1>6. /\ ~LoadingIn(todo[u]) /\ ~ClearingIn(todo[u]) /\ PendingIn(todo[u]) = {}
      /\ \A n \in Msg, e \in User : DueIn(todo[u], n, e) <=> f = MessageFrame(n) /\ e \in to
      /\ \A g \in Frame, e \in User : WayIn(todo[u], g, e) <=> g = f /\ e \in to
  BY <1>1, <1>2, SendingWork, SMTT(30)
<1>. HIDE DEF seq
<1>7. todo' = [todo EXCEPT ![u] = seq]
  BY <1>4 DEF seq
<1>8. SameHistories
  BY <1>5, <1>6, <1>7, QuietWork
<1>9. NoNewDue
  BY <1>5, <1>6, <1>7, QuietDue
<1>10. \A g \in Frame, e \in User :
         /\ OnItsWay(g, e) => OnItsWay(g, e)' \/ WayIn(todo[u], g, e)
         /\ WayIn(seq, g, e) => OnItsWay(g, e)'
  BY <1>2, <1>7, OneHandler
<1>11. \A g \in Frame, e \in User :
         OnItsWay(g, e) => OnItsWay(g, e)' \/ (g = f /\ e = d)
  BY <1>5, <1>6, <1>10
<1>12. ASSUME f = MessageFrame(m)
       PROVE  /\ LastOf(u, m) /\ Due(m, d) /\ ~Due(m, d)'
              /\ view' = [view EXCEPT ![d] = Append(@, m)]
  <2>1. LastOf(u, m) /\ d \in User
    BY <1>1, <1>2, <1>12
  <2>2. Due(m, d)
    BY <1>6, <1>12, <2>1 DEF Due
  <2>3. ~Due(m, d)'
    <3>1. Due(m, d)' => \/ DueIn(seq, m, d)
                        \/ \E v \in User \ {u} : DueIn(todo[v], m, d)
      BY <1>2, <1>7, <2>1, OneHandler
    <3>2. \A v \in User \ {u} : ~DueIn(todo[v], m, d)
      BY <2>1, DueIsLast DEF LastOf
    <3>. QED BY <1>5, <2>1, <3>1, <3>2
  <2>4. Shown(view[d], f) = Append(view[d], m)
    BY <1>12, FrameParts DEF Shown
  <2>. QED BY <1>2, <1>3, <2>1, <2>2, <2>3, <2>4
<1>13. ASSUME f = DeletedFrame(m)
       PROVE  view' = [view EXCEPT ![d] = Only(@, Msg \ {m})]
  <2>1. Shown(view[d], f) = Only(view[d], Msg \ {m})
    BY <1>13, FrameParts DEF Shown
  <2>. QED BY <1>2, <1>3, <2>1
<1>14. d \in to /\ f.id = m
  BY <1>2, <1>3
<1>15. Sent(u, m, f, to, d)
  <2>1. f = MessageFrame(m) =>
          /\ LastOf(u, m) /\ Due(m, d) /\ ~Due(m, d)'
          /\ view' = [view EXCEPT ![d] = Append(@, m)]
    BY <1>12
  <2>2. f = DeletedFrame(m) => view' = [view EXCEPT ![d] = Only(@, Msg \ {m})]
    BY <1>13
  <2>3. crossed' = [crossed EXCEPT ![d] = IF Crosses(f, d) THEN @ \cup {m} ELSE @]
    BY <1>3
  <2>. QED BY <1>1, <1>4, <1>8, <1>9, <1>11, <1>14, <2>1, <2>2, <2>3 DEF Sent
<1>16. m \in Msg /\ f \in Frame /\ to \in SUBSET open
  BY <1>1
<1>. QED BY <1>14, <1>15, <1>16

\* Whoever leaves is no longer a target, and the others still are.
LEMMA DisconnectWorks ==
  ASSUME TypeOK, HandlersOK, NEW u \in User, Disconnect(u)
  PROVE  /\ todo[u] = <<>> /\ open' = open \ {u}
         /\ \A v \in User :
              \/ todo'[v] = todo[v] /\ \A f, to : todo[v] # <<SendWork(f, to)>>
              \/ \E f \in Frame, to \in SUBSET open :
                   /\ todo[v] = <<SendWork(f, to)>> /\ todo'[v] = Loop(f, to \ {u})
         /\ todo' \in [User -> Seq(Work)]
         /\ SameHistories /\ NoNewDue
         /\ \A g \in Frame, d \in User \ {u} : OnItsWay(g, d) => OnItsWay(g, d)'
<1>1. /\ todo[u] = <<>> /\ open' = open \ {u}
      /\ todo' = [v \in User |-> WithoutTarget(todo[v], u)]
      /\ todo \in [User -> Seq(Work)] /\ open \in SUBSET User
  BY DEF Disconnect, Idle, TypeOK
<1>2. ASSUME NEW v \in User
      PROVE  \/ todo'[v] = todo[v] /\ \A f, to : todo[v] # <<SendWork(f, to)>>
             \/ \E f \in Frame, to \in SUBSET open :
                   /\ todo[v] = <<SendWork(f, to)>> /\ todo'[v] = Loop(f, to \ {u})
  <2>1. CASE NextWork(v, "send")
    <3>1. PICK m \in Msg, f \in Frame, to \in SUBSET open : todo[v] = <<SendWork(f, to)>>
      BY <2>1, NextWorks, WorkTyped
    <3>2. /\ todo[v] # <<>> /\ Head(todo[v]) = SendWork(f, to) /\ Tail(todo[v]) = <<>>
          /\ SendWork(f, to).op = "send" /\ SendWork(f, to).frame = f /\ SendWork(f, to).to = to
      BY <3>1, OneEntry, WorkParts
    <3>3. todo'[v] = Before(SendWork(f, to \ {u}), <<>>)
      BY <1>1, <3>2 DEF WithoutTarget
    <3>. QED BY <3>1, <3>3, BeforeNothing
  <2>2. CASE ~NextWork(v, "send")
    <3>1. \A f, to : todo[v] # <<SendWork(f, to)>>
      BY <2>2, OneEntry, WorkParts DEF NextWork
    <3>2. todo'[v] = todo[v]
      BY <1>1, <2>2 DEF WithoutTarget, NextWork
    <3>. QED BY <3>1, <3>2
  <2>. QED BY <2>1, <2>2
<1>3. ASSUME NEW v \in User
      PROVE  /\ todo'[v] \in Seq(Work)
             /\ LoadingIn(todo'[v]) <=> LoadingIn(todo[v])
             /\ ClearingIn(todo'[v]) <=> ClearingIn(todo[v])
             /\ PendingIn(todo'[v]) = PendingIn(todo[v])
             /\ \A m \in Msg, d \in User : DueIn(todo'[v], m, d) => DueIn(todo[v], m, d)
             /\ \A g \in Frame, d \in User \ {u} :
                  WayIn(todo[v], g, d) => WayIn(todo'[v], g, d)
  <2>1. CASE todo'[v] = todo[v]
    BY <1>1, <2>1
  <2>2. ASSUME NEW f \in Frame, NEW to \in SUBSET open,
               todo[v] = <<SendWork(f, to)>>, todo'[v] = Loop(f, to \ {u})
        PROVE  <1>3!2
    <3>1. to \in SUBSET User /\ to \ {u} \in SUBSET User
      BY <1>1
    <3>. DEFINE L == Loop(f, to \ {u})
    <3>2. /\ L \in Seq(Work)
          /\ ~LoadingIn(L) /\ ~ClearingIn(L) /\ PendingIn(L) = {}
          /\ \A m \in Msg, d \in User : DueIn(L, m, d) <=> f = MessageFrame(m) /\ d \in to \ {u}
          /\ \A g \in Frame, d \in User : WayIn(L, g, d) <=> g = f /\ d \in to \ {u}
      BY <3>1, LoopingWork
    <3>3. LET seq == todo[v] IN
          /\ ~LoadingIn(seq) /\ ~ClearingIn(seq) /\ PendingIn(seq) = {}
          /\ \A m \in Msg, d \in User : DueIn(seq, m, d) <=> f = MessageFrame(m) /\ d \in to
          /\ \A g \in Frame, d \in User : WayIn(seq, g, d) <=> g = f /\ d \in to
      BY <2>2, <3>1, SendingWork
    <3>. HIDE DEF L
    <3>4. todo'[v] = L
      BY <2>2 DEF L
    <3>. QED BY <3>2, <3>3, <3>4
  <2>. QED BY <1>2, <2>1, <2>2
<1>4. SameHistories
  BY <1>3 DEF SameHistories, Loading, Clearing, Pending, LoadingIn, ClearingIn, PendingIn
<1>5. NoNewDue
  BY <1>3 DEF NoNewDue, Due, DueIn
<1>6. \A g \in Frame, d \in User :
        /\ OnItsWay(g, d) <=> \E v \in User : WayIn(todo[v], g, d)
        /\ OnItsWay(g, d)' <=> \E v \in User : WayIn(todo'[v], g, d)
  BY DEF OnItsWay, WayIn
<1>7. \A g \in Frame, d \in User \ {u} : OnItsWay(g, d) => OnItsWay(g, d)'
  BY <1>3, <1>6
<1>8. todo' \in [User -> Seq(Work)]
  BY <1>1, <1>3
<1>. QED BY <1>1, <1>2, <1>4, <1>5, <1>7, <1>8

-----------------------------------------------------------------------------
(* Every action keeps the invariant.                                       *)

\* An empty list is in order and has no copies.
LEMMA EmptyList ==
  /\ Range(<<>>) = {}
  /\ \A m : NoTwo(<<>>, m) /\ NoThree(<<>>, m)
  /\ \A cross, by : InOrder(<<>>, cross, by)
BY DEF Range, NoTwo, NoThree, InOrder

\* A handler that does nothing stays in order.
LEMMA OthersOK ==
  ASSUME HandlersOK, NEW v \in User, todo'[v] = todo[v], open \subseteq open',
         \A m \in Msg : LastOf(v, m) => LastOf(v, m)',
         \A m \in Msg : /\ stored[m] = "unsaved" /\ LastOf(v, m) => stored'[m] = "unsaved"
                        /\ stored[m] # "unsaved" => stored'[m] # "unsaved"
                        /\ stored[m] = "deleted" => stored'[m] = "deleted"
  PROVE  HandlerOK(v)'
<1>1. \A f : Broadcasts(v, f) => Broadcasts(v, f)'
  BY DEF Broadcasts
<1>. QED BY <1>1 DEF HandlersOK, HandlerOK

\* A new connection starts with an empty list and loads its history.
LEMMA ConnectInv ==
  ASSUME ChatAssumption, Inv, NEW u \in User, Connect(u)
  PROVE  Inv'
<1>. USE DEF Inv
<1>1. /\ u \notin open /\ todo[u] = <<>> /\ open' = open \cup {u}
      /\ todo' = [todo EXCEPT ![u] = <<HistoryWork>>]
      /\ view' = [view EXCEPT ![u] = <<>>]
      /\ crossed' = [crossed EXCEPT ![u] = {}]
      /\ outside' = [outside EXCEPT ![u] = {}]
      /\ UNCHANGED <<backend, written, author, stored>>
  BY DEF Connect, HistoryWork
<1>2. /\ NoNewDue /\ KeepsWay
      /\ Loading(u)' /\ ~Clearing(u)' /\ Pending(u)' = {}
      /\ \A v \in User \ {u} : /\ Loading(v)' <=> Loading(v)
                               /\ Clearing(v)' <=> Clearing(v)
                               /\ Pending(v)' = Pending(v)
  BY ConnectWork
<1>3. /\ TypeOK
      /\ \A m \in Msg : MessageFrame(m) \in Frame /\ DeletedFrame(m) \in Frame
      /\ <<HistoryWork>> \in Seq(Work)
  BY WorkTyped
<1>4. /\ todo'[u] = <<HistoryWork>> /\ view'[u] = <<>> /\ crossed'[u] = {} /\ outside'[u] = {}
      /\ \A v \in User \ {u} : /\ todo'[v] = todo[v] /\ view'[v] = view[v]
                               /\ crossed'[v] = crossed[v] /\ outside'[v] = outside[v]
  BY <1>1, <1>3 DEF TypeOK
<1>5. TypeOK'
  BY <1>1, <1>3 DEF TypeOK
<1>6. HandlersOK'
  <2>1. ASSUME NEW v \in User \ {u} PROVE HandlerOK(v)'
    BY <1>1, <1>4, OthersOK DEF LastOf
  <2>2. HandlerOK(u)'
    BY <1>1, <1>4 DEF HandlerOK
  <2>. QED BY <2>1, <2>2 DEF HandlersOK
<1>7. SavedOK'
  BY <1>1, <1>2, <1>4, EmptyList DEF SavedOK
<1>8. VisibleOK'
  BY <1>1, <1>2, <1>3, <1>4 DEF VisibleOK, KeepsWay, TypeOK
<1>9. DeletedOK'
  BY <1>1, <1>2, <1>3, <1>4 DEF DeletedOK, KeepsWay, TypeOK
<1>10. OutsideOK'
  BY <1>1, <1>4 DEF OutsideOK
<1>11. CopiesOK'
  BY <1>2, <1>4, EmptyList DEF CopiesOK, NoNewDue
<1>12. OrderOK'
  BY <1>1, <1>4, EmptyList DEF OrderOK
<1>13. AheadOK'
  BY <1>2, <1>4, EmptyList DEF AheadOK
<1>. QED BY <1>5, <1>6, <1>7, <1>8, <1>9, <1>10, <1>11, <1>12, <1>13

\* The list stays as it is until the history arrives.
LEMMA JoinChannelInv ==
  ASSUME ChatAssumption, Inv, NEW u \in User, JoinChannel(u)
  PROVE  Inv'
<1>. USE DEF Inv
<1>1. /\ u \in open /\ todo[u] = <<>>
      /\ todo' = [todo EXCEPT ![u] = <<HistoryWork>>]
      /\ UNCHANGED <<backend, written, author, stored, open, view, crossed, outside>>
  BY DEF JoinChannel, Idle, HistoryWork
<1>2. /\ NoNewDue /\ KeepsWay
      /\ Loading(u)' /\ ~Clearing(u)' /\ Pending(u)' = {}
      /\ \A v \in User \ {u} : /\ Loading(v)' <=> Loading(v)
                               /\ Clearing(v)' <=> Clearing(v)
                               /\ Pending(v)' = Pending(v)
  BY ConnectWork
<1>3. /\ TypeOK
      /\ \A m \in Msg : MessageFrame(m) \in Frame /\ DeletedFrame(m) \in Frame
      /\ <<HistoryWork>> \in Seq(Work)
  BY WorkTyped
<1>4. todo'[u] = <<HistoryWork>> /\ \A v \in User \ {u} : todo'[v] = todo[v]
  BY <1>1, <1>3 DEF TypeOK
<1>5. TypeOK'
  BY <1>1, <1>3 DEF TypeOK
<1>6. HandlersOK'
  <2>1. ASSUME NEW v \in User \ {u} PROVE HandlerOK(v)'
    BY <1>1, <1>4, OthersOK DEF LastOf
  <2>2. HandlerOK(u)'
    BY <1>1, <1>4 DEF HandlerOK
  <2>. QED BY <2>1, <2>2 DEF HandlersOK
<1>7. SavedOK'
  BY <1>1, <1>2 DEF SavedOK
<1>8. VisibleOK'
  BY <1>1, <1>2, <1>3 DEF VisibleOK, KeepsWay, TypeOK
<1>9. DeletedOK'
  BY <1>1, <1>2, <1>3 DEF DeletedOK, KeepsWay, TypeOK
<1>10. OutsideOK'
  BY <1>1 DEF OutsideOK
<1>11. CopiesOK'
  BY <1>1, <1>2 DEF CopiesOK, NoNewDue
<1>12. OrderOK'
  BY <1>1 DEF OrderOK
<1>13. AheadOK'
  BY <1>1, <1>2 DEF AheadOK
<1>. QED BY <1>5, <1>6, <1>7, <1>8, <1>9, <1>10, <1>11, <1>12, <1>13

\* The parts that an action keeps which changes no list and no history.
LEMMA QuietStep ==
  ASSUME Inv, SameHistories, UNCHANGED <<backend, view, crossed, outside>>, open' \subseteq open,
         \A f \in Frame, d \in open' : OnItsWay(f, d) => OnItsWay(f, d)',
         \A m \in Msg : stored[m] # "unsaved" => stored'[m] # "unsaved",
         \A m \in Msg : stored'[m] = "visible" =>
           stored[m] = "visible" \/ \A d \in User : OnItsWay(MessageFrame(m), d)',
         \A m \in Msg : stored[m] \in {"visible", "silent"} =>
           \/ stored'[m] \in {"visible", "silent"}
           \/ \A d \in User : OnItsWay(DeletedFrame(m), d)'
  PROVE  /\ VisibleOK' /\ DeletedOK' /\ OutsideOK' /\ AheadOK'
         /\ \A v \in User : \A m \in Range(view'[v]) \cup Pending(v)' : stored'[m] # "unsaved"
<1>. USE DEF Inv, SameHistories
<1>1. /\ \A m \in Msg : MessageFrame(m) \in Frame /\ DeletedFrame(m) \in Frame
      /\ open \subseteq User
  BY WorkTyped DEF TypeOK
<1>2. VisibleOK'
  BY <1>1 DEF VisibleOK
<1>3. DeletedOK'
  BY <1>1 DEF DeletedOK
<1>4. OutsideOK'
  BY DEF OutsideOK
<1>5. AheadOK'
  BY DEF AheadOK
<1>6. \A v \in User : Range(view[v]) \subseteq Msg /\ Pending(v) \subseteq Msg
  BY DEF TypeOK, Range, Pending, PendingIn
<1>7. \A v \in User : \A m \in Range(view'[v]) \cup Pending(v)' : stored'[m] # "unsaved"
  BY <1>6 DEF SavedOK
<1>. QED BY <1>2, <1>3, <1>4, <1>5, <1>7

\* The new message is its author's last, and on no list.
LEMMA SendMessageInv ==
  ASSUME ChatAssumption, Inv, NEW u \in User, SendMessage(u)
  PROVE  Inv'
<1>. USE DEF Inv
<1>1. /\ u \in open /\ todo[u] = <<>> /\ written < MaxMsgs
      /\ written' = written + 1 /\ author' = Append(author, u)
      /\ todo' = [todo EXCEPT ![u] = <<SaveWork(written + 1)>>]
      /\ UNCHANGED <<backend, stored, open, view, crossed, outside>>
  BY DEF SendMessage, Idle, SaveWork
<1>2. /\ SameHistories /\ KeepsWay
      /\ \A m \in Msg, d \in User : Due(m, d)' => Due(m, d) \/ m = written + 1
  BY SendMessageWork
<1>3. /\ written \in Nat /\ written + 1 \in Msg /\ written + 1 \notin 1..written
      /\ \A m \in 1..written : m \in Msg /\ m < written + 1
      /\ \A m \in Msg : m \in Nat
  BY <1>1, ChatAssumption DEF TypeOK, Msg
<1>4. /\ author' \in [1..written + 1 -> User] /\ author'[written + 1] = u
      /\ \A m \in 1..written : author'[m] = author[m]
  <2>1. author \in Seq(User) /\ Len(author) = written
    BY <1>3 DEF TypeOK
  <2>2. /\ Append(author, u) \in Seq(User) /\ Len(Append(author, u)) = written + 1
        /\ Append(author, u)[written + 1] = u
        /\ \A m \in 1..written : Append(author, u)[m] = author[m]
    BY <2>1
  <2>3. \A seq \in Seq(User) : seq \in [1..Len(seq) -> User]
    OBVIOUS
  <2>4. Append(author, u) \in [1..written + 1 -> User]
    BY <2>2, <2>3
  <2>. QED BY <1>1, <2>2, <2>4
<1>5. SaveWork(written + 1) \in Work /\ todo \in [User -> Seq(Work)]
  BY <1>3, WorkTyped DEF TypeOK
<1>6. TypeOK'
  BY <1>1, <1>3, <1>4, <1>5 DEF TypeOK, Msg
<1>7. todo'[u] = <<SaveWork(written + 1)>> /\ \A v \in User \ {u} : todo'[v] = todo[v]
  BY <1>1, <1>5
<1>8. stored[written + 1] = "unsaved"
  BY <1>3 DEF SavedOK
<1>9. HandlersOK'
  <2>1. ASSUME NEW v \in User \ {u} PROVE HandlerOK(v)'
    <3>1. ASSUME NEW m \in Msg, LastOf(v, m) PROVE LastOf(v, m)'
      BY <1>1, <1>3, <1>4, <3>1 DEF LastOf, Msg
    <3>. QED BY <1>1, <1>7, <3>1, OthersOK
  <2>2. PICK m \in Msg : m = written + 1
    BY <1>3
  <2>3. LastOf(u, m)'
    BY <1>1, <1>3, <1>4, <2>2 DEF LastOf
  <2>4. HandlerOK(u)'
    BY <1>1, <1>7, <1>8, <2>2, <2>3 DEF HandlerOK
  <2>. QED BY <2>1, <2>4 DEF HandlersOK
<1>10. /\ VisibleOK' /\ DeletedOK' /\ OutsideOK' /\ AheadOK'
       /\ \A v \in User : \A m \in Range(view'[v]) \cup Pending(v)' : stored'[m] # "unsaved"
  <2>1. \A f \in Frame, d \in open' : OnItsWay(f, d) => OnItsWay(f, d)'
    BY <1>1, <1>2 DEF KeepsWay, TypeOK
  <2>. QED BY <1>1, <1>2, <2>1, QuietStep
<1>11. SavedOK'
  BY <1>1, <1>3, <1>10 DEF SavedOK, Msg
<1>12. \A v \in User : written + 1 \notin Range(view[v]) /\ written + 1 \notin Pending(v)
  BY <1>3, <1>8 DEF SavedOK
<1>13. CopiesOK'
  <2>1. \A v \in User : NoTwo(view[v], written + 1)
    BY <1>12 DEF NoTwo, Range
  <2>. QED BY <1>1, <1>2, <1>12, <2>1 DEF CopiesOK, SameHistories
<1>14. OrderOK'
  <2>1. ASSUME NEW v \in User, NEW i \in DOMAIN view[v]
        PROVE  view[v][i] \in 1..written
    <3>1. view[v] \in Seq(Msg) /\ view[v][i] \in Msg /\ view[v][i] \in Range(view[v])
      BY DEF TypeOK, Range
    <3>2. view[v][i] <= written
      BY <3>1 DEF SavedOK
    <3>. QED BY <1>3, <3>1, <3>2 DEF Msg
  <2>2. \A v \in User : \A i \in DOMAIN view[v] : author'[view[v][i]] = author[view[v][i]]
    BY <1>4, <2>1
  <2>3. ASSUME NEW v \in User PROVE InOrder(view[v], crossed[v], author')
    BY <2>2 DEF OrderOK, InOrder
  <2>. QED BY <1>1, <2>3 DEF OrderOK
<1>. QED BY <1>6, <1>9, <1>10, <1>11, <1>13, <1>14

\* A deletion is asked for.
LEMMA DeleteMessageInv ==
  ASSUME ChatAssumption, Inv, NEW u \in User, NEW m \in Msg, DeleteMessage(u, m)
  PROVE  Inv'
<1>. USE DEF Inv
<1>1. /\ u \in open /\ todo[u] = <<>>
      /\ todo' = [todo EXCEPT ![u] = <<DeleteWork(m)>>]
      /\ UNCHANGED <<backend, written, author, stored, open, view, crossed, outside>>
  BY DEF DeleteMessage, Idle, DeleteWork
<1>2. SameHistories /\ NoNewDue /\ KeepsWay
  BY DeleteMessageWork
<1>3. DeleteWork(m) \in Work /\ todo \in [User -> Seq(Work)]
  BY WorkTyped DEF TypeOK
<1>4. TypeOK'
  BY <1>1, <1>3 DEF TypeOK
<1>5. todo'[u] = <<DeleteWork(m)>> /\ \A v \in User \ {u} : todo'[v] = todo[v]
  BY <1>1, <1>3
<1>6. HandlersOK'
  <2>1. ASSUME NEW v \in User \ {u} PROVE HandlerOK(v)'
    BY <1>1, <1>5, OthersOK DEF LastOf
  <2>2. HandlerOK(u)'
    BY <1>1, <1>5 DEF HandlerOK
  <2>. QED BY <2>1, <2>2 DEF HandlersOK
<1>7. /\ VisibleOK' /\ DeletedOK' /\ OutsideOK' /\ AheadOK'
      /\ \A v \in User : \A n \in Range(view'[v]) \cup Pending(v)' : stored'[n] # "unsaved"
  <2>1. \A f \in Frame, d \in open' : OnItsWay(f, d) => OnItsWay(f, d)'
    BY <1>1, <1>2 DEF KeepsWay, TypeOK
  <2>. QED BY <1>1, <1>2, <2>1, QuietStep
<1>8. SavedOK'
  BY <1>1, <1>7 DEF SavedOK
<1>9. CopiesOK'
  BY <1>1, <1>2 DEF CopiesOK, SameHistories, NoNewDue
<1>10. OrderOK'
  BY <1>1 DEF OrderOK
<1>. QED BY <1>4, <1>6, <1>7, <1>8, <1>9, <1>10

\* A saved message is on its way to everybody.
LEMMA SaveInv ==
  ASSUME ChatAssumption, Inv, NEW u \in User, Save(u)
  PROVE  Inv'
<1>. USE DEF Inv
<1>1. UNCHANGED <<backend, written, author, open, view, crossed, outside>>
  BY DEF Save
<1>2. PICK m \in Msg :
         /\ todo[u] = <<SaveWork(m)>> /\ stored[m] = "unsaved" /\ LastOf(u, m)
         /\ SameHistories /\ NoNewDue /\ KeepsWay
         /\ \/ /\ stored' = [stored EXCEPT ![m] = "visible"]
               /\ todo' = [todo EXCEPT ![u] = <<CastWork(MessageFrame(m))>>]
               /\ \A d \in User : OnItsWay(MessageFrame(m), d)'
            \/ todo' = [todo EXCEPT ![u] = <<>>] /\ stored' = stored
  BY SaveWorks
<1>3. /\ MessageFrame(m) \in Frame /\ CastWork(MessageFrame(m)) \in Work
      /\ todo \in [User -> Seq(Work)]
      /\ stored \in [Msg -> {"unsaved", "visible", "deleted", "silent"}]
  BY WorkTyped DEF TypeOK
<1>4. /\ \A n \in Msg \ {m} : stored'[n] = stored[n]
      /\ stored'[m] = stored[m] \/ stored'[m] = "visible"
      /\ \A v \in User \ {u} : todo'[v] = todo[v]
  BY <1>2, <1>3
<1>5. TypeOK'
  <2>1. todo' \in [User -> Seq(Work)]
    <3>1. <<>> \in Seq(Work) /\ <<CastWork(MessageFrame(m))>> \in Seq(Work)
      BY <1>3
    <3>2. PICK work \in Seq(Work) : todo' = [todo EXCEPT ![u] = work]
      BY <1>2, <3>1
    <3>. QED BY <1>3, <3>2
  <2>2. stored' \in [Msg -> {"unsaved", "visible", "deleted", "silent"}]
    BY <1>2, <1>3
  <2>. QED BY <1>1, <2>1, <2>2 DEF TypeOK
<1>6. u \in open
  BY NextWorks DEF Save
<1>7. HandlersOK'
  <2>1. ASSUME NEW v \in User \ {u} PROVE HandlerOK(v)'
    <3>1. ~LastOf(v, m)
      BY <1>2 DEF LastOf
    <3>. QED BY <1>1, <1>2, <1>4, <3>1, OthersOK DEF LastOf
  <2>2. HandlerOK(u)'
    <3>1. CASE todo' = [todo EXCEPT ![u] = <<>>]
      BY <1>3, <3>1 DEF HandlerOK
    <3>2. CASE /\ stored' = [stored EXCEPT ![m] = "visible"]
               /\ todo' = [todo EXCEPT ![u] = <<CastWork(MessageFrame(m))>>]
      <4>1. todo'[u] = <<CastWork(MessageFrame(m))>> /\ stored'[m] # "unsaved"
        BY <1>3, <3>2
      <4>2. LastOf(u, m)' /\ u \in open'
        BY <1>1, <1>2, <1>6 DEF LastOf
      <4>. QED BY <4>1, <4>2 DEF HandlerOK, Broadcasts
    <3>. QED BY <1>2, <3>1, <3>2
  <2>. QED BY <2>1, <2>2 DEF HandlersOK
<1>8. /\ VisibleOK' /\ DeletedOK' /\ OutsideOK' /\ AheadOK'
      /\ \A v \in User : \A n \in Range(view'[v]) \cup Pending(v)' : stored'[n] # "unsaved"
  <2>1. \A f \in Frame, d \in open' : OnItsWay(f, d) => OnItsWay(f, d)'
    BY <1>1, <1>2 DEF KeepsWay, TypeOK
  <2>2. \A n \in Msg : stored[n] # "unsaved" => stored'[n] # "unsaved"
    BY <1>4
  <2>3. \A n \in Msg : stored'[n] = "visible" =>
          stored[n] = "visible" \/ \A d \in User : OnItsWay(MessageFrame(n), d)'
    BY <1>2, <1>3, <1>4
  <2>4. \A n \in Msg : stored[n] \in {"visible", "silent"} => stored'[n] \in {"visible", "silent"}
    BY <1>4
  <2>. QED BY <1>1, <1>2, <2>1, <2>2, <2>3, <2>4, QuietStep
<1>9. SavedOK'
  <2>1. m <= written
    BY <1>2 DEF LastOf
  <2>. QED BY <1>1, <1>4, <1>8, <2>1 DEF SavedOK
<1>10. CopiesOK'
  BY <1>1, <1>2 DEF CopiesOK, SameHistories, NoNewDue
<1>11. OrderOK'
  BY <1>1 DEF OrderOK
<1>. QED BY <1>5, <1>7, <1>8, <1>9, <1>10, <1>11

\* A deleted message is on every list only until its frame arrives.
LEMMA DeleteInv ==
  ASSUME ChatAssumption, Inv, NEW u \in User, Delete(u)
  PROVE  Inv'
<1>. USE DEF Inv
<1>1. UNCHANGED <<backend, written, author, open, view, crossed, outside>>
  BY DEF Delete
<1>2. PICK m \in Msg :
         /\ todo[u] = <<DeleteWork(m)>>
         /\ SameHistories /\ NoNewDue /\ KeepsWay
         /\ \/ /\ stored[m] = "visible" /\ stored' = [stored EXCEPT ![m] = "deleted"]
               /\ todo' = [todo EXCEPT ![u] = <<CastWork(DeletedFrame(m))>>]
               /\ \A d \in User : OnItsWay(DeletedFrame(m), d)'
            \/ /\ todo' = [todo EXCEPT ![u] = <<>>]
               /\ \/ stored' = stored
                  \/ stored[m] = "visible" /\ stored' = [stored EXCEPT ![m] = "silent"]
  BY DeleteWorks
<1>3. /\ DeletedFrame(m) \in Frame /\ CastWork(DeletedFrame(m)) \in Work
      /\ todo \in [User -> Seq(Work)]
      /\ stored \in [Msg -> {"unsaved", "visible", "deleted", "silent"}]
  BY WorkTyped DEF TypeOK
<1>4. /\ \A n \in Msg \ {m} : stored'[n] = stored[n]
      /\ \/ stored'[m] = stored[m]
         \/ stored[m] = "visible" /\ stored'[m] = "silent"
         \/ /\ stored[m] = "visible" /\ stored'[m] = "deleted"
            /\ \A d \in User : OnItsWay(DeletedFrame(m), d)'
      /\ \A v \in User \ {u} : todo'[v] = todo[v]
  BY <1>2, <1>3
<1>5. TypeOK'
  <2>1. todo' \in [User -> Seq(Work)]
    <3>1. <<>> \in Seq(Work) /\ <<CastWork(DeletedFrame(m))>> \in Seq(Work)
      BY <1>3
    <3>2. PICK work \in Seq(Work) : todo' = [todo EXCEPT ![u] = work]
      BY <1>2, <3>1
    <3>. QED BY <1>3, <3>2
  <2>2. stored' \in [Msg -> {"unsaved", "visible", "deleted", "silent"}]
    BY <1>2, <1>3
  <2>. QED BY <1>1, <2>1, <2>2 DEF TypeOK
<1>6. u \in open
  BY NextWorks DEF Delete
<1>7. HandlersOK'
  <2>1. ASSUME NEW v \in User \ {u} PROVE HandlerOK(v)'
    BY <1>1, <1>4, OthersOK DEF LastOf
  <2>2. HandlerOK(u)'
    <3>1. CASE todo' = [todo EXCEPT ![u] = <<>>]
      BY <1>3, <3>1 DEF HandlerOK
    <3>2. CASE /\ stored' = [stored EXCEPT ![m] = "deleted"]
               /\ todo' = [todo EXCEPT ![u] = <<CastWork(DeletedFrame(m))>>]
      <4>1. todo'[u] = <<CastWork(DeletedFrame(m))>> /\ stored'[m] = "deleted"
        BY <1>3, <3>2
      <4>. QED BY <1>1, <1>6, <4>1 DEF HandlerOK, Broadcasts
    <3>. QED BY <1>2, <3>1, <3>2
  <2>. QED BY <2>1, <2>2 DEF HandlersOK
<1>8. /\ VisibleOK' /\ DeletedOK' /\ OutsideOK' /\ AheadOK'
      /\ \A v \in User : \A n \in Range(view'[v]) \cup Pending(v)' : stored'[n] # "unsaved"
  <2>1. \A f \in Frame, d \in open' : OnItsWay(f, d) => OnItsWay(f, d)'
    BY <1>1, <1>2 DEF KeepsWay, TypeOK
  <2>2. \A n \in Msg : stored[n] # "unsaved" => stored'[n] # "unsaved"
    BY <1>4
  <2>3. \A n \in Msg : stored'[n] = "visible" => stored[n] = "visible"
    BY <1>4
  <2>4. \A n \in Msg : stored[n] \in {"visible", "silent"} =>
          \/ stored'[n] \in {"visible", "silent"}
          \/ \A d \in User : OnItsWay(DeletedFrame(n), d)'
    BY <1>4
  <2>. QED BY <1>1, <1>2, <2>1, <2>2, <2>3, <2>4, QuietStep
<1>9. SavedOK'
  BY <1>1, <1>4, <1>8 DEF SavedOK
<1>10. CopiesOK'
  BY <1>1, <1>2 DEF CopiesOK, SameHistories, NoNewDue
<1>11. OrderOK'
  BY <1>1 DEF OrderOK
<1>. QED BY <1>5, <1>7, <1>8, <1>9, <1>10, <1>11

\* A history holds what is visible, sorted.
LEMMA LoadHistoryInv ==
  ASSUME ChatAssumption, Inv, NEW u \in User, LoadHistory(u)
  PROVE  Inv'
<1>. USE DEF Inv
<1>1. UNCHANGED <<backend, written, author, stored, open, view, crossed>>
  BY DEF LoadHistory
<1>2. PICK messages \in Seq(Msg) :
         /\ Range(messages) \subseteq Visible
         /\ \A i, j \in DOMAIN messages : i < j => messages[i] < messages[j]
         /\ backend = "memory" =>
              \A m \in Visible \ Range(messages) : \E n \in Visible : n > m
         /\ outside' = [outside EXCEPT ![u] = Visible \ Range(messages)]
         /\ u \in open /\ todo[u] = <<HistoryWork>>
         /\ todo' = [todo EXCEPT ![u] = Answer(messages)]
         /\ NoNewDue /\ KeepsWay
         /\ ~Loading(u)' /\ Clearing(u)' /\ Pending(u)' = Range(messages)
         /\ \A v \in User \ {u} : /\ Loading(v)' <=> Loading(v)
                                  /\ Clearing(v)' <=> Clearing(v)
                                  /\ Pending(v)' = Pending(v)
  BY LoadHistoryWorks
<1>3. Answer(messages) \in Seq(Work) /\ History(Answer(messages))
  BY <1>2, AnsweringWork
<1>4. /\ todo \in [User -> Seq(Work)] /\ outside \in [User -> SUBSET Msg] /\ open \subseteq User
      /\ \A m \in Msg : MessageFrame(m) \in Frame /\ DeletedFrame(m) \in Frame
      /\ Visible \subseteq Msg
  BY WorkTyped DEF TypeOK, Visible
<1>5. /\ todo'[u] = Answer(messages) /\ outside'[u] = Visible \ Range(messages)
      /\ \A v \in User \ {u} : todo'[v] = todo[v] /\ outside'[v] = outside[v]
  BY <1>2, <1>4
<1>6. TypeOK'
  <2>1. todo' \in [User -> Seq(Work)] /\ outside' \in [User -> SUBSET Msg]
    BY <1>2, <1>3, <1>4
  <2>. QED BY <1>1, <2>1 DEF TypeOK
<1>7. HandlersOK'
  <2>1. ASSUME NEW v \in User \ {u} PROVE HandlerOK(v)'
    BY <1>1, <1>5, OthersOK DEF LastOf
  <2>2. HandlerOK(u)'
    <3>1. History(todo'[u]) /\ u \in open'
      BY <1>1, <1>2, <1>3, <1>5
    <3>2. History(todo[u])'
      BY <3>1 DEF History, RestOfHistory, ClearingIn
    <3>. QED BY <3>1, <3>2 DEF HandlerOK
  <2>. QED BY <2>1, <2>2 DEF HandlersOK
<1>8. SavedOK'
  <2>1. \A m \in Range(messages) : stored[m] # "unsaved"
    BY <1>2 DEF Visible
  <2>. QED BY <1>1, <1>2, <2>1 DEF SavedOK
<1>9. VisibleOK'
  <2>1. ASSUME NEW v \in open, v # u,
               NEW m \in Msg \ (crossed[v] \cup outside[v]), stored[m] = "visible", ~Loading(v)'
        PROVE  \/ m \in Pending(v)'
               \/ m \in Range(view[v]) /\ ~Clearing(v)'
               \/ OnItsWay(MessageFrame(m), v)'
    BY <1>2, <1>4, <2>1 DEF VisibleOK, KeepsWay
  <2>2. ASSUME NEW m \in Msg \ outside'[u], stored[m] = "visible"
        PROVE  m \in Pending(u)'
    BY <1>2, <1>5, <2>2 DEF Visible
  <2>. QED BY <1>1, <1>4, <1>5, <2>1, <2>2 DEF VisibleOK
<1>10. DeletedOK'
  <2>1. ASSUME NEW v \in open, v # u, NEW m \in Msg \ crossed[v],
               \/ m \in Pending(v)'
               \/ m \in Range(view[v]) /\ ~Clearing(v)' /\ ~Loading(v)'
        PROVE  stored[m] \in {"visible", "silent"} \/ OnItsWay(DeletedFrame(m), v)'
    BY <1>2, <1>4, <2>1 DEF DeletedOK, KeepsWay
  <2>2. \A m \in Pending(u)' : stored[m] = "visible"
    BY <1>2 DEF Visible
  <2>. QED BY <1>1, <1>2, <2>1, <2>2 DEF DeletedOK
<1>11. OutsideOK'
  <2>1. \A n \in Visible : n \in Msg /\ stored[n] # "unsaved"
    BY DEF Visible
  <2>. QED BY <1>1, <1>2, <1>5, <2>1 DEF OutsideOK
<1>12. CopiesOK'
  BY <1>1, <1>2 DEF CopiesOK, NoNewDue
<1>13. OrderOK'
  BY <1>1 DEF OrderOK
<1>14. AheadOK'
  BY <1>1, <1>2 DEF AheadOK
<1>. QED BY <1>6, <1>7, <1>8, <1>9, <1>10, <1>11, <1>12, <1>13, <1>14

\* The loops over targets go on without whoever has left.
LEMMA DisconnectInv ==
  ASSUME ChatAssumption, Inv, NEW u \in User, Disconnect(u)
  PROVE  Inv'
<1>. USE DEF Inv
<1>1. UNCHANGED <<backend, written, author, stored, view, crossed, outside>>
  BY DEF Disconnect
<1>2. /\ todo[u] = <<>> /\ open' = open \ {u}
      /\ \A v \in User :
           \/ todo'[v] = todo[v] /\ \A f, to : todo[v] # <<SendWork(f, to)>>
           \/ \E f \in Frame, to \in SUBSET open :
                /\ todo[v] = <<SendWork(f, to)>> /\ todo'[v] = Loop(f, to \ {u})
      /\ todo' \in [User -> Seq(Work)]
      /\ SameHistories /\ NoNewDue
      /\ \A g \in Frame, d \in User \ {u} : OnItsWay(g, d) => OnItsWay(g, d)'
  BY DisconnectWorks
<1>3. open \subseteq User
  BY DEF TypeOK
<1>4. TypeOK'
  BY <1>1, <1>2 DEF TypeOK
<1>5. ASSUME NEW v \in User PROVE HandlerOK(v)'
  <2>1. ASSUME todo'[v] = todo[v], \A f, to : todo[v] # <<SendWork(f, to)>>
        PROVE  HandlerOK(v)'
    <3>1. \A f : Broadcasts(v, f) => Broadcasts(v, f)'
      BY <2>1 DEF Broadcasts
    <3>2. \A m \in Msg : LastOf(v, m) => LastOf(v, m)'
      BY <1>1 DEF LastOf
    <3>3. todo[v] # <<>> => v \in open'
      BY <1>2 DEF HandlersOK, HandlerOK
    <3>. QED BY <1>1, <2>1, <3>1, <3>2, <3>3 DEF HandlersOK, HandlerOK
  <2>2. ASSUME NEW f \in Frame, NEW to \in SUBSET open,
               todo[v] = <<SendWork(f, to)>>, todo'[v] = Loop(f, to \ {u})
        PROVE  HandlerOK(v)'
    <3>1. NextWork(v, "send") /\ todo[v] # <<>>
      BY <2>2, OneEntry, WorkParts DEF NextWork
    <3>2. v \in open' /\ \E m \in Msg :
            \/ f = MessageFrame(m) /\ stored[m] # "unsaved" /\ LastOf(v, m)
            \/ f = DeletedFrame(m) /\ stored[m] = "deleted"
      <4>1. \A g, h, old : <<SendWork(f, to)>> = <<SendWork(g, old)>> => f = g
        BY OneEntry, WorkParts
      <4>2. v \in open /\ \E m \in Msg :
              \/ f = MessageFrame(m) /\ stored[m] # "unsaved" /\ LastOf(v, m)
              \/ f = DeletedFrame(m) /\ stored[m] = "deleted"
        BY <2>2, <3>1, <4>1, NextWorks
      <4>. QED BY <1>2, <3>1, <4>2
    <3>3. todo'[v] = <<>> \/ Broadcasts(v, f)'
      <4>1. to \ {u} \in SUBSET open'
        BY <1>2
      <4>. QED BY <2>2, <4>1 DEF Loop, Broadcasts
    <3>4. \A m \in Msg : LastOf(v, m) => LastOf(v, m)'
      BY <1>1 DEF LastOf
    <3>. QED BY <1>1, <3>2, <3>3, <3>4 DEF HandlerOK
  <2>. QED BY <1>2, <2>1, <2>2
<1>6. /\ VisibleOK' /\ DeletedOK' /\ OutsideOK' /\ AheadOK'
      /\ \A v \in User : \A n \in Range(view'[v]) \cup Pending(v)' : stored'[n] # "unsaved"
  <2>1. \A f \in Frame, d \in open' : OnItsWay(f, d) => OnItsWay(f, d)'
    BY <1>2, <1>3
  <2>. QED BY <1>1, <1>2, <2>1, QuietStep
<1>7. SavedOK'
  BY <1>1, <1>6 DEF SavedOK
<1>8. CopiesOK'
  BY <1>1, <1>2 DEF CopiesOK, SameHistories, NoNewDue
<1>9. OrderOK'
  BY <1>1 DEF OrderOK
<1>. QED BY <1>4, <1>5, <1>6, <1>7, <1>8, <1>9 DEF HandlersOK

\* A frame on its way to everybody is on its way to each target.
LEMMA CollectTargetsInv ==
  ASSUME ChatAssumption, Inv, NEW u \in User, CollectTargets(u)
  PROVE  Inv'
<1>. USE DEF Inv
<1>1. UNCHANGED <<backend, written, author, stored, open, view, crossed, outside>>
  BY DEF CollectTargets
<1>2. PICK m \in Msg, f \in Frame :
         /\ u \in open /\ Announces(f, m)
         /\ f = MessageFrame(m) => LastOf(u, m)
         /\ todo[u] = <<CastWork(f)>>
         /\ todo' = [todo EXCEPT ![u] = Loop(f, open)]
         /\ SameHistories /\ NoNewDue
         /\ \A g \in Frame, d \in open : OnItsWay(g, d) => OnItsWay(g, d)'
  BY CollectTargetsWorks
<1>3. todo \in [User -> Seq(Work)] /\ open \in SUBSET User /\ Loop(f, open) \in Seq(Work)
  BY LoopingWork DEF TypeOK
<1>4. todo'[u] = <<SendWork(f, open)>> /\ \A v \in User \ {u} : todo'[v] = todo[v]
  BY <1>2, <1>3 DEF Loop
<1>5. TypeOK'
  BY <1>1, <1>2, <1>3 DEF TypeOK
<1>6. HandlersOK'
  <2>1. ASSUME NEW v \in User \ {u} PROVE HandlerOK(v)'
    BY <1>1, <1>4, OthersOK DEF LastOf
  <2>2. HandlerOK(u)'
    <3>1. Broadcasts(u, f)'
      BY <1>1, <1>2, <1>4 DEF Broadcasts
    <3>2. LastOf(u, m) => LastOf(u, m)'
      BY <1>1 DEF LastOf
    <3>. QED BY <1>1, <1>2, <3>1, <3>2 DEF HandlerOK, Announces
  <2>. QED BY <2>1, <2>2 DEF HandlersOK
<1>7. /\ VisibleOK' /\ DeletedOK' /\ OutsideOK' /\ AheadOK'
      /\ \A v \in User : \A n \in Range(view'[v]) \cup Pending(v)' : stored'[n] # "unsaved"
  BY <1>1, <1>2, QuietStep
<1>8. SavedOK'
  BY <1>1, <1>7 DEF SavedOK
<1>9. CopiesOK'
  BY <1>1, <1>2 DEF CopiesOK, SameHistories, NoNewDue
<1>10. OrderOK'
  BY <1>1 DEF OrderOK
<1>. QED BY <1>5, <1>6, <1>7, <1>8, <1>9, <1>10

\* A message appended to a list stays in order with those it is ordered with.
LEMMA AppendInOrder ==
  ASSUME NEW X, NEW seq \in Seq(X), NEW m \in X, NEW cross, NEW by,
         InOrder(seq, cross, by),
         \A x \in Range(seq) : x \in cross \/ m \in cross \/ by[x] # by[m] \/ x <= m
  PROVE  InOrder(Append(seq, m), cross, by)
<1>. DEFINE r == Append(seq, m)
<1>1. /\ Len(seq) \in Nat /\ DOMAIN seq = 1..Len(seq)
      /\ DOMAIN r = 1..Len(seq) + 1 /\ r[Len(seq) + 1] = m
      /\ \A i \in 1..Len(seq) : r[i] = seq[i] /\ r[i] \in Range(seq)
  BY DEF Range
<1>. HIDE DEF r
<1>2. SUFFICES ASSUME NEW i \in DOMAIN r, NEW j \in DOMAIN r, i < j, by[r[i]] = by[r[j]],
                      r[i] \notin cross, r[j] \notin cross
               PROVE  r[i] <= r[j]
  BY DEF InOrder, r
<1>3. i \in 1..Len(seq)
  BY <1>1, <1>2
<1>4. CASE j \in 1..Len(seq)
  BY <1>1, <1>2, <1>3, <1>4 DEF InOrder
<1>5. CASE j = Len(seq) + 1
  BY <1>1, <1>2, <1>3, <1>5
<1>. QED BY <1>1, <1>4, <1>5

\* A client that receives a history shows its beginning.
LEMMA SendReplyInv ==
  ASSUME ChatAssumption, Inv, NEW u \in User, SendReply(u)
  PROVE  Inv'
<1>. USE DEF Inv
<1>1. UNCHANGED <<backend, written, author, stored, open, crossed, outside>>
  BY DEF SendReply
<1>2. /\ u \in open /\ History(todo[u])
      /\ todo' = [todo EXCEPT ![u] = Tail(todo[u])]
      /\ Tail(todo[u]) \in Seq(Work) /\ (Tail(todo[u]) = <<>> \/ History(Tail(todo[u])))
      /\ NoNewDue /\ KeepsWay
      /\ ~Loading(u) /\ ~Loading(u)' /\ ~Clearing(u)'
      /\ Clearing(u) => Pending(u)' = Pending(u) /\ view' = [view EXCEPT ![u] = <<>>]
      /\ ~Clearing(u) =>
           \E m \in Pending(u) : /\ Pending(u)' = Pending(u) \ {m}
                                 /\ \A n \in Pending(u)' : m < n
                                 /\ view' = [view EXCEPT ![u] = Append(@, m)]
      /\ \A v \in User \ {u} : /\ Loading(v)' <=> Loading(v)
                               /\ Clearing(v)' <=> Clearing(v)
                               /\ Pending(v)' = Pending(v)
  BY SendReplyWorks
<1>3. /\ todo \in [User -> Seq(Work)] /\ view \in [User -> Seq(Msg)] /\ open \subseteq User
      /\ \A m \in Msg : MessageFrame(m) \in Frame /\ DeletedFrame(m) \in Frame
      /\ \A v \in User : Pending(v) \subseteq Msg
  BY WorkTyped DEF TypeOK, Pending, PendingIn
<1>4. HandlersOK'
  <2>1. todo'[u] = Tail(todo[u]) /\ \A v \in User \ {u} : todo'[v] = todo[v]
    BY <1>2, <1>3
  <2>2. ASSUME NEW v \in User \ {u} PROVE HandlerOK(v)'
    BY <1>1, <2>1, OthersOK DEF LastOf
  <2>3. HandlerOK(u)'
    <3>1. (todo'[u] = <<>> \/ History(todo'[u])) /\ u \in open'
      BY <1>1, <1>2, <2>1
    <3>2. History(todo'[u]) => History(todo[u])'
      BY DEF History, RestOfHistory, ClearingIn
    <3>. QED BY <3>1, <3>2 DEF HandlerOK
  <2>. QED BY <2>2, <2>3 DEF HandlersOK
<1>5. todo' \in [User -> Seq(Work)]
  BY <1>2, <1>3
<1>6. OutsideOK'
  BY <1>1 DEF OutsideOK
<1>7. CASE Clearing(u)
  <2>1. /\ Pending(u)' = Pending(u) /\ view'[u] = <<>>
        /\ \A v \in User \ {u} : view'[v] = view[v]
        /\ view' \in [User -> Seq(Msg)]
    <3>1. <<>> \in Seq(Msg)
      OBVIOUS
    <3>2. Pending(u)' = Pending(u) /\ view' = [view EXCEPT ![u] = <<>>]
      BY <1>2, <1>7
    <3>. QED BY <1>3, <3>1, <3>2
  <2>2. TypeOK'
    BY <1>1, <1>5, <2>1 DEF TypeOK
  <2>3. SavedOK'
    BY <1>1, <1>2, <2>1, EmptyList DEF SavedOK
  <2>4. VisibleOK'
    <3>1. ASSUME NEW n \in Msg \ (crossed[u] \cup outside[u]), stored[n] = "visible"
          PROVE  n \in Pending(u)' \/ OnItsWay(MessageFrame(n), u)'
      BY <1>2, <1>3, <1>7, <2>1, <3>1 DEF VisibleOK, KeepsWay
    <3>2. ASSUME NEW v \in open, v # u,
                 NEW n \in Msg \ (crossed[v] \cup outside[v]), stored[n] = "visible", ~Loading(v)'
          PROVE  \/ n \in Pending(v)'
                 \/ n \in Range(view'[v]) /\ ~Clearing(v)'
                 \/ OnItsWay(MessageFrame(n), v)'
      BY <1>2, <1>3, <2>1, <3>2 DEF VisibleOK, KeepsWay
    <3>. QED BY <1>1, <3>1, <3>2 DEF VisibleOK
  <2>5. DeletedOK'
    BY <1>1, <1>2, <1>3, <1>7, <2>1, EmptyList, SMTT(30) DEF DeletedOK, KeepsWay
  <2>6. CopiesOK'
    BY <1>2, <2>1, EmptyList DEF CopiesOK, NoNewDue
  <2>7. OrderOK'
    BY <1>1, <2>1, EmptyList DEF OrderOK
  <2>8. AheadOK'
    BY <1>1, <1>2, <2>1, EmptyList, ZenonT(30) DEF AheadOK
  <2>. QED BY <1>4, <1>6, <2>2, <2>3, <2>4, <2>5, <2>6, <2>7, <2>8
<1>8. CASE ~Clearing(u)
  <2>1. PICK m \in Pending(u) : /\ Pending(u)' = Pending(u) \ {m}
                                /\ \A n \in Pending(u)' : m < n
                                /\ view' = [view EXCEPT ![u] = Append(@, m)]
    BY <1>2, <1>8
  <2>2. m \in Msg /\ m \in Pending(u) /\ view[u] \in Seq(Msg)
    BY <1>3
  <2>3. /\ view'[u] = Append(view[u], m) /\ \A v \in User \ {u} : view'[v] = view[v]
        /\ Append(view[u], m) \in Seq(Msg)
        /\ view' \in [User -> Seq(Msg)]
    BY <1>3, <2>1, <2>2
  <2>. DEFINE list == Append(view[u], m)
  <2>4. /\ Range(list) = Range(view[u]) \cup {m}
        /\ m \notin Range(view[u]) => NoTwo(list, m)
        /\ NoTwo(view[u], m) => NoThree(list, m)
        /\ \A n : n # m /\ NoTwo(view[u], n) => NoTwo(list, n)
        /\ \A n : n # m /\ NoThree(view[u], n) => NoThree(list, n)
    BY <2>2, AppendFacts
  <2>. HIDE DEF list
  <2>5. view'[u] = list
    BY <2>3 DEF list
  <2>6. TypeOK'
    BY <1>1, <1>5, <2>3 DEF TypeOK
  <2>7. SavedOK'
    BY <1>1, <1>2, <2>1, <2>2, <2>3, <2>4, <2>5 DEF SavedOK
  <2>8. VisibleOK'
    <3>1. ASSUME NEW n \in Msg \ (crossed[u] \cup outside[u]), stored[n] = "visible"
          PROVE  n \in Pending(u)' \/ n \in Range(view'[u]) \/ OnItsWay(MessageFrame(n), u)'
      BY <1>2, <1>3, <2>1, <2>4, <2>5, <3>1 DEF VisibleOK, KeepsWay
    <3>2. ASSUME NEW v \in open, v # u,
                 NEW n \in Msg \ (crossed[v] \cup outside[v]), stored[n] = "visible", ~Loading(v)'
          PROVE  \/ n \in Pending(v)'
                 \/ n \in Range(view'[v]) /\ ~Clearing(v)'
                 \/ OnItsWay(MessageFrame(n), v)'
      BY <1>2, <1>3, <2>3, <3>2 DEF VisibleOK, KeepsWay
    <3>. QED BY <1>1, <1>2, <3>1, <3>2 DEF VisibleOK
  <2>9. DeletedOK'
    <3>1. ASSUME NEW n \in Msg \ crossed[u], n \in Pending(u)' \/ n \in Range(view'[u])
          PROVE  stored[n] \in {"visible", "silent"} \/ OnItsWay(DeletedFrame(n), u)'
      BY <1>2, <1>3, <1>8, <2>1, <2>2, <2>4, <2>5, <3>1 DEF DeletedOK, KeepsWay
    <3>2. ASSUME NEW v \in open, v # u, NEW n \in Msg \ crossed[v],
                 \/ n \in Pending(v)'
                 \/ n \in Range(view'[v]) /\ ~Clearing(v)' /\ ~Loading(v)'
          PROVE  stored[n] \in {"visible", "silent"} \/ OnItsWay(DeletedFrame(n), v)'
      BY <1>2, <1>3, <2>3, <3>2 DEF DeletedOK, KeepsWay
    <3>. QED BY <1>1, <3>1, <3>2 DEF DeletedOK
  <2>10. CopiesOK'
    <3>1. ASSUME NEW n \in Msg
          PROVE  /\ NoThree(list, n)
                 /\ Due(n, u) => NoTwo(list, n)
                 /\ n \in Pending(u)' =>
                      NoTwo(list, n) /\ (Due(n, u) => n \notin Range(list))
      BY <1>8, <2>1, <2>2, <2>4 DEF CopiesOK
    <3>. QED BY <1>2, <2>3, <2>5, <3>1 DEF CopiesOK, NoNewDue
  <2>11. OrderOK'
    <3>1. \A x \in Range(view[u]) : x \in crossed[u] \/ x <= m
      <4>1. \A x \in Range(view[u]) : x \in Nat /\ m \in Nat
        BY <1>3, <2>2 DEF Range, Msg
      <4>. QED BY <1>8, <2>2, <4>1 DEF AheadOK
    <3>2. InOrder(list, crossed[u], author)
      BY <2>2, <3>1, AppendInOrder DEF OrderOK, list
    <3>. QED BY <1>1, <2>3, <2>5, <3>2 DEF OrderOK
  <2>12. AheadOK'
    BY <1>1, <1>2, <1>8, <2>1, <2>3, <2>4, <2>5 DEF AheadOK
  <2>. QED BY <1>4, <1>6, <2>6, <2>7, <2>8, <2>9, <2>10, <2>11, <2>12
<1>. QED BY <1>7, <1>8

\* A frame of a broadcast arrives, or crosses another one.
LEMMA SendOneInv ==
  ASSUME ChatAssumption, Inv, NEW u \in User, SendOne(u)
  PROVE  Inv'
<1>. USE DEF Inv
<1>1. UNCHANGED <<backend, written, author, stored, open, outside>>
  BY DEF SendOne
<1>2. PICK m \in Msg, f \in Frame, to \in SUBSET open : \E d \in to : Sent(u, m, f, to, d)
  BY SendOneWorks
<1>3. PICK d \in to : Sent(u, m, f, to, d)
  BY <1>2
<1>4. /\ u \in open /\ Announces(f, m) /\ f.id = m
      /\ f = MessageFrame(m) =>
           /\ LastOf(u, m) /\ Due(m, d) /\ ~Due(m, d)'
           /\ view' = [view EXCEPT ![d] = Append(@, m)]
      /\ f = DeletedFrame(m) => view' = [view EXCEPT ![d] = Only(@, Msg \ {m})]
      /\ todo[u] = <<SendWork(f, to)>>
      /\ todo' = [todo EXCEPT ![u] = Loop(f, to \ {d})]
      /\ crossed' = [crossed EXCEPT ![d] = IF Crosses(f, d) THEN @ \cup {m} ELSE @]
      /\ SameHistories /\ NoNewDue
      /\ \A g \in Frame, e \in User :
           OnItsWay(g, e) => OnItsWay(g, e)' \/ (g = f /\ e = d)
  BY <1>3 DEF Sent
<1>5. /\ todo \in [User -> Seq(Work)] /\ view \in [User -> Seq(Msg)] /\ open \in SUBSET User
      /\ crossed \in [User -> SUBSET Msg] /\ d \in User /\ d \in open
      /\ \A n \in Msg : MessageFrame(n) \in Frame /\ DeletedFrame(n) \in Frame
      /\ \A v \in User : Pending(v) \subseteq Msg
      /\ view[d] \in Seq(Msg) /\ m \in Msg /\ f \in Frame /\ to \in SUBSET open
  BY <1>2, <1>3, WorkTyped DEF TypeOK, Pending, PendingIn
<1>6. /\ \A n, k : MessageFrame(n) # DeletedFrame(k)
      /\ \A n, k : MessageFrame(n) = MessageFrame(k) => n = k
      /\ \A n, k : DeletedFrame(n) = DeletedFrame(k) => n = k
  BY FrameParts
<1>7. /\ crossed'[d] = IF Crosses(f, d) THEN crossed[d] \cup {m} ELSE crossed[d]
      /\ \A v \in User \ {d} : crossed'[v] = crossed[v]
      /\ \A v \in User : crossed[v] \subseteq crossed'[v]
      /\ crossed' \in [User -> SUBSET Msg]
  BY <1>4, <1>5
<1>8. Clearing(d) \/ Pending(d) # {} => m \in crossed'[d]
  BY <1>5, <1>7, PendingReplies DEF Crosses
<1>9. f = MessageFrame(m) /\ m \notin crossed'[d] =>
        stored[m] # "deleted" \/ OnItsWay(DeletedFrame(m), d)
  BY <1>4, <1>5, <1>7, FrameParts DEF Crosses
<1>10. HandlersOK'
  <2>1. \A v \in User \ {u} : todo'[v] = todo[v]
    BY <1>4, <1>5
  <2>2. todo'[u] = Loop(f, to \ {d})
    BY <1>4, <1>5
  <2>3. ASSUME NEW v \in User \ {u} PROVE HandlerOK(v)'
    BY <1>1, <2>1, OthersOK DEF LastOf
  <2>4. HandlerOK(u)'
    <3>1. todo'[u] = <<>> \/ Broadcasts(u, f)'
      <4>1. to \ {d} \in SUBSET open'
        BY <1>1, <1>5
      <4>. QED BY <2>2, <4>1 DEF Loop, Broadcasts
    <3>2. LastOf(u, m) => LastOf(u, m)'
      BY <1>1 DEF LastOf
    <3>. QED BY <1>1, <1>4, <1>5, <3>1, <3>2 DEF HandlerOK, Announces
  <2>. QED BY <2>3, <2>4 DEF HandlersOK
<1>11. OutsideOK'
  BY <1>1 DEF OutsideOK
<1>12. todo' \in [User -> Seq(Work)]
  <2>1. to \ {d} \in SUBSET User
    BY <1>5
  <2>2. Loop(f, to \ {d}) \in Seq(Work)
    BY <1>5, <2>1, LoopingWork
  <2>. QED BY <1>4, <1>5, <2>2
<1>13. CASE f = MessageFrame(m)
  <2>. DEFINE list == Append(view[d], m)
  <2>1. /\ list \in Seq(Msg)
        /\ Range(list) = Range(view[d]) \cup {m}
        /\ m \notin Range(view[d]) => NoTwo(list, m)
        /\ NoTwo(view[d], m) => NoThree(list, m)
        /\ \A n : n # m /\ NoTwo(view[d], n) => NoTwo(list, n)
        /\ \A n : n # m /\ NoThree(view[d], n) => NoThree(list, n)
    BY <1>5, AppendFacts
  <2>2. LastOf(u, m) /\ Due(m, d) /\ ~Due(m, d)' /\ stored[m] # "unsaved"
    BY <1>4, <1>6, <1>13 DEF Announces
  <2>3. InOrder(list, crossed'[d], author)
    <3>1. InOrder(view[d], crossed'[d], author)
      BY <1>5, <1>7 DEF OrderOK, InOrder
    <3>2. ASSUME NEW x \in Range(view[d]), author[x] = author[m]
          PROVE  x <= m
      <4>1. x \in Msg /\ x <= written
        BY <1>5 DEF SavedOK, Range
      <4>. QED BY <2>2, <3>2, <4>1 DEF LastOf, Msg
    <3>. QED BY <1>5, <3>1, <3>2, AppendInOrder
  <2>4. view' = [view EXCEPT ![d] = list]
    BY <1>4, <1>5, <1>13
  <2>. HIDE DEF list
  <2>5. /\ view'[d] = list /\ \A v \in User \ {d} : view'[v] = view[v]
        /\ view' \in [User -> Seq(Msg)]
    BY <1>5, <2>1, <2>4
  <2>6. TypeOK'
    BY <1>1, <1>7, <1>12, <2>5 DEF TypeOK
  <2>7. SavedOK'
    BY <1>1, <1>4, <2>1, <2>2, <2>5 DEF SavedOK, SameHistories
  <2>8. VisibleOK'
    <3>1. ASSUME NEW n \in Msg \ (crossed'[d] \cup outside[d]), stored[n] = "visible", ~Loading(d)
          PROVE  \/ n \in Pending(d)
                 \/ n \in Range(view'[d]) /\ ~Clearing(d)
                 \/ OnItsWay(MessageFrame(n), d)'
      <4>1. CASE n = m
        BY <1>8, <2>1, <2>5, <4>1
      <4>2. CASE n # m
        <5>1. \/ n \in Pending(d)
              \/ n \in Range(view[d]) /\ ~Clearing(d)
              \/ OnItsWay(MessageFrame(n), d)
          BY <1>5, <1>7, <3>1 DEF VisibleOK
        <5>2. OnItsWay(MessageFrame(n), d) => OnItsWay(MessageFrame(n), d)'
          BY <1>4, <1>5, <1>6, <1>13, <4>2
        <5>. QED BY <2>1, <2>5, <5>1, <5>2
      <4>. QED BY <4>1, <4>2
    <3>2. ASSUME NEW v \in open, v # d,
                 NEW n \in Msg \ (crossed'[v] \cup outside[v]), stored[n] = "visible", ~Loading(v)
          PROVE  \/ n \in Pending(v)
                 \/ n \in Range(view'[v]) /\ ~Clearing(v)
                 \/ OnItsWay(MessageFrame(n), v)'
      BY <1>4, <1>5, <1>7, <2>5, <3>2 DEF VisibleOK
    <3>. QED BY <1>1, <1>4, <1>5, <3>1, <3>2 DEF VisibleOK, SameHistories
  <2>9. DeletedOK'
    <3>1. ASSUME NEW n \in Msg \ crossed'[d],
                 \/ n \in Pending(d)
                 \/ n \in Range(view'[d]) /\ ~Clearing(d) /\ ~Loading(d)
          PROVE  stored[n] \in {"visible", "silent"} \/ OnItsWay(DeletedFrame(n), d)'
      <4>1. CASE n = m
        <5>1. stored[m] \in {"unsaved", "visible", "deleted", "silent"}
          BY <1>5 DEF TypeOK
        <5>. QED BY <1>4, <1>5, <1>6, <1>9, <1>13, <2>2, <3>1, <4>1, <5>1
      <4>2. CASE n # m
        BY <1>4, <1>5, <1>6, <1>7, <1>13, <2>1, <2>5, <3>1, <4>2 DEF DeletedOK
      <4>. QED BY <4>1, <4>2
    <3>2. ASSUME NEW v \in open, v # d, NEW n \in Msg \ crossed'[v],
                 \/ n \in Pending(v)
                 \/ n \in Range(view'[v]) /\ ~Clearing(v) /\ ~Loading(v)
          PROVE  stored[n] \in {"visible", "silent"} \/ OnItsWay(DeletedFrame(n), v)'
      BY <1>4, <1>5, <1>7, <2>5, <3>2 DEF DeletedOK
    <3>. QED BY <1>1, <1>4, <1>5, <3>1, <3>2 DEF DeletedOK, SameHistories
  <2>10. CopiesOK'
    <3>1. ASSUME NEW n \in Msg
          PROVE  /\ NoThree(list, n)
                 /\ Due(n, d)' => NoTwo(list, n)
                 /\ n \in Pending(d) /\ ~Clearing(d) =>
                      NoTwo(list, n) /\ (Due(n, d)' => n \notin Range(list))
      <4>1. CASE n = m
        BY <1>5, <2>1, <2>2, <4>1 DEF CopiesOK
      <4>2. CASE n # m
        BY <1>4, <1>5, <2>1, <4>2 DEF CopiesOK, NoNewDue
      <4>. QED BY <4>1, <4>2
    <3>2. ASSUME NEW v \in User, v # d, NEW n \in Msg
          PROVE  /\ NoThree(view[v], n)
                 /\ Due(n, v)' => NoTwo(view[v], n)
                 /\ n \in Pending(v) /\ ~Clearing(v) =>
                      NoTwo(view[v], n) /\ (Due(n, v)' => n \notin Range(view[v]))
      BY <1>4 DEF CopiesOK, NoNewDue
    <3>3. ASSUME NEW v \in User, NEW n \in Msg
          PROVE  /\ NoThree(view'[v], n)
                 /\ Due(n, v)' => NoTwo(view'[v], n)
                 /\ n \in Pending(v) /\ ~Clearing(v) =>
                      NoTwo(view'[v], n) /\ (Due(n, v)' => n \notin Range(view'[v]))
      <4>1. CASE v = d
        BY <2>5, <3>1, <4>1
      <4>2. CASE v # d
        BY <2>5, <3>2, <4>2
      <4>. QED BY <4>1, <4>2
    <3>. QED BY <1>4, <3>3 DEF CopiesOK, SameHistories
  <2>11. OrderOK'
    BY <1>1, <1>7, <2>3, <2>5 DEF OrderOK
  <2>12. AheadOK'
    <3>1. ASSUME ~Clearing(d), NEW x \in Range(view'[d]), NEW n \in Pending(d)
          PROVE  x \in crossed'[d] \/ x < n
      BY <1>5, <1>7, <1>8, <2>1, <2>5, <3>1 DEF AheadOK
    <3>2. ASSUME NEW v \in User, v # d, ~Clearing(v), NEW x \in Range(view'[v]), NEW n \in Pending(v)
          PROVE  x \in crossed'[v] \/ x < n
      BY <1>7, <2>5, <3>2 DEF AheadOK
    <3>. QED BY <1>4, <3>1, <3>2 DEF AheadOK, SameHistories
  <2>. QED BY <1>10, <1>11, <2>6, <2>7, <2>8, <2>9, <2>10, <2>11, <2>12
<1>14. CASE f = DeletedFrame(m)
  <2>. DEFINE list == Only(view[d], Msg \ {m})
  <2>1. /\ list \in Seq(Msg)
        /\ Range(list) = Range(view[d]) \cap (Msg \ {m})
        /\ \A n : NoTwo(view[d], n) => NoTwo(list, n)
        /\ \A n : NoThree(view[d], n) => NoThree(list, n)
        /\ \A cross, by : InOrder(view[d], cross, by) => InOrder(list, cross, by)
    BY <1>5, OnlyFacts
  <2>2. stored[m] = "deleted"
    BY <1>4, <1>6, <1>14 DEF Announces
  <2>3. InOrder(list, crossed'[d], author)
    <3>1. InOrder(view[d], crossed'[d], author)
      BY <1>5, <1>7 DEF OrderOK, InOrder
    <3>. QED BY <2>1, <3>1
  <2>4. view' = [view EXCEPT ![d] = list]
    BY <1>4, <1>5, <1>14
  <2>. HIDE DEF list
  <2>5. /\ view'[d] = list /\ \A v \in User \ {d} : view'[v] = view[v]
        /\ view' \in [User -> Seq(Msg)]
    BY <1>5, <2>1, <2>4
  <2>6. TypeOK'
    BY <1>1, <1>7, <1>12, <2>5 DEF TypeOK
  <2>7. SavedOK'
    BY <1>1, <1>4, <2>1, <2>5, SMTT(30) DEF SavedOK, SameHistories
  <2>8. VisibleOK'
    <3>1. ASSUME NEW v \in open,
                 NEW n \in Msg \ (crossed'[v] \cup outside[v]), stored[n] = "visible", ~Loading(v)
          PROVE  \/ n \in Pending(v)
                 \/ n \in Range(view'[v]) /\ ~Clearing(v)
                 \/ OnItsWay(MessageFrame(n), v)'
      <4>1. n # m /\ (n \in Range(view[v]) => n \in Range(view'[v]))
        BY <1>5, <2>1, <2>2, <2>5, <3>1
      <4>. QED BY <1>4, <1>5, <1>6, <1>7, <1>14, <3>1, <4>1 DEF VisibleOK
    <3>. QED BY <1>1, <1>4, <1>5, <3>1 DEF VisibleOK, SameHistories
  <2>9. DeletedOK'
    <3>1. ASSUME NEW v \in open, NEW n \in Msg \ crossed'[v],
                 \/ n \in Pending(v)
                 \/ n \in Range(view'[v]) /\ ~Clearing(v) /\ ~Loading(v)
          PROVE  stored[n] \in {"visible", "silent"} \/ OnItsWay(DeletedFrame(n), v)'
      <4>1. ~(n = m /\ v = d)
        BY <1>8, <2>1, <2>5, <3>1
      <4>2. n \in Range(view'[v]) => n \in Range(view[v])
        BY <1>5, <2>1, <2>5
      <4>. QED BY <1>4, <1>5, <1>6, <1>7, <1>14, <3>1, <4>1, <4>2 DEF DeletedOK
    <3>. QED BY <1>1, <1>4, <1>5, <3>1 DEF DeletedOK, SameHistories
  <2>10. CopiesOK'
    <3>1. ASSUME NEW v \in User, NEW n \in Msg
          PROVE  /\ NoTwo(view[v], n) => NoTwo(view'[v], n)
                 /\ NoThree(view[v], n) => NoThree(view'[v], n)
                 /\ n \notin Range(view[v]) => n \notin Range(view'[v])
      BY <2>1, <2>5
    <3>. QED BY <1>4, <3>1 DEF CopiesOK, SameHistories, NoNewDue
  <2>11. OrderOK'
    BY <1>1, <1>7, <2>3, <2>5 DEF OrderOK
  <2>12. AheadOK'
    <3>1. \A v \in User : Range(view'[v]) \subseteq Range(view[v])
      BY <2>1, <2>5
    <3>. QED BY <1>4, <1>7, <3>1 DEF AheadOK, SameHistories
  <2>. QED BY <1>10, <1>11, <2>6, <2>7, <2>8, <2>9, <2>10, <2>11, <2>12
<1>. QED BY <1>4, <1>13, <1>14 DEF Announces

\* The invariant holds at the start.
LEMMA InitInv == ChatAssumption /\ Init => Inv
<1>. SUFFICES ASSUME ChatAssumption, Init PROVE Inv
  OBVIOUS
<1>1. /\ todo = [v \in User |-> <<>>] /\ view = [v \in User |-> <<>>] /\ open = {}
      /\ crossed = [v \in User |-> {}] /\ outside = [v \in User |-> {}]
      /\ stored = [m \in Msg |-> "unsaved"] /\ written = 0 /\ author = <<>>
      /\ backend \in {"memory", "postgres"}
  BY DEF Init
<1>2. /\ Nothing(<<>>) /\ <<>> \in Seq(Work) /\ <<>> \in Seq(Msg)
      /\ <<>> \in [1..0 -> User] /\ 0 \in 0..MaxMsgs
  BY EmptyWork, ChatAssumption
<1>3. TypeOK
  BY <1>1, <1>2 DEF TypeOK
<1>4. \A v \in User : /\ ~Loading(v) /\ ~Clearing(v) /\ Pending(v) = {}
                      /\ \A m \in Msg : ~Due(m, v)
  BY <1>1, <1>2 DEF Nothing, Loading, Clearing, Pending, Due
<1>5. HandlersOK
  BY <1>1 DEF HandlersOK, HandlerOK
<1>6. SavedOK /\ VisibleOK /\ DeletedOK /\ OutsideOK /\ CopiesOK /\ OrderOK /\ AheadOK
  BY <1>1, <1>4, EmptyList
  DEF SavedOK, VisibleOK, DeletedOK, OutsideOK, CopiesOK, OrderOK, AheadOK
<1>. QED BY <1>3, <1>5, <1>6 DEF Inv

\* It is inductive.
LEMMA StepInv == ChatAssumption /\ Inv /\ [Next]_vars => Inv'
<1>. SUFFICES ASSUME ChatAssumption, Inv, [Next]_vars PROVE Inv'
  OBVIOUS
<1>1. CASE UNCHANGED vars
  <2>. USE <1>1 DEF vars, Inv
  <2>1. /\ \A v \in User : /\ Loading(v)' <=> Loading(v)
                           /\ Clearing(v)' <=> Clearing(v)
                           /\ Pending(v)' = Pending(v)
        /\ \A f \in Frame, d \in User : OnItsWay(f, d)' <=> OnItsWay(f, d)
        /\ \A m \in Msg, d \in User : Due(m, d)' <=> Due(m, d)
        /\ \A m \in Msg : MessageFrame(m) \in Frame /\ DeletedFrame(m) \in Frame
    BY WorkTyped DEF Loading, Clearing, Pending, OnItsWay, Due
  <2>2. TypeOK'
    BY DEF TypeOK
  <2>3. HandlersOK'
    BY DEF HandlersOK, HandlerOK, Broadcasts, LastOf
  <2>4. SavedOK' /\ OutsideOK' /\ OrderOK' /\ AheadOK'
    BY <2>1 DEF SavedOK, OutsideOK, OrderOK, AheadOK
  <2>5. VisibleOK' /\ DeletedOK'
    BY <2>1 DEF VisibleOK, DeletedOK, TypeOK
  <2>6. CopiesOK'
    BY <2>1 DEF CopiesOK
  <2>. QED BY <2>2, <2>3, <2>4, <2>5, <2>6
<1>2. ASSUME NEW u \in User, NEW m \in Msg, DeleteMessage(u, m)
      PROVE  Inv'
  BY <1>2, DeleteMessageInv
<1>3. ASSUME NEW u \in User,
             \/ Connect(u) \/ Disconnect(u) \/ JoinChannel(u) \/ SendMessage(u)
             \/ Handle(u)
      PROVE  Inv'
  BY <1>3, ConnectInv, DisconnectInv, JoinChannelInv, SendMessageInv, SaveInv, DeleteInv,
     LoadHistoryInv, SendReplyInv, CollectTargetsInv, SendOneInv DEF Handle
<1>. QED BY <1>1, <1>2, <1>3 DEF Next

\* It always holds.
LEMMA Invariance == Spec => []Inv
BY InitInv, StepInv, ChatAssumption, PTL DEF Spec

-----------------------------------------------------------------------------
(* What the text channel promises.                                         *)

\* The variables of the channel keep their types.
THEOREM TypeCorrect == Spec => []TypeOK
BY Invariance, PTL DEF Inv

\* Once no handler is running, every list agrees with the storage about each
\* message whose frames did not cross.
THEOREM Converges == Spec => []ListsConverge
<1>1. Inv => ListsConverge
  <2>. SUFFICES ASSUME Inv, Settled,
                       NEW u \in open, NEW m \in Msg \ crossed[u]
                PROVE  /\ stored[m] = "visible" /\ m \notin outside[u] => m \in Range(view[u])
                       /\ m \in Range(view[u]) => stored[m] \in {"visible", "silent"}
    BY DEF ListsConverge
  <2>1. \A v \in User : todo[v] = <<>>
    BY DEF Settled
  <2>2. ~Loading(u) /\ ~Clearing(u) /\ Pending(u) = {} /\ u \in User
    BY <2>1, EmptyWork DEF Nothing, Loading, Clearing, Pending, Inv, TypeOK
  <2>3. \A f : ~OnItsWay(f, u)
    BY <2>1 DEF OnItsWay
  <2>. QED BY <2>2, <2>3 DEF Inv, VisibleOK, DeletedOK
<1>. QED BY <1>1, Invariance, PTL

\* No list ever shows a message three times, nor an author's messages in
\* another order than they were written in.
THEOREM InOrderAndTwice == Spec => []ListsInOrder
<1>1. Inv => ListsInOrder
  <2>. SUFFICES ASSUME Inv PROVE AtMostTwice /\ AuthorsInOrder
    BY DEF ListsInOrder
  <2>1. \A u \in open : u \in User /\ view[u] \in Seq(Msg)
    BY DEF Inv, TypeOK
  <2>2. AtMostTwice
    <3>1. ASSUME NEW u \in open, NEW m \in Msg
          PROVE  Cardinality({i \in DOMAIN view[u] : view[u][i] = m}) <= 2
      <4>1. NoThree(view[u], m)
        BY <2>1 DEF Inv, CopiesOK
      <4>. QED BY <2>1, <4>1, NoThreeCounts
    <3>. QED BY <3>1 DEF AtMostTwice
  <2>3. AuthorsInOrder
    BY <2>1 DEF AuthorsInOrder, Inv, OrderOK, InOrder
  <2>. QED BY <2>2, <2>3
<1>. QED BY <1>1, Invariance, PTL

\* With messages in memory, nobody misses the newest one.
THEOREM NewestShown == Spec => []NewestIsShown
<1>1. Inv => NewestIsShown
  <2>. SUFFICES ASSUME Inv, Settled, backend = "memory",
                       NEW u \in open, NEW m \in Visible \ crossed[u],
                       \A n \in Msg : n > m => stored[n] = "unsaved"
                PROVE  m \in Range(view[u])
    BY DEF NewestIsShown
  <2>1. m \in Msg /\ stored[m] = "visible" /\ u \in User
    BY DEF Visible, Inv, TypeOK
  <2>2. m \notin outside[u]
    BY <2>1 DEF Inv, OutsideOK
  <2>3. \A v \in User : todo[v] = <<>>
    BY DEF Settled
  <2>4. ~Loading(u) /\ ~Clearing(u) /\ Pending(u) = {}
    BY <2>1, <2>3, EmptyWork DEF Nothing, Loading, Clearing, Pending
  <2>5. \A f : ~OnItsWay(f, u)
    BY <2>3 DEF OnItsWay
  <2>. QED BY <2>1, <2>2, <2>4, <2>5 DEF Inv, VisibleOK
<1>. QED BY <1>1, Invariance, PTL

=============================================================================
