-------------------------- MODULE VoiceWorker_proofs --------------------------
(***************************************************************************)
(* Proofs about VoiceWorker, for any lengths of frames and chunks, any     *)
(* hangover, number of peers and channels, and any size of the playback    *)
(* queue that WorkerAssumption allows.                                     *)
(***************************************************************************)
EXTENDS VoiceWorker, SequenceTheorems, WellFoundedInduction, TLAPS

-----------------------------------------------------------------------------
(* Induction for a set, and what FlattenSeq does at the end of a sequence. *)

LEMMA SetInduction ==
  ASSUME NEW S, 0 \in S, \A n \in Nat : n \in S => n + 1 \in S
  PROVE  Nat \subseteq S
  <1> DEFINE T == Nat \ S
  <1>1. SUFFICES ASSUME T # {} PROVE FALSE
    OBVIOUS
  <1>2. PICK n \in T : \A m \in T : <<m, n>> \notin OpToRel(<, Nat)
    BY <1>1, NatLessThanWellFounded, WFMin
  <1>3. n - 1 \in Nat /\ n - 1 < n /\ (n - 1) + 1 = n
    <2>1. n \in Nat /\ n # 0
      BY <1>2
    <2> QED
      BY <2>1
  <1>4. <<n - 1, n>> \in OpToRel(<, Nat)
    BY <1>3 DEF OpToRel
  <1>5. n - 1 \in S
    BY <1>2, <1>3, <1>4
  <1> QED
    BY <1>3, <1>5

\* f computes how the first n sequences of s follow one another.
Flat(f, s, n) == f = [i \in 1..n |-> IF i = 1 THEN s[i] ELSE f[i - 1] \o s[i]]

LEMMA FlatNext ==
  ASSUME NEW f, NEW s, NEW n \in Nat, n > 0, Flat(f, s, n), NEW t,
         \A i \in 1..n : t[i] = s[i]
  PROVE  Flat([i \in 1..n + 1 |-> IF i = n + 1 THEN f[n] \o t[i] ELSE f[i]], t, n + 1)
  <1> DEFINE g == [i \in 1..n + 1 |-> IF i = n + 1 THEN f[n] \o t[i] ELSE f[i]]
  <1>1. \A i \in 1..n : f[i] = IF i = 1 THEN s[i] ELSE f[i - 1] \o s[i]
    BY DEF Flat
  <1>2. \A i \in 1..n : g[i] = f[i]
    OBVIOUS
  <1>3. g[n + 1] = g[n] \o t[n + 1] /\ n + 1 # 1
    <2>1. n \in 1..n /\ n + 1 \in 1..n + 1 /\ n + 1 # 1
      OBVIOUS
    <2>2. g[n] = f[n]
      BY <1>2, <2>1
    <2>3. g[n + 1] = f[n] \o t[n + 1]
      BY <2>1
    <2> QED
      BY <2>1, <2>2, <2>3
  <1>4. g = [i \in 1..n + 1 |-> g[i]]
    OBVIOUS
  <1> HIDE DEF g
  <1>5. \A i \in 1..n + 1 : g[i] = IF i = 1 THEN t[i] ELSE g[i - 1] \o t[i]
    <2> TAKE i \in 1..n + 1
    <2>1. CASE i = n + 1
      <3>1. (n + 1) - 1 = n
        OBVIOUS
      <3> QED
        BY <1>3, <2>1, <3>1
    <2>2. CASE i \in 1..n /\ i # 1
      <3>1. i - 1 \in 1..n
        BY <2>2
      <3> QED
        BY <1>1, <1>2, <2>2, <3>1
    <2>3. CASE i = 1
      BY <1>1, <1>2, <2>3
    <2> QED
      BY <2>1, <2>2, <2>3
  <1>6. g = [i \in 1..n + 1 |-> IF i = 1 THEN t[i] ELSE g[i - 1] \o t[i]]
    BY <1>4, <1>5
  <1>7. Flat(g, t, n + 1)
    BY <1>6 DEF Flat
  <1> QED
    BY <1>7 DEF g

LEMMA FlatExists ==
  ASSUME NEW s
  PROVE  \A n \in Nat : n > 0 => \E f : Flat(f, s, n)
  <1> DEFINE T == {n \in Nat : \E f : Flat(f, s, n + 1)}
  <1>1. 0 \in T
    <2>1. Flat([i \in 1..1 |-> s[1]], s, 1)
      BY DEF Flat
    <2> QED
      BY <2>1
  <1>2. ASSUME NEW n \in Nat, n \in T
        PROVE  n + 1 \in T
    <2>1. PICK f : Flat(f, s, n + 1)
      BY <1>2
    <2>2. n + 1 \in Nat /\ n + 1 > 0 /\ \A i \in 1..n + 1 : s[i] = s[i]
      OBVIOUS
    <2>3. \E g : Flat(g, s, (n + 1) + 1)
      BY <2>1, <2>2, FlatNext
    <2> QED
      BY <2>3
  <1>3. Nat \subseteq T
    <2> HIDE DEF T
    <2> QED
      BY <1>1, <1>2, SetInduction
  <1>4. ASSUME NEW n \in Nat, n > 0
        PROVE  \E f : Flat(f, s, n)
    <2>1. n - 1 \in T /\ (n - 1) + 1 = n
      BY <1>3, <1>4
    <2> QED
      BY <2>1
  <1> QED
    BY <1>4

LEMMA FlatUnique ==
  ASSUME NEW s, NEW f, NEW g, NEW n \in Nat, Flat(f, s, n), Flat(g, s, n)
  PROVE  \A i \in 1..n : f[i] = g[i]
  <1> DEFINE T == {i \in Nat : i + 1 <= n => f[i + 1] = g[i + 1]}
  <1>1. /\ \A i \in 1..n : f[i] = IF i = 1 THEN s[i] ELSE f[i - 1] \o s[i]
        /\ \A i \in 1..n : g[i] = IF i = 1 THEN s[i] ELSE g[i - 1] \o s[i]
    BY DEF Flat
  <1>2. 0 \in T
    BY <1>1
  <1>3. ASSUME NEW i \in Nat, i \in T
        PROVE  i + 1 \in T
    <2> SUFFICES ASSUME (i + 1) + 1 <= n
                 PROVE  f[(i + 1) + 1] = g[(i + 1) + 1]
      OBVIOUS
    <2>1. (i + 1) + 1 \in 1..n /\ (i + 1) + 1 # 1 /\ ((i + 1) + 1) - 1 = i + 1 /\ i + 1 <= n
      OBVIOUS
    <2> QED
      BY <1>1, <1>3, <2>1
  <1>4. Nat \subseteq T
    <2> HIDE DEF T
    <2> QED
      BY <1>2, <1>3, SetInduction
  <1>5. ASSUME NEW i \in 1..n
        PROVE  f[i] = g[i]
    <2>1. i - 1 \in T /\ (i - 1) + 1 = i /\ i <= n
      BY <1>4
    <2> QED
      BY <2>1
  <1> QED
    BY <1>5

LEMMA FlattenValue ==
  ASSUME NEW s, NEW f, Len(s) \in Nat, Len(s) > 0, Flat(f, s, Len(s))
  PROVE  FlattenSeq(s) = f[Len(s)]
  <1> DEFINE g == CHOOSE g : Flat(g, s, Len(s))
  <1>1. Flat(g, s, Len(s))
    OBVIOUS
  <1>2. FlattenSeq(s) = g[Len(s)]
    BY DEF FlattenSeq, Flat
  <1> HIDE DEF g
  <1>3. g[Len(s)] = f[Len(s)]
    BY <1>1, FlatUnique
  <1> QED
    BY <1>2, <1>3

\* One more sequence at the end.
LEMMA FlattenAppend ==
  ASSUME NEW S, NEW s \in Seq(Seq(S)), NEW x \in Seq(S)
  PROVE  FlattenSeq(Append(s, x)) = FlattenSeq(s) \o x
  <1> DEFINE t == Append(s, x)
  <1>1. /\ Len(s) \in Nat /\ Len(t) = Len(s) + 1 /\ t[Len(s) + 1] = x
        /\ \A i \in 1..Len(s) : t[i] = s[i]
    OBVIOUS
  <1> HIDE DEF t
  <1>2. CASE Len(s) = 0
    <2>1. FlattenSeq(s) = <<>>
      BY <1>2 DEF FlattenSeq
    <2> DEFINE f == [i \in 1..1 |-> t[1]]
    <2>2. Flat(f, t, 1) /\ f[1] = t[1]
      BY DEF Flat
    <2> HIDE DEF f
    <2>3. Len(t) = 1 /\ t[1] = x
      BY <1>1, <1>2
    <2>4. FlattenSeq(t) = f[1]
      <3>1. Len(t) \in Nat /\ Len(t) > 0 /\ Flat(f, t, Len(t))
        BY <2>2, <2>3
      <3>2. FlattenSeq(t) = f[Len(t)]
        BY <3>1, FlattenValue
      <3> QED
        BY <2>3, <3>2
    <2> QED
      BY <1>2, <2>1, <2>2, <2>3, <2>4 DEF t
  <1>3. CASE Len(s) > 0
    <2>1. PICK f : Flat(f, s, Len(s))
      BY <1>1, <1>3, FlatExists
    <2> DEFINE g == [i \in 1..Len(s) + 1 |-> IF i = Len(s) + 1 THEN f[Len(s)] \o t[i] ELSE f[i]]
    <2>2. Flat(g, t, Len(s) + 1)
      BY <1>1, <1>3, <2>1, FlatNext
    <2>3. g[Len(s) + 1] = f[Len(s)] \o x
      <3>1. Len(s) + 1 \in 1..Len(s) + 1
        BY <1>1
      <3> QED
        BY <1>1, <3>1
    <2> HIDE DEF g
    <2>4. FlattenSeq(t) = g[Len(s) + 1]
      BY <1>1, <1>3, <2>2, FlattenValue
    <2>5. FlattenSeq(s) = f[Len(s)]
      BY <1>1, <1>3, <2>1, FlattenValue
    <2> QED
      BY <2>3, <2>4, <2>5 DEF t
  <1> QED
    BY <1>1, <1>2, <1>3

-----------------------------------------------------------------------------
(* Runs of samples of the microphone, and how they are cut.                *)

\* n samples, from the one after a.
Run(a, n) == [i \in 1..n |-> a + i]

LEMMA RunType ==
  ASSUME NEW a \in Nat, NEW n \in Nat
  PROVE  /\ Run(a, n) \in Seq(Nat) /\ Len(Run(a, n)) = n
         /\ \A i \in 1..n : Run(a, n)[i] = a + i
  BY DEF Run

LEMMA RunConcat ==
  ASSUME NEW a \in Nat, NEW m \in Nat, NEW n \in Nat
  PROVE  Run(a, m) \o Run(a + m, n) = Run(a, m + n)
  <1> DEFINE s == Run(a, m)  t == Run(a + m, n)  u == Run(a, m + n)
  <1>0. a + m \in Nat /\ m + n \in Nat
    OBVIOUS
  <1>1. /\ s \in Seq(Nat) /\ Len(s) = m /\ t \in Seq(Nat) /\ Len(t) = n
        /\ u \in Seq(Nat) /\ Len(u) = m + n
    BY <1>0, RunType
  <1>2. /\ \A i \in 1..m : s[i] = a + i
        /\ \A i \in 1..n : t[i] = a + m + i
        /\ \A i \in 1..m + n : u[i] = a + i
    BY <1>0, RunType
  <1> HIDE DEF s, t, u
  <1>3. /\ s \o t \in Seq(Nat) /\ Len(s \o t) = m + n
        /\ \A i \in 1..m + n : (s \o t)[i] = IF i <= m THEN s[i] ELSE t[i - m]
    BY <1>1, ConcatProperties
  <1>4. ASSUME NEW i \in 1..m + n
        PROVE  (s \o t)[i] = u[i]
    <2>1. CASE i <= m
      BY <1>2, <1>3, <2>1
    <2>2. CASE ~(i <= m)
      <3>1. i - m \in 1..n /\ a + m + (i - m) = a + i
        BY <2>2
      <3> QED
        BY <1>2, <1>3, <2>2, <3>1
    <2> QED
      BY <2>1, <2>2
  <1>5. s \o t = u
    BY <1>1, <1>3, <1>4, SeqEqual
  <1> QED
    BY <1>5 DEF s, t, u

LEMMA RunPart ==
  ASSUME NEW a \in Nat, NEW n \in Nat, NEW x \in Nat, NEW m \in Nat, x + m <= n
  PROVE  SubSeq(Run(a, n), x + 1, x + m) = Run(a + x, m)
  BY DEF Run

\* Frames of one length that follow one another make one run.
LEMMA FlattenRuns ==
  ASSUME NEW a \in Nat, NEW s \in Seq(Seq(Nat)),
         \A k \in 1..Len(s) : s[k] = Run(a + (k - 1) * FrameLen, FrameLen)
  PROVE  FlattenSeq(s) = Run(a, Len(s) * FrameLen)
  <1>0. Len(s) \in Nat /\ FrameLen \in Nat
    BY WorkerAssumption
  <1>1. CASE Len(s) = 0
    <2>1. FlattenSeq(s) = <<>> /\ Len(s) * FrameLen = 0
      BY <1>0, <1>1 DEF FlattenSeq
    <2> QED
      BY <2>1 DEF Run
  <1>2. CASE Len(s) > 0
    <2>1. PICK f : Flat(f, s, Len(s))
      BY <1>0, <1>2, FlatExists
    <2> DEFINE T == {n \in Nat : n + 1 <= Len(s) => f[n + 1] = Run(a, (n + 1) * FrameLen)}
    <2>2. \A i \in 1..Len(s) : f[i] = IF i = 1 THEN s[i] ELSE f[i - 1] \o s[i]
      BY <2>1 DEF Flat
    <2>3. 0 \in T
      <3>1. f[1] = s[1] /\ s[1] = Run(a + 0 * FrameLen, FrameLen)
        BY <1>0, <1>2, <2>2
      <3>2. a + 0 * FrameLen = a /\ (0 + 1) * FrameLen = FrameLen
        BY <1>0
      <3> QED
        BY <3>1, <3>2
    <2>4. ASSUME NEW n \in Nat, n \in T
          PROVE  n + 1 \in T
      <3> SUFFICES ASSUME (n + 1) + 1 <= Len(s)
                   PROVE  f[(n + 1) + 1] = Run(a, ((n + 1) + 1) * FrameLen)
        OBVIOUS
      <3> DEFINE m == n + 1
      <3>1. m + 1 \in 1..Len(s) /\ m + 1 # 1 /\ (m + 1) - 1 = m /\ m \in Nat
        BY <1>0
      <3>2. f[m] = Run(a, m * FrameLen)
        BY <2>4, <3>1
      <3> HIDE DEF m
      <3>3. f[m + 1] = Run(a, m * FrameLen) \o Run(a + m * FrameLen, FrameLen)
        <4>1. f[m + 1] = f[m] \o s[m + 1]
          BY <2>2, <3>1
        <4>2. s[m + 1] = Run(a + m * FrameLen, FrameLen)
          BY <3>1
        <4> QED
          BY <3>2, <4>1, <4>2
      <3>4. m * FrameLen \in Nat /\ m * FrameLen + FrameLen = (m + 1) * FrameLen
        BY <1>0, <3>1
      <3>5. Run(a, m * FrameLen) \o Run(a + m * FrameLen, FrameLen)
              = Run(a, m * FrameLen + FrameLen)
        BY <1>0, <3>4, RunConcat
      <3>6. f[m + 1] = Run(a, (m + 1) * FrameLen)
        BY <3>3, <3>4, <3>5
      <3> QED
        BY <3>6 DEF m
    <2>5. Nat \subseteq T
      <3> HIDE DEF T
      <3> QED
        BY <2>3, <2>4, SetInduction
    <2>6. Len(s) - 1 \in Nat /\ (Len(s) - 1) + 1 = Len(s)
      BY <1>0, <1>2
    <2>7. f[Len(s)] = Run(a, Len(s) * FrameLen)
      <3>1. Len(s) - 1 \in T
        BY <2>5, <2>6
      <3>2. (Len(s) - 1) + 1 <= Len(s)
        BY <1>0, <2>6
      <3> QED
        BY <2>6, <3>1, <3>2
    <2> QED
      BY <1>0, <1>2, <2>1, <2>7, FlattenValue
  <1> QED
    BY <1>0, <1>1, <1>2

\* A run is cut into frames and a rest that is shorter than a frame.
LEMMA SliceRun ==
  ASSUME NEW a \in Nat, NEW n \in Nat, NEW q \in Nat, q = n \div FrameLen
  PROVE  /\ Slice(Run(a, n)).frames \in Seq(Seq(Nat)) /\ Len(Slice(Run(a, n)).frames) = q
         /\ \A k \in 1..q :
              Slice(Run(a, n)).frames[k] = Run(a + (k - 1) * FrameLen, FrameLen)
         /\ q * FrameLen <= n
         /\ Slice(Run(a, n)).rest = Run(a + q * FrameLen, n - q * FrameLen)
  <1> DEFINE F == FrameLen
  <1>0. F \in Nat /\ F > 0
    BY WorkerAssumption
  <1> HIDE DEF F
  <1>1. q * F <= n /\ q * F \in Nat
    BY <1>0 DEF F
  <1>2. Len(Run(a, n)) = n
    BY RunType
  <1>p. \A x, m \in Nat : x + m <= n => SubSeq(Run(a, n), x + 1, x + m) = Run(a + x, m)
    BY RunPart
  <1>3. \A k \in 1..q : SubSeq(Run(a, n), (k - 1) * F + 1, k * F) = Run(a + (k - 1) * F, F)
    <2> TAKE k \in 1..q
    <2>1. /\ (k - 1) * F \in Nat /\ k * F = (k - 1) * F + F
          /\ k * F <= q * F
      BY <1>0
    <2>2. (k - 1) * F + F <= n
      BY <1>0, <1>1, <2>1
    <2>3. SubSeq(Run(a, n), (k - 1) * F + 1, (k - 1) * F + F) = Run(a + (k - 1) * F, F)
      <3> DEFINE x == (k - 1) * F
      <3>1. x \in Nat /\ x + F <= n
        BY <2>1, <2>2
      <3> HIDE DEF x
      <3>2. SubSeq(Run(a, n), x + 1, x + F) = Run(a + x, F)
        BY <1>0, <1>p, <3>1
      <3> QED
        BY <3>2 DEF x
    <2> QED
      BY <2>1, <2>3
  <1>4. SubSeq(Run(a, n), q * F + 1, n) = Run(a + q * F, n - q * F)
    <2>1. n - q * F \in Nat /\ q * F + (n - q * F) = n
      BY <1>1
    <2>2. SubSeq(Run(a, n), q * F + 1, q * F + (n - q * F)) = Run(a + q * F, n - q * F)
      <3> DEFINE x == q * F
      <3>1. x \in Nat /\ n - x \in Nat /\ x + (n - x) <= n
        BY <1>1, <2>1
      <3> HIDE DEF x
      <3>2. SubSeq(Run(a, n), x + 1, x + (n - x)) = Run(a + x, n - x)
        BY <1>p, <3>1
      <3> QED
        BY <3>2 DEF x
    <2> QED
      BY <2>1, <2>2
  <1> DEFINE fs == [k \in 1..q |-> SubSeq(Run(a, n), (k - 1) * F + 1, k * F)]
  <1>5. Slice(Run(a, n)).frames = fs /\ Slice(Run(a, n)).rest = SubSeq(Run(a, n), q * F + 1, n)
    BY <1>2 DEF Slice, F
  <1>6. \A k \in 1..q : fs[k] \in Seq(Nat)
    <2> TAKE k \in 1..q
    <2>1. a + (k - 1) * F \in Nat
      BY <1>0
    <2> QED
      BY <1>0, <1>3, <2>1, RunType
  <1>7. fs \in Seq(Seq(Nat)) /\ Len(fs) = q
    <2>1. fs \in [1..q -> Seq(Nat)]
      BY <1>6
    <2> HIDE DEF fs
    <2> QED
      BY <2>1
  <1> QED
    BY <1>1, <1>3, <1>4, <1>5, <1>7 DEF F

-----------------------------------------------------------------------------
(* The samples of the microphone.                                          *)

Done == [samples : Seq(Nat), level : Levels, fate : {"muted", "gated", "sent"}]

\* Samples that are in frames by now.
Sliced == (Len(processed) + Len(frames)) * FrameLen

MicTyped ==
  /\ mic \in Nat
  /\ processed \in Seq(Done) /\ frames \in Seq(Seq(Nat)) /\ captured \in Seq(Seq(Nat))
  /\ frames # <<>> => pc \in {"frames", "send"}

\* The frames processed, the frames to come, what is left over and what was
\* captured since are one run of samples.
OneRun ==
  /\ \A k \in 1..Len(processed) : processed[k].samples = Run((k - 1) * FrameLen, FrameLen)
  /\ \A k \in 1..Len(frames) :
       frames[k] = Run((Len(processed) + (k - 1)) * FrameLen, FrameLen)
  /\ \E n, m \in Nat :
       /\ buffer = Run(Sliced, n)
       /\ FlattenSeq(captured) = Run(Sliced + n, m)
       /\ mic = Sliced + n + m

MicInv == MicTyped /\ OneRun

LEMMA SlicedNat ==
  ASSUME MicTyped
  PROVE  Sliced \in Nat /\ Len(processed) \in Nat /\ Len(frames) \in Nat
  BY WorkerAssumption DEF MicTyped, Sliced

LEMMA InitMic == Init => MicInv
  <1> SUFFICES ASSUME Init
               PROVE  MicInv
    OBVIOUS
  <1>1. /\ mic = 0 /\ captured = <<>> /\ buffer = <<>> /\ frames = <<>> /\ processed = <<>>
    BY DEF Init
  <1>2. MicTyped
    BY <1>1 DEF MicTyped
  <1>3. Sliced = 0
    BY <1>1, WorkerAssumption DEF Sliced
  <1>4. Run(0, 0) = <<>> /\ FlattenSeq(<<>>) = <<>>
    BY DEF Run, FlattenSeq
  <1>5. /\ buffer = Run(Sliced, 0) /\ FlattenSeq(captured) = Run(Sliced + 0, 0)
        /\ mic = Sliced + 0 + 0
    BY <1>1, <1>3, <1>4
  <1>6. OneRun
    BY <1>1, <1>5 DEF OneRun
  <1> QED
    BY <1>2, <1>6 DEF MicInv

LEMMA CaptureMic ==
  ASSUME MicInv, NEW c \in Chunks, Capture(c)
  PROVE  MicInv'
  <1>t. /\ MicTyped /\ OneRun /\ Sliced \in Nat /\ c \in Nat /\ mic \in Nat
        /\ captured \in Seq(Seq(Nat))
    BY SlicedNat, WorkerAssumption DEF MicInv, MicTyped
  <1>1. PICK n, m \in Nat : /\ buffer = Run(Sliced, n)
                            /\ FlattenSeq(captured) = Run(Sliced + n, m)
                            /\ mic = Sliced + n + m
    BY <1>t DEF OneRun
  <1>2. /\ mic' = mic + c /\ captured' = Append(captured, Run(mic, c))
        /\ UNCHANGED <<buffer, frames, processed, pc>>
    BY DEF Capture, Run
  <1>3. Run(mic, c) \in Seq(Nat)
    BY <1>t, RunType
  <1>4. FlattenSeq(captured') = FlattenSeq(captured) \o Run(mic, c)
    BY <1>t, <1>2, <1>3, FlattenAppend
  <1>5. FlattenSeq(captured') = Run(Sliced + n, m + c)
    <2>1. Sliced + n \in Nat /\ (Sliced + n) + m = mic
      BY <1>t, <1>1
    <2>2. Run(Sliced + n, m) \o Run((Sliced + n) + m, c) = Run(Sliced + n, m + c)
      BY <1>t, <2>1, RunConcat
    <2> QED
      BY <1>1, <1>4, <2>1, <2>2
  <1>6. m + c \in Nat /\ mic' = Sliced + n + (m + c) /\ Sliced' = Sliced
    BY <1>t, <1>1, <1>2 DEF Sliced
  <1>7. OneRun'
    <2>1. /\ buffer' = Run(Sliced', n) /\ FlattenSeq(captured') = Run(Sliced' + n, m + c)
          /\ mic' = Sliced' + n + (m + c)
      BY <1>1, <1>2, <1>5, <1>6
    <2>2. \E n1, m1 \in Nat : /\ buffer' = Run(Sliced', n1)
                              /\ FlattenSeq(captured') = Run(Sliced' + n1, m1)
                              /\ mic' = Sliced' + n1 + m1
      BY <1>6, <2>1
    <2> QED
      BY <1>t, <1>2, <2>2 DEF OneRun
  <1>8. MicTyped'
    BY <1>t, <1>2, <1>3 DEF MicTyped
  <1> QED
    BY <1>7, <1>8 DEF MicInv

LEMMA TakeMic ==
  ASSUME MicInv, TakeCaptured
  PROVE  MicInv'
  <1>t. /\ MicTyped /\ OneRun /\ Sliced \in Nat /\ Len(processed) \in Nat
        /\ frames = <<>> /\ FrameLen \in Nat /\ FrameLen > 0
    BY SlicedNat, WorkerAssumption DEF MicInv, MicTyped, TakeCaptured
  <1>1. PICK n, m \in Nat : /\ buffer = Run(Sliced, n)
                            /\ FlattenSeq(captured) = Run(Sliced + n, m)
                            /\ mic = Sliced + n + m
    BY <1>t DEF OneRun
  <1>n. PICK t \in Nat : t = n + m
    OBVIOUS
  <1> DEFINE q == t \div FrameLen
             s == Slice(Run(Sliced, t))
  <1>s. Sliced \in Nat
    BY <1>t
  <1>2. buffer \o FlattenSeq(captured) = Run(Sliced, t)
    <2>1. Run(Sliced, n) \o Run(Sliced + n, m) = Run(Sliced, n + m)
      BY <1>s, RunConcat
    <2> QED
      BY <1>n, <1>1, <2>1
  <1>3. /\ frames' = s.frames /\ buffer' = s.rest /\ captured' = <<>> /\ pc' = "frames"
        /\ UNCHANGED <<mic, processed>>
    BY <1>2 DEF TakeCaptured
  <1>4. q \in Nat
    BY <1>t
  <1>5. /\ s.frames \in Seq(Seq(Nat)) /\ Len(s.frames) = q
        /\ \A k \in 1..q : s.frames[k] = Run(Sliced + (k - 1) * FrameLen, FrameLen)
        /\ q * FrameLen <= t
        /\ s.rest = Run(Sliced + q * FrameLen, t - q * FrameLen)
    <2>1. q = t \div FrameLen /\ s = Slice(Run(Sliced, t))
      OBVIOUS
    <2> HIDE DEF q, s
    <2> QED
      BY <1>n, <1>s, <1>4, <2>1, SliceRun
  <1> HIDE DEF q, s
  <1>6. Sliced = Len(processed) * FrameLen
    BY <1>t DEF Sliced
  <1>7. Sliced' = Sliced + q * FrameLen /\ q * FrameLen \in Nat
    <2>1. Sliced' = (Len(processed) + q) * FrameLen
      BY <1>3, <1>5 DEF Sliced
    <2> QED
      BY <1>t, <1>4, <1>6, <2>1
  <1>8. \A k \in 1..Len(frames') :
          frames'[k] = Run((Len(processed') + (k - 1)) * FrameLen, FrameLen)
    <2> SUFFICES ASSUME NEW k \in 1..q
                 PROVE  s.frames[k] = Run((Len(processed) + (k - 1)) * FrameLen, FrameLen)
      BY <1>3, <1>5
    <2>1. (Len(processed) + (k - 1)) * FrameLen = Sliced + (k - 1) * FrameLen
      BY <1>t, <1>4, <1>6
    <2> QED
      BY <1>5, <2>1
  <1>9. FlattenSeq(captured') = Run(Sliced' + (t - q * FrameLen), 0)
    BY <1>3 DEF FlattenSeq, Run
  <1>10. /\ t - q * FrameLen \in Nat
         /\ buffer' = Run(Sliced', t - q * FrameLen)
         /\ mic' = Sliced' + (t - q * FrameLen) + 0
    <2> DEFINE x == q * FrameLen
    <2>1. x \in Nat /\ x <= t /\ Sliced' = Sliced + x /\ mic' = Sliced + t
      BY <1>n, <1>s, <1>1, <1>3, <1>5, <1>7
    <2>2. buffer' = Run(Sliced + x, t - x)
      BY <1>3, <1>5
    <2> HIDE DEF x
    <2>3. /\ t - x \in Nat /\ buffer' = Run(Sliced', t - x)
          /\ mic' = Sliced' + (t - x) + 0
      BY <1>s, <2>1, <2>2
    <2> QED
      BY <2>3 DEF x
  <1>11. OneRun'
    <2>1. \E n1, m1 \in Nat : /\ buffer' = Run(Sliced', n1)
                              /\ FlattenSeq(captured') = Run(Sliced' + n1, m1)
                              /\ mic' = Sliced' + n1 + m1
      BY <1>9, <1>10
    <2> QED
      BY <1>t, <1>3, <1>8, <2>1 DEF OneRun
  <1>12. MicTyped'
    BY <1>t, <1>3, <1>5 DEF MicTyped
  <1> QED
    BY <1>11, <1>12 DEF MicInv

LEMMA ProcessMic ==
  ASSUME MicInv, NEW level \in Levels, Process(level)
  PROVE  /\ MicInv'
         /\ processed' = Append(processed, [samples |-> Head(frames), level |-> level,
                                            fate |-> Fate(level)])
         /\ [samples |-> Head(frames), level |-> level, fate |-> Fate(level)] \in Done
  <1> DEFINE r == [samples |-> Head(frames), level |-> level, fate |-> Fate(level)]
  <1>t. /\ MicTyped /\ OneRun /\ Sliced \in Nat /\ Len(processed) \in Nat /\ Len(frames) \in Nat
        /\ FrameLen \in Nat /\ processed \in Seq(Done) /\ frames \in Seq(Seq(Nat))
    BY SlicedNat, WorkerAssumption DEF MicInv, MicTyped
  <1>1. /\ frames # <<>> /\ processed' = Append(processed, r) /\ frames' = Tail(frames)
        /\ UNCHANGED <<mic, captured, buffer>> /\ pc' \in {"frames", "send"}
    BY DEF Process
  <1>2. /\ Head(frames) \in Seq(Nat) /\ Head(frames) = frames[1] /\ Len(frames) > 0
        /\ frames' \in Seq(Seq(Nat)) /\ Len(frames') = Len(frames) - 1
        /\ \A k \in 1..Len(frames) - 1 : frames'[k] = frames[k + 1]
    BY <1>t, <1>1
  <1>3. Fate(level) \in {"muted", "gated", "sent"}
    BY DEF Fate
  <1>4. r \in Done
    BY <1>2, <1>3 DEF Done
  <1>5. r.samples = Run(Len(processed) * FrameLen, FrameLen)
    <2>1. 1 \in 1..Len(frames) /\ (Len(processed) + (1 - 1)) * FrameLen = Len(processed) * FrameLen
      BY <1>t, <1>2
    <2>2. frames[1] = Run((Len(processed) + (1 - 1)) * FrameLen, FrameLen)
      BY <1>t, <2>1 DEF OneRun
    <2> QED
      BY <1>2, <2>1, <2>2
  <1> HIDE DEF r
  <1>6. /\ Len(processed') = Len(processed) + 1 /\ processed'[Len(processed) + 1] = r
        /\ \A k \in 1..Len(processed) : processed'[k] = processed[k]
        /\ processed' \in Seq(Done)
    BY <1>t, <1>1, <1>4
  <1>7. \A k \in 1..Len(processed') :
          processed'[k].samples = Run((k - 1) * FrameLen, FrameLen)
    <2>1. \A k \in 1..Len(processed) : processed[k].samples = Run((k - 1) * FrameLen, FrameLen)
      BY <1>t DEF OneRun
    <2>2. (Len(processed) + 1) - 1 = Len(processed)
      BY <1>t
    <2>3. \A k \in 1..Len(processed') : k \in 1..Len(processed) \/ k = Len(processed) + 1
      BY <1>t, <1>6
    <2> QED
      BY <1>5, <1>6, <2>1, <2>2, <2>3
  <1>8. \A k \in 1..Len(frames') :
          frames'[k] = Run((Len(processed') + (k - 1)) * FrameLen, FrameLen)
    <2> TAKE k \in 1..Len(frames')
    <2>1. k + 1 \in 1..Len(frames) /\ k \in 1..Len(frames) - 1
          /\ Len(processed) + ((k + 1) - 1) = Len(processed') + (k - 1)
      BY <1>t, <1>2, <1>6
    <2>2. frames[k + 1] = Run((Len(processed) + ((k + 1) - 1)) * FrameLen, FrameLen)
      BY <1>t, <2>1 DEF OneRun
    <2> QED
      BY <1>2, <2>1, <2>2
  <1>9. Sliced' = Sliced
    <2>1. Len(processed') + Len(frames') = Len(processed) + Len(frames)
      BY <1>t, <1>2, <1>6
    <2> QED
      BY <2>1 DEF Sliced
  <1>10. OneRun'
    <2>1. PICK n, m \in Nat : /\ buffer = Run(Sliced, n)
                              /\ FlattenSeq(captured) = Run(Sliced + n, m)
                              /\ mic = Sliced + n + m
      BY <1>t DEF OneRun
    <2>2. /\ buffer' = Run(Sliced', n) /\ FlattenSeq(captured') = Run(Sliced' + n, m)
          /\ mic' = Sliced' + n + m
      BY <1>1, <1>9, <2>1
    <2>3. \E n1, m1 \in Nat : /\ buffer' = Run(Sliced', n1)
                              /\ FlattenSeq(captured') = Run(Sliced' + n1, m1)
                              /\ mic' = Sliced' + n1 + m1
      BY <2>2
    <2> QED
      BY <1>7, <1>8, <2>3 DEF OneRun
  <1>11. MicTyped'
    BY <1>t, <1>1, <1>2, <1>6 DEF MicTyped
  <1> QED
    BY <1>1, <1>4, <1>10, <1>11 DEF MicInv, r

\* Everything else leaves the samples where they are.
LEMMA OtherMic ==
  ASSUME MicInv, UNCHANGED <<mic, captured, buffer, frames, processed>>,
         frames = <<>> \/ pc' \in {"frames", "send"} \/ pc' = pc
  PROVE  MicInv'
  BY DEF MicInv, MicTyped, OneRun, Sliced

LEMMA StepMic ==
  ASSUME MicInv, [Next]_vars
  PROVE  MicInv'
  <1>1. CASE ToggleMute \/ ToggleDeafen \/ TimePasses \/ Feed \/ Play \/ UNCHANGED vars
    BY <1>1, OtherMic DEF ToggleMute, ToggleDeafen, TimePasses, Feed, Play, vars, micside, ui
  <1>2. CASE SendAudio \/ Heartbeat
    BY <1>2, OtherMic DEF SendAudio, Heartbeat
  <1>3. CASE EndReceive \/ EndDrain
    BY <1>3, OtherMic DEF EndReceive, EndDrain, micside, MicInv, MicTyped
  <1>4. CASE \E p \in Peer : PeerSpeaks(p) \/ Drain(p) \/ Receive(p)
    BY <1>4, OtherMic DEF PeerSpeaks, Drain, Receive, micside
  <1> QED
    BY <1>1, <1>2, <1>3, <1>4, CaptureMic, TakeMic, ProcessMic DEF Next, Outside, Loop

\* What the invariant says of the whole microphone.
LEMMA MicInvWhole == MicInv => MicIsWhole
  <1> SUFFICES ASSUME MicInv
               PROVE  MicIsWhole
    OBVIOUS
  <1>t. /\ MicTyped /\ OneRun /\ Sliced \in Nat /\ Len(processed) \in Nat /\ Len(frames) \in Nat
        /\ FrameLen \in Nat /\ processed \in Seq(Done) /\ frames \in Seq(Seq(Nat))
    BY SlicedNat, WorkerAssumption DEF MicInv, MicTyped
  <1>1. PICK n, m \in Nat : /\ buffer = Run(Sliced, n)
                            /\ FlattenSeq(captured) = Run(Sliced + n, m)
                            /\ mic = Sliced + n + m
    BY <1>t DEF OneRun
  <1> DEFINE a == Len(processed) * FrameLen
             b == Len(frames) * FrameLen
             ss == [k \in 1..Len(processed) |-> processed[k].samples]
  <1>2. a \in Nat /\ b \in Nat /\ Sliced = a + b
    BY <1>t DEF Sliced
  <1>3. FlattenSeq(ss) = Run(0, a)
    <2>1. \A k \in 1..Len(processed) : processed[k] \in Done
      BY <1>t
    <2>2. \A k \in 1..Len(processed) : processed[k].samples \in Seq(Nat)
      BY <2>1 DEF Done
    <2>3. ss \in [1..Len(processed) -> Seq(Nat)]
      BY <2>2
    <2>4. ss \in Seq(Seq(Nat)) /\ Len(ss) = Len(processed)
      BY <1>t, <2>3
    <2>5. \A k \in 1..Len(ss) : ss[k] = Run(0 + (k - 1) * FrameLen, FrameLen)
      <3> TAKE k \in 1..Len(ss)
      <3>1. 0 + (k - 1) * FrameLen = (k - 1) * FrameLen
        BY <1>t
      <3> QED
        BY <1>t, <2>4, <3>1 DEF OneRun
    <2> HIDE DEF ss
    <2>6. FlattenSeq(ss) = Run(0, Len(ss) * FrameLen)
      BY <2>4, <2>5, FlattenRuns
    <2> QED
      BY <2>4, <2>6
  <1>4. FlattenSeq(frames) = Run(a, b)
    <2>1. \A k \in 1..Len(frames) : frames[k] = Run(a + (k - 1) * FrameLen, FrameLen)
      <3> TAKE k \in 1..Len(frames)
      <3>1. a + (k - 1) * FrameLen = (Len(processed) + (k - 1)) * FrameLen
        BY <1>t
      <3> QED
        BY <1>t, <3>1 DEF OneRun
    <2> HIDE DEF a
    <2> QED
      BY <1>t, <1>2, <2>1, FlattenRuns
  <1> HIDE DEF a, b, ss
  <1>5. Run(0, a) \o Run(a, b) = Run(0, Sliced)
    <2>1. Run(0, a) \o Run(0 + a, b) = Run(0, a + b)
      BY <1>2, RunConcat
    <2>2. 0 + a = a
      BY <1>2
    <2> QED
      BY <1>2, <2>1, <2>2
  <1>6. Run(0, Sliced) \o buffer = Run(0, Sliced + n)
    <2>1. Run(0, Sliced) \o Run(0 + Sliced, n) = Run(0, Sliced + n)
      BY <1>t, RunConcat
    <2>2. 0 + Sliced = Sliced
      BY <1>t
    <2> QED
      BY <1>1, <2>1, <2>2
  <1>7. Run(0, Sliced + n) \o FlattenSeq(captured) = Run(0, mic)
    <2>1. Sliced + n \in Nat /\ 0 + (Sliced + n) = Sliced + n
      BY <1>t
    <2>2. Run(0, Sliced + n) \o Run(0 + (Sliced + n), m) = Run(0, (Sliced + n) + m)
      BY <2>1, RunConcat
    <2> QED
      BY <1>1, <2>1, <2>2
  <1>8. Run(0, mic) = [i \in 1..mic |-> i]
    <2>1. mic \in Nat
      BY <1>t DEF MicTyped
    <2> QED
      BY <2>1 DEF Run
  <1> QED
    BY <1>3, <1>4, <1>5, <1>6, <1>7, <1>8 DEF MicIsWhole, ss

LEMMA MicInvariance == Spec => []MicInv
  BY InitMic, StepMic, PTL DEF Spec

\* However the input device cuts its chunks, every sample it handed over is in
\* exactly one place and in its order (run_voice_worker, drain_frames): processed,
\* sliced, left over or not taken yet.
THEOREM NoSampleLost == Spec => []MicIsWhole
  BY MicInvWhole, MicInvariance, PTL

-----------------------------------------------------------------------------
(* The words, and the button that mutes.                                   *)

GateTyped == gate \in [open : BOOLEAN, left : 0..Hangover]

\* low is how many frames at the end were low in a row; while the gate is open
\* it is what has been used up of the hangover.
OpenGate ==
  gate.open =>
    \E low \in 0..Hangover :
      /\ gate.left = Hangover - low /\ low < Len(processed)
      /\ processed[Len(processed) - low].level # "low"
      /\ \A k \in 1..Len(processed) :
           k > Len(processed) - low => processed[k].level = "low"

\* InWord of any history p.
WordIn(p, i) ==
  \E j \in 1..i :
    /\ p[j].level = "loud"
    /\ \A k \in j + 1..i : k + Hangover <= i =>
         \E m \in k..k + Hangover : p[m].level # "low"

\* The gate is open after a frame of a word and closed after any other.
GateFollows ==
  gate.open <=> Len(processed) > 0 /\ WordIn(processed, Len(processed))

SentWords ==
  \A i \in 1..Len(processed) :
    processed[i].fate # "muted" => (processed[i].fate = "sent" <=> WordIn(processed, i))

WordInv == MicInv /\ GateTyped /\ OpenGate /\ GateFollows /\ SentWords

LEMMA InitWord == Init => WordInv
  <1> SUFFICES ASSUME Init
               PROVE  WordInv
    OBVIOUS
  <1>1. gate = [open |-> FALSE, left |-> 0] /\ processed = <<>> /\ Hangover \in Nat
    BY WorkerAssumption DEF Init
  <1>2. GateTyped /\ OpenGate /\ GateFollows /\ SentWords
    BY <1>1 DEF GateTyped, OpenGate, GateFollows, SentWords
  <1> QED
    BY <1>2, InitMic DEF WordInv

\* A frame belongs to a word or not by the frames before it.
LEMMA SameWord ==
  ASSUME NEW p, NEW q, NEW i \in Nat, \A j \in 1..i : q[j] = p[j], WordIn(p, i)
  PROVE  WordIn(q, i)
  <1>1. Hangover \in Nat
    BY WorkerAssumption
  <1>2. PICK j \in 1..i :
          /\ p[j].level = "loud"
          /\ \A k \in j + 1..i : k + Hangover <= i =>
               \E m \in k..k + Hangover : p[m].level # "low"
    BY DEF WordIn
  <1>3. ASSUME NEW k \in j + 1..i, k + Hangover <= i
        PROVE  \E m \in k..k + Hangover : q[m].level # "low"
    <2>1. PICK m \in k..k + Hangover : p[m].level # "low"
      BY <1>2, <1>3
    <2>2. m \in 1..i
      BY <1>1, <1>3
    <2> QED
      BY <2>1, <2>2
  <1>4. q[j].level = "loud"
    BY <1>2
  <1> QED
    BY <1>3, <1>4 DEF WordIn

LEMMA WordBefore ==
  ASSUME processed \in Seq(Done), NEW r \in Done, processed' = Append(processed, r),
         NEW n \in Nat, n = Len(processed)
  PROVE  /\ Len(processed') = n + 1 /\ processed'[n + 1] = r
         /\ \A i \in 1..n : processed'[i] = processed[i]
         /\ \A i \in 1..n : WordIn(processed', i) <=> WordIn(processed, i)
  <1>1. /\ Len(processed') = n + 1 /\ processed'[n + 1] = r
        /\ \A i \in 1..n : processed'[i] = processed[i]
    OBVIOUS
  <1>2. ASSUME NEW i \in 1..n
        PROVE  WordIn(processed', i) <=> WordIn(processed, i)
    <2>1. i \in Nat /\ \A j \in 1..i : j \in 1..n /\ processed'[j] = processed[j]
      BY <1>1
    <2> QED
      BY <2>1, SameWord
  <1> QED
    BY <1>1, <1>2

\* The gate opens with a loud frame, stays open while not more than Hangover
\* frames in a row are low, and no longer.
LEMMA ProcessGate ==
  ASSUME WordInv, NEW level \in Levels, Process(level)
  PROVE  GateTyped' /\ OpenGate' /\ GateFollows'
  <1> DEFINE r == [samples |-> Head(frames), level |-> level, fate |-> Fate(level)]
  <1>t. /\ processed \in Seq(Done) /\ r \in Done /\ processed' = Append(processed, r)
        /\ Hangover \in Nat
    BY ProcessMic, WorkerAssumption DEF WordInv, MicInv, MicTyped
  <1>1. r.level = level
    OBVIOUS
  <1> HIDE DEF r
  <1>n. PICK n \in Nat : n = Len(processed)
    BY <1>t
  <1>2. /\ Len(processed') = n + 1 /\ processed'[n + 1] = r
        /\ \A i \in 1..n : processed'[i] = processed[i]
        /\ \A i \in 1..n : WordIn(processed', i) <=> WordIn(processed, i)
    BY <1>n, <1>t, WordBefore
  <1>g. gate' = GateAfter(level) /\ gate \in [open : BOOLEAN, left : 0..Hangover]
    BY DEF Process, WordInv, GateTyped
  <1>o. OpenGate /\ GateFollows
    BY DEF WordInv
  <1>3. processed'[n + 1].level = level /\ n + 1 \in 1..n + 1
    BY <1>1, <1>2
  <1>4. CASE level = "loud"
    <2>1. gate' = [open |-> TRUE, left |-> Hangover]
      BY <1>g, <1>4 DEF GateAfter
    <2>2. OpenGate'
      <3>1. /\ 0 \in 0..Hangover /\ gate'.left = Hangover - 0 /\ 0 < Len(processed')
            /\ processed'[Len(processed') - 0].level # "low"
            /\ \A k \in 1..Len(processed') :
                 k > Len(processed') - 0 => processed'[k].level = "low"
        BY <1>t, <1>2, <1>3, <1>4, <2>1
      <3> QED
        BY <3>1 DEF OpenGate
    <2>3. WordIn(processed', n + 1)
      <3>1. \A k \in (n + 1) + 1..n + 1 : FALSE
        BY <1>2
      <3> QED
        BY <1>3, <1>4, <3>1 DEF WordIn
    <2>4. GateFollows'
      BY <1>2, <2>1, <2>3 DEF GateFollows
    <2> QED
      BY <1>t, <2>1, <2>2, <2>4 DEF GateTyped
  <1>5. CASE level # "loud" /\ ~gate.open
    <2>1. gate' = gate
      BY <1>g, <1>5 DEF GateAfter
    <2>2. ~WordIn(processed', n + 1)
      <3> SUFFICES ASSUME WordIn(processed', n + 1)
                   PROVE  FALSE
        OBVIOUS
      <3>1. PICK j \in 1..n + 1 :
              /\ processed'[j].level = "loud"
              /\ \A k \in j + 1..n + 1 : k + Hangover <= n + 1 =>
                   \E m \in k..k + Hangover : processed'[m].level # "low"
        BY DEF WordIn
      <3>2. j \in 1..n /\ n > 0
        BY <1>2, <1>3, <1>5, <3>1
      <3>3. processed'[j].level = "loud"
              /\ \A k \in j + 1..n : k + Hangover <= n =>
                   \E m \in k..k + Hangover : processed'[m].level # "low"
        <4>1. \A k \in j + 1..n : k + Hangover <= n => k \in j + 1..n + 1 /\ k + Hangover <= n + 1
          BY <1>2, <1>t
        <4> QED
          BY <3>1, <4>1
      <3>4. WordIn(processed', n)
        BY <3>2, <3>3 DEF WordIn
      <3>5. WordIn(processed, n) /\ n \in 1..n
        BY <1>2, <3>2, <3>4
      <3> QED
        BY <1>5, <1>n, <1>o, <3>2, <3>5 DEF GateFollows
    <2>3. OpenGate' /\ GateFollows'
      BY <1>2, <1>5, <2>1, <2>2 DEF OpenGate, GateFollows
    <2> QED
      BY <1>g, <2>1, <2>3 DEF GateTyped
  <1>6. CASE level # "loud" /\ gate.open
    <2>1. PICK low \in 0..Hangover :
            /\ gate.left = Hangover - low /\ low < n
            /\ processed[n - low].level # "low"
            /\ \A k \in 1..n : k > n - low => processed[k].level = "low"
      BY <1>n, <1>o, <1>6 DEF OpenGate
    <2>2. n > 0 /\ WordIn(processed, n) /\ n \in 1..n
      BY <1>2, <1>n, <1>6, <1>o DEF GateFollows
    <2>3. PICK j \in 1..n :
            /\ processed'[j].level = "loud"
            /\ \A k \in j + 1..n : k + Hangover <= n =>
                 \E m \in k..k + Hangover : processed'[m].level # "low"
      BY <1>2, <2>2 DEF WordIn
    <2>4. ASSUME \E m \in (n + 1) - Hangover..n + 1 : m \in 1..n + 1 /\ processed'[m].level # "low"
          PROVE  WordIn(processed', n + 1)
      <3>1. \A k \in j + 1..n + 1 : k + Hangover <= n + 1 =>
              \E m \in k..k + Hangover : processed'[m].level # "low"
        <4> TAKE k \in j + 1..n + 1
        <4> HAVE k + Hangover <= n + 1
        <4>1. CASE k + Hangover = n + 1
          <5>1. k = (n + 1) - Hangover /\ k + Hangover = n + 1
            BY <1>2, <1>t, <4>1
          <5> QED
            BY <2>4, <5>1
        <4>2. CASE k + Hangover <= n
          <5>1. k \in j + 1..n
            BY <1>2, <1>t, <4>2
          <5> QED
            BY <2>3, <4>2, <5>1
        <4> QED
          BY <1>2, <1>t, <4>1, <4>2
      <3>2. j \in 1..n + 1
        BY <1>2
      <3> QED
        BY <2>3, <3>1, <3>2 DEF WordIn
    <2>5. CASE level = "middle"
      <3>1. gate' = [gate EXCEPT !.left = Hangover]
        BY <1>6, <1>g, <2>5 DEF GateAfter
      <3>2. OpenGate'
        <4>1. /\ 0 \in 0..Hangover /\ gate'.left = Hangover - 0 /\ 0 < Len(processed')
              /\ processed'[Len(processed') - 0].level # "low"
              /\ \A k \in 1..Len(processed') :
                   k > Len(processed') - 0 => processed'[k].level = "low"
          BY <1>t, <1>2, <1>3, <1>g, <2>5, <3>1
        <4> QED
          BY <4>1 DEF OpenGate
      <3>3. WordIn(processed', n + 1)
        <4>1. n + 1 \in (n + 1) - Hangover..n + 1
          BY <1>2, <1>t
        <4> QED
          BY <1>3, <2>4, <2>5, <4>1
      <3> QED
        BY <1>2, <1>6, <1>t, <1>g, <3>1, <3>2, <3>3 DEF GateTyped, GateFollows
    <2>6. CASE level = "low" /\ gate.left # 0
      <3>1. gate' = [gate EXCEPT !.left = @ - 1] /\ gate.left \in 0..Hangover
        BY <1>6, <1>g, <2>6 DEF GateAfter
      <3>2. low + 1 \in 0..Hangover /\ gate'.left = Hangover - (low + 1) /\ gate'.open
        <4>1. gate'.left = gate.left - 1 /\ gate'.open
          BY <1>6, <1>g, <3>1
        <4> QED
          BY <1>t, <2>1, <2>6, <3>1, <4>1
      <3>3. n - low \in 1..n /\ (n + 1) - (low + 1) = n - low
        BY <1>2, <2>1
      <3>4. OpenGate'
        <4>1. /\ low + 1 < Len(processed')
              /\ processed'[Len(processed') - (low + 1)].level # "low"
          BY <1>2, <2>1, <3>3
        <4>2. \A k \in 1..Len(processed') :
                k > Len(processed') - (low + 1) => processed'[k].level = "low"
          <5> TAKE k \in 1..Len(processed')
          <5> HAVE k > Len(processed') - (low + 1)
          <5>1. CASE k = n + 1
            BY <1>3, <2>6, <5>1
          <5>2. CASE k \in 1..n
            BY <1>2, <2>1, <3>3, <5>2
          <5> QED
            BY <1>2, <5>1, <5>2
        <4> QED
          BY <3>2, <4>1, <4>2 DEF OpenGate
      <3>5. WordIn(processed', n + 1)
        <4>1. n - low \in (n + 1) - Hangover..n + 1 /\ n - low \in 1..n + 1
          BY <1>2, <1>t, <2>1, <3>2, <3>3
        <4> QED
          BY <1>2, <2>1, <2>4, <3>3, <4>1
      <3>6. GateTyped'
        BY <1>g, <1>t, <2>6, <3>1 DEF GateTyped
      <3> QED
        BY <1>2, <3>2, <3>4, <3>5, <3>6 DEF GateFollows
    <2>7. CASE level = "low" /\ gate.left = 0
      <3>1. gate' = [gate EXCEPT !.open = FALSE] /\ low = Hangover
        BY <1>6, <1>g, <1>t, <2>1, <2>7 DEF GateAfter
      <3>2. ~WordIn(processed', n + 1)
        <4> SUFFICES ASSUME NEW i \in 1..n + 1, processed'[i].level = "loud",
                            \A k \in i + 1..n + 1 : k + Hangover <= n + 1 =>
                              \E m \in k..k + Hangover : processed'[m].level # "low"
                     PROVE  FALSE
          BY DEF WordIn
        <4> DEFINE k == (n + 1) - Hangover
        <4>1. k \in 1..n + 1 /\ k + Hangover = n + 1
          BY <1>2, <1>t, <2>1, <3>1
        <4> HIDE DEF k
        <4>2. \A m \in k..n + 1 : processed'[m].level = "low"
          <5> TAKE m \in k..n + 1
          <5>1. CASE m = n + 1
            BY <1>3, <2>7, <5>1
          <5>2. CASE m # n + 1
            <6>1. m \in 1..n /\ m > n - low
              BY <1>2, <1>t, <3>1, <4>1, <5>2
            <6> QED
              BY <1>2, <2>1, <6>1
          <5> QED
            BY <5>1, <5>2
        <4>3. i < k
          BY <1>2, <4>1, <4>2
        <4>4. k \in i + 1..n + 1
          BY <1>2, <4>1, <4>3
        <4> QED
          BY <4>1, <4>2, <4>4
      <3> QED
        BY <1>2, <1>g, <3>1, <3>2 DEF GateTyped, OpenGate, GateFollows
    <2> QED
      BY <1>6, <2>5, <2>6, <2>7 DEF Levels
  <1> QED
    BY <1>4, <1>5, <1>6

LEMMA ProcessWord ==
  ASSUME WordInv, NEW level \in Levels, Process(level)
  PROVE  SentWords'
  <1> DEFINE r == [samples |-> Head(frames), level |-> level, fate |-> Fate(level)]
  <1>t. processed \in Seq(Done) /\ r \in Done /\ processed' = Append(processed, r)
    BY ProcessMic DEF WordInv, MicInv, MicTyped
  <1>1. r.fate = Fate(level)
    OBVIOUS
  <1> HIDE DEF r
  <1>n. PICK n \in Nat : n = Len(processed)
    BY <1>t
  <1>2. /\ Len(processed') = n + 1 /\ processed'[n + 1] = r
        /\ \A i \in 1..n : processed'[i] = processed[i]
        /\ \A i \in 1..n : WordIn(processed', i) <=> WordIn(processed, i)
    BY <1>n, <1>t, WordBefore
  <1>3. r.fate # "muted" => (r.fate = "sent" <=> gate'.open)
    BY <1>1 DEF Process, Fate
  <1>4. gate'.open <=> WordIn(processed', n + 1)
    <2>1. GateFollows'
      BY ProcessGate
    <2> QED
      BY <1>2, <2>1 DEF GateFollows
  <1>5. \A i \in 1..n : processed[i].fate # "muted" =>
                            (processed[i].fate = "sent" <=> WordIn(processed, i))
    BY <1>n DEF WordInv, SentWords
  <1>7. \A i \in 1..n + 1 : processed'[i].fate # "muted" =>
          (processed'[i].fate = "sent" <=> WordIn(processed', i))
    <2> TAKE i \in 1..n + 1
    <2>1. CASE i = n + 1
      BY <1>2, <1>3, <1>4, <2>1
    <2>2. CASE i \in 1..n
      BY <1>2, <1>5, <2>2
    <2> QED
      BY <1>2, <2>1, <2>2
  <1> QED
    BY <1>2, <1>7 DEF SentWords

LEMMA StepWord ==
  ASSUME WordInv, [Next]_vars
  PROVE  WordInv'
  <1>0. MicInv'
    BY StepMic DEF WordInv
  <1>1. CASE UNCHANGED <<gate, processed>>
    BY <1>0, <1>1 DEF WordInv, GateTyped, OpenGate, GateFollows, SentWords
  <1>2. ASSUME NEW level \in Levels, Process(level)
        PROVE  WordInv'
    BY <1>0, <1>2, ProcessGate, ProcessWord DEF WordInv
  <1>3. CASE \/ ToggleMute \/ ToggleDeafen \/ TimePasses \/ Feed \/ Play \/ UNCHANGED vars
             \/ SendAudio \/ Heartbeat \/ EndReceive \/ EndDrain \/ TakeCaptured
    BY <1>1, <1>3 DEF ToggleMute, ToggleDeafen, TimePasses, Feed, Play, vars, micside, SendAudio,
                      Heartbeat, EndReceive, EndDrain, TakeCaptured
  <1>4. CASE \/ \E p \in Peer : PeerSpeaks(p) \/ Drain(p) \/ Receive(p)
             \/ \E c \in Chunks : Capture(c)
    BY <1>1, <1>4 DEF PeerSpeaks, Drain, Receive, Capture, micside
  <1> QED
    BY <1>2, <1>3, <1>4 DEF Next, Outside, Loop

\* What is sent of a user who is not muted is every word, its quiet tail of
\* Hangover frames included, and nothing else (NoiseGate::process, which also sees
\* the frames of a muted user).
THEOREM WholeWords == Spec => []WordsAreWhole
  <1>1. Spec => []WordInv
    BY InitWord, StepWord, PTL DEF Spec
  <1>2. WordInv => WordsAreWhole
    <2> SUFFICES ASSUME WordInv
                 PROVE  WordsAreWhole
      OBVIOUS
    <2>1. DOMAIN processed = 1..Len(processed)
      BY DEF WordInv, MicInv, MicTyped
    <2>2. \A i \in 1..Len(processed) : InWord(i) <=> WordIn(processed, i)
      BY DEF InWord, WordIn
    <2> QED
      BY <2>1, <2>2 DEF WordInv, SentWords, WordsAreWhole
  <1> QED
    BY <1>1, <1>2, PTL

\* Nothing has been sent since the user muted, or one frame was being encoded.
MuteInv ==
  /\ muted \in BOOLEAN /\ sinceMute \in {0, 1}
  /\ ~muted \/ pc = "send" => sinceMute = 0

\* Once the user has muted, at most the frame that is just being encoded leaves:
\* run_voice_worker reads the flag anew for every frame.
THEOREM MuteSilences == Spec => []MuteStopsSending
  <1>1. Init => MuteInv
    BY DEF Init, MuteInv
  <1>2. MuteInv /\ [Next]_vars => MuteInv'
    <2> SUFFICES ASSUME MuteInv, [Next]_vars
                 PROVE  MuteInv'
      OBVIOUS
    <2>1. CASE ToggleMute \/ ToggleDeafen
      BY <2>1 DEF MuteInv, ToggleMute, ToggleDeafen
    <2>2. ASSUME NEW level \in Levels, Process(level)
          PROVE  MuteInv'
      BY <2>2 DEF MuteInv, Process, Fate, ui
    <2>3. CASE SendAudio
      BY <2>3 DEF MuteInv, SendAudio
    <2>4. CASE \/ TimePasses \/ Feed \/ Play \/ UNCHANGED vars \/ Heartbeat \/ EndReceive
               \/ EndDrain \/ TakeCaptured
      BY <2>4 DEF MuteInv, TimePasses, Feed, Play, vars, Heartbeat, EndReceive, EndDrain,
                  TakeCaptured, ui
    <2>5. CASE \/ \E p \in Peer : PeerSpeaks(p) \/ Drain(p) \/ Receive(p)
               \/ \E c \in Chunks : Capture(c)
      BY <2>5 DEF MuteInv, PeerSpeaks, Drain, Receive, Capture, ui
    <2> QED
      BY <2>1, <2>2, <2>3, <2>4, <2>5 DEF Next, Outside, Loop
  <1>3. MuteInv => MuteStopsSending
    BY DEF MuteInv, MuteStopsSending
  <1> QED
    BY <1>1, <1>2, <1>3, PTL DEF Spec

-----------------------------------------------------------------------------
(* Samples of the output device: what one is for all channels together.    *)

LEMMA ProductMonotone ==
  ASSUME NEW c \in Nat, NEW a \in Nat, NEW b \in Nat, a <= b
  PROVE  a * c <= b * c
  <1>1. PICK d \in Nat : b = a + d
    <2>1. b - a \in Nat /\ b = a + (b - a)
      OBVIOUS
    <2> QED
      BY <2>1
  <1>2. (a + d) * c = a * c + d * c /\ d * c \in Nat /\ a * c \in Nat
    OBVIOUS
  <1> QED
    BY <1>1, <1>2

LEMMA DivUnique ==
  ASSUME NEW c \in Nat \ {0}, NEW x \in Nat, NEW q \in Nat, q * c <= x, x < q * c + c
  PROVE  x \div c = q
  <1>1. PICK d \in Nat : d = x \div c /\ d * c <= x /\ x < d * c + c
    OBVIOUS
  <1>2. /\ d * c \in Nat /\ q * c \in Nat
        /\ (d + 1) * c = d * c + c /\ (q + 1) * c = q * c + c
    OBVIOUS
  <1>3. ~(d + 1 <= q)
    <2>1. d + 1 <= q => (d + 1) * c <= q * c
      BY ProductMonotone
    <2> QED
      BY <1>1, <1>2, <2>1
  <1>4. ~(q + 1 <= d)
    <2>1. q + 1 <= d => (q + 1) * c <= d * c
      BY ProductMonotone
    <2> QED
      BY <1>1, <1>2, <2>1
  <1>5. d = q
    BY <1>3, <1>4
  <1> QED
    BY <1>1, <1>5

\* Where the i-th of the samples for c channels comes from.
Source(i, c) == (i - 1) \div c + 1

LEMMA SourceFacts ==
  ASSUME NEW c \in Nat \ {0}, NEW i \in Nat \ {0}
  PROVE  /\ Source(i, c) \in Nat \ {0}
         /\ \A n \in Nat : i <= n * c <=> Source(i, c) <= n
         /\ \A d \in Nat : Source(i + d * c, c) = Source(i, c) + d
         /\ \A k \in Nat, j \in 1..c : i = k * c + j => Source(i, c) = k + 1
  <1>1. PICK d \in Nat : d = (i - 1) \div c /\ d * c <= i - 1 /\ i - 1 < d * c + c
    <2>1. i - 1 \in Nat
      OBVIOUS
    <2> QED
      BY <2>1
  <1>2. Source(i, c) = d + 1 /\ (d + 1) * c = d * c + c /\ d * c \in Nat
    BY <1>1 DEF Source
  <1>3. ASSUME NEW n \in Nat
        PROVE  i <= n * c <=> Source(i, c) <= n
    <2>1. n * c \in Nat
      OBVIOUS
    <2>2. d + 1 <= n => (d + 1) * c <= n * c
      BY ProductMonotone
    <2>3. n <= d => n * c <= d * c
      BY ProductMonotone
    <2> QED
      BY <1>1, <1>2, <2>1, <2>2, <2>3
  <1>4. ASSUME NEW e \in Nat
        PROVE  Source(i + e * c, c) = Source(i, c) + e
    <2>1. e * c \in Nat /\ (d + e) * c = d * c + e * c
      OBVIOUS
    <2>2. /\ (i + e * c) - 1 \in Nat /\ d + e \in Nat
          /\ (d + e) * c <= (i + e * c) - 1 /\ (i + e * c) - 1 < (d + e) * c + c
      BY <1>1, <1>2, <2>1
    <2>3. ((i + e * c) - 1) \div c = d + e
      BY <2>2, DivUnique
    <2> QED
      BY <1>2, <2>3 DEF Source
  <1>5. ASSUME NEW k \in Nat, NEW j \in 1..c, i = k * c + j
        PROVE  Source(i, c) = k + 1
    <2>1. k * c \in Nat /\ i - 1 \in Nat /\ k * c <= i - 1 /\ i - 1 < k * c + c
      BY <1>5
    <2>2. (i - 1) \div c = k
      BY <2>1, DivUnique
    <2> QED
      BY <2>2 DEF Source
  <1>6. Source(i, c) \in Nat \ {0}
    BY <1>2
  <1> QED
    BY <1>3, <1>4, <1>5, <1>6

\* Every sample of s once for every channel.
Wide(s) == [i \in 1..Len(s) * Channels |-> s[Source(i, Channels)]]

LEMMA WideType ==
  ASSUME NEW S, NEW s \in Seq(S)
  PROVE  /\ Wide(s) \in Seq(S) /\ Len(Wide(s)) = Len(s) * Channels
         /\ Len(s) * Channels \in Nat
         /\ \A i \in 1..Len(s) * Channels : /\ Source(i, Channels) \in 1..Len(s)
                                            /\ Wide(s)[i] = s[Source(i, Channels)]
  <1>1. Channels \in Nat \ {0} /\ Len(s) \in Nat
    BY WorkerAssumption
  <1>2. PICK n \in Nat : n = Len(s) * Channels
    BY <1>1
  <1>3. \A i \in 1..n : Source(i, Channels) \in 1..Len(s)
    <2> TAKE i \in 1..n
    <2>1. i \in Nat \ {0} /\ i <= Len(s) * Channels
      BY <1>2
    <2>2. /\ Source(i, Channels) \in Nat \ {0}
          /\ \A k \in Nat : i <= k * Channels <=> Source(i, Channels) <= k
      BY <1>1, <2>1, SourceFacts
    <2> QED
      BY <1>1, <2>1, <2>2
  <1> DEFINE w == Wide(s)
  <1>4. w = [i \in 1..n |-> s[Source(i, Channels)]]
    BY <1>2 DEF Wide
  <1> HIDE DEF w
  <1>5. w \in [1..n -> S]
    BY <1>3, <1>4
  <1>6. w \in Seq(S) /\ Len(w) = n
    BY <1>5
  <1> QED
    BY <1>2, <1>3, <1>4, <1>6 DEF w

LEMMA WideConcat ==
  ASSUME NEW S, NEW s \in Seq(S), NEW t \in Seq(S)
  PROVE  Wide(s) \o Wide(t) = Wide(s \o t)
  <1>1. Channels \in Nat \ {0} /\ Len(s) \in Nat /\ Len(t) \in Nat
    BY WorkerAssumption
  <1>2. /\ s \o t \in Seq(S) /\ Len(s \o t) = Len(s) + Len(t)
        /\ \A i \in 1..Len(s) + Len(t) :
             (s \o t)[i] = IF i <= Len(s) THEN s[i] ELSE t[i - Len(s)]
    BY ConcatProperties
  <1>3. PICK n, m \in Nat : n = Len(s) * Channels /\ m = Len(t) * Channels
    BY <1>1
  <1>4. (Len(s) + Len(t)) * Channels = n + m
    BY <1>1, <1>3
  <1>5. /\ Wide(s) \in Seq(S) /\ Len(Wide(s)) = n /\ Wide(t) \in Seq(S) /\ Len(Wide(t)) = m
        /\ \A i \in 1..n : Wide(s)[i] = s[Source(i, Channels)]
        /\ \A i \in 1..m : Wide(t)[i] = t[Source(i, Channels)]
    BY <1>3, WideType
  <1>6. /\ Wide(s \o t) \in Seq(S) /\ Len(Wide(s \o t)) = n + m
        /\ \A i \in 1..n + m : Wide(s \o t)[i] = (s \o t)[Source(i, Channels)]
    BY <1>2, <1>4, WideType
  <1>7. /\ Wide(s) \o Wide(t) \in Seq(S) /\ Len(Wide(s) \o Wide(t)) = n + m
        /\ \A i \in 1..n + m :
             (Wide(s) \o Wide(t))[i] = IF i <= n THEN Wide(s)[i] ELSE Wide(t)[i - n]
    BY <1>5, ConcatProperties
  <1>8. ASSUME NEW i \in 1..n + m
        PROVE  (Wide(s) \o Wide(t))[i] = Wide(s \o t)[i]
    <2>1. i \in Nat \ {0} /\ Source(i, Channels) \in Nat \ {0}
      <3>1. i \in Nat \ {0}
        BY <1>3
      <3> QED
        BY <1>1, <3>1, SourceFacts
    <2>2. /\ i <= n <=> Source(i, Channels) <= Len(s)
          /\ Source(i, Channels) <= Len(s) + Len(t)
      <3>1. \A k \in Nat : i <= k * Channels <=> Source(i, Channels) <= k
        BY <1>1, <2>1, SourceFacts
      <3>2. PICK k \in Nat : k = Len(s) + Len(t)
        BY <1>1
      <3>3. k * Channels = n + m
        BY <1>4, <3>2
      <3>4. Source(i, Channels) <= k
        BY <3>1, <3>3
      <3>5. i <= n <=> Source(i, Channels) <= Len(s)
        BY <1>1, <1>3, <3>1
      <3> QED
        BY <3>2, <3>4, <3>5
    <2>3. CASE i <= n
      <3>1. i \in 1..n /\ (Wide(s) \o Wide(t))[i] = Wide(s)[i]
        BY <1>7, <2>1, <2>3
      <3>2. (s \o t)[Source(i, Channels)] = s[Source(i, Channels)]
        BY <1>1, <1>2, <2>1, <2>2, <2>3
      <3> QED
        BY <1>5, <1>6, <3>1, <3>2
    <2>4. CASE i > n
      <3>1. i - n \in Nat \ {0} /\ i - n \in 1..m /\ (i - n) + Len(s) * Channels = i
        BY <1>3, <2>4
      <3>2. PICK h \in Nat \ {0} : h = i - n
        BY <3>1
      <3>6. /\ Source(h, Channels) \in Nat
            /\ \A d \in Nat : Source(h + d * Channels, Channels) = Source(h, Channels) + d
        BY <1>1, SourceFacts
      <3>7. Source(h + Len(s) * Channels, Channels) = Source(h, Channels) + Len(s)
        BY <1>1, <3>6
      <3>8. h + Len(s) * Channels = i
        BY <3>1, <3>2
      <3>9. PICK a \in Nat : a = Source(h, Channels)
        BY <3>6
      <3>10. Source(i, Channels) = a + Len(s)
        BY <3>7, <3>8, <3>9
      <3>3. Source(i - n, Channels) = Source(i, Channels) - Len(s)
        BY <1>1, <3>2, <3>9, <3>10
      <3>4. (Wide(s) \o Wide(t))[i] = t[Source(i, Channels) - Len(s)]
        BY <1>5, <1>7, <2>4, <3>1, <3>3
      <3>5. (s \o t)[Source(i, Channels)] = t[Source(i, Channels) - Len(s)]
        BY <1>1, <1>2, <2>1, <2>2, <2>4
      <3> QED
        BY <1>6, <3>4, <3>5
    <2>5. i <= n \/ i > n
      BY <1>3, <2>1
    <2> QED
      BY <2>3, <2>4, <2>5
  <1> QED
    BY <1>6, <1>7, <1>8, SeqEqual

\* A part that begins and ends between two samples.
LEMMA WidePart ==
  ASSUME NEW S, NEW s \in Seq(S), NEW d \in Nat, NEW m \in Nat, d + m <= Len(s)
  PROVE  /\ SubSeq(Wide(s), d * Channels + 1, (d + m) * Channels) = Wide(SubSeq(s, d + 1, d + m))
         /\ SubSeq(s, d + 1, d + m) \in Seq(S) /\ Len(SubSeq(s, d + 1, d + m)) = m
         /\ \A i \in 1..m : SubSeq(s, d + 1, d + m)[i] = s[d + i]
  <1>1. Channels \in Nat \ {0} /\ Len(s) \in Nat
    BY WorkerAssumption
  <1> DEFINE t == SubSeq(s, d + 1, d + m)
  <1>2. t \in Seq(S) /\ Len(t) = m /\ \A i \in 1..m : t[i] = s[d + i]
    <2>1. \A i \in d + 1..d + m : s[i] \in S
      BY <1>1
    <2>2. /\ d + 1 \in Int /\ d + m \in Int /\ (d + m) - (d + 1) + 1 = m
          /\ \A i \in Nat : (d + 1) + i - 1 = d + i
      OBVIOUS
    <2>3. /\ t \in Seq(S) /\ Len(t) = IF d + 1 <= d + m THEN (d + m) - (d + 1) + 1 ELSE 0
          /\ \A i \in 1..(d + m) - (d + 1) + 1 : t[i] = s[(d + 1) + i - 1]
      BY <2>1, <2>2, SubSeqProperties
    <2> HIDE DEF t
    <2> QED
      BY <2>2, <2>3
  <1> HIDE DEF t
  <1>3. PICK x, y, n \in Nat : x = d * Channels /\ y = m * Channels /\ n = Len(s) * Channels
    <2>1. d * Channels \in Nat /\ m * Channels \in Nat /\ Len(s) * Channels \in Nat
      BY <1>1
    <2> QED
      BY <2>1
  <1>4. (d + m) * Channels = x + y /\ x + y <= n
    <2>1. (d + m) * Channels <= Len(s) * Channels
      BY <1>1, ProductMonotone
    <2> QED
      BY <1>1, <1>3, <2>1
  <1>5. /\ Wide(s) \in Seq(S) /\ Len(Wide(s)) = n
        /\ \A i \in 1..n : Wide(s)[i] = s[Source(i, Channels)]
    BY <1>3, WideType
  <1>6. /\ Wide(t) \in Seq(S) /\ Len(Wide(t)) = y
        /\ \A i \in 1..y : Source(i, Channels) \in 1..m /\ Wide(t)[i] = t[Source(i, Channels)]
    BY <1>2, <1>3, WideType
  <1> DEFINE u == SubSeq(Wide(s), x + 1, x + y)
  <1>7. u \in Seq(S) /\ Len(u) = y /\ \A i \in 1..y : u[i] = Wide(s)[x + i]
    <2>1. \A i \in x + 1..x + y : Wide(s)[i] \in S
      BY <1>4, <1>5
    <2>2. /\ x + 1 \in Int /\ x + y \in Int /\ (x + y) - (x + 1) + 1 = y
          /\ \A i \in Nat : (x + 1) + i - 1 = x + i
      OBVIOUS
    <2>3. /\ u \in Seq(S) /\ Len(u) = IF x + 1 <= x + y THEN (x + y) - (x + 1) + 1 ELSE 0
          /\ \A i \in 1..(x + y) - (x + 1) + 1 : u[i] = Wide(s)[(x + 1) + i - 1]
      BY <2>1, <2>2, SubSeqProperties
    <2> HIDE DEF u
    <2> QED
      BY <2>2, <2>3
  <1> HIDE DEF u
  <1>8. ASSUME NEW i \in 1..y
        PROVE  u[i] = Wide(t)[i]
    <2>1. i \in Nat \ {0} /\ x + i \in 1..n /\ i + d * Channels = x + i
      BY <1>3, <1>4
    <2>2. Source(x + i, Channels) = Source(i, Channels) + d
      <3>1. \A e \in Nat : Source(i + e * Channels, Channels) = Source(i, Channels) + e
        BY <1>1, <2>1, SourceFacts
      <3> QED
        BY <2>1, <3>1
    <2>3. u[i] = s[Source(i, Channels) + d]
      BY <1>5, <1>7, <2>1, <2>2
    <2>4. Wide(t)[i] = s[d + Source(i, Channels)]
      BY <1>2, <1>6
    <2>5. Source(i, Channels) + d = d + Source(i, Channels)
      BY <1>6
    <2> QED
      BY <2>3, <2>4, <2>5
  <1>9. u = Wide(t)
    BY <1>6, <1>7, <1>8, SeqEqual
  <1> QED
    BY <1>2, <1>3, <1>4, <1>9 DEF t, u

-----------------------------------------------------------------------------
(* The way of the voices of the peers.                                     *)

\* What is played, without its channels.
Heard == [peer : Peer, at : Nat]

\* The samples of a peer come in their order, and none is from a frame beyond
\* the first upto[p] of them.
Orderly(s, upto) ==
  /\ \A i \in 1..Len(s) : s[i].at <= upto[s[i].peer] * PerFrame
  /\ \A i, j \in 1..Len(s) : i < j /\ s[i].peer = s[j].peer => s[i].at < s[j].at

\* Frames after `from', up to `to', in their order.
Rises(s, from, to) ==
  /\ s \in Seq(Nat)
  /\ \A i \in 1..Len(s) : from < s[i] /\ s[i] <= to
  /\ \A i, j \in 1..Len(s) : i < j => s[i] < s[j]

Waiting == [peer : Peer, n : Nat]

\* The same for the frames of all peers in the playback channel.
RisesForEach(s, from, to) ==
  /\ s \in Seq(Waiting)
  /\ \A i \in 1..Len(s) : from[s[i].peer] < s[i].n /\ s[i].n <= to[s[i].peer]
  /\ \A i, j \in 1..Len(s) : i < j /\ s[i].peer = s[j].peer => s[i].n < s[j].n

\* Dropping from the middle keeps the order.
LEMMA OrderlyDrop ==
  ASSUME NEW upto, NEW x \in Seq(Heard), NEW y \in Seq(Heard), Orderly(x \o y, upto),
         NEW d \in Nat, NEW m \in Nat, d + m = Len(y), NEW z \in Seq(Heard), Len(z) = m,
         \A i \in 1..m : z[i] = y[d + i]
  PROVE  Orderly(x \o z, upto)
  <1> DEFINE n == Len(x)
             back(i) == IF i <= n THEN i ELSE i + d
  <1>1. n \in Nat /\ Len(y) = d + m
    OBVIOUS
  <1>2. /\ x \o y \in Seq(Heard) /\ Len(x \o y) = n + Len(y)
        /\ \A i \in 1..n + Len(y) : (x \o y)[i] = IF i <= n THEN x[i] ELSE y[i - n]
    BY ConcatProperties
  <1>3. /\ x \o z \in Seq(Heard) /\ Len(x \o z) = n + m
        /\ \A i \in 1..n + m : (x \o z)[i] = IF i <= n THEN x[i] ELSE z[i - n]
    BY ConcatProperties
  <1>4. ASSUME NEW i \in 1..n + m
        PROVE  back(i) \in 1..n + Len(y) /\ (x \o z)[i] = (x \o y)[back(i)]
    <2>1. CASE i <= n
      BY <1>1, <1>2, <1>3, <2>1
    <2>2. CASE ~(i <= n)
      <3>1. /\ back(i) = i + d /\ i + d \in 1..n + Len(y) /\ ~(i + d <= n)
            /\ i - n \in 1..m /\ (i + d) - n = d + (i - n)
        BY <1>1, <2>2
      <3>2. (x \o z)[i] = y[d + (i - n)]
        BY <1>3, <2>2, <3>1
      <3>3. (x \o y)[i + d] = y[(i + d) - n]
        BY <1>2, <3>1
      <3> QED
        BY <3>1, <3>2, <3>3
    <2> QED
      BY <2>1, <2>2
  <1>5. \A i, j \in 1..n + m : i < j => back(i) < back(j)
    BY <1>1
  <1> HIDE DEF back, n
  <1>6. \A i \in 1..n + m : (x \o z)[i].at <= upto[(x \o z)[i].peer] * PerFrame
    BY <1>2, <1>4 DEF Orderly
  <1>7. ASSUME NEW i \in 1..n + m, NEW j \in 1..n + m,
               i < j, (x \o z)[i].peer = (x \o z)[j].peer
        PROVE  (x \o z)[i].at < (x \o z)[j].at
    <2>1. PICK k, l \in 1..n + Len(y) :
            /\ k < l
            /\ (x \o z)[i] = (x \o y)[k] /\ (x \o z)[j] = (x \o y)[l]
      BY <1>4, <1>5, <1>7
    <2>2. (x \o y)[k].peer = (x \o y)[l].peer
      BY <1>7, <2>1
    <2>3. (x \o y)[k].at < (x \o y)[l].at
      BY <1>2, <2>1, <2>2 DEF Orderly
    <2> QED
      BY <2>1, <2>3
  <1> QED
    BY <1>3, <1>6, <1>7 DEF Orderly

\* A prepared frame, without its channels.
Mono(f) == [k \in 1..PerFrame |-> [peer |-> f.peer, at |-> (f.n - 1) * PerFrame + k]]

LEMMA MonoType ==
  ASSUME NEW f \in Waiting, f.n > 0
  PROVE  /\ Mono(f) \in Seq(Heard) /\ Len(Mono(f)) = PerFrame /\ Prepared(f) = Wide(Mono(f))
         /\ \A k \in 1..PerFrame : /\ Mono(f)[k].peer = f.peer
                                   /\ Mono(f)[k].at = (f.n - 1) * PerFrame + k
         /\ (f.n - 1) * PerFrame \in Nat
         /\ f.n * PerFrame = (f.n - 1) * PerFrame + PerFrame
  <1>1. PerFrame \in Nat \ {0} /\ f.n \in Nat \ {0} /\ f.peer \in Peer
    BY WorkerAssumption DEF Waiting
  <1>2. PICK b \in Nat : b = f.n - 1
    BY <1>1
  <1>3. PICK x \in Nat : x = b * PerFrame
    BY <1>1
  <1>4. (f.n - 1) * PerFrame = x /\ f.n * PerFrame = x + PerFrame
    <2>1. f.n = b + 1 /\ (b + 1) * PerFrame = b * PerFrame + PerFrame
      BY <1>1, <1>2
    <2> QED
      BY <1>2, <1>3, <2>1
  <1> DEFINE m == Mono(f)
  <1>5. m = [k \in 1..PerFrame |-> [peer |-> f.peer, at |-> x + k]]
    BY <1>4 DEF Mono
  <1> HIDE DEF m
  <1>6. \A k \in 1..PerFrame : [peer |-> f.peer, at |-> x + k] \in Heard
    BY <1>1 DEF Heard
  <1>7. m \in Seq(Heard) /\ Len(m) = PerFrame
    BY <1>1, <1>5, <1>6
  <1>8. \A k \in 1..PerFrame : m[k].peer = f.peer /\ m[k].at = x + k
    BY <1>5
  <1>9. Prepared(f) = Wide(m)
    <2>1. \A i \in 1..PerFrame * Channels :
            /\ Source(i, Channels) \in 1..PerFrame
            /\ m[Source(i, Channels)]
                 = [peer |-> f.peer, at |-> x + Source(i, Channels)]
      BY <1>5, <1>7, WideType
    <2>2. \A i \in 1..PerFrame * Channels :
            x + (i - 1) \div Channels + 1 = x + Source(i, Channels)
      <3> TAKE i \in 1..PerFrame * Channels
      <3>1. i - 1 \in Nat /\ Channels \in Nat \ {0}
        BY <1>1, WorkerAssumption
      <3>2. PICK y \in Nat : y = (i - 1) \div Channels
        BY <3>1
      <3> QED
        BY <3>2 DEF Source
    <2>3. Wide(m) = [i \in 1..PerFrame * Channels |-> m[Source(i, Channels)]]
      BY <1>7 DEF Wide
    <2>4. Prepared(f) = [i \in 1..PerFrame * Channels |->
                           [peer |-> f.peer, at |-> x + (i - 1) \div Channels + 1]]
      BY <1>4 DEF Prepared
    <2> QED
      BY <2>1, <2>2, <2>3, <2>4
  <1> QED
    BY <1>4, <1>7, <1>8, <1>9 DEF m

\* A frame after those whose samples are in s keeps the order.
LEMMA OrderlyExtend ==
  ASSUME NEW upto \in [Peer -> Nat], NEW s \in Seq(Heard), Orderly(s, upto),
         NEW f \in Waiting, upto[f.peer] < f.n
  PROVE  Orderly(s \o Mono(f), [upto EXCEPT ![f.peer] = f.n])
  <1>1. PerFrame \in Nat \ {0} /\ f.n \in Nat \ {0} /\ f.peer \in Peer /\ upto[f.peer] \in Nat
    BY WorkerAssumption DEF Waiting
  <1> DEFINE m == Mono(f)
             r == s \o m
             n == Len(s)
             up == [upto EXCEPT ![f.peer] = f.n]
  <1>2. PICK x \in Nat : x = (f.n - 1) * PerFrame
    BY <1>1, MonoType
  <1>3. /\ m \in Seq(Heard) /\ Len(m) = PerFrame
        /\ \A k \in 1..PerFrame : m[k].peer = f.peer /\ m[k].at = x + k
        /\ f.n * PerFrame = x + PerFrame
    BY <1>1, <1>2, MonoType
  <1>4. upto[f.peer] * PerFrame <= x
    <2>1. PICK u, b \in Nat : u = upto[f.peer] /\ b = f.n - 1 /\ u <= b
      BY <1>1
    <2>2. u * PerFrame <= b * PerFrame
      BY <1>1, <2>1, ProductMonotone
    <2> QED
      BY <1>2, <2>1, <2>2
  <1> HIDE DEF m
  <1>5. /\ n \in Nat /\ r \in Seq(Heard) /\ Len(r) = n + PerFrame
        /\ \A i \in 1..n + PerFrame : r[i] = IF i <= n THEN s[i] ELSE m[i - n]
    <2>1. n \in Nat
      OBVIOUS
    <2>2. /\ r \in Seq(Heard) /\ Len(r) = Len(s) + Len(m)
          /\ \A i \in 1..Len(s) + Len(m) : r[i] = IF i <= Len(s) THEN s[i] ELSE m[i - Len(s)]
      BY <1>3, ConcatProperties
    <2> QED
      BY <1>3, <2>1, <2>2
  <1> HIDE DEF r, n
  <1>6. ASSUME NEW i \in 1..n
        PROVE  /\ r[i] = s[i] /\ s[i].peer \in Peer /\ s[i].at \in Nat
               /\ s[i].at <= upto[s[i].peer] * PerFrame
               /\ (s[i].peer = f.peer => s[i].at <= x)
    <2>1. r[i] = s[i]
      BY <1>1, <1>5
    <2>2. s[i] \in Heard /\ s[i].at <= upto[s[i].peer] * PerFrame
      BY DEF n, Orderly
    <2>3. s[i].peer \in Peer /\ s[i].at \in Nat
      BY <2>2 DEF Heard
    <2>4. PICK u \in Nat : u = upto[f.peer] * PerFrame
      BY <1>1
    <2>5. s[i].peer = f.peer => s[i].at <= x
      BY <1>4, <2>2, <2>3, <2>4
    <2> QED
      BY <2>1, <2>2, <2>3, <2>5
  <1>7. ASSUME NEW i \in n + 1..n + PerFrame
        PROVE  r[i].peer = f.peer /\ r[i].at = x + (i - n)
    BY <1>1, <1>3, <1>5
  <1>8. up[f.peer] = f.n /\ \A p \in Peer : p # f.peer => up[p] = upto[p]
    BY <1>1
  <1> HIDE DEF up
  <1>9. \A i \in 1..n + PerFrame : i \in 1..n \/ i \in n + 1..n + PerFrame
    BY <1>1, <1>5
  <1>10. ASSUME NEW i \in 1..n + PerFrame
         PROVE  r[i].at <= up[r[i].peer] * PerFrame
    <2>1. CASE i \in 1..n
      <3>1. CASE s[i].peer = f.peer
        <4>1. up[r[i].peer] * PerFrame = x + PerFrame /\ r[i].at <= x /\ r[i].at \in Nat
          BY <1>3, <1>6, <1>8, <2>1, <3>1
        <4> QED
          BY <1>1, <4>1
      <3>2. CASE s[i].peer # f.peer
        <4>1. up[s[i].peer] = upto[s[i].peer]
          BY <1>6, <1>8, <2>1, <3>2
        <4> QED
          BY <1>6, <2>1, <4>1
      <3> QED
        BY <3>1, <3>2
    <2>2. CASE i \in n + 1..n + PerFrame
      <3>1. up[r[i].peer] * PerFrame = x + PerFrame /\ r[i].at = x + (i - n)
        BY <1>3, <1>7, <1>8, <2>2
      <3>2. x + (i - n) <= x + PerFrame
        BY <1>1, <1>5, <2>2
      <3> QED
        BY <3>1, <3>2
    <2> QED
      BY <1>9, <2>1, <2>2
  <1>11. ASSUME NEW i \in 1..n + PerFrame, NEW j \in 1..n + PerFrame,
                i < j, r[i].peer = r[j].peer
         PROVE  r[i].at < r[j].at
    <2>1. CASE i \in 1..n /\ j \in 1..n
      <3>1. s[i].peer = s[j].peer
        BY <1>6, <1>11, <2>1
      <3>2. s[i].at < s[j].at
        BY <1>11, <2>1, <3>1 DEF Orderly, n
      <3> QED
        BY <1>6, <2>1, <3>2
    <2>2. CASE i \in 1..n /\ j \in n + 1..n + PerFrame
      <3>1. r[i].at <= x /\ r[i].at \in Nat
        BY <1>6, <1>7, <1>11, <2>2
      <3>2. r[j].at = x + (j - n) /\ j - n > 0 /\ j - n \in Nat
        BY <1>1, <1>5, <1>7, <2>2
      <3> QED
        BY <3>1, <3>2
    <2>3. CASE i \in n + 1..n + PerFrame /\ j \in n + 1..n + PerFrame
      <3>1. r[i].at = x + (i - n) /\ r[j].at = x + (j - n)
        BY <1>7, <2>3
      <3> QED
        BY <1>1, <1>5, <1>11, <2>3, <3>1
    <2>4. ~(i \in n + 1..n + PerFrame /\ j \in 1..n)
      BY <1>1, <1>5, <1>11
    <2> QED
      BY <1>9, <2>1, <2>2, <2>3, <2>4
  <1>12. Orderly(r, up)
    BY <1>5, <1>10, <1>11 DEF Orderly
  <1> QED
    BY <1>12 DEF r, m, up

\* What has been played and what is queued come from hs and qs, and no frame
\* beyond the first upto[p] of a peer is in them.
Device(upto, hs, qs) ==
  /\ hs \in Seq(Heard) /\ qs \in Seq(Heard)
  /\ heard = Wide(hs) /\ queue = Wide(qs)
  /\ Orderly(hs \o qs, upto)

\* From the network to the playback thread: the frames up to done[p] have been
\* fed to the device, those up to out[p] have left the jitter buffer, and
\* those up to in[p] the socket.
Way(done, out, in) ==
  /\ done \in [Peer -> Nat] /\ out \in [Peer -> Nat] /\ in \in [Peer -> Nat]
  /\ spoken \in [Peer -> Nat]
  /\ \A p \in Peer : done[p] <= out[p] /\ out[p] <= in[p] /\ in[p] <= spoken[p]
  /\ RisesForEach(playback, done, out)
  /\ DOMAIN jitter = Peer /\ \A p \in Peer : Rises(jitter[p], out[p], in[p])
  /\ DOMAIN socket = Peer /\ \A p \in Peer : Rises(socket[p], in[p], spoken[p])

VoiceInv ==
  \E done, out, in, hs, qs : Device(done, hs, qs) /\ Way(done, out, in)

\* The queue holds whole device frames and the cap is a whole number of them,
\* so that only whole device frames are dropped.
LEMMA CappedIsOrderly ==
  ASSUME NEW upto, NEW x \in Seq(Heard), NEW y \in Seq(Heard), Orderly(x \o y, upto)
  PROVE  \E z \in Seq(Heard) : Capped(Wide(y)) = Wide(z) /\ Orderly(x \o z, upto)
  <1>1. /\ Wide(y) \in Seq(Heard) /\ Len(Wide(y)) = Len(y) * Channels
        /\ Len(y) * Channels \in Nat
    BY WideType
  <1>2. CASE Len(Wide(y)) <= Cap
    BY <1>2 DEF Capped
  <1>3. CASE ~(Len(Wide(y)) <= Cap)
    <2>1. Channels \in Nat \ {0} /\ Cap \in Nat /\ Cap % Channels = 0 /\ Len(y) \in Nat
      BY WorkerAssumption
    <2>2. PICK c \in Nat : Cap = c * Channels
      <3>1. /\ Cap \div Channels \in Nat
            /\ Cap = (Cap \div Channels) * Channels + (Cap % Channels)
        BY <2>1
      <3>2. PICK c \in Nat : c = Cap \div Channels
        BY <3>1
      <3>3. c * Channels \in Nat /\ Cap = c * Channels + (Cap % Channels)
        BY <2>1, <3>1, <3>2
      <3>4. Cap = c * Channels
        BY <2>1, <3>3
      <3> QED
        BY <3>4
    <2>3. c <= Len(y)
      <3>1. Len(y) <= c => Len(y) * Channels <= c * Channels
        BY <2>1, ProductMonotone
      <3> QED
        BY <1>1, <1>3, <2>1, <2>2, <3>1
    <2>4. PICK d \in Nat : d + c = Len(y)
      <3>1. Len(y) - c \in Nat /\ (Len(y) - c) + c = Len(y)
        BY <2>1, <2>3
      <3> QED
        BY <3>1
    <2>5. Len(y) * Channels - Cap = d * Channels
      <3>1. (d + c) * Channels = d * Channels + c * Channels
            /\ d * Channels \in Nat /\ c * Channels \in Nat
        BY <2>1
      <3> QED
        BY <2>2, <2>4, <3>1
    <2> DEFINE z == SubSeq(y, d + 1, d + c)
    <2>6. /\ SubSeq(Wide(y), d * Channels + 1, (d + c) * Channels) = Wide(z)
          /\ z \in Seq(Heard) /\ Len(z) = c /\ \A i \in 1..c : z[i] = y[d + i]
      <3>1. d + c <= Len(y)
        BY <2>1, <2>4
      <3> QED
        BY <3>1, WidePart
    <2> HIDE DEF z
    <2>7. Capped(Wide(y)) = Wide(z)
      BY <1>1, <1>3, <2>4, <2>5, <2>6 DEF Capped
    <2>8. Orderly(x \o z, upto)
      BY <2>4, <2>6, OrderlyDrop
    <2> QED
      BY <2>6, <2>7, <2>8
  <1> QED
    BY <1>2, <1>3

LEMMA FeedKeeps ==
  ASSUME NEW done, NEW out, NEW in, NEW hs, NEW qs, Device(done, hs, qs), Way(done, out, in), Feed
  PROVE  VoiceInv'
  <1>1. /\ playback \in Seq(Waiting) /\ playback # <<>>
        /\ \A i \in 1..Len(playback) : /\ done[playback[i].peer] < playback[i].n
                                       /\ playback[i].n <= out[playback[i].peer]
        /\ \A i, j \in 1..Len(playback) :
             i < j /\ playback[i].peer = playback[j].peer => playback[i].n < playback[j].n
    BY DEF Way, RisesForEach, Feed
  <1>2. PICK f \in Waiting : 1 \in 1..Len(playback) /\ f = playback[1] /\ f = Head(playback)
    BY <1>1
  <1> DEFINE up == [done EXCEPT ![f.peer] = f.n]
  <1>3. done[f.peer] < f.n /\ f.n <= out[f.peer] /\ f.peer \in Peer /\ f.n \in Nat
    BY <1>1, <1>2 DEF Waiting
  <1>4. done \in [Peer -> Nat] /\ \A p \in Peer : done[p] <= out[p]
    BY DEF Way
  <1>5. /\ up \in [Peer -> Nat] /\ up[f.peer] = f.n
        /\ \A p \in Peer : p # f.peer => up[p] = done[p]
    BY <1>3, <1>4
  <1>6. f.n > 0
    BY <1>3, <1>4
  <1>7. Mono(f) \in Seq(Heard) /\ Prepared(f) = Wide(Mono(f))
    BY <1>2, <1>6, MonoType
  <1>8. /\ hs \in Seq(Heard) /\ qs \in Seq(Heard) /\ heard = Wide(hs) /\ queue = Wide(qs)
        /\ Orderly(hs \o qs, done)
    BY DEF Device
  <1> HIDE DEF up
  <1>9. Orderly(hs \o (qs \o Mono(f)), up)
    <2>1. hs \o qs \in Seq(Heard)
      BY <1>8, ConcatProperties
    <2>2. Orderly((hs \o qs) \o Mono(f), up)
      BY <1>2, <1>3, <1>4, <1>8, <2>1, OrderlyExtend DEF up
    <2>3. (hs \o qs) \o Mono(f) = hs \o (qs \o Mono(f))
      BY <1>7, <1>8, ConcatAssociative
    <2> QED
      BY <2>2, <2>3
  <1>10. qs \o Mono(f) \in Seq(Heard) /\ Wide(qs) \o Wide(Mono(f)) = Wide(qs \o Mono(f))
    BY <1>7, <1>8, ConcatProperties, WideConcat
  <1>11. PICK z \in Seq(Heard) : /\ Capped(Wide(qs \o Mono(f))) = Wide(z)
                                 /\ Orderly(hs \o z, up)
    BY <1>8, <1>9, <1>10, CappedIsOrderly
  <1>12. queue' = Wide(z) /\ heard' = Wide(hs)
    BY <1>2, <1>7, <1>8, <1>10, <1>11 DEF Feed
  <1>13. Device(up, hs, z)'
    BY <1>8, <1>11, <1>12 DEF Device
  <1>14. RisesForEach(Tail(playback), up, out)
    <2>1. /\ Tail(playback) \in Seq(Waiting) /\ Len(Tail(playback)) = Len(playback) - 1
          /\ \A i \in 1..Len(playback) - 1 : Tail(playback)[i] = playback[i + 1]
          /\ Len(playback) \in Nat
      BY <1>1
    <2>2. ASSUME NEW i \in 1..Len(playback) - 1
          PROVE  up[playback[i + 1].peer] < playback[i + 1].n
      <3>1. i + 1 \in 1..Len(playback) /\ 1 < i + 1
        BY <2>1
      <3>2. playback[i + 1].peer \in Peer
        <4>1. playback[i + 1] \in Waiting
          BY <1>1, <3>1
        <4> QED
          BY <4>1 DEF Waiting
      <3>3. playback[i + 1].peer = f.peer => f.n < playback[i + 1].n
        BY <1>1, <1>2, <3>1
      <3> QED
        BY <1>1, <1>5, <3>1, <3>2, <3>3
    <2>3. \A i \in 1..Len(playback) - 1 : i + 1 \in 1..Len(playback)
      BY <2>1
    <2>4. \A i, j \in 1..Len(playback) - 1 : i < j => i + 1 < j + 1
      BY <2>1
    <2>5. \A i \in 1..Len(Tail(playback)) :
            /\ up[Tail(playback)[i].peer] < Tail(playback)[i].n
            /\ Tail(playback)[i].n <= out[Tail(playback)[i].peer]
      BY <1>1, <2>1, <2>2, <2>3
    <2>6. \A i, j \in 1..Len(Tail(playback)) :
            i < j /\ Tail(playback)[i].peer = Tail(playback)[j].peer
              => Tail(playback)[i].n < Tail(playback)[j].n
      BY <1>1, <2>1, <2>3, <2>4
    <2> QED
      BY <2>1, <2>5, <2>6 DEF RisesForEach
  <1>15. \A p \in Peer : up[p] <= out[p]
    BY <1>3, <1>4, <1>5
  <1>16. Way(up, out, in)'
    BY <1>5, <1>14, <1>15 DEF Way, Feed
  <1> QED
    BY <1>13, <1>16 DEF VoiceInv

\* Taking the first m samples for all channels.
LEMMA WideSplit ==
  ASSUME NEW S, NEW s \in Seq(S), NEW m \in 0..Len(s)
  PROVE  /\ SubSeq(Wide(s), 1, m * Channels) = Wide(SubSeq(s, 1, m))
         /\ SubSeq(Wide(s), m * Channels + 1, Len(s) * Channels) = Wide(SubSeq(s, m + 1, Len(s)))
         /\ SubSeq(s, 1, m) \in Seq(S) /\ SubSeq(s, m + 1, Len(s)) \in Seq(S)
         /\ Len(SubSeq(s, 1, m)) = m
         /\ SubSeq(s, 1, m) \o SubSeq(s, m + 1, Len(s)) = s
  <1>1. /\ SubSeq(Wide(s), 0 * Channels + 1, (0 + m) * Channels) = Wide(SubSeq(s, 0 + 1, 0 + m))
        /\ SubSeq(s, 0 + 1, 0 + m) \in Seq(S) /\ Len(SubSeq(s, 0 + 1, 0 + m)) = m
    <2>1. PICK z \in Nat : z = 0
      OBVIOUS
    <2>2. z + m <= Len(s) /\ m \in Nat
      BY <2>1
    <2>3. /\ SubSeq(Wide(s), z * Channels + 1, (z + m) * Channels) = Wide(SubSeq(s, z + 1, z + m))
          /\ SubSeq(s, z + 1, z + m) \in Seq(S) /\ Len(SubSeq(s, z + 1, z + m)) = m
      BY <2>2, WidePart
    <2> QED
      BY <2>1, <2>3
  <1>2. 0 * Channels + 1 = 1 /\ 0 + m = m /\ 0 + 1 = 1
    BY WorkerAssumption
  <1>3. PICK r \in Nat : m + r = Len(s)
    <2>1. Len(s) - m \in Nat /\ m + (Len(s) - m) = Len(s)
      OBVIOUS
    <2> QED
      BY <2>1
  <1>4. /\ SubSeq(Wide(s), m * Channels + 1, (m + r) * Channels) = Wide(SubSeq(s, m + 1, m + r))
        /\ SubSeq(s, m + 1, m + r) \in Seq(S)
    <2>1. m + r <= Len(s) /\ m \in Nat
      BY <1>3
    <2> QED
      BY <2>1, WidePart
  <1>5. SubSeq(s, 1, m) \o SubSeq(s, m + 1, Len(s)) = s
    <2>1. /\ 1 \in 1..Len(s) + 1 /\ m \in 1 - 1..Len(s) /\ Len(s) \in m..Len(s)
      OBVIOUS
    <2>2. SubSeq(s, 1, m) \o SubSeq(s, m + 1, Len(s)) = SubSeq(s, 1, Len(s))
      BY <2>1, ConcatAdjacentSubSeq
    <2> QED
      BY <2>2, SubSeqFull
  <1> QED
    BY <1>1, <1>2, <1>3, <1>4, <1>5

LEMMA PlayKeeps ==
  ASSUME NEW done, NEW out, NEW in, NEW hs, NEW qs, Device(done, hs, qs), Way(done, out, in), Play
  PROVE  VoiceInv'
  <1>1. Channels \in Nat \ {0} /\ Period \in Nat \ {0}
    BY WorkerAssumption
  <1>2. /\ hs \in Seq(Heard) /\ qs \in Seq(Heard) /\ heard = Wide(hs) /\ queue = Wide(qs)
        /\ Orderly(hs \o qs, done)
    BY DEF Device
  <1>3. PICK l \in Nat : l = Len(qs)
    BY <1>2
  <1>4. PICK m \in 0..l : m = IF l < Period THEN l ELSE Period
    BY <1>1
  <1>5. PICK first, others :
          /\ first = SubSeq(qs, 1, m) /\ others = SubSeq(qs, m + 1, l)
          /\ first \in Seq(Heard) /\ others \in Seq(Heard) /\ Len(first) = m
          /\ first \o others = qs
          /\ SubSeq(queue, 1, m * Channels) = Wide(first)
          /\ SubSeq(queue, m * Channels + 1, l * Channels) = Wide(others)
    <2>1. qs \in Seq(Heard) /\ m \in 0..Len(qs)
      BY <1>2, <1>3
    <2>2. /\ SubSeq(Wide(qs), 1, m * Channels) = Wide(SubSeq(qs, 1, m))
          /\ SubSeq(Wide(qs), m * Channels + 1, Len(qs) * Channels)
               = Wide(SubSeq(qs, m + 1, Len(qs)))
          /\ SubSeq(qs, 1, m) \in Seq(Heard) /\ SubSeq(qs, m + 1, Len(qs)) \in Seq(Heard)
          /\ Len(SubSeq(qs, 1, m)) = m
          /\ SubSeq(qs, 1, m) \o SubSeq(qs, m + 1, Len(qs)) = qs
      BY <2>1, WideSplit
    <2> QED
      BY <1>2, <1>3, <2>2
  <1> DEFINE n == Period * Channels
             size == IF Len(queue) < n THEN Len(queue) ELSE n
             taken == SubSeq(queue, 1, size)
  <1>6. Len(queue) = l * Channels /\ l * Channels \in Nat /\ n \in Nat /\ m * Channels \in Nat
    BY <1>1, <1>2, <1>3, WideType
  <1>7. size = m * Channels
    <2>1. CASE l < Period
      <3>1. l * Channels <= Period * Channels
        BY <1>1, <2>1, ProductMonotone
      <3> QED
        BY <1>4, <1>6, <2>1, <3>1
    <2>2. CASE ~(l < Period)
      <3>1. Period * Channels <= l * Channels
        BY <1>1, <2>2, ProductMonotone
      <3> QED
        BY <1>4, <1>6, <2>2, <3>1
    <2> QED
      BY <2>1, <2>2
  <1>8. taken = Wide(first)
    BY <1>5, <1>7
  <1>9. Len(taken) = m * Channels
    BY <1>5, <1>8, WideType
  <1>10. heard' = heard \o taken /\ queue' = SubSeq(queue, Len(taken) + 1, Len(queue))
    BY DEF Play
  <1> HIDE DEF taken, size, n
  <1>11. heard' = Wide(hs \o first)
    BY <1>2, <1>5, <1>8, <1>10, WideConcat
  <1>12. queue' = Wide(others)
    BY <1>5, <1>6, <1>9, <1>10
  <1>13. (hs \o first) \o others = hs \o qs /\ hs \o first \in Seq(Heard)
    <2>1. hs \in Seq(Heard) /\ first \in Seq(Heard) /\ others \in Seq(Heard)
      BY <1>2, <1>5
    <2>2. (hs \o first) \o others = hs \o (first \o others)
      BY <2>1, ConcatAssociative
    <2>3. hs \o first \in Seq(Heard)
      BY <2>1, ConcatProperties
    <2> QED
      BY <1>5, <2>2, <2>3
  <1>14. Device(done, hs \o first, others)'
    BY <1>2, <1>5, <1>11, <1>12, <1>13 DEF Device
  <1>15. Way(done, out, in)'
    BY DEF Way, Play
  <1> QED
    BY <1>14, <1>15 DEF VoiceInv

LEMMA RisesAppend ==
  ASSUME NEW s, NEW from \in Nat, NEW to \in Nat, Rises(s, from, to), from <= to,
         NEW n \in Nat, to < n
  PROVE  Rises(Append(s, n), from, n)
  <1>1. s \in Seq(Nat) /\ Len(s) \in Nat
    BY DEF Rises
  <1> DEFINE r == Append(s, n)
  <1>2. /\ r \in Seq(Nat) /\ Len(r) = Len(s) + 1 /\ r[Len(s) + 1] = n
        /\ \A i \in 1..Len(s) : r[i] = s[i] /\ s[i] \in Nat
    BY <1>1
  <1> HIDE DEF r
  <1>3. /\ \A i \in 1..Len(s) : from < s[i] /\ s[i] <= to
        /\ \A i, j \in 1..Len(s) : i < j => s[i] < s[j]
    BY DEF Rises
  <1>6. \A i \in 1..Len(r) : i \in 1..Len(s) \/ i = Len(s) + 1
    BY <1>1, <1>2
  <1>7. \A i \in 1..Len(r) : from < r[i] /\ r[i] <= n
    <2> TAKE i \in 1..Len(r)
    <2>1. CASE i \in 1..Len(s)
      BY <1>2, <1>3, <2>1
    <2>2. CASE i = Len(s) + 1
      BY <1>2, <2>2
    <2> QED
      BY <1>6, <2>1, <2>2
  <1>4. ASSUME NEW i \in 1..Len(r), NEW j \in 1..Len(r), i < j
        PROVE  r[i] < r[j]
    <2>1. i \in 1..Len(s)
      BY <1>1, <1>2, <1>4
    <2>2. CASE j \in 1..Len(s)
      BY <1>2, <1>3, <1>4, <2>1, <2>2
    <2>3. CASE j = Len(s) + 1
      BY <1>2, <1>3, <2>1, <2>3
    <2> QED
      BY <1>6, <2>2, <2>3
  <1>5. Rises(r, from, n)
    BY <1>2, <1>4, <1>7 DEF Rises
  <1> QED
    BY <1>5 DEF r

LEMMA RisesTail ==
  ASSUME NEW s, NEW from \in Nat, NEW to \in Nat, Rises(s, from, to), s # <<>>
  PROVE  /\ Rises(Tail(s), from, to) /\ Rises(Tail(s), Head(s), to)
         /\ Head(s) \in Nat /\ from < Head(s) /\ Head(s) <= to
  <1>1. s \in Seq(Nat) /\ Len(s) \in Nat /\ 1 \in 1..Len(s) /\ Head(s) = s[1]
    BY DEF Rises
  <1> DEFINE r == Tail(s)
  <1>2. r \in Seq(Nat) /\ Len(r) = Len(s) - 1 /\ \A i \in 1..Len(r) : r[i] = s[i + 1]
    BY <1>1, HeadTailProperties
  <1> HIDE DEF r
  <1>3. \A i \in 1..Len(r) : i + 1 \in 1..Len(s) /\ 1 < i + 1
    BY <1>1, <1>2
  <1>4. \A i \in 1..Len(r) : from < r[i] /\ s[1] < r[i] /\ r[i] <= to
    BY <1>1, <1>2, <1>3 DEF Rises
  <1>5. \A i, j \in 1..Len(r) : i < j => i + 1 < j + 1
    BY <1>2
  <1>6. \A i, j \in 1..Len(r) : i < j => r[i] < r[j]
    BY <1>2, <1>3, <1>5 DEF Rises
  <1>7. Rises(r, from, to) /\ Rises(r, s[1], to)
    BY <1>2, <1>4, <1>6 DEF Rises
  <1>8. s[1] \in Nat /\ from < s[1] /\ s[1] <= to
    BY <1>1 DEF Rises
  <1> QED
    BY <1>1, <1>7, <1>8 DEF r

LEMMA DrainKeeps ==
  ASSUME NEW done, NEW out, NEW in, NEW hs, NEW qs, Device(done, hs, qs), Way(done, out, in),
         NEW p \in Peer, Drain(p)
  PROVE  VoiceInv'
  <1>0. Device(done, hs, qs)'
    BY DEF Device, Drain, speaker
  <1>1. /\ done \in [Peer -> Nat] /\ out \in [Peer -> Nat] /\ in \in [Peer -> Nat]
        /\ spoken \in [Peer -> Nat]
        /\ \A q \in Peer : done[q] <= out[q] /\ out[q] <= in[q] /\ in[q] <= spoken[q]
        /\ DOMAIN jitter = Peer
        /\ \A q \in Peer : Rises(jitter[q], out[q], in[q])
    BY DEF Way
  <1>2. /\ playback \in Seq(Waiting)
        /\ \A i \in 1..Len(playback) : /\ done[playback[i].peer] < playback[i].n
                                       /\ playback[i].n <= out[playback[i].peer]
        /\ \A i, j \in 1..Len(playback) :
             i < j /\ playback[i].peer = playback[j].peer => playback[i].n < playback[j].n
    BY DEF Way, RisesForEach
  <1>3. PICK s : s = jitter[p] /\ Rises(s, out[p], in[p])
    BY <1>1
  <1>4. PICK fs : fs = FramesOf(p) /\ fs = [k \in 1..Len(s) |-> [peer |-> p, n |-> s[k]]]
    BY <1>3 DEF FramesOf
  <1>5. /\ s \in Seq(Nat) /\ Len(s) \in Nat
        /\ \A i \in 1..Len(s) : s[i] \in Nat /\ out[p] < s[i] /\ s[i] <= in[p]
        /\ \A i, j \in 1..Len(s) : i < j => s[i] < s[j]
    BY <1>3 DEF Rises
  <1>6. /\ fs \in Seq(Waiting) /\ Len(fs) = Len(s)
        /\ \A i \in 1..Len(s) : fs[i].peer = p /\ fs[i].n = s[i]
    <2>1. \A k \in 1..Len(s) : [peer |-> p, n |-> s[k]] \in Waiting
      BY <1>5 DEF Waiting
    <2> QED
      BY <1>4, <1>5, <2>1
  <1> DEFINE l == Len(playback)
  <1>18. PICK o, r : o = [out EXCEPT ![p] = in[p]] /\ r = playback \o fs
    OBVIOUS
  <1>7. /\ o \in [Peer -> Nat] /\ o[p] = in[p] /\ \A q \in Peer : q # p => o[q] = out[q]
        /\ \A q \in Peer : done[q] <= o[q] /\ o[q] <= in[q] /\ out[q] <= o[q]
    BY <1>1, <1>18
  <1>8. /\ r \in Seq(Waiting) /\ Len(r) = l + Len(s) /\ l \in Nat
        /\ \A i \in 1..l + Len(s) : r[i] = IF i <= l THEN playback[i] ELSE fs[i - l]
    <2>1. /\ playback \o fs \in Seq(Waiting) /\ Len(playback \o fs) = Len(playback) + Len(fs)
          /\ \A i \in 1..Len(playback) + Len(fs) :
               (playback \o fs)[i]
                 = IF i <= Len(playback) THEN playback[i] ELSE fs[i - Len(playback)]
      <3>1. playback \in Seq(Waiting) /\ fs \in Seq(Waiting)
        BY <1>2, <1>6
      <3> QED
        BY <3>1, ConcatProperties
    <2> QED
      BY <1>2, <1>6, <1>18, <2>1
  <1>9. ASSUME NEW i \in 1..l
        PROVE  /\ r[i] = playback[i] /\ playback[i].peer \in Peer /\ playback[i].n \in Nat
               /\ done[playback[i].peer] < playback[i].n
               /\ playback[i].n <= out[playback[i].peer]
    <2>1. playback[i] \in Waiting /\ r[i] = playback[i]
      BY <1>2, <1>5, <1>8
    <2>2. playback[i].peer \in Peer /\ playback[i].n \in Nat
      BY <2>1 DEF Waiting
    <2> QED
      BY <1>2, <2>1, <2>2
  <1>10. ASSUME NEW i \in l + 1..l + Len(s)
         PROVE  /\ i - l \in 1..Len(s) /\ r[i].peer = p /\ r[i].n = s[i - l]
                /\ r[i].n \in Nat /\ out[p] < r[i].n /\ r[i].n <= in[p]
    <2>1. i - l \in 1..Len(s) /\ r[i] = fs[i - l]
      BY <1>5, <1>8
    <2> QED
      BY <1>5, <1>6, <2>1
  <1>11. \A i \in 1..l + Len(s) : i \in 1..l \/ i \in l + 1..l + Len(s)
    BY <1>5, <1>8
  <1>12. ASSUME NEW i \in 1..l + Len(s)
         PROVE  done[r[i].peer] < r[i].n /\ r[i].n <= o[r[i].peer]
    <2>1. CASE i \in 1..l
      <3>1. out[playback[i].peer] <= o[playback[i].peer]
        BY <1>7, <1>9, <2>1
      <3>2. out[playback[i].peer] \in Nat /\ o[playback[i].peer] \in Nat
        BY <1>1, <1>7, <1>9, <2>1
      <3> QED
        BY <1>9, <2>1, <3>1, <3>2
    <2>2. CASE i \in l + 1..l + Len(s)
      <3>1. done[p] \in Nat /\ out[p] \in Nat /\ done[p] <= out[p]
        BY <1>1
      <3> QED
        BY <1>7, <1>10, <2>2, <3>1
    <2> QED
      BY <1>11, <2>1, <2>2
  <1>13. ASSUME NEW i \in 1..l + Len(s), NEW j \in 1..l + Len(s),
                i < j, r[i].peer = r[j].peer
         PROVE  r[i].n < r[j].n
    <2>1. CASE i \in 1..l /\ j \in 1..l
      BY <1>2, <1>9, <1>13, <2>1
    <2>2. CASE i \in 1..l /\ j \in l + 1..l + Len(s)
      <3>1. playback[i].peer = p /\ playback[i].n \in Nat /\ playback[i].n <= out[p]
        BY <1>9, <1>10, <1>13, <2>2
      <3>2. out[p] < r[j].n /\ r[j].n \in Nat /\ out[p] \in Nat
        BY <1>1, <1>10, <2>2
      <3> QED
        BY <1>9, <2>2, <3>1, <3>2
    <2>3. CASE i \in l + 1..l + Len(s) /\ j \in l + 1..l + Len(s)
      <3>1. i - l \in 1..Len(s) /\ j - l \in 1..Len(s) /\ r[i].n = s[i - l] /\ r[j].n = s[j - l]
        BY <1>10, <2>3
      <3>2. i - l < j - l
        BY <1>8, <1>13, <2>3
      <3> QED
        BY <1>5, <3>1, <3>2
    <2>4. ~(i \in l + 1..l + Len(s) /\ j \in 1..l)
      BY <1>5, <1>8, <1>13
    <2> QED
      BY <1>11, <2>1, <2>2, <2>3, <2>4
  <1>14. RisesForEach(r, done, o)
    BY <1>8, <1>12, <1>13 DEF RisesForEach
  <1>15. playback' = r /\ jitter' = [jitter EXCEPT ![p] = <<>>]
         /\ UNCHANGED <<spoken, socket>>
    BY <1>4, <1>18 DEF Drain
  <1>16. DOMAIN jitter' = Peer /\ \A q \in Peer : Rises(jitter'[q], o[q], in[q])
    <2>1. Rises(<<>>, in[p], in[p])
      BY DEF Rises
    <2>2. \A q \in Peer : q # p => Rises(jitter'[q], o[q], in[q])
      BY <1>1, <1>7, <1>15
    <2> QED
      BY <1>1, <1>7, <1>15, <2>1, <2>2
  <1>17. Way(done, o, in)'
    BY <1>1, <1>7, <1>14, <1>15, <1>16 DEF Way
  <1> QED
    BY <1>0, <1>17 DEF VoiceInv

LEMMA ReceiveKeeps ==
  ASSUME NEW done, NEW out, NEW in, NEW hs, NEW qs, Device(done, hs, qs), Way(done, out, in),
         NEW p \in Peer, Receive(p)
  PROVE  VoiceInv'
  <1>0. Device(done, hs, qs)'
    BY DEF Device, Receive, speaker
  <1>1. /\ out \in [Peer -> Nat] /\ in \in [Peer -> Nat] /\ spoken \in [Peer -> Nat]
        /\ \A q \in Peer : out[q] <= in[q] /\ in[q] <= spoken[q]
        /\ DOMAIN jitter = Peer /\ \A q \in Peer : Rises(jitter[q], out[q], in[q])
        /\ DOMAIN socket = Peer /\ \A q \in Peer : Rises(socket[q], in[q], spoken[q])
    BY DEF Way
  <1>2. PICK s, h : s = socket[p] /\ h = Head(s)
    OBVIOUS
  <1>3. /\ s # <<>> /\ socket' = [socket EXCEPT ![p] = Tail(s)]
        /\ jitter' = IF deaf THEN jitter ELSE [jitter EXCEPT ![p] = Append(jitter[p], h)]
        /\ UNCHANGED <<spoken, playback>>
    BY <1>2 DEF Receive, speaker
  <1>4. /\ Rises(Tail(s), in[p], spoken[p]) /\ Rises(Tail(s), h, spoken[p])
        /\ h \in Nat /\ in[p] < h /\ h <= spoken[p]
    <2>1. Rises(s, in[p], spoken[p]) /\ in[p] \in Nat /\ spoken[p] \in Nat
      BY <1>1, <1>2
    <2> QED
      BY <1>2, <1>3, <2>1, RisesTail
  <1>5. CASE deaf
    <2>1. DOMAIN socket' = Peer /\ \A q \in Peer : Rises(socket'[q], in[q], spoken[q])
      BY <1>1, <1>3, <1>4
    <2>2. jitter' = jitter
      BY <1>3, <1>5
    <2>3. Way(done, out, in)'
      BY <1>3, <2>1, <2>2 DEF Way
    <2> QED
      BY <1>0, <2>3 DEF VoiceInv
  <1>6. CASE ~deaf
    <2>0. PICK i : i = [in EXCEPT ![p] = h]
      OBVIOUS
    <2>1. i \in [Peer -> Nat] /\ i[p] = h /\ \A q \in Peer : q # p => i[q] = in[q]
      BY <1>1, <1>4, <2>0
    <2>2. \A q \in Peer : out[q] <= i[q] /\ i[q] <= spoken[q]
      BY <1>1, <1>4, <2>1
    <2>3. DOMAIN socket' = Peer /\ \A q \in Peer : Rises(socket'[q], i[q], spoken[q])
      <3>1. \A q \in Peer : q # p => Rises(socket'[q], i[q], spoken[q])
        BY <1>1, <1>3, <2>1
      <3> QED
        BY <1>1, <1>3, <1>4, <2>1, <3>1
    <2>4. Rises(Append(jitter[p], h), out[p], h)
      <3>1. /\ Rises(jitter[p], out[p], in[p]) /\ out[p] <= in[p]
            /\ out[p] \in Nat /\ in[p] \in Nat
        BY <1>1
      <3> QED
        BY <1>4, <3>1, RisesAppend
    <2>5. DOMAIN jitter' = Peer /\ \A q \in Peer : Rises(jitter'[q], out[q], i[q])
      <3>1. \A q \in Peer : q # p => Rises(jitter'[q], out[q], i[q])
        BY <1>1, <1>3, <1>6, <2>1
      <3> QED
        BY <1>1, <1>3, <1>6, <2>1, <2>4, <3>1
    <2>6. Way(done, out, i)'
      BY <1>3, <2>1, <2>2, <2>3, <2>5 DEF Way
    <2> QED
      BY <1>0, <2>6 DEF VoiceInv
  <1> QED
    BY <1>5, <1>6

LEMMA SpeakKeeps ==
  ASSUME NEW done, NEW out, NEW in, NEW hs, NEW qs, Device(done, hs, qs), Way(done, out, in),
         NEW p \in Peer, PeerSpeaks(p)
  PROVE  VoiceInv'
  <1>0. Device(done, hs, qs)'
    BY DEF Device, PeerSpeaks, speaker
  <1>1. /\ in \in [Peer -> Nat] /\ spoken \in [Peer -> Nat]
        /\ \A q \in Peer : in[q] <= spoken[q]
        /\ DOMAIN socket = Peer /\ \A q \in Peer : Rises(socket[q], in[q], spoken[q])
    BY DEF Way
  <1>2. /\ spoken' = [spoken EXCEPT ![p] = spoken[p] + 1]
        /\ socket' = [socket EXCEPT ![p] = Append(socket[p], spoken[p] + 1)]
        /\ UNCHANGED <<jitter, playback>>
    BY DEF PeerSpeaks, speaker
  <1>3. spoken' \in [Peer -> Nat] /\ \A q \in Peer : in[q] <= spoken'[q]
    BY <1>1, <1>2
  <1>4. Rises(Append(socket[p], spoken[p] + 1), in[p], spoken[p] + 1)
    <2>1. /\ Rises(socket[p], in[p], spoken[p]) /\ in[p] <= spoken[p]
          /\ in[p] \in Nat /\ spoken[p] \in Nat /\ spoken[p] + 1 \in Nat
          /\ spoken[p] < spoken[p] + 1
      BY <1>1
    <2> QED
      BY <2>1, RisesAppend
  <1>5. DOMAIN socket' = Peer /\ \A q \in Peer : Rises(socket'[q], in[q], spoken'[q])
    BY <1>1, <1>2, <1>4
  <1>6. Way(done, out, in)'
    BY <1>2, <1>3, <1>5 DEF Way
  <1> QED
    BY <1>0, <1>6 DEF VoiceInv

LEMMA VoiceInvInit ==
  Init => VoiceInv
  <1> SUFFICES ASSUME Init
               PROVE  VoiceInv
    OBVIOUS
  <1> DEFINE zero == [p \in Peer |-> 0]
  <1>1. <<>> \in Seq(Heard) /\ Len(<<>>) = 0 /\ <<>> \o <<>> = <<>>
    OBVIOUS
  <1>2. Wide(<<>>) = <<>>
    <2>1. Wide(<<>>) \in Seq(Heard) /\ Len(Wide(<<>>)) = 0 * Channels
      BY <1>1, WideType
    <2>2. 0 * Channels = 0
      BY WorkerAssumption
    <2> QED
      BY <2>1, <2>2
  <1>3. Device(zero, <<>>, <<>>)
    BY <1>1, <1>2 DEF Device, Orderly, Init
  <1>4. Way(zero, zero, zero)
    BY DEF Way, Init, Rises, RisesForEach
  <1> QED
    BY <1>3, <1>4 DEF VoiceInv

LEMMA VoiceInvStep ==
  VoiceInv /\ [Next]_vars => VoiceInv'
  <1> SUFFICES ASSUME VoiceInv, [Next]_vars
               PROVE  VoiceInv'
    OBVIOUS
  <1>1. PICK done, out, in, hs, qs : Device(done, hs, qs) /\ Way(done, out, in)
    BY DEF VoiceInv
  <1>2. CASE Feed
    BY <1>1, <1>2, FeedKeeps
  <1>3. CASE Play
    BY <1>1, <1>3, PlayKeeps
  <1>4. ASSUME NEW p \in Peer, Drain(p)
        PROVE  VoiceInv'
    BY <1>1, <1>4, DrainKeeps
  <1>5. ASSUME NEW p \in Peer, Receive(p)
        PROVE  VoiceInv'
    BY <1>1, <1>5, ReceiveKeeps
  <1>6. ASSUME NEW p \in Peer, PeerSpeaks(p)
        PROVE  VoiceInv'
    BY <1>1, <1>6, SpeakKeeps
  <1>7. ASSUME UNCHANGED <<jitter, socket, spoken, playback, queue, heard>>
        PROVE  VoiceInv'
    BY <1>1, <1>7 DEF VoiceInv, Device, Way
  <1>8. CASE \/ ToggleMute \/ ToggleDeafen \/ TimePasses \/ UNCHANGED vars
             \/ \E n \in Chunks : Capture(n)
    BY <1>7, <1>8 DEF ToggleMute, ToggleDeafen, TimePasses, Capture, vars, speaker
  <1>9. CASE \/ TakeCaptured \/ SendAudio \/ Heartbeat \/ EndReceive \/ EndDrain
             \/ \E level \in Levels : Process(level)
    BY <1>7, <1>9 DEF TakeCaptured, SendAudio, Heartbeat, EndReceive, EndDrain, Process, speaker
  <1> QED
    BY <1>2, <1>3, <1>4, <1>5, <1>6, <1>8, <1>9 DEF Next, Outside, Loop

\* What the device plays at one moment is one sample.
LEMMA DeviceFrameIs ==
  ASSUME NEW hs \in Seq(Heard), heard = Wide(hs)
  PROVE  /\ Len(heard) % Channels = 0 /\ DeviceFrames = Len(hs) /\ Len(hs) \in Nat
         /\ \A k \in 1..Len(hs), c \in 1..Channels : DeviceFrame(k)[c] = hs[k]
  <1>1. Channels \in Nat \ {0} /\ Len(hs) \in Nat
    BY WorkerAssumption
  <1>2. Len(heard) = Len(hs) * Channels /\ Len(hs) * Channels \in Nat
    BY WideType
  <1>3. PICK n, x \in Nat : n = Len(hs) /\ x = n * Channels /\ Len(heard) = x
    BY <1>1, <1>2
  <1>4. x \div Channels = n
    BY <1>1, <1>3, DivUnique
  <1>5. x % Channels = 0
    <2>1. x = Channels * (x \div Channels) + (x % Channels) /\ x % Channels \in Nat
      BY <1>1
    <2>2. Channels * n = x
      BY <1>1, <1>3
    <2> QED
      BY <1>1, <1>4, <2>1, <2>2
  <1>6. ASSUME NEW k \in 1..Len(hs), NEW c \in 1..Channels
        PROVE  DeviceFrame(k)[c] = hs[k]
    <2>1. PICK d \in Nat : d = k - 1 /\ d + 1 = k /\ d + 1 <= Len(hs)
      <3>1. k - 1 \in Nat /\ (k - 1) + 1 = k /\ (k - 1) + 1 <= Len(hs)
        BY <1>1
      <3> QED
        BY <3>1
    <2>7. PICK m \in Nat : m = 1
      OBVIOUS
    <2> DEFINE t == SubSeq(hs, d + 1, d + m)
    <2>2. /\ SubSeq(Wide(hs), d * Channels + 1, (d + m) * Channels) = Wide(t)
          /\ t \in Seq(Heard) /\ Len(t) = m /\ \A i \in 1..m : t[i] = hs[d + i]
      <3>1. d + m <= Len(hs)
        BY <2>1, <2>7
      <3> QED
        BY <3>1, WidePart
    <2> HIDE DEF t
    <2>3. DeviceFrame(k) = Wide(t)
      BY <2>1, <2>2, <2>7 DEF DeviceFrame
    <2>4. Len(t) * Channels = Channels
      BY <1>1, <2>2, <2>7
    <2>5. Source(c, Channels) \in 1..1 /\ Wide(t)[c] = t[Source(c, Channels)]
      <3>1. \A i \in 1..Len(t) * Channels : /\ Source(i, Channels) \in 1..Len(t)
                                            /\ Wide(t)[i] = t[Source(i, Channels)]
        BY <2>2, WideType
      <3> QED
        BY <2>2, <2>4, <2>7, <3>1
    <2>6. Wide(t)[c] = hs[d + 1]
      BY <2>2, <2>5, <2>7
    <2> QED
      BY <2>1, <2>3, <2>6
  <1> QED
    BY <1>1, <1>3, <1>4, <1>5, <1>6 DEF DeviceFrames

\* For every number of channels that divides the cap: the output callback
\* never gets a device frame in part, although the queue is cut sample by sample.
THEOREM InStep == Spec => []ChannelsTogether
  <1>1. VoiceInv => ChannelsTogether
    <2> SUFFICES ASSUME VoiceInv
                 PROVE  ChannelsTogether
      OBVIOUS
    <2>1. PICK hs \in Seq(Heard) : heard = Wide(hs)
      BY DEF VoiceInv, Device
    <2>2. /\ Len(heard) % Channels = 0 /\ DeviceFrames = Len(hs)
          /\ \A k \in 1..Len(hs), c \in 1..Channels : DeviceFrame(k)[c] = hs[k]
      BY <2>1, DeviceFrameIs
    <2>3. 1 \in 1..Channels
      BY WorkerAssumption
    <2> QED
      BY <2>2, <2>3 DEF ChannelsTogether
  <1> QED
    BY <1>1, VoiceInvInit, VoiceInvStep, PTL DEF Spec

\* For any number of peers and frames: what run_voice_worker hands over, and the
\* playback thread queues and drops, is played in the order of each speaker.
THEOREM SpeakersInOrder == Spec => []HeardInOrder
  <1>1. VoiceInv => HeardInOrder
    <2> SUFFICES ASSUME VoiceInv
                 PROVE  HeardInOrder
      OBVIOUS
    <2>1. PICK upto, hs, qs : /\ hs \in Seq(Heard) /\ qs \in Seq(Heard)
                              /\ heard = Wide(hs) /\ Orderly(hs \o qs, upto)
      BY DEF VoiceInv, Device
    <2>2. /\ DeviceFrames = Len(hs) /\ Len(hs) \in Nat
          /\ \A k \in 1..Len(hs), c \in 1..Channels : DeviceFrame(k)[c] = hs[k]
      BY <2>1, DeviceFrameIs
    <2>3. 1 \in 1..Channels
      BY WorkerAssumption
    <2>4. \A k \in 1..Len(hs) : k \in 1..Len(hs \o qs) /\ (hs \o qs)[k] = hs[k]
      BY <2>1, <2>2, ConcatProperties
    <2>5. \A j, k \in 1..Len(hs) :
            j < k /\ hs[j].peer = hs[k].peer => hs[j].at < hs[k].at
      BY <2>1, <2>4 DEF Orderly
    <2> QED
      BY <2>2, <2>3, <2>5 DEF HeardInOrder
  <1> QED
    BY <1>1, VoiceInvInit, VoiceInvStep, PTL DEF Spec

=============================================================================
