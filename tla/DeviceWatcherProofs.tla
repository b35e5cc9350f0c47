------------------------ MODULE DeviceWatcherProofs ------------------------
(***************************************************************************)
(* What a dashboard makes of its feed, for any handsets and any order of   *)
(* plugging, polling and delivery.  The invariant is inductive as it       *)
(* stands; the work is in the feed.  A dashboard applies frames one by one *)
(* from the left, so three facts about that fold are proved first: it goes *)
(* over a concatenation in two parts, the events of a poll lead from any   *)
(* list to the one the poll found, and a greeting replaces whatever came   *)
(* before.  That the fold exists at all is the lemma on folds the          *)
(* confidence model rests on as well.                                      *)
(***************************************************************************)
EXTENDS DeviceWatcher, ConfidenceProofs

Known == SUBSET Handsets

LEMMA FrameFields ==
  ASSUME NEW frame \in Frame
  PROVE  \/ frame.type = "hello" /\ frame.devices \in Known
         \/ frame.type = "device-connected" /\ frame.device \in Handsets
         \/ frame.type = "device-disconnected" /\ frame.device \in Handsets
BY DEF Frame, Known

LEMMA TellFrame ==
  ASSUME NEW known, NEW frame
  PROVE  /\ frame.type = "hello" => Tell(known, frame) = frame.devices
         /\ frame.type = "device-connected" => Tell(known, frame) = known \cup {frame.device}
         /\ frame.type = "device-disconnected" => Tell(known, frame) = known \ {frame.device}
<1>1. CASE frame.type = "hello"
  BY <1>1 DEF Tell
<1>2. CASE frame.type = "device-connected"
  BY <1>2 DEF Tell
<1>3. CASE frame.type = "device-disconnected"
  BY <1>3 DEF Tell
<1>. QED
  BY <1>1, <1>2, <1>3

LEMMA ToldIsKnown ==
  ASSUME NEW known \in Known, NEW frame \in Frame
  PROVE  Tell(known, frame) \in Known
BY FrameFields, TellFrame DEF Known

-----------------------------------------------------------------------------
(***************************************************************************)
(* The fold                                                                *)
(***************************************************************************)

\* The last position of a set of them is taken first.
Latest(n) == [s \in SUBSET (1..n) |-> Max(s)]
Telling(seq) == [p \in (1..Len(seq)) \X Known |-> Tell(p[2], seq[p[1]])]

LEMMA LatestIsLast ==
  ASSUME NEW n \in Nat, NEW s \in SUBSET (1..n), s # {}
  PROVE  Latest(n)[s] \in s /\ \A m \in s : m <= Latest(n)[s]
<1>1. s \subseteq 0..n
  OBVIOUS
<1>2. Max(s) \in s /\ \A m \in s : m <= Max(s)
  BY <1>1, MaxOfBounded
<1>. QED
  BY <1>2 DEF Latest

LEMMA PositionsAreFinite ==
  ASSUME NEW n \in Nat
  PROVE  IsFiniteSet(1..n) /\ \A s \in SUBSET (1..n) : s # {} => Latest(n)[s] \in s
<1>1. IsFiniteSet(1..n)
  BY FS_Interval
<1>. QED
  BY <1>1, LatestIsLast

\* What a dashboard ends up with is what the recursion makes of the whole feed.
LEMMA TellIsAFold ==
  ASSUME NEW seq \in Seq(Frame), NEW base \in Known
  PROVE  \E it \in [SUBSET (1..Len(seq)) -> Known] :
           /\ Solves(it, Latest(Len(seq)), base, Telling(seq), SUBSET (1..Len(seq)))
           /\ FoldLeft(Tell, base, seq) = it[1..Len(seq)]
<1>. DEFINE n == Len(seq)
            S == 1..n
            Body(it) == [s \in SUBSET S |->
              IF s = {} THEN base ELSE Tell(it[s \ {Max(s)}], seq[Max(s)])]
            told_ == CHOOSE it : it = Body(it)
<1>0. n \in Nat /\ DOMAIN seq = S /\ \A i \in S : seq[i] \in Frame
  OBVIOUS
<1>1. FoldLeft(Tell, base, seq) = told_[S]
  BY <1>0 DEF FoldLeft, MapThenFoldSet
<1>2. Telling(seq) \in [S \X Known -> Known]
  BY <1>0, ToldIsKnown DEF Telling
<1>3. \A s \in SUBSET S : s # {} => Max(s) \in s /\ Max(s) = Latest(n)[s]
  BY <1>0, LatestIsLast DEF Latest
<1>4. \E it : it = Body(it)
  <2>1. PICK it \in [SUBSET S -> Known] : Solves(it, Latest(n), base, Telling(seq), SUBSET S)
    BY <1>0, <1>2, PositionsAreFinite, FoldExists, Zenon
  <2>2. ASSUME NEW s \in SUBSET S PROVE it[s] = Body(it)[s]
    <3>1. CASE s = {}
      BY <2>1, <3>1 DEF Solves
    <3>2. CASE s # {}
      <4>. DEFINE c == Max(s)
      <4>1. Latest(n)[s] = c /\ c \in S
        BY <1>3, <3>2
      <4>. HIDE DEF c
      <4>2. it[s \ {c}] \in Known
        BY <2>1
      <4>3. it[s] = Telling(seq)[<<c, it[s \ {c}]>>]
        BY <2>1, <3>2, <4>1 DEF Solves
      <4>4. it[s] = Tell(it[s \ {c}], seq[c])
        BY <4>1, <4>2, <4>3 DEF Telling
      <4>. QED
        BY <3>2, <4>4 DEF c
    <3>. QED
      BY <3>1, <3>2
  <2>3. it = Body(it)
    BY <2>2
  <2>. QED
    BY <2>3
<1>5. told_ = Body(told_)
  BY <1>4
<1>. HIDE DEF told_
<1>6. \A s \in SUBSET S : told_[s] \in Known
  <2>. DEFINE bad == {s \in SUBSET S : told_[s] \notin Known}
  <2>. SUFFICES ASSUME bad # {} PROVE FALSE
    OBVIOUS
  <2>1. PICK T \in bad : \A U \in SUBSET T : U # T => U \notin bad
    <3>1. bad \subseteq SUBSET S
      OBVIOUS
    <3>. HIDE DEF bad
    <3>. QED
      BY <1>0, <3>1, PositionsAreFinite, MinimalExists
  <2>. DEFINE c == Max(T)
  <2>2. T # {}
    BY <1>5
  <2>3. c \in T /\ told_[T] = Tell(told_[T \ {c}], seq[c])
    BY <1>3, <1>5, <2>2
  <2>4. told_[T \ {c}] \in Known
    <3>. HIDE DEF c
    <3>. QED
      BY <2>1, <2>3
  <2>5. seq[c] \in Frame
    BY <1>0, <2>3
  <2>. HIDE DEF c
  <2>. QED
    BY <2>3, <2>4, <2>5, ToldIsKnown
<1>7. told_ \in [SUBSET S -> Known]
  BY <1>5, <1>6
<1>8. Solves(told_, Latest(n), base, Telling(seq), SUBSET S)
  <2>. SUFFICES ASSUME NEW s \in SUBSET S, s # {}
                PROVE  told_[s] = Telling(seq)[<<Latest(n)[s], told_[s \ {Latest(n)[s]}]>>]
    BY <1>5 DEF Solves
  <2>. DEFINE c == Max(s)
  <2>1. c \in S /\ Latest(n)[s] = c /\ told_[s] = Tell(told_[s \ {c}], seq[c])
    BY <1>3, <1>5
  <2>. HIDE DEF c
  <2>2. told_[s \ {c}] \in Known
    BY <1>6
  <2>. QED
    BY <2>1, <2>2 DEF Telling
<1>. QED
  BY <1>1, <1>7, <1>8

\* Two solutions agree on the whole feed.
Agree(n, it, jt) == it[1..n] = jt[1..n]
Told(it, n, base, step) == Solves(it, Latest(n), base, step, SUBSET (1..n))

LEMMA TellingsAgree ==
  ASSUME NEW n \in Nat, NEW base, NEW step,
         NEW it, Told(it, n, base, step),
         NEW jt, Told(jt, n, base, step)
  PROVE  Agree(n, it, jt)
<1>1. IsFiniteSet(1..n)
  BY PositionsAreFinite
<1>2. \A s \in SUBSET (1..n) : s # {} => Latest(n)[s] \in s
  BY PositionsAreFinite
<1>3. Solves(it, Latest(n), base, step, SUBSET (1..n))
  BY DEF Told
<1>4. Solves(jt, Latest(n), base, step, SUBSET (1..n))
  BY DEF Told
<1>. DEFINE S == 1..n
            pick == Latest(n)
<1>5. IsFiniteSet(S) /\ (\A s \in SUBSET S : s # {} => pick[s] \in s)
      /\ Solves(it, pick, base, step, SUBSET S) /\ Solves(jt, pick, base, step, SUBSET S)
  BY <1>1, <1>2, <1>3, <1>4
<1>. HIDE DEF S, pick
<1>6. it[S] = jt[S]
  BY <1>5, SolutionsAgree
<1>. QED
  BY <1>6 DEF S, Agree

LEMMA ToldByFeed ==
  ASSUME NEW seq \in Seq(Frame), NEW base \in Known
  PROVE  /\ FoldLeft(Tell, base, seq) \in Known
         /\ Len(seq) = 0 => FoldLeft(Tell, base, seq) = base
<1>1. PICK it \in [SUBSET (1..Len(seq)) -> Known] :
           /\ Solves(it, Latest(Len(seq)), base, Telling(seq), SUBSET (1..Len(seq)))
           /\ FoldLeft(Tell, base, seq) = it[1..Len(seq)]
  BY TellIsAFold
<1>2. Len(seq) = 0 => 1..Len(seq) = {}
  OBVIOUS
<1>. QED
  BY <1>1, <1>2 DEF Solves

\* What is told by one feed after another.
LEMMA FeedsInTurn ==
  ASSUME NEW a \in Seq(Frame), NEW b \in Seq(Frame), NEW base \in Known
  PROVE  FoldLeft(Tell, base, a \o b) = FoldLeft(Tell, FoldLeft(Tell, base, a), b)
<1>. DEFINE m == Len(a)
            n == Len(b)
            ab == a \o b
            k == Len(ab)
            Shift(s) == (1..m) \cup {m + i : i \in s}
<1>1. /\ m \in Nat /\ n \in Nat /\ ab \in Seq(Frame) /\ k = m + n /\ k \in Nat
      /\ \A i \in 1..m : ab[i] = a[i]
      /\ \A i \in 1..n : ab[m + i] = b[i]
  OBVIOUS
<1>2. PICK it \in [SUBSET (1..k) -> Known] :
           /\ Solves(it, Latest(k), base, Telling(ab), SUBSET (1..k))
           /\ FoldLeft(Tell, base, ab) = it[1..k]
  BY <1>1, TellIsAFold
<1>3. PICK at \in [SUBSET (1..m) -> Known] :
           /\ Solves(at, Latest(m), base, Telling(a), SUBSET (1..m))
           /\ FoldLeft(Tell, base, a) = at[1..m]
  BY TellIsAFold
<1>. DEFINE middle == at[1..m]
<1>4. middle \in Known
  BY <1>3
<1>5. PICK bt \in [SUBSET (1..n) -> Known] :
           /\ Solves(bt, Latest(n), middle, Telling(b), SUBSET (1..n))
           /\ FoldLeft(Tell, middle, b) = bt[1..n]
  <2>. HIDE DEF middle
  <2>. QED
    BY <1>4, TellIsAFold
<1>. HIDE DEF ab, m, n, k
<1>6. \A s \in SUBSET (1..k) : s # {} =>
        /\ Latest(k)[s] \in s
        /\ it[s] = Tell(it[s \ {Latest(k)[s]}], ab[Latest(k)[s]])
  <2>. SUFFICES ASSUME NEW s \in SUBSET (1..k), s # {}
                PROVE  /\ Latest(k)[s] \in s
                       /\ it[s] = Tell(it[s \ {Latest(k)[s]}], ab[Latest(k)[s]])
    OBVIOUS
  <2>. DEFINE c == Latest(k)[s]
  <2>1. c \in s /\ c \in 1..k
    BY <1>1, PositionsAreFinite
  <2>2. it[s] = Telling(ab)[<<c, it[s \ {c}]>>]
    BY <1>2 DEF Solves
  <2>. HIDE DEF c
  <2>3. it[s \ {c}] \in Known
    BY <1>2
  <2>4. it[s] = Tell(it[s \ {c}], ab[c])
    BY <1>1, <2>1, <2>2, <2>3 DEF Telling, k
  <2>. QED
    BY <2>1, <2>4 DEF c
<1>7. it[1..m] = middle
  <2>1. 1..m \subseteq 1..k
    BY <1>1
  <2>2. Solves(it, Latest(m), base, Telling(a), SUBSET (1..m))
    <3>. SUFFICES ASSUME NEW s \in SUBSET (1..m)
                  PROVE  it[s] = IF s = {} THEN base
                                 ELSE Telling(a)[<<Latest(m)[s], it[s \ {Latest(m)[s]}]>>]
      BY Zenon DEF Solves
    <3>1. CASE s = {}
      BY <1>2, <3>1 DEF Solves
    <3>2. CASE s # {}
      <4>. DEFINE c == Latest(m)[s]
      <4>1. c \in s /\ c \in 1..m
        BY <1>1, <3>2, PositionsAreFinite
      <4>2. Latest(k)[s] = c
        BY <2>1 DEF Latest
      <4>. HIDE DEF c
      <4>3. it[s] = Tell(it[s \ {c}], a[c])
        BY <1>1, <1>6, <2>1, <3>2, <4>1, <4>2
      <4>4. it[s \ {c}] \in Known
        BY <1>2, <2>1
      <4>5. it[s] = Telling(a)[<<c, it[s \ {c}]>>]
        BY <4>1, <4>3, <4>4 DEF Telling, m
      <4>. QED
        BY <3>2, <4>5 DEF c
    <3>. QED
      BY <3>1, <3>2
  <2>3. Told(it, m, base, Telling(a)) /\ Told(at, m, base, Telling(a))
    BY <1>3, <2>2 DEF Told
  <2>4. Agree(m, it, at)
    BY <1>1, <2>3, TellingsAgree, Zenon
  <2>. QED
    BY <2>4 DEF Agree
<1>8. \A s \in SUBSET (1..n) : Shift(s) \in SUBSET (1..k)
  BY <1>1
<1>. DEFINE jt == [s \in SUBSET (1..n) |-> it[Shift(s)]]
<1>9. Solves(jt, Latest(n), middle, Telling(b), SUBSET (1..n))
  <2>. SUFFICES ASSUME NEW s \in SUBSET (1..n)
                PROVE  jt[s] = IF s = {} THEN middle
                               ELSE Telling(b)[<<Latest(n)[s], jt[s \ {Latest(n)[s]}]>>]
    BY Zenon DEF Solves
  <2>1. CASE s = {}
    <3>1. Shift({}) = 1..m
      OBVIOUS
    <3>. QED
      BY <1>7, <2>1, <3>1
  <2>2. CASE s # {}
    <3>. DEFINE c == Latest(n)[s]
                d == Latest(k)[Shift(s)]
    <3>1. c \in s /\ c \in 1..n /\ \A i \in s : i <= c
      BY <1>1, <2>2, LatestIsLast
    <3>2. Shift(s) # {}
      <4>1. m + c \in Shift(s)
        BY <3>1
      <4>. HIDE DEF Shift
      <4>. QED
        BY <4>1
    <3>3. d \in Shift(s) /\ \A i \in Shift(s) : i <= d
      <4>1. Shift(s) \in SUBSET (1..k)
        BY <1>8
      <4>. HIDE DEF Shift
      <4>. QED
        BY <1>1, <3>2, <4>1, LatestIsLast
    <3>4. it[Shift(s)] = Tell(it[Shift(s) \ {d}], ab[d])
      BY <1>6, <1>8, <3>2
    <3>. HIDE DEF c, d
    <3>5. d = m + c
      <4>1. m + c <= d
        BY <3>1, <3>3
      <4>2. CASE d \in 1..m
        BY <1>1, <3>1, <4>1, <4>2
      <4>3. CASE \E i \in s : d = m + i
        <5>1. PICK i \in s : d = m + i
          BY <4>3
        <5>2. i <= c /\ i \in Nat /\ c \in Nat
          BY <3>1
        <5>. QED
          BY <1>1, <4>1, <5>1, <5>2
      <4>. QED
        BY <3>3, <4>2, <4>3
    <3>6. Shift(s) \ {d} = Shift(s \ {c})
      <4>1. \A i \in s : m + i = m + c <=> i = c
        BY <1>1, <3>1
      <4>2. \A i \in 1..m : i # m + c
        BY <1>1, <3>1
      <4>. QED
        BY <3>5, <4>1, <4>2
    <3>7. ab[d] = b[c]
      BY <1>1, <3>1, <3>5
    <3>8. jt[s \ {c}] = it[Shift(s \ {c})] /\ jt[s] = it[Shift(s)] /\ it[Shift(s \ {c})] \in Known
      BY <1>2, <1>8
    <3>. HIDE DEF jt, Shift
    <3>9. jt[s] = Telling(b)[<<c, jt[s \ {c}]>>]
      BY <3>1, <3>4, <3>6, <3>7, <3>8 DEF Telling, n
    <3>. QED
      BY <2>2, <3>9 DEF c
  <2>. QED
    BY <2>1, <2>2
<1>10. jt[1..n] = bt[1..n]
  <2>. HIDE DEF jt, middle
  <2>1. Told(jt, n, middle, Telling(b)) /\ Told(bt, n, middle, Telling(b))
    BY <1>5, <1>9 DEF Told
  <2>2. Agree(n, jt, bt)
    BY <1>1, <2>1, TellingsAgree, Zenon
  <2>. QED
    BY <2>2 DEF Agree
<1>11. jt[1..n] = it[1..k]
  <2>1. Shift(1..n) = 1..k
    <3>1. ASSUME NEW j \in 1..k PROVE j \in Shift(1..n)
      <4>1. CASE j <= m
        BY <1>1, <4>1
      <4>2. CASE m < j
        <5>1. j - m \in 1..n /\ j = m + (j - m)
          BY <1>1, <4>2
        <5>. QED
          BY <5>1
      <4>. QED
        BY <1>1, <4>1, <4>2
    <3>. QED
      BY <1>8, <3>1
  <2>. QED
    BY <2>1
<1>. QED
  BY <1>2, <1>3, <1>5, <1>10, <1>11 DEF ab

LEMMA ToldByOne ==
  ASSUME NEW frame \in Frame, NEW base \in Known
  PROVE  FoldLeft(Tell, base, <<frame>>) = Tell(base, frame)
<1>. DEFINE seq == <<frame>>
<1>1. seq \in Seq(Frame) /\ Len(seq) = 1 /\ seq[1] = frame
  OBVIOUS
<1>2. PICK it \in [SUBSET (1..Len(seq)) -> Known] :
           /\ Solves(it, Latest(Len(seq)), base, Telling(seq), SUBSET (1..Len(seq)))
           /\ FoldLeft(Tell, base, seq) = it[1..Len(seq)]
  <2>. HIDE DEF seq
  <2>. QED
    BY <1>1, TellIsAFold
<1>. HIDE DEF seq
<1>3. Latest(1)[1..1] = 1
  <2>1. 1..1 \in SUBSET (1..1) /\ 1..1 # {}
    OBVIOUS
  <2>. QED
    BY <2>1, LatestIsLast
<1>4. 1..1 = {1} /\ {1} \ {1} = {}
  OBVIOUS
<1>5. it[{}] = base
  BY <1>2 DEF Solves
<1>6. it[1..1] = Telling(seq)[<<1, base>>]
  BY <1>1, <1>2, <1>3, <1>4, <1>5 DEF Solves
<1>7. Telling(seq)[<<1, base>>] = Tell(base, frame)
  BY <1>1 DEF Telling
<1>. QED
  BY <1>1, <1>2, <1>6, <1>7 DEF seq

\* A solution that is written down is what the dashboard ends up with.
LEMMA ToldIsSolved ==
  ASSUME NEW seq \in Seq(Frame), NEW base \in Known,
         NEW jt, Told(jt, Len(seq), base, Telling(seq))
  PROVE  FoldLeft(Tell, base, seq) = jt[1..Len(seq)]
<1>1. PICK it \in [SUBSET (1..Len(seq)) -> Known] :
           /\ Solves(it, Latest(Len(seq)), base, Telling(seq), SUBSET (1..Len(seq)))
           /\ FoldLeft(Tell, base, seq) = it[1..Len(seq)]
  BY TellIsAFold
<1>2. Told(it, Len(seq), base, Telling(seq))
  BY <1>1 DEF Told
<1>3. Len(seq) \in Nat
  OBVIOUS
<1>4. Agree(Len(seq), it, jt)
  BY <1>2, <1>3, TellingsAgree, Zenon
<1>. QED
  BY <1>1, <1>4 DEF Agree

Named(seq, s) == {seq[i].device : i \in s}

LEMMA ConnectionsAdd ==
  ASSUME NEW seq \in Seq(Frame), NEW base \in Known,
         \A i \in 1..Len(seq) : seq[i].type = "device-connected"
  PROVE  FoldLeft(Tell, base, seq) = base \cup Named(seq, 1..Len(seq))
<1>. DEFINE n == Len(seq)
            jt == [s \in SUBSET (1..n) |-> base \cup Named(seq, s)]
<1>1. n \in Nat /\ \A i \in 1..n : seq[i] \in Frame /\ seq[i].device \in Handsets
  <2>1. n \in Nat /\ \A i \in 1..n : seq[i] \in Frame
    OBVIOUS
  <2>. QED
    BY <2>1, FrameFields
<1>2. \A s \in SUBSET (1..n) : jt[s] = base \cup Named(seq, s) /\ jt[s] \in Known
  BY <1>1 DEF Named, Known
<1>3. Told(jt, n, base, Telling(seq))
  <2>. SUFFICES ASSUME NEW s \in SUBSET (1..n)
                PROVE  jt[s] = IF s = {} THEN base
                               ELSE Telling(seq)[<<Latest(n)[s], jt[s \ {Latest(n)[s]}]>>]
    BY Zenon DEF Told, Solves
  <2>1. CASE s = {}
    BY <1>2, <2>1 DEF Named
  <2>2. CASE s # {}
    <3>. DEFINE c == Latest(n)[s]
    <3>1. c \in s /\ c \in 1..n
      BY <1>1, <2>2, PositionsAreFinite
    <3>. HIDE DEF c, jt
    <3>2. jt[s \ {c}] = base \cup Named(seq, s \ {c}) /\ jt[s \ {c}] \in Known
      BY <1>2
    <3>3. Telling(seq)[<<c, jt[s \ {c}]>>] = jt[s \ {c}] \cup {seq[c].device}
      BY <3>1, <3>2, TellFrame DEF Telling
    <3>4. Named(seq, s) = Named(seq, s \ {c}) \cup {seq[c].device}
      BY <3>1 DEF Named
    <3>. QED
      BY <1>2, <2>2, <3>2, <3>3, <3>4 DEF c
  <2>. QED
    BY <2>1, <2>2
<1>4. FoldLeft(Tell, base, seq) = jt[1..n]
  <2>. HIDE DEF jt
  <2>. QED
    BY <1>3, ToldIsSolved
<1>. QED
  BY <1>2, <1>4

LEMMA DisconnectionsRemove ==
  ASSUME NEW seq \in Seq(Frame), NEW base \in Known,
         \A i \in 1..Len(seq) : seq[i].type = "device-disconnected"
  PROVE  FoldLeft(Tell, base, seq) = base \ Named(seq, 1..Len(seq))
<1>. DEFINE n == Len(seq)
            jt == [s \in SUBSET (1..n) |-> base \ Named(seq, s)]
<1>1. n \in Nat
  OBVIOUS
<1>2. \A s \in SUBSET (1..n) : jt[s] = base \ Named(seq, s) /\ jt[s] \in Known
  BY DEF Known
<1>3. Told(jt, n, base, Telling(seq))
  <2>. SUFFICES ASSUME NEW s \in SUBSET (1..n)
                PROVE  jt[s] = IF s = {} THEN base
                               ELSE Telling(seq)[<<Latest(n)[s], jt[s \ {Latest(n)[s]}]>>]
    BY Zenon DEF Told, Solves
  <2>1. CASE s = {}
    BY <1>2, <2>1 DEF Named
  <2>2. CASE s # {}
    <3>. DEFINE c == Latest(n)[s]
    <3>1. c \in s /\ c \in 1..n
      BY <1>1, <2>2, PositionsAreFinite
    <3>. HIDE DEF c, jt
    <3>2. jt[s \ {c}] = base \ Named(seq, s \ {c}) /\ jt[s \ {c}] \in Known
      BY <1>2
    <3>3. Telling(seq)[<<c, jt[s \ {c}]>>] = jt[s \ {c}] \ {seq[c].device}
      BY <3>1, <3>2, TellFrame DEF Telling
    <3>4. Named(seq, s) = Named(seq, s \ {c}) \cup {seq[c].device}
      BY <3>1 DEF Named
    <3>. QED
      BY <1>2, <2>2, <3>2, <3>3, <3>4 DEF c
  <2>. QED
    BY <2>1, <2>2
<1>4. FoldLeft(Tell, base, seq) = jt[1..n]
  <2>. HIDE DEF jt
  <2>. QED
    BY <1>3, ToldIsSolved
<1>. QED
  BY <1>2, <1>4

-----------------------------------------------------------------------------
(***************************************************************************)
(* The events of a poll                                                    *)
(***************************************************************************)

\* SetToSeq lists a finite set, each element once.
LEMMA ListedInTurn ==
  ASSUME NEW ds, IsFiniteSet(ds)
  PROVE  /\ Cardinality(ds) \in Nat
         /\ SetToSeq(ds) \in [1..Cardinality(ds) -> ds]
         /\ {SetToSeq(ds)[i] : i \in 1..Cardinality(ds)} = ds
<1>. DEFINE n == Cardinality(ds)
            s == SetToSeq(ds)
<1>1. n \in Nat /\ ExistsBijection(1..n, ds) /\ IsFiniteSet(1..n)
  BY FS_CardinalityType, FS_Interval
<1>2. \E f \in [1..n -> ds] : IsInjective(f)
  BY <1>1 DEF ExistsBijection, Bijection, Injection, IsInjective
<1>3. s \in [1..n -> ds] /\ IsInjective(s)
  BY <1>2 DEF SetToSeq
<1>4. s \in Injection(1..n, ds)
  BY <1>3 DEF Injection, IsInjective
<1>5. s \in Surjection(1..n, ds)
  <2>. HIDE DEF s
  <2>1. Cardinality(1..n) = n
    BY <1>1, FS_Interval
  <2>. QED
    BY <1>4, <2>1, FS_Injection
<1>. QED
  BY <1>1, <1>3, <1>5 DEF Surjection

Sent(type, ds) == [i \in 1..Cardinality(ds) |-> [type |-> type, device |-> SetToSeq(ds)[i]]]

LEMMA SentOfAll ==
  ASSUME NEW ds \in SUBSET Handsets, NEW type \in {"device-connected", "device-disconnected"}
  PROVE  /\ Sent(type, ds) \in Seq(Frame)
         /\ \A i \in 1..Len(Sent(type, ds)) : Sent(type, ds)[i].type = type
         /\ Named(Sent(type, ds), 1..Len(Sent(type, ds))) = ds
<1>1. IsFiniteSet(ds)
  BY ConstantsOK, FS_Subset
<1>2. /\ Cardinality(ds) \in Nat
      /\ SetToSeq(ds) \in [1..Cardinality(ds) -> ds]
      /\ {SetToSeq(ds)[i] : i \in 1..Cardinality(ds)} = ds
  BY <1>1, ListedInTurn
<1>3. \A i \in 1..Cardinality(ds) : [type |-> type, device |-> SetToSeq(ds)[i]] \in Frame
  BY <1>2 DEF Frame
<1>4. Sent(type, ds) \in Seq(Frame) /\ Len(Sent(type, ds)) = Cardinality(ds)
  BY <1>2, <1>3 DEF Sent
<1>5. \A i \in 1..Cardinality(ds) : /\ Sent(type, ds)[i].type = type
                                    /\ Sent(type, ds)[i].device = SetToSeq(ds)[i]
  BY DEF Sent
<1>. QED
  BY <1>2, <1>4, <1>5 DEF Named

\* From any list to the one the poll found.
LEMMA EventsLead ==
  ASSUME found \in SUBSET Handsets
  PROVE  /\ Events \in Seq(Frame)
         /\ FoldLeft(Tell, Listed, Events) = found
<1>. DEFINE on == Sent("device-connected", Connected)
            off == Sent("device-disconnected", Disconnected)
<1>1. Listed \in Known /\ Connected \in SUBSET Handsets /\ Disconnected \in SUBSET Handsets
  BY DEF Listed, Known, Connected, Disconnected
<1>2. /\ on \in Seq(Frame)
      /\ \A i \in 1..Len(on) : on[i].type = "device-connected"
      /\ Named(on, 1..Len(on)) = Connected
  BY <1>1, SentOfAll
<1>3. /\ off \in Seq(Frame)
      /\ \A i \in 1..Len(off) : off[i].type = "device-disconnected"
      /\ Named(off, 1..Len(off)) = Disconnected
  BY <1>1, SentOfAll
<1>4. Events = on \o off
  <2>1. /\ SetToSeq(Connected) \in [1..Cardinality(Connected) -> Connected]
        /\ SetToSeq(Disconnected) \in [1..Cardinality(Disconnected) -> Disconnected]
    BY <1>1, ConstantsOK, FS_Subset, ListedInTurn
  <2>2. \A i \in 1..Cardinality(Connected) : SetToSeq(Connected)[i] \in Handsets
    BY <1>1, <2>1
  <2>3. \A i \in 1..Cardinality(Disconnected) : SetToSeq(Disconnected)[i] \in Handsets
    BY <1>1, <2>1
  <2>. QED
    BY <2>2, <2>3 DEF Events, Sent
<1>. HIDE DEF on, off
<1>5. FoldLeft(Tell, Listed, on) = Listed \cup Connected
  BY <1>1, <1>2, ConnectionsAdd
<1>6. Listed \cup Connected \in Known
  BY <1>1 DEF Known
<1>7. FoldLeft(Tell, Listed \cup Connected, off) = (Listed \cup Connected) \ Disconnected
  BY <1>3, <1>6, DisconnectionsRemove
<1>8. (Listed \cup Connected) \ Disconnected = found
  BY DEF Connected, Disconnected
<1>9. FoldLeft(Tell, Listed, on \o off) = FoldLeft(Tell, FoldLeft(Tell, Listed, on), off)
  BY <1>1, <1>2, <1>3, FeedsInTurn
<1>10. FoldLeft(Tell, Listed, on \o off) = found
  BY <1>5, <1>7, <1>8, <1>9
<1>11. on \o off \in Seq(Frame)
  BY <1>2, <1>3
<1>. QED
  BY <1>4, <1>10, <1>11

-----------------------------------------------------------------------------
(***************************************************************************)
(* The invariant                                                           *)
(***************************************************************************)

IInv == TypeOK /\ FeedTellsTheList

LEMMA InitialState == Init => IInv
<1>. SUFFICES ASSUME Init PROVE IInv
  OBVIOUS
<1>1. TypeOK
  <2>1. <<>> \in Seq(Frame) /\ Len(<<>>) = 0 /\ MaxFeed \in Nat /\ MaxFaults \in Nat
    BY ConstantsOK
  <2>. QED
    <3>1. feed \in Seq(Frame) /\ Len(feed) <= MaxFeed /\ faults \in 0..MaxFaults
      BY <2>1 DEF Init
    <3>2. /\ devices \in [Handsets -> {"absent", "paired", "unpaired"}]
          /\ answers \in [Handsets -> {"pending", "paired", "unpaired"}]
      BY DEF Init
    <3>3. /\ attached \subseteq Handsets /\ trusted \subseteq Handsets /\ found \subseteq Handsets
          /\ told \subseteq Handsets /\ stage \in {"none", "listing", "probing"}
      BY DEF Init
    <3>4. polling \in BOOLEAN /\ open \in BOOLEAN
      BY DEF Init
    <3>. QED
      BY <3>1, <3>2, <3>3, <3>4 DEF TypeOK
<1>. QED
  BY <1>1 DEF Init, IInv, FeedTellsTheList

\* What leaves the list, the socket and its feed alone leaves the promise alone.
LEMMA FeedUntouched ==
  ASSUME FeedTellsTheList, UNCHANGED <<devices, wires>>
  PROVE  FeedTellsTheList'
BY DEF FeedTellsTheList, wires, Listed

LEMMA BusStep ==
  ASSUME IInv, Bus
  PROVE  IInv'
<1>1. PICK d \in Handsets : Plug(d) \/ Unplug(d) \/ Trust(d)
  BY DEF Bus
<1>2. UNCHANGED <<devices, wires>>
  BY <1>1 DEF Plug, Unplug, Trust
<1>3. TypeOK'
  BY <1>1 DEF IInv, TypeOK, Plug, Unplug, Trust, wires
<1>. QED
  BY <1>2, <1>3, FeedUntouched DEF IInv

LEMMA PollStep ==
  ASSUME IInv, Poll
  PROVE  IInv'
<1>1. UNCHANGED <<devices, wires>>
  BY DEF Poll
<1>2. TypeOK'
  BY DEF IInv, TypeOK, Poll, usb, wires
<1>. QED
  BY <1>1, <1>2, FeedUntouched DEF IInv

LEMMA FaultIsCounted ==
  ASSUME faults \in 0..MaxFaults, Fault \/ UNCHANGED faults
  PROVE  faults' \in 0..MaxFaults
BY ConstantsOK DEF Fault

LEMMA ListStep ==
  ASSUME IInv, List \/ ListFails
  PROVE  IInv'
<1>1. UNCHANGED <<devices, wires>>
  BY DEF List, ListFails
<1>2. faults' \in 0..MaxFaults
  BY FaultIsCounted DEF IInv, TypeOK, List, ListFails
<1>3. TypeOK'
  BY <1>2 DEF IInv, TypeOK, List, ListFails, usb, wires
<1>. QED
  BY <1>1, <1>3, FeedUntouched DEF IInv

LEMMA ProbeStep ==
  ASSUME IInv, NEW d \in Handsets, Probe(d)
  PROVE  IInv'
<1>1. UNCHANGED <<devices, wires>>
  BY DEF Probe
<1>2. faults' \in 0..MaxFaults
  BY FaultIsCounted DEF IInv, TypeOK, Probe
<1>3. TypeOK'
  BY <1>2 DEF IInv, TypeOK, Probe, usb, wires
<1>. QED
  BY <1>1, <1>3, FeedUntouched DEF IInv

\* The list becomes what was found, and so does what the feed amounts to.
LEMMA ApplyStep ==
  ASSUME IInv, Apply
  PROVE  IInv'
<1>1. /\ found \in SUBSET Handsets /\ told \in Known /\ feed \in Seq(Frame)
      /\ devices \in [Handsets -> {"absent", "paired", "unpaired"}]
      /\ answers \in [Handsets -> {"pending", "paired", "unpaired"}]
  BY DEF IInv, TypeOK, Known
<1>2. /\ Events \in Seq(Frame)
      /\ FoldLeft(Tell, Listed, Events) = found
  BY <1>1, EventsLead
<1>3. devices' = Merged /\ feed' = (IF open THEN feed \o Events ELSE feed)
      /\ Len(feed') <= MaxFeed /\ open' = open /\ told' = told
  BY DEF Apply, Broadcast
<1>4. \A d \in found \ Listed : answers[d] \in {"paired", "unpaired"}
  BY <1>1 DEF Apply, Probed, Listed
<1>5. /\ Merged \in [Handsets -> {"absent", "paired", "unpaired"}]
      /\ \A d \in Handsets : Merged[d] # "absent" <=> d \in found
  BY <1>1, <1>4 DEF Merged, Listed
<1>6. Listed' = found
  BY <1>1, <1>3, <1>5 DEF Listed
<1>7. feed' \in Seq(Frame)
  BY <1>1, <1>2, <1>3
<1>8. TypeOK'
  BY <1>3, <1>5, <1>7 DEF IInv, TypeOK, Apply, usb
<1>9. FeedTellsTheList'
  <2>. SUFFICES ASSUME open PROVE FoldLeft(Tell, told, feed \o Events) = found
    BY <1>3, <1>6 DEF FeedTellsTheList
  <2>1. FoldLeft(Tell, told, feed) = Listed
    BY DEF IInv, FeedTellsTheList
  <2>. QED
    BY <1>1, <1>2, <2>1, FeedsInTurn
<1>. QED
  BY <1>8, <1>9 DEF IInv

LEMMA SubscribeStep ==
  ASSUME IInv, Subscribe
  PROVE  IInv'
<1>. DEFINE hello == [type |-> "hello", devices |-> Listed]
<1>1. Listed \in Known /\ hello \in Frame /\ {} \in Known
  BY DEF Listed, Known, Frame
<1>2. feed' = <<hello>> /\ told' = {} /\ Listed' = Listed
  BY DEF Subscribe, Listed
<1>3. hello.type = "hello" /\ hello.devices = Listed
  OBVIOUS
<1>. HIDE DEF hello
<1>4. <<hello>> \in Seq(Frame) /\ Len(<<hello>>) = 1
  BY <1>1
<1>5. TypeOK'
  BY <1>1, <1>2, <1>4, ConstantsOK DEF IInv, TypeOK, Subscribe, usb
<1>6. FoldLeft(Tell, {}, <<hello>>) = Listed
  BY <1>1, <1>3, ToldByOne, TellFrame
<1>7. FeedTellsTheList'
  BY <1>2, <1>6 DEF FeedTellsTheList
<1>. QED
  BY <1>5, <1>7 DEF IInv

\* The first frame is applied and leaves the feed.
LEMMA DeliverStep ==
  ASSUME IInv, Deliver
  PROVE  IInv'
<1>1. told \in Known /\ feed \in Seq(Frame) /\ feed # <<>> /\ Len(feed) <= MaxFeed
  BY DEF IInv, TypeOK, Known, Deliver
<1>. DEFINE head == Head(feed)
            tail == Tail(feed)
<1>2. head \in Frame /\ tail \in Seq(Frame) /\ feed = <<head>> \o tail /\ <<head>> \in Seq(Frame)
      /\ Len(tail) <= MaxFeed
  BY <1>1, ConstantsOK
<1>3. told' = Tell(told, head) /\ feed' = tail /\ open' = open /\ Listed' = Listed
  BY DEF Deliver, Listed
<1>. HIDE DEF head, tail
<1>4. Tell(told, head) \in Known
  BY <1>1, <1>2, ToldIsKnown
<1>5. TypeOK'
  BY <1>2, <1>3, <1>4 DEF IInv, TypeOK, Deliver, usb, Known
<1>6. FoldLeft(Tell, told, <<head>> \o tail) = FoldLeft(Tell, Tell(told, head), tail)
  <2>1. FoldLeft(Tell, told, <<head>> \o tail) = FoldLeft(Tell, FoldLeft(Tell, told, <<head>>), tail)
    BY <1>1, <1>2, FeedsInTurn
  <2>2. FoldLeft(Tell, told, <<head>>) = Tell(told, head)
    BY <1>1, <1>2, ToldByOne
  <2>. QED
    BY <2>1, <2>2
<1>7. FeedTellsTheList'
  BY <1>2, <1>3, <1>6 DEF IInv, FeedTellsTheList
<1>. QED
  BY <1>5, <1>7 DEF IInv

LEMMA HangUpStep ==
  ASSUME IInv, HangUp
  PROVE  IInv'
<1>1. <<>> \in Seq(Frame) /\ Len(<<>>) = 0 /\ MaxFeed \in Nat
  BY ConstantsOK
<1>2. feed' = <<>> /\ open' = FALSE
  BY DEF HangUp
<1>3. TypeOK'
  <2>1. feed' \in Seq(Frame)
    BY <1>1, <1>2
  <2>2. Len(feed') <= MaxFeed
    BY <1>1, <1>2
  <2>3. open' \in BOOLEAN
    BY <1>2
  <2>. QED
    BY <2>1, <2>2, <2>3 DEF IInv, TypeOK, HangUp, usb
<1>4. FeedTellsTheList'
  BY <1>2 DEF FeedTellsTheList
<1>. QED
  BY <1>3, <1>4 DEF IInv

LEMMA InductiveStep == IInv /\ [Next]_wvars => IInv'
<1>. SUFFICES ASSUME IInv, [Next]_wvars PROVE IInv'
  OBVIOUS
<1>1. CASE Bus
  BY <1>1, BusStep
<1>2. CASE Watcher
  BY <1>2, PollStep, ListStep, ProbeStep, ApplyStep DEF Watcher
<1>3. CASE Subscribe
  BY <1>3, SubscribeStep
<1>4. CASE Deliver
  BY <1>4, DeliverStep
<1>5. CASE HangUp
  BY <1>5, HangUpStep
<1>6. CASE UNCHANGED wvars
  BY <1>6, FeedUntouched DEF IInv, TypeOK, wvars, wires
<1>. QED
  BY <1>1, <1>2, <1>3, <1>4, <1>5, <1>6 DEF Next

\* Every step of the bus, of the watcher and of the socket keeps the types
\* and the promise of the feed.
THEOREM Invariance == Spec => []IInv
BY InitialState, InductiveStep, PTL DEF Spec

\* The watcher's and the socket's variables keep their types.
THEOREM TypeCorrectness == Spec => []TypeOK
<1>1. IInv => TypeOK
  BY DEF IInv
<1>. QED
  BY <1>1, Invariance, PTL

\* device-watcher.ts and the /events socket of server.ts: a dashboard that
\* joins at any moment and applies what it is sent arrives at the bridge's
\* list, however many handsets there are and whatever they do.
THEOREM FeedAmountsToTheList == Spec => []FeedTellsTheList
<1>1. IInv => FeedTellsTheList
  BY DEF IInv
<1>. QED
  BY <1>1, Invariance, PTL
=============================================================================
