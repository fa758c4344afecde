----------------------------- MODULE LiveProofs -----------------------------
(***************************************************************************)
(* Proofs about live transcription.                                        *)
(*                                                                         *)
(* CaptureRing: audio is handed over in order and once, and a read that    *)
(* reports the end of the source accounts for every frame, for every       *)
(* capacity of the ring and any number of frames, chunks, reads and        *)
(* failures.                                                               *)
(*                                                                         *)
(* LiveSession with ListenPersist: the utterances of a session start, are  *)
(* committed and end in order, each is durable with all its events or with *)
(* none, every voiced tick of an utterance is heard or reported lost, and  *)
(* none is committed twice outside the code's two exceptions, for any      *)
(* amount of audio and every buffer and voice detector (the last where the *)
(* buffer keeps back what an onset's pre-padding reaches).                 *)
(***************************************************************************)
EXTENDS CaptureRing, LiveSession, FiniteSetTheorems, SequenceTheorems, WellFoundedInduction, TLAPS

-----------------------------------------------------------------------------
(* The ring between the producer and the driver.                           *)

Feeding == {"feed", "push"}

\* Types of the variables.
Typed ==
    /\ source \in {"cpal", "child", "stdin"}
    /\ produced \in Nat /\ overruns \in Nat
    /\ ring \in Seq(Nat) /\ delivered \in Seq(Nat)
    /\ error \in BOOLEAN /\ ended \in BOOLEAN
    /\ feeder \in [at : {"loop", "read", "feed", "push", "count", "errored", "exit", "gone"},
                   chunk : Seq(Nat), room : Nat]
    /\ stop \in {"no", "sent", "taken", "killed", "flagged"}
    /\ driver \in [at : {"idle", "pop", "flag", "error", "return", "join"}, got : Seq(Nat),
                   flag : BOOLEAN, total : Nat, ok : BOOLEAN]
    /\ last \in [ended : BOOLEAN, overruns : Nat]

\* The records of the producer and of the driver.
Feeders == [at : {"loop", "read", "feed", "push", "count", "errored", "exit", "gone"},
            chunk : Seq(Nat), room : Nat]
Drivers == [at : {"idle", "pop", "flag", "error", "return", "join"}, got : Seq(Nat),
            flag : BOOLEAN, total : Nat, ok : BOOLEAN]

\* The frames handed over, popped and waiting, in this order.
Frames == delivered \o driver.got \o ring

Increasing(s) == \A i, j \in DOMAIN s : i < j => s[i] < s[j]
UpTo(s, m) == \A i \in DOMAIN s : s[i] <= m

\* The newest frame the ring was offered.
Offered == IF feeder.at \in Feeding THEN produced - Len(feeder.chunk) ELSE produced

\* The frames the producer still holds, and what of them it will count as overruns.
Held ==
    CASE feeder.at \in Feeding -> Len(feeder.chunk)
      [] feeder.at = "count" -> Len(feeder.chunk) - feeder.room
      [] OTHER -> 0

\* A chunk is the newest frames, and what was seen to fit still fits.
ChunkKept ==
    /\ Len(ring) <= Capacity
    /\ feeder.at \in Feeding \union {"count"} =>
          /\ Len(feeder.chunk) <= produced
          /\ \A i \in 1 .. Len(feeder.chunk) : feeder.chunk[i] = produced - Len(feeder.chunk) + i
    /\ feeder.at \in {"push", "count"} => feeder.room <= Len(feeder.chunk)
    /\ feeder.at = "push" => Len(ring) + feeder.room <= Capacity

Ordered == Increasing(Frames) /\ UpTo(Frames, Offered)

\* Until a read fails every frame is somewhere, or counted.
Balanced ==
    driver.ok => produced = Len(delivered) + Len(driver.got) + Len(ring) + overruns + Held

\* Where the driver is.
DriverKept ==
    /\ driver.at \in {"pop", "flag", "error", "return"} => driver.ok
    /\ driver.at \in {"idle", "pop", "join"} => driver.got = <<>>
    /\ driver.at \in {"error", "return"} /\ driver.flag => ended

\* Why a source has ended, unless its reader was left behind: nothing more arrives, or an
\* error is there to be read, or was, or the driver waits for the producer.
WhyEnded ==
    /\ source = "cpal" => /\ feeder.at \notin {"read", "exit"}
                          /\ feeder.at = "gone" => stop = "taken"
    /\ source # "cpal" => stop \notin {"sent", "taken"}
    /\ stop \in {"sent", "taken", "killed"} => driver.at = "join" \/ feeder.at = "gone"
    /\ feeder.at = "errored" => error \/ ~driver.ok
    /\ ended /\ ~Detached => \/ feeder.at = "gone" \/ error \/ ~driver.ok
                             \/ driver.at = "join"

\* What a read that is about to return, and the newest one that has, say of the end.
EndKept ==
    /\ driver.at = "return" /\ driver.flag /\ ~Detached => feeder.at = "gone" /\ driver.total = overruns
    /\ last.ended /\ ~Detached => feeder.at = "gone" /\ Len(delivered) + last.overruns = produced

RingInv == Typed /\ ChunkKept /\ Ordered /\ Balanced /\ DriverKept /\ WhyEnded /\ EndKept

-----------------------------------------------------------------------------
(* Increasing sequences.                                                   *)

\* Larger numbers may follow.
LEMMA IncreasingConcat ==
    ASSUME NEW a \in Seq(Nat), NEW b \in Seq(Nat), Increasing(a), Increasing(b), NEW m \in Nat, NEW n \in Nat,
           UpTo(a, m), UpTo(b, n), m <= n, \A i \in DOMAIN b : m < b[i]
    PROVE  a \o b \in Seq(Nat) /\ Increasing(a \o b) /\ UpTo(a \o b, n)
  <1>1. /\ a \o b \in Seq(Nat) /\ Len(a \o b) = Len(a) + Len(b)
        /\ \A i \in 1 .. Len(a) + Len(b) : (a \o b)[i] = IF i <= Len(a) THEN a[i] ELSE b[i - Len(a)]
    BY ConcatProperties
  <1>2. Len(a) \in Nat /\ Len(b) \in Nat /\ DOMAIN a = 1 .. Len(a) /\ DOMAIN b = 1 .. Len(b)
        /\ DOMAIN (a \o b) = 1 .. Len(a) + Len(b)
    BY <1>1, LenProperties
  <1>3. \A i \in 1 .. Len(a) : a[i] \in Nat /\ a[i] <= m
    BY <1>2, ElementOfSeq DEF UpTo
  <1>4. \A i \in 1 .. Len(b) : b[i] \in Nat /\ m < b[i] /\ b[i] <= n
    BY <1>2, ElementOfSeq DEF UpTo
  <1>5. \A i \in 1 .. Len(a) + Len(b) : i > Len(a) => i - Len(a) \in 1 .. Len(b)
    BY <1>2
  <1>6. UpTo(a \o b, n)
    <2> SUFFICES ASSUME NEW i \in 1 .. Len(a) + Len(b) PROVE (a \o b)[i] <= n
      BY <1>2 DEF UpTo
    <2>1. CASE i <= Len(a)
      BY <1>1, <1>2, <1>3, <2>1
    <2>2. CASE i > Len(a)
      BY <1>1, <1>2, <1>4, <1>5, <2>2
    <2> QED BY <1>2, <2>1, <2>2
  <1> DEFINE t == a \o b
  <1>7. /\ DOMAIN t = 1 .. Len(a) + Len(b)
        /\ \A i \in 1 .. Len(a) : t[i] = a[i]
        /\ \A i \in 1 .. Len(a) + Len(b) : i > Len(a) => t[i] = b[i - Len(a)]
    BY <1>1, <1>2
  <1> HIDE DEF t
  <1>8. Increasing(t)
    <2> SUFFICES ASSUME NEW i \in 1 .. Len(a) + Len(b), NEW j \in 1 .. Len(a) + Len(b), i < j
                 PROVE  t[i] < t[j]
      BY <1>7 DEF Increasing
    <2>1. CASE j <= Len(a)
      <3>1. i \in 1 .. Len(a) /\ j \in 1 .. Len(a)
        BY <1>2, <2>1
      <3> QED BY <1>2, <1>7, <3>1 DEF Increasing
    <2>2. CASE i <= Len(a) /\ j > Len(a)
      <3>0. i \in 1 .. Len(a) /\ j - Len(a) \in 1 .. Len(b) /\ ~(j <= Len(a))
        BY <1>2, <2>2
      <3>1. t[i] = a[i] /\ t[j] = b[j - Len(a)] /\ i \in 1 .. Len(a) /\ j - Len(a) \in 1 .. Len(b)
        BY <1>7, <2>2, <3>0
      <3>2. a[i] \in Nat /\ a[i] <= m /\ b[j - Len(a)] \in Nat /\ m < b[j - Len(a)]
        BY <1>3, <1>4, <3>1
      <3> QED BY <3>1, <3>2, SMTT(30)
    <2>3. CASE i > Len(a)
      <3>1. i - Len(a) \in DOMAIN b /\ j - Len(a) \in DOMAIN b /\ i - Len(a) < j - Len(a)
        BY <1>2, <1>5, <2>3
      <3>2. t[i] = b[i - Len(a)] /\ t[j] = b[j - Len(a)]
        BY <1>2, <1>7, <2>3
      <3> QED BY <3>1, <3>2 DEF Increasing
    <2> QED BY <1>2, <2>1, <2>2, <2>3
  <1> QED BY <1>1, <1>6, <1>8 DEF t

\* What is left when a part in the middle is taken out is still in order.
LEMMA IncreasingDrop ==
    ASSUME NEW a \in Seq(Nat), NEW b \in Seq(Nat), NEW c \in Seq(Nat), NEW m \in Nat,
           Increasing(a \o b \o c), UpTo(a \o b \o c, m)
    PROVE  Increasing(a \o <<>> \o c) /\ UpTo(a \o <<>> \o c, m)
  <1> DEFINE s == a \o b \o c
             t == a \o c
  <1>0. a \o <<>> \o c = t
    BY ConcatEmptySeq
  <1>1. Len(a) \in Nat /\ Len(b) \in Nat /\ Len(c) \in Nat
    BY LenProperties
  <1>2. /\ t \in Seq(Nat) /\ Len(t) = Len(a) + Len(c)
        /\ \A i \in 1 .. Len(a) + Len(c) : t[i] = IF i <= Len(a) THEN a[i] ELSE c[i - Len(a)]
    BY ConcatProperties
  <1>3. /\ a \o b \in Seq(Nat) /\ Len(a \o b) = Len(a) + Len(b)
        /\ \A i \in 1 .. Len(a) + Len(b) : (a \o b)[i] = IF i <= Len(a) THEN a[i] ELSE b[i - Len(a)]
    BY ConcatProperties
  <1>4. /\ s \in Seq(Nat) /\ Len(s) = Len(a) + Len(b) + Len(c)
        /\ \A i \in 1 .. Len(a) + Len(b) + Len(c) :
               s[i] = IF i <= Len(a) + Len(b) THEN (a \o b)[i] ELSE c[i - (Len(a) + Len(b))]
    BY <1>3, ConcatProperties
  <1>5. DOMAIN s = 1 .. Len(a) + Len(b) + Len(c) /\ DOMAIN t = 1 .. Len(a) + Len(c)
    BY <1>2, <1>4, LenProperties
  <1> DEFINE place(i) == IF i <= Len(a) THEN i ELSE i + Len(b)
  <1>6. \A i \in DOMAIN t : place(i) \in DOMAIN s /\ t[i] = s[place(i)]
    <2> TAKE i \in DOMAIN t
    <2>1. CASE i <= Len(a)
      <3>1. /\ i \in 1 .. Len(a) + Len(c) /\ i \in 1 .. Len(a) + Len(b) /\ i <= Len(a) + Len(b)
            /\ i \in 1 .. Len(a) + Len(b) + Len(c)
        BY <1>1, <1>5, <2>1
      <3>2. t[i] = a[i] /\ (a \o b)[i] = a[i]
        BY <1>2, <1>3, <2>1, <3>1
      <3>3. s[i] = (a \o b)[i]
        BY <1>4, <3>1
      <3> QED BY <1>5, <2>1, <3>1, <3>2, <3>3
    <2>2. CASE i > Len(a)
      <3>1. i + Len(b) \in 1 .. Len(a) + Len(b) + Len(c) /\ i + Len(b) - (Len(a) + Len(b)) = i - Len(a)
            /\ ~(i + Len(b) <= Len(a) + Len(b)) /\ ~(i <= Len(a))
        BY <1>1, <1>5, <2>2
      <3>2. t[i] = c[i - Len(a)] /\ i \in 1 .. Len(a) + Len(c)
        BY <1>2, <1>5, <3>1
      <3>3. s[i + Len(b)] = c[i - Len(a)]
        BY <1>4, <3>1
      <3> QED BY <1>5, <3>1, <3>2, <3>3
    <2>3. i \in Nat
      BY <1>1, <1>5
    <2> QED BY <1>1, <2>1, <2>2, <2>3, SMTT(30)
  <1>7. \A i, j \in DOMAIN t : i < j => place(i) < place(j)
    BY <1>1, <1>5
  <1> HIDE DEF s, t, place
  <1>8. Increasing(t) /\ UpTo(t, m)
    BY <1>6, <1>7 DEF Increasing, UpTo, s
  <1> QED BY <1>0, <1>8

\* A sequence falls into two parts.
LEMMA Parts ==
    ASSUME NEW s \in Seq(Nat), NEW n \in 0 .. Len(s)
    PROVE  /\ SubSeq(s, 1, n) \in Seq(Nat) /\ SubSeq(s, n + 1, Len(s)) \in Seq(Nat)
           /\ Len(SubSeq(s, 1, n)) = n /\ Len(SubSeq(s, n + 1, Len(s))) = Len(s) - n
           /\ \A i \in 1 .. n : SubSeq(s, 1, n)[i] = s[i]
           /\ s = SubSeq(s, 1, n) \o SubSeq(s, n + 1, Len(s))
  <1>1. Len(s) \in Nat /\ n \in Nat /\ n <= Len(s)
    BY LenProperties
  <1>2. SubSeq(s, 1, n) \in Seq(Nat) /\ Len(SubSeq(s, 1, n)) = n /\ (\A i \in 1 .. n : SubSeq(s, 1, n)[i] = s[i])
    BY <1>1, SMTT(30)
  <1>3. SubSeq(s, n + 1, Len(s)) \in Seq(Nat) /\ Len(SubSeq(s, n + 1, Len(s))) = Len(s) - n
    BY <1>1, SMTT(30)
  <1>4. SubSeq(s, 1, n) \o SubSeq(s, n + 1, Len(s)) = SubSeq(s, 1, Len(s))
    <2>1. 1 \in 1 .. Len(s) + 1 /\ n \in 1 - 1 .. Len(s) /\ Len(s) \in n .. Len(s)
      BY <1>1
    <2>2. \A m \in 1 .. Len(s) + 1 : \A k \in m - 1 .. Len(s) : \A j \in k .. Len(s) :
              SubSeq(s, m, k) \o SubSeq(s, k + 1, j) = SubSeq(s, m, j)
      BY ConcatAdjacentSubSeq, Zenon
    <2> QED BY <2>1, <2>2, Zenon
  <1>5. SubSeq(s, 1, Len(s)) = s
    BY SubSeqFull
  <1> QED BY <1>2, <1>3, <1>4, <1>5

\* A function on an initial segment of the numbers is a sequence.
LEMMA SeqOfFunction ==
    ASSUME NEW T, NEW n \in Nat, NEW f \in [1 .. n -> T]
    PROVE  f \in Seq(T) /\ Len(f) = n
  <1>1. f \in Seq(T)
    BY SeqDef
  <1>2. DOMAIN f = 1 .. n /\ DOMAIN f = 1 .. Len(f) /\ Len(f) \in Nat
    BY <1>1, LenProperties
  <1>3. \A k \in Nat : k \in 1 .. n <=> k \in 1 .. Len(f)
    BY <1>2
  <1>4. Len(f) <= n /\ n <= Len(f)
    BY <1>2, <1>3
  <1> QED BY <1>1, <1>2, <1>4

\* The smaller of two numbers is one of them.
LEMMA SmallerOf ==
    ASSUME NEW a \in Nat, NEW b \in Nat
    PROVE  Min({a, b}) \in Nat /\ Min({a, b}) <= a /\ Min({a, b}) <= b
  <1>1. \E x \in {a, b} : \A y \in {a, b} : x <= y
    OBVIOUS
  <1> QED BY <1>1 DEF Min

-----------------------------------------------------------------------------
(* The steps.                                                              *)

\* Nothing has arrived yet.
LEMMA RingInitInv == RingInit => RingInv
  <1> SUFFICES ASSUME RingInit PROVE RingInv
    OBVIOUS
  <1>0. source \in {"cpal", "child", "stdin"} /\ <<>> \in Seq(Nat)
    BY BoundsAssumption DEF RingInit
  <1>1. Typed
    BY <1>0 DEF RingInit, Typed
  <1>2. Frames = <<>>
    BY DEF RingInit, Frames
  <1>3. Ordered
    BY <1>2 DEF Ordered, Increasing, UpTo
  <1>4. ChunkKept /\ Balanced
    BY BoundsAssumption DEF RingInit, ChunkKept, Balanced, Held, Feeding
  <1>5. DriverKept /\ WhyEnded /\ EndKept
    BY DEF RingInit, DriverKept, WhyEnded, EndKept, Detached
  <1> QED BY <1>1, <1>3, <1>4, <1>5 DEF RingInv

\* Steps that move no frame.
LEMMA FramesStay ==
    ASSUME RingInv, UNCHANGED <<produced, ring, overruns, delivered>>,
           driver'.got = driver.got, driver'.ok => driver.ok,
           \/ feeder' = feeder
           \/ {feeder.at, feeder'.at} \intersect {"feed", "push", "count"} = {}
    PROVE  ChunkKept' /\ Ordered' /\ Balanced'
  <1>1. Frames' = Frames /\ Offered' = Offered /\ Held' = Held
    BY DEF Frames, Offered, Held, Feeding
  <1>2. Ordered' /\ Balanced'
    BY <1>1 DEF RingInv, Ordered, Balanced, Increasing, UpTo
  <1>3. ChunkKept'
    BY DEF RingInv, ChunkKept, Feeding
  <1> QED BY <1>2, <1>3

\* The producer between chunks, and the audio thread.
LEMMA ProducerInv ==
    ASSUME RingInv, \/ CheckEnded \/ Eof \/ RecordError \/ FlagError \/ Exit
                 \/ TakeStopSignal \/ DropStream
    PROVE  RingInv'
  <1> USE DEF CheckEnded, Eof, RecordError, FlagError, Exit, TakeStopSignal, DropStream
  <1>1. Typed'
    <2>1. feeder \in Feeders /\ Typed
      BY DEF RingInv, Typed, Feeders
    <2>2. feeder' \in Feeders
      BY <2>1 DEF Feeders
    <2>3. /\ UNCHANGED <<source, produced, overruns, ring, delivered, driver, last>>
          /\ error' \in BOOLEAN /\ ended' \in BOOLEAN /\ stop' \in {"no", "sent", "taken", "killed", "flagged"}
      BY <2>1 DEF Typed
    <2> QED BY <2>1, <2>2, <2>3 DEF Typed, Feeders
  <1>2. ChunkKept' /\ Ordered' /\ Balanced'
    <2>1. \/ feeder' = feeder
          \/ {feeder.at, feeder'.at} \intersect {"feed", "push", "count"} = {}
      BY DEF RingInv, Typed
    <2> QED BY <2>1, FramesStay
  <1>3. DriverKept'
    BY DEF RingInv, DriverKept
  <1>4. WhyEnded'
    BY DEF RingInv, Typed, WhyEnded, Detached
  <1>5. EndKept'
    BY DEF RingInv, Typed, EndKept, Detached
  <1> QED BY <1>1, <1>2, <1>3, <1>4, <1>5 DEF RingInv

\* The driver where it moves no frame.
LEMMA DriverInv ==
    ASSUME RingInv, BeginRead \/ LoadFlag \/ PollAgain \/ LoadOverruns \/ Join
    PROVE  RingInv'
  <1> USE DEF BeginRead, LoadFlag, PollAgain, LoadOverruns, Join
  <1>0. /\ UNCHANGED <<source, produced, ring, overruns, error, feeder, stop, delivered, last>>
        /\ ended' \in BOOLEAN
        /\ driver' \in [at : {"idle", "pop", "flag", "error", "return", "join"}, got : Seq(Nat),
                        flag : BOOLEAN, total : Nat, ok : BOOLEAN]
    <2>1. <<>> \in Seq(Nat)
      OBVIOUS
    <2>2. CASE BeginRead
      BY <2>1, <2>2 DEF RingInv, Typed
    <2>3. CASE LoadFlag \/ PollAgain
      BY <2>3 DEF RingInv, Typed
    <2>4. CASE LoadOverruns \/ Join
      BY <2>4 DEF RingInv, Typed
    <2> QED BY <2>2, <2>3, <2>4
  <1>1. Typed'
    BY <1>0 DEF RingInv, Typed
  <1>2. ChunkKept' /\ Ordered' /\ Balanced'
    <2>1. driver'.got = driver.got /\ (driver'.ok => driver.ok)
      BY DEF RingInv, Typed, DriverKept
    <2> QED BY <2>1, FramesStay
  <1>3. DriverKept'
    <2>1. DriverKept /\ driver \in Drivers /\ <<>> \in Seq(Nat)
      BY DEF RingInv, Typed, Drivers
    <2>2. CASE BeginRead
      BY <2>1, <2>2 DEF DriverKept, Drivers
    <2>3. CASE LoadFlag
      BY <2>1, <2>3 DEF DriverKept, Drivers
    <2>4. CASE PollAgain
      BY <2>1, <2>4 DEF DriverKept, Drivers
    <2>5. CASE LoadOverruns
      BY <2>1, <2>5 DEF DriverKept, Drivers
    <2>6. CASE Join
      BY <2>1, <2>6 DEF DriverKept, Drivers
    <2> QED BY <2>2, <2>3, <2>4, <2>5, <2>6
  <1>4. WhyEnded'
    <2>1. CASE BeginRead \/ LoadFlag \/ PollAgain \/ LoadOverruns
      <3>1. /\ driver.at # "join" /\ driver'.ok = driver.ok
            /\ UNCHANGED <<source, stop, feeder, error, ended>>
        BY <2>1 DEF RingInv, Typed
      <3> QED BY <3>1 DEF RingInv, WhyEnded, Detached
    <2>2. CASE Join
      <3>1. feeder.at = "gone" /\ driver'.ok = driver.ok /\ UNCHANGED <<source, stop, feeder, error>>
        BY <2>2 DEF RingInv, Typed
      <3> QED BY <3>1 DEF RingInv, WhyEnded, Detached
    <2> QED BY <2>1, <2>2
  <1>5. EndKept'
    BY DEF RingInv, Typed, EndKept, DriverKept, WhyEnded, Detached
  <1> QED BY <1>1, <1>2, <1>3, <1>4, <1>5 DEF RingInv

\* A request to stop moves no frame and says why the source will end.
LEMMA StopInv ==
    ASSUME RingInv, NEW killed \in BOOLEAN, BeginStop(killed)
    PROVE  RingInv'
  <1>0. /\ driver.at = "idle" /\ stop = "no" /\ ended' \in BOOLEAN
        /\ UNCHANGED <<source, produced, ring, overruns, error, feeder, delivered, last>>
    BY DEF BeginStop, RingInv, Typed
  <1>c. \/ source = "cpal" /\ stop' = "sent" /\ ended' = ended /\ driver' = [driver EXCEPT !.at = "join"]
        \/ source = "child" /\ stop' = "killed" /\ driver' = [driver EXCEPT !.at = "join"]
        \/ source # "cpal" /\ stop' = "flagged" /\ driver' = [driver EXCEPT !.at = "idle"]
    <2>1. CASE source = "cpal"
      BY <2>1 DEF BeginStop, Joins, RingInv, Typed
    <2>2. CASE source = "child" /\ killed
      BY <2>2 DEF BeginStop, Joins
    <2>3. CASE source # "cpal" /\ ~(source = "child" /\ killed)
      <3>1. ~killed
        BY <2>3 DEF BeginStop, RingInv, Typed
      <3> QED BY <2>3, <3>1 DEF BeginStop, Joins
    <2> QED BY <2>1, <2>2, <2>3
  <1>1. Typed'
    BY <1>0, <1>c DEF RingInv, Typed
  <1>d. /\ driver'.got = driver.got /\ driver'.ok = driver.ok /\ driver'.flag = driver.flag
        /\ driver'.at = (IF stop' = "flagged" THEN "idle" ELSE "join")
    BY <1>c DEF RingInv, Typed
  <1>2. ChunkKept' /\ Ordered' /\ Balanced'
    BY <1>0, <1>d, FramesStay
  <1>3. DriverKept'
    BY <1>0, <1>d DEF RingInv, DriverKept
  <1>4. WhyEnded'
    BY <1>0, <1>c, <1>d DEF RingInv, Typed, WhyEnded, Detached
  <1>5. EndKept'
    BY <1>0, <1>d DEF RingInv, EndKept, Detached
  <1> QED BY <1>1, <1>2, <1>3, <1>4, <1>5 DEF RingInv

\* Frames arrive: the newest so far.
LEMMA ArriveInv ==
    ASSUME RingInv, NEW n \in 1 .. MaxChunk, Arrive(n)
    PROVE  RingInv'
  <1> DEFINE c == [i \in 1 .. n |-> produced + i]
  <1>0. /\ n \in Nat /\ produced' = produced + n /\ feeder' = [feeder EXCEPT !.at = "feed", !.chunk = c]
        /\ feeder.at \in {"loop", "read"} /\ (source = "cpal" => feeder.at = "loop")
        /\ UNCHANGED <<source, ring, overruns, error, ended, stop, driver, delivered, last>>
    BY BoundsAssumption DEF Arrive
  <1>1. c \in Seq(Nat) /\ Len(c) = n /\ \A i \in 1 .. n : c[i] = produced + i
    <2>1. c \in [1 .. n -> Nat] /\ n \in Nat
      BY <1>0 DEF RingInv, Typed
    <2>2. \A i \in 1 .. n : c[i] = produced + i
      OBVIOUS
    <2> HIDE DEF c
    <2> QED BY <2>1, <2>2, SeqOfFunction
  <1> HIDE DEF c
  <1>2. Typed' /\ feeder'.at = "feed" /\ feeder'.chunk = c /\ feeder'.room = feeder.room
    <2>1. feeder' \in [at : {"loop", "read", "feed", "push", "count", "errored", "exit", "gone"},
                       chunk : Seq(Nat), room : Nat]
          /\ feeder'.at = "feed" /\ feeder'.chunk = c /\ feeder'.room = feeder.room
      BY <1>0, <1>1 DEF RingInv, Typed
    <2>2. produced' \in Nat
      BY <1>0 DEF RingInv, Typed
    <2> QED BY <1>0, <2>1, <2>2 DEF RingInv, Typed
  <1>3. ChunkKept'
    <2>1. /\ Len(feeder'.chunk) = n /\ n <= produced' /\ ring' = ring /\ Len(ring) <= Capacity
          /\ feeder'.at \notin {"push", "count"}
      BY <1>0, <1>1, <1>2 DEF RingInv, Typed, ChunkKept
    <2>2. \A i \in 1 .. n : c[i] = produced' - n + i
      BY <1>0, <1>1 DEF RingInv, Typed
    <2> QED BY <1>2, <2>1, <2>2 DEF ChunkKept, Feeding
  <1>4. Frames' = Frames /\ Offered' = Offered /\ Held' = Held + n /\ Held = 0
    <2>1. Frames' = Frames
      BY <1>0 DEF Frames
    <2>2. Held' = n /\ Held = 0 /\ Offered = produced
      BY <1>0, <1>1, <1>2 DEF Held, Feeding, Offered
    <2>3. produced' - n = produced
      BY <1>0 DEF RingInv, Typed
    <2>4. Offered' = produced' - n
      BY <1>1, <1>2 DEF Offered, Feeding
    <2> QED BY <1>0, <2>1, <2>2, <2>3, <2>4
  <1>5. Ordered'
    BY <1>4 DEF RingInv, Ordered, Increasing, UpTo
  <1>6. Balanced'
    <2>1. Len(delivered) \in Nat /\ Len(driver.got) \in Nat /\ Len(ring) \in Nat
      BY LenProperties DEF RingInv, Typed
    <2> QED BY <1>0, <1>4, <2>1 DEF RingInv, Typed, Balanced
  <1>7. DriverKept' /\ WhyEnded' /\ EndKept'
    BY <1>0, <1>2 DEF RingInv, DriverKept, WhyEnded, EndKept, Detached
  <1> QED BY <1>2, <1>3, <1>5, <1>6, <1>7 DEF RingInv

\* What fits is seen before it is pushed.
LEMMA ObserveInv ==
    ASSUME RingInv, Observe
    PROVE  RingInv'
  <1> DEFINE r == Min({Vacant, Len(feeder.chunk)})
  <1>0. /\ feeder.at = "feed" /\ feeder' = [feeder EXCEPT !.at = "push", !.room = r]
        /\ UNCHANGED <<source, produced, ring, overruns, error, ended, stop, driver, delivered, last>>
    BY DEF Observe
  <1>1. r \in Nat /\ r <= Capacity - Len(ring) /\ r <= Len(feeder.chunk) /\ Len(ring) \in Nat /\ Capacity \in Nat
    <2>1. Len(ring) \in Nat /\ Len(feeder.chunk) \in Nat /\ Capacity \in Nat
      BY LenProperties, BoundsAssumption DEF RingInv, Typed
    <2>2. Vacant \in Nat
      BY <2>1 DEF RingInv, ChunkKept, Vacant
    <2> QED BY <2>1, <2>2, SmallerOf DEF Vacant
  <1> HIDE DEF r
  <1>2. Typed' /\ feeder'.at = "push" /\ feeder'.chunk = feeder.chunk /\ feeder'.room = r
    <2>1. feeder' \in Feeders /\ feeder'.at = "push" /\ feeder'.chunk = feeder.chunk /\ feeder'.room = r
      <3>1. feeder \in Feeders
        BY DEF RingInv, Typed, Feeders
      <3> QED BY <1>0, <1>1, <3>1 DEF Feeders
    <2>2. UNCHANGED <<source, produced, ring, overruns, error, ended, stop, driver, delivered, last>>
      BY <1>0
    <2> QED BY <2>1, <2>2 DEF RingInv, Typed, Feeders
  <1>3. ChunkKept'
    BY <1>0, <1>1, <1>2 DEF RingInv, ChunkKept, Feeding
  <1>4. Frames' = Frames /\ Offered' = Offered /\ Held' = Held
    BY <1>0, <1>2 DEF Frames, Offered, Held, Feeding
  <1>5. Ordered' /\ Balanced'
    BY <1>0, <1>4 DEF RingInv, Ordered, Increasing, UpTo, Balanced
  <1>6. DriverKept' /\ WhyEnded' /\ EndKept'
    BY <1>0, <1>2 DEF RingInv, DriverKept, WhyEnded, EndKept, Detached
  <1> QED BY <1>2, <1>3, <1>5, <1>6 DEF RingInv

\* What fits goes behind everything the ring was offered before.
LEMMA PushInv ==
    ASSUME RingInv, Push
    PROVE  RingInv'
  <1> DEFINE r == feeder.room
             n == Len(feeder.chunk)
             b == SubSeq(feeder.chunk, 1, r)
  <1>0. /\ feeder.at = "push" /\ ring' = ring \o b /\ feeder' = [feeder EXCEPT !.at = "count"]
        /\ UNCHANGED <<source, produced, overruns, error, ended, stop, driver, delivered, last>>
    BY DEF Push
  <1>1. /\ r \in Nat /\ n \in Nat /\ r <= n /\ n <= produced /\ produced \in Nat /\ Len(ring) \in Nat
        /\ feeder.chunk \in Seq(Nat) /\ Capacity \in Nat /\ Len(ring) + r <= Capacity
        /\ \A i \in 1 .. n : feeder.chunk[i] = produced - n + i
    BY <1>0, LenProperties, BoundsAssumption DEF RingInv, Typed, ChunkKept, Feeding
  <1>n. n = Len(feeder.chunk) /\ r = feeder.room
    OBVIOUS
  <1> HIDE DEF n, r
  <1>2. b \in Seq(Nat) /\ Len(b) = r /\ \A i \in 1 .. r : b[i] = produced - n + i
    <2>1. r \in 0 .. Len(feeder.chunk)
      BY <1>1, <1>n
    <2>2. b \in Seq(Nat) /\ Len(b) = r /\ \A i \in 1 .. r : b[i] = feeder.chunk[i]
      BY <1>1, <2>1, Parts
    <2> HIDE DEF b
    <2>3. \A i \in 1 .. r : i \in 1 .. n
      BY <1>1
    <2> QED BY <1>1, <2>2, <2>3
  <1>3. DOMAIN b = 1 .. r
    BY <1>2, LenProperties
  <1> HIDE DEF b
  <1>4. ring' \in Seq(Nat) /\ Len(ring') = Len(ring) + r
    <2>1. ring \in Seq(Nat) /\ ring' = ring \o b
      BY <1>0 DEF RingInv, Typed, b
    <2> QED BY <1>2, <2>1, ConcatProperties
  <1>5. Typed' /\ feeder'.at = "count" /\ feeder'.chunk = feeder.chunk /\ feeder'.room = r
    <2>1. feeder' = [feeder EXCEPT !.at = "count", !.room = feeder.room]
      BY <1>0 DEF RingInv, Typed
    <2>2. feeder' \in Feeders /\ feeder'.at = "count" /\ feeder'.chunk = feeder.chunk /\ feeder'.room = r
      <3>1. feeder \in Feeders
        BY DEF RingInv, Typed, Feeders
      <3> QED BY <1>1, <1>n, <2>1, <3>1 DEF Feeders
    <2>3. UNCHANGED <<source, produced, overruns, error, ended, stop, driver, delivered, last>>
      BY <1>0
    <2> QED BY <1>4, <2>2, <2>3 DEF RingInv, Typed, Feeders
  <1>6. ChunkKept'
    BY <1>0, <1>1, <1>4, <1>5, <1>n DEF RingInv, ChunkKept, Feeding
  <1>7. Ordered'
    <2>1. Frames \in Seq(Nat)
      BY DEF Frames, RingInv, Typed
    <2>2. Frames' = Frames \o b
      <3>1. delivered \o driver.got \in Seq(Nat) /\ ring \in Seq(Nat)
        BY DEF RingInv, Typed
      <3> DEFINE d == delivered \o driver.got
      <3>2. d \in Seq(Nat)
        BY <3>1
      <3> HIDE DEF d
      <3>b. b \in Seq(Nat) /\ ring \in Seq(Nat)
        BY <1>2, <3>1
      <3>3. (d \o ring) \o b = d \o (ring \o b)
        BY <3>2, <3>b, ConcatAssociative, SMTT(30)
      <3>4. Frames' = d \o (ring \o b) /\ Frames = d \o ring
        BY <1>0 DEF Frames, d, b
      <3> QED BY <3>3, <3>4
    <2>3. Offered = produced - n /\ Offered' = produced /\ produced - n \in Nat /\ produced - n <= produced
      BY <1>0, <1>1, <1>5, <1>n DEF Offered, Feeding
    <2>4. Increasing(b) /\ UpTo(b, produced) /\ \A i \in DOMAIN b : produced - n < b[i]
      <3>1. \A i \in DOMAIN b : i \in 1 .. r /\ b[i] = produced - n + i
        BY <1>2, <1>3
      <3>2. \A i \in DOMAIN b : b[i] <= produced /\ produced - n < b[i]
        BY <1>1, <3>1
      <3>3. \A i, j \in DOMAIN b : i < j => b[i] < b[j]
        BY <1>1, <3>1
      <3> QED BY <3>2, <3>3 DEF Increasing, UpTo
    <2>5. Increasing(Frames) /\ UpTo(Frames, produced - n)
      BY <2>3 DEF RingInv, Ordered
    <2>6. Increasing(Frames \o b) /\ UpTo(Frames \o b, produced)
      BY <1>1, <1>2, <2>1, <2>3, <2>4, <2>5, IncreasingConcat
    <2> QED BY <2>2, <2>3, <2>6 DEF Ordered, Increasing, UpTo
  <1>8. Balanced'
    <2>1. Len(delivered) \in Nat /\ Len(driver.got) \in Nat /\ overruns \in Nat
      BY LenProperties DEF RingInv, Typed
    <2>2. Held = n /\ Held' = n - r
      BY <1>0, <1>5, <1>n DEF Held, Feeding
    <2> QED BY <1>0, <1>1, <1>4, <2>1, <2>2, SMTT(30) DEF RingInv, Balanced
  <1>9. DriverKept' /\ WhyEnded' /\ EndKept'
    BY <1>0, <1>5 DEF RingInv, DriverKept, WhyEnded, EndKept, Detached
  <1> QED BY <1>5, <1>6, <1>7, <1>8, <1>9 DEF RingInv

\* What did not fit is counted.
LEMMA CountInv ==
    ASSUME RingInv, Count
    PROVE  RingInv'
  <1>0. /\ feeder.at = "count" /\ feeder' = [feeder EXCEPT !.at = "loop", !.chunk = <<>>]
        /\ overruns' = overruns + Len(feeder.chunk) - feeder.room
        /\ UNCHANGED <<source, produced, ring, error, ended, stop, driver, delivered, last>>
    BY DEF Count
  <1>1. /\ Len(feeder.chunk) \in Nat /\ feeder.room \in Nat /\ feeder.room <= Len(feeder.chunk)
        /\ overruns \in Nat /\ overruns' \in Nat
    BY <1>0, LenProperties DEF RingInv, Typed, ChunkKept
  <1>2. Typed' /\ feeder'.at = "loop"
    <2>1. <<>> \in Seq(Nat)
      OBVIOUS
    <2>2. feeder' \in Feeders /\ feeder'.at = "loop"
      BY <1>0, <2>1 DEF RingInv, Typed, Feeders
    <2> QED BY <1>0, <1>1, <2>2 DEF RingInv, Typed, Feeders
  <1>3. ChunkKept'
    BY <1>0, <1>2 DEF RingInv, ChunkKept, Feeding
  <1>4. Frames' = Frames /\ Offered' = Offered /\ Held' = 0 /\ Held = Len(feeder.chunk) - feeder.room
    BY <1>0, <1>2 DEF Frames, Offered, Held, Feeding
  <1>5. Ordered'
    BY <1>4 DEF RingInv, Ordered, Increasing, UpTo
  <1>6. Balanced'
    <2>1. Len(delivered) \in Nat /\ Len(driver.got) \in Nat /\ Len(ring) \in Nat
      BY LenProperties DEF RingInv, Typed
    <2> QED BY <1>0, <1>1, <1>4, <2>1, SMTT(30) DEF RingInv, Typed, Balanced
  <1>7. DriverKept' /\ WhyEnded' /\ EndKept'
    BY <1>0, <1>2 DEF RingInv, DriverKept, WhyEnded, EndKept, Detached
  <1> QED BY <1>2, <1>3, <1>5, <1>6, <1>7 DEF RingInv

\* Frames go from the ring to the driver.
LEMMA PopInv ==
    ASSUME RingInv, PopFrames
    PROVE  RingInv'
  <1> DEFINE n == Min({Len(ring), ReadFrames})
             a == SubSeq(ring, 1, n)
             b == SubSeq(ring, n + 1, Len(ring))
  <1>0. /\ driver.at = "pop" /\ driver' = [driver EXCEPT !.at = "flag", !.got = a] /\ ring' = b
        /\ UNCHANGED <<source, produced, overruns, error, ended, feeder, stop, delivered, last>>
    BY DEF PopFrames
  <1>1. n \in 0 .. Len(ring) /\ Len(ring) \in Nat /\ ring \in Seq(Nat)
    <2>1. Len(ring) \in Nat /\ ReadFrames \in Nat /\ ring \in Seq(Nat)
      BY LenProperties, BoundsAssumption DEF RingInv, Typed
    <2> QED BY <2>1, SmallerOf
  <1> HIDE DEF n
  <1>2. /\ a \in Seq(Nat) /\ b \in Seq(Nat) /\ Len(a) = n /\ Len(b) = Len(ring) - n /\ ring = a \o b
    BY <1>1, Parts
  <1> HIDE DEF a, b
  <1>3. /\ Typed' /\ driver'.got = a /\ driver'.at = "flag" /\ driver'.ok = driver.ok
        /\ driver.got = <<>>
    <2>1. /\ driver' \in Drivers /\ driver'.got = a /\ driver'.at = "flag" /\ driver'.ok = driver.ok
      BY <1>0, <1>2 DEF RingInv, Typed, Drivers
    <2>2. driver.got = <<>>
      BY <1>0 DEF RingInv, DriverKept
    <2>3. Typed'
      BY <1>0, <1>2, <2>1 DEF RingInv, Typed, Drivers
    <2> QED BY <2>1, <2>2, <2>3
  <1>4. ChunkKept'
    <2>1. feeder.at = "push" => feeder.room \in Nat
      BY DEF RingInv, Typed
    <2>2. Capacity \in Nat /\ Len(ring') <= Len(ring) /\ Len(ring') \in Nat
      BY <1>0, <1>1, <1>2, BoundsAssumption
    <2> QED BY <1>0, <1>1, <2>1, <2>2 DEF RingInv, ChunkKept
  <1>5. Frames' = Frames
    <2>1. delivered \in Seq(Nat) /\ delivered \o <<>> = delivered
      BY ConcatEmptySeq DEF RingInv, Typed
    <2>2. (delivered \o a) \o b = delivered \o (a \o b)
      BY <1>2, <2>1, ConcatAssociative, SMTT(30)
    <2> QED BY <1>0, <1>2, <1>3, <2>1, <2>2 DEF Frames
  <1>6. Ordered'
    BY <1>0, <1>5 DEF RingInv, Ordered, Increasing, UpTo, Offered
  <1>7. Balanced'
    <2>1. Len(delivered) \in Nat /\ Len(driver.got) = 0 /\ overruns \in Nat /\ Held' = Held
      BY <1>0, <1>3, LenProperties DEF RingInv, Typed, Held
    <2> QED BY <1>0, <1>1, <1>2, <1>3, <2>1 DEF RingInv, Balanced
  <1>8. DriverKept' /\ WhyEnded' /\ EndKept'
    BY <1>0, <1>3 DEF RingInv, DriverKept, WhyEnded, EndKept, Detached
  <1> QED BY <1>3, <1>4, <1>6, <1>7, <1>8 DEF RingInv

\* A read that fails has seen an error.
LEMMA FailReadInv ==
    ASSUME RingInv, FailRead
    PROVE  RingInv'
  <1>0. /\ driver.at = "error" /\ driver' = [driver EXCEPT !.at = "idle", !.got = <<>>, !.ok = FALSE]
        /\ error' = FALSE
        /\ UNCHANGED <<source, produced, ring, overruns, ended, feeder, stop, delivered, last>>
    BY DEF FailRead
  <1>1. <<>> \in Seq(Nat)
    OBVIOUS
  <1>2. Typed' /\ driver'.at = "idle" /\ driver'.got = <<>> /\ ~driver'.ok
    BY <1>0, <1>1 DEF RingInv, Typed
  <1>3. ChunkKept' /\ Balanced'
    BY <1>0, <1>2 DEF RingInv, ChunkKept, Balanced
  <1>4. Ordered'
    <2>1. /\ Frames = delivered \o driver.got \o ring /\ Frames' = delivered \o <<>> \o ring
          /\ Offered' = Offered /\ Offered \in Nat
          /\ delivered \in Seq(Nat) /\ driver.got \in Seq(Nat) /\ ring \in Seq(Nat)
      <3>1. Offered \in Nat
        BY LenProperties DEF Offered, RingInv, Typed, ChunkKept
      <3> QED BY <1>0, <1>2, <3>1 DEF Frames, Offered, RingInv, Typed
    <2>2. Increasing(delivered \o driver.got \o ring) /\ UpTo(delivered \o driver.got \o ring, Offered)
      BY <2>1 DEF RingInv, Ordered
    <2>3. Increasing(delivered \o <<>> \o ring) /\ UpTo(delivered \o <<>> \o ring, Offered)
      BY <2>1, <2>2, IncreasingDrop
    <2> QED BY <2>1, <2>3 DEF Ordered, Increasing, UpTo
  <1>5. DriverKept' /\ WhyEnded' /\ EndKept'
    BY <1>0, <1>2 DEF RingInv, DriverKept, WhyEnded, EndKept, Detached
  <1> QED BY <1>2, <1>3, <1>4, <1>5 DEF RingInv

\* A read returns what it popped; if it says that the source has ended, the producer was
\* gone when the overruns were loaded, and the ring is empty.
LEMMA EndReadInv ==
    ASSUME RingInv, EndRead
    PROVE  RingInv'
  <1>0. /\ driver.at = "return" /\ delivered' = delivered \o driver.got
        /\ last' = [ended |-> AtEnd, overruns |-> driver.total]
        /\ driver' = [driver EXCEPT !.at = "idle", !.got = <<>>]
        /\ UNCHANGED <<source, produced, ring, overruns, error, ended, feeder, stop>>
    BY DEF EndRead
  <1>1. <<>> \in Seq(Nat) /\ AtEnd \in BOOLEAN /\ driver.total \in Nat
        /\ delivered \in Seq(Nat) /\ driver.got \in Seq(Nat) /\ ring \in Seq(Nat)
    BY DEF RingInv, Typed, AtEnd
  <1>2. /\ delivered' \in Seq(Nat) /\ Len(delivered') = Len(delivered) + Len(driver.got)
        /\ Len(delivered) \in Nat /\ Len(driver.got) \in Nat /\ Len(ring) \in Nat
    BY <1>0, <1>1, ConcatProperties, LenProperties
  <1>3. /\ Typed' /\ driver'.at = "idle" /\ driver'.got = <<>> /\ driver'.ok = driver.ok
        /\ last'.ended = AtEnd /\ last'.overruns = driver.total
    <2>1. driver \in Drivers /\ Typed
      BY DEF RingInv, Typed, Drivers
    <2>2. /\ driver' \in Drivers /\ driver'.at = "idle" /\ driver'.got = <<>>
          /\ driver'.ok = driver.ok
      BY <1>0, <1>1, <2>1 DEF Drivers
    <2>3. /\ last' \in [ended : BOOLEAN, overruns : Nat]
          /\ last'.ended = AtEnd /\ last'.overruns = driver.total
      BY <1>0, <1>1
    <2>4. UNCHANGED <<source, produced, ring, overruns, error, ended, feeder, stop>>
      BY <1>0
    <2> QED BY <1>2, <2>1, <2>2, <2>3, <2>4 DEF Typed, Drivers
  <1>4. ChunkKept'
    BY <1>0 DEF RingInv, ChunkKept
  <1>5. Frames' = Frames /\ Offered' = Offered /\ Held' = Held
    <2>1. delivered' \o <<>> = delivered'
      BY <1>2, ConcatEmptySeq
    <2> QED BY <1>0, <1>3, <2>1 DEF Frames, Offered, Held
  <1>6. Ordered'
    BY <1>5 DEF RingInv, Ordered, Increasing, UpTo
  <1>7. Balanced'
    <2>1. Len(driver'.got) = 0 /\ overruns \in Nat /\ produced \in Nat
      BY <1>3 DEF RingInv, Typed
    <2> QED BY <1>0, <1>2, <1>3, <1>5, <2>1 DEF RingInv, Balanced
  <1>8. DriverKept' /\ WhyEnded'
    BY <1>0, <1>3 DEF RingInv, DriverKept, WhyEnded, Detached
  <1>9. EndKept'
    <2> SUFFICES ASSUME AtEnd, ~Detached PROVE feeder.at = "gone" /\ Len(delivered') + driver.total = produced
      BY <1>0, <1>3 DEF EndKept, Detached
    <2>1. feeder.at = "gone" /\ driver.total = overruns /\ driver.ok /\ ring = <<>>
      BY <1>0 DEF RingInv, EndKept, DriverKept, AtEnd
    <2>2. Held = 0 /\ Len(ring) = 0
      BY <2>1 DEF Held, Feeding
    <2>3. overruns \in Nat /\ produced \in Nat
      BY DEF RingInv, Typed
    <2> QED BY <1>2, <2>1, <2>2, <2>3 DEF RingInv, Balanced
  <1> QED BY <1>3, <1>4, <1>6, <1>7, <1>8, <1>9 DEF RingInv

\* The invariant is inductive.
LEMMA RingStepInv == RingInv /\ [RingNext]_ringVars => RingInv'
  <1> SUFFICES ASSUME RingInv, [RingNext]_ringVars PROVE RingInv'
    OBVIOUS
  <1>1. CASE UNCHANGED ringVars
    <2>1. UNCHANGED <<source, produced, ring, overruns, error, ended, feeder, stop, driver, delivered, last>>
      BY <1>1 DEF ringVars
    <2>2. ChunkKept' /\ Ordered' /\ Balanced'
      BY <2>1, FramesStay
    <2>3. Typed' /\ DriverKept' /\ WhyEnded' /\ EndKept'
      BY <2>1 DEF RingInv, Typed, DriverKept, WhyEnded, EndKept, Detached
    <2> QED BY <2>2, <2>3 DEF RingInv
  <1>2. CASE Feeder
    BY <1>2, ProducerInv, ObserveInv, PushInv, CountInv DEF Feeder
  <1>3. CASE Reader \/ LoadFlag \/ PollAgain
    BY <1>3, DriverInv, PopInv, FailReadInv, EndReadInv DEF Reader
  <1>4. CASE Outside
    BY <1>4, ArriveInv, ProducerInv, StopInv DEF Outside
  <1> QED BY <1>1, <1>2, <1>3, <1>4 DEF RingNext

\* The invariant holds in every behaviour of the ring, its producer and the driver.
THEOREM RingInvariance == RingSpec => []RingInv
  BY RingInitInv, RingStepInv, PTL DEF RingSpec

\* Audio reaches the driver in order and once, and a read that reports the end of the
\* source accounts for every frame that arrived, whatever the capacity of the ring.
THEOREM NothingLostSilently == RingSpec => []AllAccountedFor
  <1>1. RingInv => AllAccountedFor
    BY DEF RingInv, Ordered, Increasing, Frames, EndKept, AllAccountedFor
  <1> QED BY <1>1, RingInvariance, PTL

-----------------------------------------------------------------------------
(* The utterances of a live session.                                       *)

\* Where among the first n events of s utterances start, and where they end.
Starts(s, n) == {j \in 1 .. n : s[j].kind = "speech_started"}
Ends(s, n) == {j \in 1 .. n : s[j].kind = "utterance_end"}

\* The utterances open after the first n events of s.
OpenIn(s, n) ==
    {s[j].id : j \in Starts(s, n)} \ {s[j].id : j \in Ends(s, n)}

\* The trail s keeps the lifecycle contract; the last utterance started has the number id,
\* and is open or not.
Life(s, id, open) ==
    /\ (\E T : s \in Seq(T)) /\ id \in Nat
    /\ \A i \in 1 .. Len(s) :
          /\ s[i].kind = "speech_started" =>
                /\ OpenIn(s, i - 1) = {}
                /\ s[i].id = 1 + Cardinality(Starts(s, i - 1))
          /\ s[i].kind \in {"delta", "utterance_end"} => OpenIn(s, i - 1) = {s[i].id}
    /\ \A i \in 1 .. Len(s) : s[i].kind \in {"speech_started", "utterance_end"} => s[i].id \in 1 .. id
    /\ Cardinality(Starts(s, Len(s))) = id
    /\ OpenIn(s, Len(s)) = (IF open THEN {id} ELSE {})

\* The utterance whose end the trail has not got yet.
Speaking == utt.in_speech /\ at \notin {"reopen", "closing", "closed"}

LifeInv ==
    /\ utt.in_speech \in BOOLEAN
    /\ utt = [id |-> utt.id, in_speech |-> utt.in_speech, t0 |-> utt.t0, through |-> utt.through]
    /\ at = "start" => ~utt.in_speech
    /\ at = "reopen" => utt.in_speech
    /\ Life(trail, utt.id, Speaking)

\* What a connection holds: what is durable, what it sees, and what it saw when each open
\* savepoint began.
HeldBy(c) == {c.durable, c.work} \union {c.stack[i] : i \in 1 .. Len(c.stack)}

\* Rows of a session that has recorded the first n events of s: an utterance is among them
\* with all its events or with none, the run row with any other, the summary with the last
\* event.
Whole(S, s, n) ==
    /\ S \subseteq Items(1 .. n) \union {RunRow, EndRow}
    /\ \A k \in Nat : ~(Item(k) \in S <=> Item(k + 1) \in S) => OpenIn(s, k) = {}
    /\ S # {} => RunRow \in S
    /\ EndRow \in S => Item(n) \in S

\* The run row is being written for the first time, or a failed RELEASE left it behind.
Opening ==
    /\ conn.durable = {}
    /\ pc = "begin" => RunRow \in conn.work \/ (conn.work = {} /\ conn.stack = <<>>)
    /\ pc = "write" => RunRow \in conn.work \/ (conn.work = {} /\ conn.stack = <<{}>>)
    /\ pc = "release" => conn.work = {RunRow} /\ conn.stack = <<{}>>

\* Where the sink is open, and where it is or was being closed.
Sinking == {"idle", "flush", "close"}
Closing == {"close", "closed", "close_failed", "crashed"}

\* A set of rows that the connection may hold.
Stored(S) ==
    /\ Whole(S, trail, recorded)
    /\ call \in Sinking => RunRow \in S
    /\ EndRow \in S => at = "closed" /\ call \in Closing

\* The connection between two operations of the store and within one.
ConnInv ==
    /\ conn = [durable |-> conn.durable, work |-> conn.work, stack |-> conn.stack]
    /\ \E T : conn.stack \in Seq(T)
    /\ pc \in {"begin", "write", "release"}
    /\ pc # "begin" => conn.stack # <<>> /\ call \in {"open", "flush", "close"}
    /\ \A S \in HeldBy(conn) : Stored(S)
    /\ call = "open" => Opening

\* The sink holds the events since a moment at which no utterance was open.
Pending(n) == pending = (n + 1) .. recorded /\ OpenIn(trail, n) = {}

\* What the sink has recorded, and where the session is when a store operation is in
\* progress.
SinkInv ==
    /\ call \in {"open", "idle", "degraded", "flush", "close", "closed", "close_failed", "crashed"}
    /\ recorded \in Nat /\ recorded <= Len(trail)
    /\ call \notin {"degraded", "crashed"} => recorded = Len(trail)
    /\ call \in {"open", "degraded"} => recorded = 0
    /\ call \in {"flush", "close"} => ~Speaking
    /\ call = "close" => recorded \in pending
    /\ call \in {"close", "closed", "close_failed"} => at = "closed"
    /\ \E n \in 0 .. recorded : Pending(n)

\* A trail with one more event.
LEMMA OneMore ==
    ASSUME NEW s, \E T : s \in Seq(T), NEW e, NEW r, r = Append(s, e)
    PROVE  /\ (\E T : r \in Seq(T)) /\ Len(s) \in Nat /\ Len(r) = Len(s) + 1
           /\ \A i \in 1 .. Len(s) : r[i] = s[i]
           /\ r[Len(s) + 1] = e
<1>0. PICK U : s \in Seq(U)
  OBVIOUS
<1> DEFINE T == U \union {e}
<1>1. s \in Seq(T) /\ e \in T
  BY <1>0
<1> HIDE DEF T
<1>2. /\ r \in Seq(T) /\ Len(s) \in Nat /\ Len(r) = Len(s) + 1
      /\ \A i \in 1 .. Len(s) : r[i] = s[i]
      /\ r[Len(s) + 1] = e
  BY <1>1
<1> QED
  BY <1>2

\* Nothing before an event changes when it is added.
LEMMA Prefix ==
    ASSUME NEW s, NEW r, NEW m \in Nat, \A i \in 1 .. m : r[i] = s[i], NEW n \in 0 .. m
    PROVE  Starts(r, n) = Starts(s, n) /\ Ends(r, n) = Ends(s, n) /\ OpenIn(r, n) = OpenIn(s, n)
<1>1. \A i \in 1 .. n : r[i] = s[i]
  OBVIOUS
<1>2. Starts(r, n) = Starts(s, n) /\ Ends(r, n) = Ends(s, n)
  BY <1>1 DEF Starts, Ends
<1>3. (\A j \in Starts(s, n) : r[j] = s[j]) /\ (\A j \in Ends(s, n) : r[j] = s[j])
  BY <1>1 DEF Starts, Ends
<1> QED
  BY <1>2, <1>3 DEF OpenIn

\* The utterances that start, and that end, in the first n events.
StartIds(s, n) == {s[j].id : j \in Starts(s, n)}
EndIds(s, n) == {s[j].id : j \in Ends(s, n)}

\* Where utterances start, and which are open, when event e follows the first n.
StartsAfter(s, n, e) == Starts(s, n) \union (IF e.kind = "speech_started" THEN {n + 1} ELSE {})
OpenAfter(s, n, e) ==
    (StartIds(s, n) \union (IF e.kind = "speech_started" THEN {e.id} ELSE {}))
      \ (EndIds(s, n) \union (IF e.kind = "utterance_end" THEN {e.id} ELSE {}))

\* What the new event adds to the positions and to the utterances.
LEMMA Added ==
    ASSUME NEW s, NEW r, NEW m \in Nat, \A i \in 1 .. m : r[i] = s[i], NEW e, r[m + 1] = e
    PROVE  Starts(r, m + 1) = StartsAfter(s, m, e) /\ OpenIn(r, m + 1) = OpenAfter(s, m, e)
<1>1. \A i \in 1 .. (m + 1) : i \in 1 .. m \/ i = m + 1
  OBVIOUS
<1>2. m + 1 \in 1 .. (m + 1) /\ \A i \in 1 .. m : i \in 1 .. (m + 1)
  OBVIOUS
<1>3. /\ Starts(r, m + 1) = Starts(s, m) \union (IF e.kind = "speech_started" THEN {m + 1} ELSE {})
      /\ Ends(r, m + 1) = Ends(s, m) \union (IF e.kind = "utterance_end" THEN {m + 1} ELSE {})
  BY <1>1, <1>2 DEF Starts, Ends
<1>4. (\A j \in Starts(s, m) : r[j] = s[j]) /\ (\A j \in Ends(s, m) : r[j] = s[j])
  BY DEF Starts, Ends
<1>5. ASSUME NEW W, NEW V, \A j \in W : r[j] = s[j], NEW b \in BOOLEAN,
             V = W \union (IF b THEN {m + 1} ELSE {})
      PROVE  {r[j].id : j \in V} = {s[j].id : j \in W} \union (IF b THEN {e.id} ELSE {})
  <2>1. {r[j].id : j \in W} = {s[j].id : j \in W}
    BY <1>5
  <2>2. CASE b
    <3>1. V = W \union {m + 1}
      BY <1>5, <2>2
    <3>2. {r[j].id : j \in W \union {m + 1}} = {r[j].id : j \in W} \union {e.id}
      OBVIOUS
    <3> QED
      BY <3>1, <3>2, <2>1, <2>2
  <2>3. CASE ~b
    <3>1. V = W
      BY <1>5, <2>3
    <3> QED
      BY <3>1, <2>1, <2>3
  <2> QED
    BY <2>2, <2>3
<1> DEFINE A == Starts(s, m)
           B == Ends(s, m)
           C == Starts(r, m + 1)
           D == Ends(r, m + 1)
           b == (e.kind = "speech_started")
           c == (e.kind = "utterance_end")
<1>6. /\ C = A \union (IF b THEN {m + 1} ELSE {}) /\ D = B \union (IF c THEN {m + 1} ELSE {})
      /\ (\A j \in A : r[j] = s[j]) /\ (\A j \in B : r[j] = s[j]) /\ b \in BOOLEAN /\ c \in BOOLEAN
  BY <1>3, <1>4
<1>7. OpenIn(r, m + 1) = {r[j].id : j \in C} \ {r[j].id : j \in D}
  BY DEF OpenIn
<1> HIDE DEF A, B, C, D, b, c
<1>8. {r[j].id : j \in C} = {s[j].id : j \in A} \union (IF b THEN {e.id} ELSE {})
  BY <1>5, <1>6
<1>9. {r[j].id : j \in D} = {s[j].id : j \in B} \union (IF c THEN {e.id} ELSE {})
  BY <1>5, <1>6
<1> QED
  BY <1>3, <1>7, <1>8, <1>9 DEF A, B, b, c, StartIds, EndIds, StartsAfter, OpenAfter

\* The events of the old trail keep the contract in the new one.
LEMMA OldEvents ==
    ASSUME NEW s, NEW r, NEW id, NEW open, Life(s, id, open),
           \A i \in 1 .. Len(s) : r[i] = s[i]
    PROVE  \A i \in 1 .. Len(s) :
              /\ r[i].kind = "speech_started" =>
                    /\ OpenIn(r, i - 1) = {}
                    /\ r[i].id = 1 + Cardinality(Starts(r, i - 1))
              /\ r[i].kind \in {"delta", "utterance_end"} => OpenIn(r, i - 1) = {r[i].id}
<1> SUFFICES ASSUME NEW i \in 1 .. Len(s)
             PROVE  /\ r[i].kind = "speech_started" =>
                          /\ OpenIn(r, i - 1) = {}
                          /\ r[i].id = 1 + Cardinality(Starts(r, i - 1))
                    /\ r[i].kind \in {"delta", "utterance_end"} => OpenIn(r, i - 1) = {r[i].id}
  OBVIOUS
<1>1. Len(s) \in Nat /\ i - 1 \in 0 .. Len(s)
  BY DEF Life
<1>2. Starts(r, i - 1) = Starts(s, i - 1) /\ OpenIn(r, i - 1) = OpenIn(s, i - 1)
  BY <1>1, Prefix
<1> QED
  BY <1>2 DEF Life

\* How many utterances were started is a number.
LEMMA StartsCount ==
    ASSUME NEW s, NEW n \in Nat
    PROVE  IsFiniteSet(Starts(s, n)) /\ n + 1 \notin Starts(s, n)
<1>1. Starts(s, n) \subseteq 1 .. n /\ IsFiniteSet(1 .. n)
  BY FS_Interval DEF Starts
<1>2. n + 1 \notin 1 .. n
  OBVIOUS
<1> QED
  BY <1>1, <1>2, FS_Subset

\* A trail keeps the contract when its last event does.
LEMMA LifeStep ==
    ASSUME NEW s, NEW id, NEW open, Life(s, id, open), NEW e, NEW id2 \in Nat, NEW open2,
           id2 = (IF e.kind = "speech_started" THEN id + 1 ELSE id),
           e.kind = "speech_started" => OpenIn(s, Len(s)) = {} /\ e.id = id + 1,
           e.kind \in {"delta", "utterance_end"} => OpenIn(s, Len(s)) = {e.id},
           e.kind \in {"speech_started", "utterance_end"} => e.id \in 1 .. id2,
           OpenAfter(s, Len(s), e) = (IF open2 THEN {id2} ELSE {})
    PROVE  Life(Append(s, e), id2, open2)
<1> DEFINE r == Append(s, e)
           m == Len(s)
<1>0. \E T : s \in Seq(T)
  BY DEF Life
<1>1. /\ (\E T : r \in Seq(T)) /\ m \in Nat /\ Len(r) = m + 1
      /\ (\A i \in 1 .. m : r[i] = s[i]) /\ r[m + 1] = e
  BY ONLY <1>0, OneMore, Zenon
<1>2. \A i \in 1 .. m :
          /\ r[i].kind = "speech_started" =>
                /\ OpenIn(r, i - 1) = {}
                /\ r[i].id = 1 + Cardinality(Starts(r, i - 1))
          /\ r[i].kind \in {"delta", "utterance_end"} => OpenIn(r, i - 1) = {r[i].id}
  <2> HIDE DEF r
  <2> QED
    BY <1>1, OldEvents
<1>3. /\ Cardinality(Starts(s, m)) = id /\ id \in Nat
      /\ \A i \in 1 .. m : s[i].kind \in {"speech_started", "utterance_end"} => s[i].id \in 1 .. id
  BY DEF Life
<1>4. /\ e.kind = "speech_started" => OpenIn(s, m) = {} /\ e.id = id + 1
      /\ e.kind \in {"delta", "utterance_end"} => OpenIn(s, m) = {e.id}
      /\ OpenAfter(s, m, e) = (IF open2 THEN {id2} ELSE {})
  OBVIOUS
<1> HIDE DEF r, m
<1>5. \A i \in 1 .. (m + 1) : i \in 1 .. m \/ i = m + 1
  BY <1>1
<1>6a. m \in Nat /\ (\A i \in 1 .. m : r[i] = s[i]) /\ r[m + 1] = e
  BY <1>1
<1>6. OpenIn(r, m) = OpenIn(s, m) /\ Starts(r, m) = Starts(s, m)
  <2>1. m \in 0 .. m
    BY <1>1
  <2> QED
    BY ONLY <1>6a, <2>1, Prefix
<1>7. Starts(r, m + 1) = StartsAfter(s, m, e) /\ OpenIn(r, m + 1) = (IF open2 THEN {id2} ELSE {})
  <2>1. Starts(r, m + 1) = StartsAfter(s, m, e) /\ OpenIn(r, m + 1) = OpenAfter(s, m, e)
    BY ONLY <1>6a, Added
  <2> QED
    BY <2>1, <1>4
<1>8. Cardinality(Starts(r, m + 1)) = id2
  <2>1. IsFiniteSet(Starts(s, m)) /\ m + 1 \notin Starts(s, m)
    BY <1>1, StartsCount
  <2>2. CASE e.kind = "speech_started"
    <3>1. Starts(r, m + 1) = Starts(s, m) \union {m + 1} /\ id2 = id + 1
      BY <1>7, <2>2 DEF StartsAfter
    <3> QED
      BY <3>1, <2>1, <1>3, FS_AddElement
  <2>3. CASE e.kind # "speech_started"
    BY <2>3, <1>3, <1>7 DEF StartsAfter
  <2> QED
    BY <2>2, <2>3
<1>9. ASSUME NEW i \in 1 .. (m + 1), r[i].kind \in {"speech_started", "utterance_end"}
      PROVE  r[i].id \in 1 .. id2
  <2>1. CASE i \in 1 .. m
    <3>1. r[i].id \in 1 .. id
      BY <1>1, <1>3, <1>9, <2>1
    <3>2. id <= id2
      BY <1>3
    <3> QED
      BY <3>1, <3>2, <1>3
  <2>2. CASE i = m + 1
    BY <2>2, <1>1, <1>9
  <2> QED
    BY <1>5, <2>1, <2>2
<1>10. ASSUME NEW i \in 1 .. (m + 1)
       PROVE  /\ r[i].kind = "speech_started" =>
                    /\ OpenIn(r, i - 1) = {}
                    /\ r[i].id = 1 + Cardinality(Starts(r, i - 1))
              /\ r[i].kind \in {"delta", "utterance_end"} => OpenIn(r, i - 1) = {r[i].id}
  <2>1. CASE i \in 1 .. m
    BY <2>1, <1>2
  <2>2. CASE i = m + 1
    <3>1. i - 1 = m /\ r[i] = e
      BY <2>2, <1>1
    <3>2. id + 1 = 1 + Cardinality(Starts(r, m))
      BY <1>3, <1>6
    <3> QED
      BY <3>1, <3>2, <1>4, <1>6
  <2> QED
    BY <1>5, <2>1, <2>2
<1>11. Life(r, id2, open2)
  BY <1>1, <1>7, <1>8, <1>9, <1>10 DEF Life
<1> QED
  BY <1>11 DEF r

\* An event that is none of an utterance's.
LEMMA LifeOther ==
    ASSUME NEW s, NEW id, NEW open, Life(s, id, open), NEW e,
           e.kind \notin {"speech_started", "delta", "utterance_end"}
    PROVE  Life(Append(s, e), id, open)
<1>1. id \in Nat /\ OpenAfter(s, Len(s), e) = (IF open THEN {id} ELSE {})
  BY DEF Life, OpenIn, OpenAfter, StartIds, EndIds
<1> QED
  BY <1>1, LifeStep

\* A delta of the open utterance.
LEMMA LifeDelta ==
    ASSUME NEW s, NEW id, Life(s, id, TRUE), NEW e, e.kind = "delta", e.id = id
    PROVE  Life(Append(s, e), id, TRUE)
<1>1. /\ id \in Nat /\ OpenIn(s, Len(s)) = {id}
      /\ OpenAfter(s, Len(s), e) = {id}
  BY DEF Life, OpenIn, OpenAfter, StartIds, EndIds
<1> QED
  BY <1>1, LifeStep

\* The end of the open utterance.
LEMMA LifeEnd ==
    ASSUME NEW s, NEW id, Life(s, id, TRUE), NEW e, e.kind = "utterance_end", e.id = id
    PROVE  Life(Append(s, e), id, FALSE)
<1> DEFINE A == StartIds(s, Len(s))
           B == EndIds(s, Len(s))
<1>1. /\ id \in Nat /\ OpenIn(s, Len(s)) = {id}
      /\ A \ B = {id}
  BY DEF Life, OpenIn, StartIds, EndIds
<1>2. id \in 1 .. id
  <2>1. PICK j \in Starts(s, Len(s)) : s[j].id = id
    BY <1>1 DEF StartIds
  <2> QED
    BY <2>1 DEF Life, Starts
<1>3. (A \union {}) \ (B \union {id}) = {}
  BY <1>1
<1> HIDE DEF A, B
<1>4. OpenAfter(s, Len(s), e) = {}
  BY <1>3 DEF OpenAfter, A, B
<1> QED
  BY <1>1, <1>2, <1>4, LifeStep

\* The start of the next utterance.
LEMMA LifeStart ==
    ASSUME NEW s, NEW id, Life(s, id, FALSE), NEW e, e.kind = "speech_started", e.id = id + 1
    PROVE  Life(Append(s, e), id + 1, TRUE)
<1> DEFINE A == StartIds(s, Len(s))
           B == EndIds(s, Len(s))
<1>1. /\ id \in Nat /\ OpenIn(s, Len(s)) = {}
      /\ A \ B = {}
  BY DEF Life, OpenIn, StartIds, EndIds
<1>2. B \subseteq 1 .. id
  BY DEF Life, EndIds, Ends
<1>3. id + 1 \notin 1 .. id /\ id + 1 \in 1 .. (id + 1) /\ id + 1 \in Nat
  BY <1>1
<1> HIDE DEF A, B
<1>4. (A \union {id + 1}) \ (B \union {}) = {id + 1}
  BY <1>1, <1>2, <1>3
<1>5. OpenAfter(s, Len(s), e) = {id + 1}
  BY <1>4 DEF OpenAfter, A, B
<1> QED
  BY <1>1, <1>3, <1>5, LifeStep

-----------------------------------------------------------------------------
(* The steps of the session and the lifecycle of its utterances.           *)

\* The trails the session makes.
LEMMA Concats ==
    ASSUME NEW s, \E T : s \in Seq(T), NEW d, NEW e
    PROVE  /\ s \o <<>> = s /\ s \o <<e>> = Append(s, e)
           /\ s \o (<<>> \o <<e>>) = Append(s, e) /\ s \o (<<d>> \o <<>>) = Append(s, d)
           /\ s \o (<<d>> \o <<e>>) = Append(Append(s, d), e)
<1>0. PICK U : s \in Seq(U)
  OBVIOUS
<1> DEFINE T == U \union {d, e}
<1>1. s \in Seq(T) /\ d \in T /\ e \in T
  BY <1>0
<1> HIDE DEF T
<1>2. s \o <<>> = s /\ s \o <<e>> = Append(s, e) /\ s \o <<d>> = Append(s, d)
  BY <1>1
<1>3. <<>> \o <<e>> = <<e>> /\ <<d>> \o <<>> = <<d>>
  BY <1>1
<1>4. s \o (<<d>> \o <<e>>) = Append(Append(s, d), e)
  <2>1. <<d>> \in Seq(T) /\ <<e>> \in Seq(T) /\ Append(s, d) \in Seq(T)
    BY <1>1
  <2>2. s \o (<<d>> \o <<e>>) = (s \o <<d>>) \o <<e>>
    BY <1>1, <2>1, ConcatAssociative, SMTT(30)
  <2>3. Append(s, d) \o <<e>> = Append(Append(s, d), e)
    BY <1>1, <2>1
  <2> QED
    BY <1>2, <2>2, <2>3
<1> QED
  BY <1>2, <1>3, <1>4

\* An open utterance that is closed.
LEMMA CloseLife ==
    ASSUME LifeInv, Speaking, NEW t1, CloseUtterance(t1)
    PROVE  Life(trail', utt.id, FALSE)
<1> DEFINE t == window_from(slice_from)
           d == Event("delta", utt.id, t, slice_from, t1)
           e == Event("utterance_end", utt.id, {}, utt.t0, t1)
<1>1. trail' = trail \o ((IF t = {} THEN <<>> ELSE <<d>>) \o <<e>>)
  BY DEF CloseUtterance, Emit, Delta
<1>2. /\ d.kind = "delta" /\ d.id = utt.id /\ e.kind = "utterance_end" /\ e.id = utt.id
      /\ Life(trail, utt.id, TRUE) /\ \E T : trail \in Seq(T)
  BY DEF LifeInv, Life, Event
<1> HIDE DEF t, d, e
<1>3. CASE t = {}
  <2>1. trail' = Append(trail, e)
    BY <1>1, <1>2, <1>3, Concats
  <2> QED
    BY <1>2, <2>1, LifeEnd
<1>4. CASE t # {}
  <2>1. trail' = Append(Append(trail, d), e)
    BY <1>1, <1>2, <1>4, Concats
  <2>2. Life(Append(trail, d), utt.id, TRUE)
    BY <1>2, LifeDelta
  <2> QED
    BY <1>2, <2>1, <2>2, LifeEnd
<1> QED
  BY <1>3, <1>4

\* The life of a trail depends on whether an utterance is open, not on how that is said.
LEMMA LifeSame ==
    ASSUME NEW s, NEW id, NEW a \in BOOLEAN, NEW b \in BOOLEAN, Life(s, id, a), a <=> b
    PROVE  Life(s, id, b)
<1>1. a = b
  OBVIOUS
<1> QED
  BY <1>1

\* What a step has to leave behind.
LEMMA NextLife ==
    ASSUME NEW u, NEW b \in BOOLEAN, Life(trail', u.id, b), Speaking' <=> b, utt' = u,
           u = [id |-> u.id, in_speech |-> u.in_speech, t0 |-> u.t0, through |-> u.through],
           u.in_speech \in BOOLEAN, at' = "start" => ~u.in_speech, at' = "reopen" => u.in_speech
    PROVE  LifeInv'
<1>1. Speaking' \in BOOLEAN
  BY DEF Speaking
<1>2. Life(trail', utt'.id, Speaking')
  BY <1>1, LifeSame
<1> QED
  BY <1>2 DEF LifeInv

\* Steps that say nothing and open or close nothing.
LEMMA SameLife ==
    ASSUME LifeInv, UNCHANGED <<trail, utt>>, at' # "start", at' # "reopen", Speaking' <=> Speaking
    PROVE  LifeInv'
<1>1. Speaking \in BOOLEAN /\ Life(trail', utt.id, Speaking)
  BY DEF LifeInv, Speaking
<1> QED
  BY <1>1, NextLife DEF LifeInv

\* No utterance was started.
LEMMA LifeInit == Init => LifeInv
<1> SUFFICES ASSUME Init PROVE LifeInv
  OBVIOUS
<1>1. /\ trail = <<>> /\ at = "start"
      /\ utt = [id |-> 0, in_speech |-> FALSE, t0 |-> 0, through |-> 0]
  BY DEF Init
<1>2. Starts(trail, 0) = {} /\ Ends(trail, 0) = {} /\ Len(trail) = 0 /\ trail \in Seq({})
  BY <1>1 DEF Starts, Ends
<1>3. OpenIn(trail, 0) = {} /\ Cardinality(Starts(trail, 0)) = 0
  BY <1>2, FS_EmptySet DEF OpenIn
<1>4. Life(trail, 0, FALSE)
  BY <1>2, <1>3 DEF Life
<1> QED
  BY <1>1, <1>4 DEF LifeInv, Speaking

\* The start, the end and what happens between the utterances.
LEMMA OuterLife ==
    ASSUME LifeInv, SessionStart \/ Terminate \/ Read \/ Frame \/ Cap \/ Close \/ Store \/ Abort \/ Ended
    PROVE  LifeInv'
<1>0. Life(trail, utt.id, Speaking) /\ (\E T : trail \in Seq(T)) /\ Speaking \in BOOLEAN
  BY DEF LifeInv, Life, Speaking
<1>1. CASE SessionStart
  <2> DEFINE d == Note("session_start")
             e == Note("persist_degraded")
  <2>1. /\ trail' = trail \o (<<d>> \o IF call = "degraded" THEN <<e>> ELSE <<>>)
        /\ at = "start" /\ at' = "top" /\ utt' = utt
    BY <1>1 DEF SessionStart, Emit
  <2>2. /\ d.kind \notin {"speech_started", "delta", "utterance_end"}
        /\ e.kind \notin {"speech_started", "delta", "utterance_end"}
    BY DEF Note, Event
  <2>3. ~Speaking /\ ~Speaking' /\ ~utt.in_speech
    BY <2>1 DEF LifeInv, Speaking
  <2> HIDE DEF d, e
  <2>4. trail' = Append(trail, d) \/ trail' = Append(Append(trail, d), e)
    BY <1>0, <2>1, Concats
  <2>5. Life(Append(trail, d), utt.id, Speaking)
    BY <1>0, <2>2, LifeOther
  <2>6. Life(Append(Append(trail, d), e), utt.id, Speaking)
    BY <2>2, <2>5, LifeOther
  <2>7. Life(trail', utt.id, Speaking)
    BY <2>4, <2>5, <2>6
  <2> QED
    BY <1>0, <2>1, <2>3, <2>7, NextLife DEF LifeInv
<1>2. CASE Terminate
  <2>1. at = "top" /\ at' = "closing" /\ utt' = utt /\ ~Speaking'
    BY <1>2 DEF Terminate, Speaking
  <2>2. CASE utt.in_speech
    <3>1. Life(trail', utt.id, FALSE)
      BY <1>2, <2>1, <2>2, CloseLife DEF Terminate, Speaking
    <3> QED
      BY <2>1, <3>1, NextLife DEF LifeInv
  <2>3. CASE ~utt.in_speech
    BY <1>2, <2>1, <2>3, SameLife DEF Terminate, Silent, Speaking
  <2> QED
    BY <2>2, <2>3
<1>3. CASE Read \/ Frame
  <2>1. /\ UNCHANGED <<trail, utt>> /\ at \in {"top", "frames"}
        /\ at' \in {"frames", "edges"}
    BY <1>3 DEF Read, Frame, Silent
  <2> QED
    BY <2>1, SameLife DEF Speaking
<1>4. CASE Cap
  <2>1. at = "cap" /\ at' = "step" /\ utt' = utt /\ (Speaking' <=> Speaking)
    BY <1>4 DEF Cap, Speaking
  <2>2. CASE buffer'.trimmed > buffer.trimmed
    <3> DEFINE e == Event("forced_trim", Overtaken(buffer'), Lost(buffer'), buffer.trimmed, buffer'.trimmed)
    <3>1. trail' = trail \o <<e>> /\ e.kind = "forced_trim"
      BY <1>4, <2>2 DEF Cap, Emit, Event
    <3> HIDE DEF e
    <3>2. trail' = Append(trail, e)
      BY <1>0, <3>1, Concats
    <3>3. Life(trail', utt.id, Speaking)
      BY <1>0, <3>1, <3>2, LifeOther
    <3> QED
      BY <1>0, <2>1, <3>3, NextLife DEF LifeInv
  <2>3. CASE ~(buffer'.trimmed > buffer.trimmed)
    BY <1>4, <2>1, <2>3, SameLife DEF Cap, Silent
  <2> QED
    BY <2>2, <2>3
<1>5. CASE Close
  <2> DEFINE e == Note("session_stats")
  <2>1. /\ trail' = trail \o <<e>> /\ e.kind = "session_stats"
        /\ at = "closing" /\ at' = "closed" /\ utt' = utt /\ ~Speaking /\ ~Speaking'
    BY <1>5 DEF Close, Emit, Note, Event, Speaking
  <2> HIDE DEF e
  <2>2. trail' = Append(trail, e)
    BY <1>0, <2>1, Concats
  <2>3. Life(trail', utt.id, Speaking)
    BY <1>0, <2>1, <2>2, LifeOther
  <2> QED
    BY <1>0, <2>1, <2>3, NextLife DEF LifeInv
<1>6. CASE Store
  <2> DEFINE e == Note("persist_degraded")
  <2>1. /\ trail' = Append(trail, e) \/ trail' = trail
        /\ at' = at /\ utt' = utt /\ (Speaking' <=> Speaking) /\ e.kind = "persist_degraded"
    BY <1>6 DEF Store, Speaking, Note, Event
  <2> HIDE DEF e
  <2>2. Life(trail', utt.id, Speaking)
    BY <1>0, <2>1, LifeOther
  <2> QED
    BY <1>0, <2>1, <2>2, NextLife DEF LifeInv
<1>7. CASE Abort \/ Ended
  <2>1. UNCHANGED <<trail, utt, at>>
    BY <1>7 DEF Abort, Ended, vars, sessionVars
  <2> QED
    BY <2>1 DEF LifeInv, Life, Speaking
<1> QED
  BY <1>1, <1>2, <1>3, <1>4, <1>5, <1>6, <1>7

\* The edges, the timeout and the decodes of an utterance.
LEMMA UtteranceLife ==
    ASSUME LifeInv, Onset \/ Endpoint \/ Timeout \/ Reopen \/ Step
    PROVE  LifeInv'
<1>0. /\ Life(trail, utt.id, Speaking) /\ \E T : trail \in Seq(T)
      /\ utt.in_speech \in BOOLEAN
      /\ utt = [id |-> utt.id, in_speech |-> utt.in_speech, t0 |-> utt.t0, through |-> utt.through]
  BY DEF LifeInv, Life
<1>s. ASSUME NEW t, utt' = NewUtterance(t), trail' = trail \o <<SpeechStarted(utt.id + 1, t)>>,
             ~Speaking, at' \in {"edges", "cap"}
      PROVE  LifeInv'
  <2> DEFINE e == SpeechStarted(utt.id + 1, t)
  <2>1. e.kind = "speech_started" /\ e.id = utt.id + 1 /\ trail' = trail \o <<e>>
    BY <1>s DEF SpeechStarted, Event
  <2> HIDE DEF e
  <2>2. Life(trail', utt.id + 1, TRUE)
    <3>1. Life(trail, utt.id, FALSE)
      BY <1>0, <1>s DEF Life
    <3>2. trail' = Append(trail, e)
      BY <1>0, <2>1, Concats
    <3> QED
      BY <2>1, <3>1, <3>2, LifeStart
  <2>3. utt' = [id |-> utt.id + 1, in_speech |-> TRUE, t0 |-> t, through |-> 0] /\ Speaking'
    BY <1>s DEF NewUtterance, Speaking
  <2>4. /\ utt'.id = utt.id + 1 /\ utt'.in_speech = TRUE /\ (Speaking' <=> TRUE)
        /\ utt' = [id |-> utt'.id, in_speech |-> utt'.in_speech, t0 |-> utt'.t0, through |-> utt'.through]
    BY <2>3
  <2> QED
    BY <1>s, <2>2, <2>4, NextLife
<1>c. ASSUME NEW t1, CloseUtterance(t1), Speaking, utt'.in_speech \in BOOLEAN,
             utt' = [utt EXCEPT !.in_speech = utt'.in_speech],
             \/ ~utt'.in_speech /\ at' = "edges"
             \/ utt'.in_speech /\ at' = "reopen"
      PROVE  LifeInv'
  <2>1. Life(trail', utt.id, FALSE)
    BY <1>c, CloseLife
  <2>2. utt'.id = utt.id /\ ~Speaking'
        /\ utt' = [id |-> utt'.id, in_speech |-> utt'.in_speech, t0 |-> utt'.t0, through |-> utt'.through]
    BY <1>0, <1>c DEF Speaking
  <2> QED
    BY <1>c, <2>1, <2>2, NextLife
<1>d. ASSUME CancelledDecode, at = "edges"
      PROVE  LifeInv'
  BY <1>d, SameLife DEF CancelledDecode, Silent, Speaking
<1>1. CASE Onset
  <2>1. at = "edges" /\ at' = "edges"
    BY <1>1 DEF Onset
  <2>2. CASE utt.in_speech
    BY <1>1, <2>1, <2>2, SameLife DEF Onset, Silent, Speaking
  <2>3. CASE ~utt.in_speech
    BY <1>1, <1>s, <2>1, <2>3 DEF Onset, Emit, Speaking
  <2> QED
    BY <2>2, <2>3
<1>2. CASE Endpoint
  <2>1. at = "edges"
    BY <1>2 DEF Endpoint
  <2>2. CASE ~utt.in_speech
    BY <1>2, <2>1, <2>2, SameLife DEF Endpoint, Silent, Speaking
  <2>3. CASE utt.in_speech
    <3>1. \/ CancelledDecode
          \/ /\ CloseUtterance(Head(edges).t) /\ at' = "edges"
             /\ utt' = [utt EXCEPT !.in_speech = FALSE]
      BY <1>2, <2>1, <2>3 DEF Endpoint
    <3>2. CASE ~CancelledDecode
      <4>1. /\ utt'.in_speech = FALSE /\ utt'.in_speech \in BOOLEAN
            /\ utt' = [utt EXCEPT !.in_speech = utt'.in_speech]
        BY <1>0, <3>1, <3>2
      <4>2. CloseUtterance(Head(edges).t) /\ at' = "edges" /\ Speaking
        BY <2>1, <2>3, <3>1, <3>2 DEF Speaking
      <4> QED
        BY <1>c, <4>1, <4>2
    <3> QED
      BY <1>d, <2>1, <3>2
  <2> QED
    BY <2>2, <2>3
<1>3. CASE Timeout
  <2>1. at = "edges"
    BY <1>3 DEF Timeout
  <2>2. \/ CancelledDecode
        \/ /\ utt.in_speech /\ CloseUtterance(buffer.end) /\ at' = "reopen" /\ utt' = utt
        \/ at' = "cap" /\ UNCHANGED <<trail, utt>>
    BY <1>3 DEF Timeout, Silent
  <2>3. CASE utt.in_speech /\ CloseUtterance(buffer.end) /\ at' = "reopen" /\ utt' = utt
    <3>1. utt' = [utt EXCEPT !.in_speech = utt'.in_speech] /\ utt'.in_speech \in BOOLEAN
      BY <1>0, <2>3
    <3> QED
      BY <1>c, <2>1, <2>3, <3>1 DEF Speaking
  <2>4. CASE at' = "cap" /\ UNCHANGED <<trail, utt>>
    BY <2>1, <2>4, SameLife DEF Speaking
  <2> QED
    BY <1>d, <2>1, <2>2, <2>3, <2>4
<1>4. CASE Reopen
  BY <1>4, <1>s DEF Reopen, Emit, Speaking
<1>5. CASE Step
  <2>1. at = "step" /\ at' = "top"
    BY <1>5 DEF Step
  <2>2. CASE UNCHANGED <<trail, utt>>
    BY <2>1, <2>2, SameLife DEF Speaking
  <2>3. CASE ~UNCHANGED <<trail, utt>>
    <3>1. PICK through, t, t1 : /\ utt.in_speech /\ utt' = Committed(through)
                                /\ trail' = trail \o Delta(t, slice_from, t1)
      BY <1>5, <2>3 DEF Step, Silent, Emit
    <3> DEFINE e == Event("delta", utt.id, t, slice_from, t1)
    <3>2. /\ trail' = trail \o <<e>> \/ trail' = trail \o <<>>
          /\ e.kind = "delta" /\ e.id = utt.id
      BY <3>1 DEF Delta, Event
    <3> HIDE DEF e
    <3>3. Life(trail', utt.id, TRUE)
      <4>1. Life(trail, utt.id, TRUE)
        BY <1>0, <2>1, <3>1 DEF Life, Speaking
      <4>2. trail' = Append(trail, e) \/ trail' = trail
        BY <1>0, <3>2, Concats
      <4> QED
        BY <3>2, <4>1, <4>2, LifeDelta
    <3>4. /\ utt'.id = utt.id /\ utt'.in_speech = TRUE /\ Speaking'
          /\ utt' = [id |-> utt'.id, in_speech |-> utt'.in_speech, t0 |-> utt'.t0, through |-> utt'.through]
      BY <1>0, <2>1, <3>1 DEF Committed, Speaking
    <3> QED
      BY <2>1, <3>3, <3>4, NextLife
  <2> QED
    BY <2>2, <2>3
<1> QED
  BY <1>1, <1>2, <1>3, <1>4, <1>5

\* The lifecycle is inductive.
LEMMA LifeNext == LifeInv /\ [Next]_vars => LifeInv'
<1> SUFFICES ASSUME LifeInv, [Next]_vars PROVE LifeInv'
  OBVIOUS
<1>1. CASE UNCHANGED vars
  BY <1>1 DEF vars, sessionVars, LifeInv, Life, Speaking
<1>2. CASE Next
  BY <1>2, OuterLife, UtteranceLife DEF Next
<1> QED
  BY <1>1, <1>2

\* The utterances open before an event are those the definition of the property names.
LEMMA OpenAtIs ==
    ASSUME NEW i
    PROVE  OpenAt(i) = OpenIn(trail, i - 1) /\ {j \in 1 .. i - 1 : Is(j, "speech_started")} = Starts(trail, i - 1)
BY DEF OpenAt, OpenIn, Starts, Ends, Is

\* "every `speech_started` is matched by exactly one later `utterance_end`": the utterances of
\* a live session start, are committed and end in order, whatever the voice detector reports
\* (run_listen_session), for any amount of audio and every geometry of the buffer.
THEOREM UtterancesAreMatched == Spec => []UtteranceLifecycle
<1>1. LifeInv => UtteranceLifecycle
  <2> SUFFICES ASSUME LifeInv PROVE UtteranceLifecycle
    OBVIOUS
  <2>1. Life(trail, utt.id, Speaking) /\ DOMAIN trail = 1 .. Len(trail) /\ Len(trail) \in Nat
    BY DEF LifeInv, Life
  <2>2. ASSUME NEW i \in DOMAIN trail
        PROVE  /\ Is(i, "speech_started") =>
                     /\ OpenAt(i) = {}
                     /\ trail[i].id = 1 + Cardinality({j \in 1 .. i - 1 : Is(j, "speech_started")})
               /\ Is(i, "delta") \/ Is(i, "utterance_end") => OpenAt(i) = {trail[i].id}
    BY <2>1, OpenAtIs DEF Life, Is
  <2>3. ASSUME at = "closed" PROVE OpenAt(Len(trail) + 1) = {}
    <3>1. Len(trail) + 1 - 1 = Len(trail) /\ ~Speaking
      BY <2>1, <2>3 DEF Speaking
    <3> QED
      BY <2>1, <3>1, OpenAtIs DEF Life
  <2> QED
    BY <2>2, <2>3 DEF UtteranceLifecycle
<1> QED
  BY <1>1, LifeInit, LifeNext, PTL DEF Spec

-----------------------------------------------------------------------------
(* The sink.                                                               *)

\* Numbered rows are told apart by their numbers, and are neither the run row nor the summary.
LEMMA RowKinds ==
    /\ RunRow # EndRow
    /\ \A n : Item(n) # RunRow /\ Item(n) # EndRow
    /\ \A n, W : Item(n) \in Items(W) <=> n \in W
    /\ \A W : RunRow \notin Items(W) /\ EndRow \notin Items(W)
<1>1. \A n : Item(n)[1] = "item" /\ Item(n)[2] = n /\ RunRow[1] = "run" /\ EndRow[1] = "end"
  BY DEF Item, RunRow, EndRow
<1>2. RunRow # EndRow /\ \A n : Item(n) # RunRow /\ Item(n) # EndRow
  BY <1>1
<1>3. ASSUME NEW n, NEW W PROVE Item(n) \in Items(W) <=> n \in W
  BY <1>1 DEF Items
<1>4. \A W : RunRow \notin Items(W) /\ EndRow \notin Items(W)
  BY <1>2 DEF Items
<1> QED
  BY <1>2, <1>3, <1>4

\* A trail that has grown.
LEMMA Grown ==
    ASSUME NEW s, \E T : s \in Seq(T), NEW d, \E T : d \in Seq(T), NEW r, r = s \o d
    PROVE  /\ Len(s) \in Nat /\ Len(d) \in Nat /\ Len(r) = Len(s) + Len(d)
           /\ \A i \in 1 .. Len(s) : r[i] = s[i]
<1>1. PICK U : s \in Seq(U)
  OBVIOUS
<1>2. PICK V : d \in Seq(V)
  OBVIOUS
<1> DEFINE T == U \union V
<1>3. s \in Seq(T) /\ d \in Seq(T)
  BY <1>1, <1>2
<1> HIDE DEF T
<1>4. /\ Len(s) \in Nat /\ Len(d) \in Nat /\ Len(r) = Len(s) + Len(d)
      /\ \A i \in 1 .. Len(r) : r[i] = (IF i <= Len(s) THEN s[i] ELSE d[i - Len(s)])
  BY <1>3, ConcatProperties, LenProperties
<1> QED
  BY <1>4

\* Rows stay whole when more is recorded.
LEMMA WholeGrows ==
    ASSUME NEW S, NEW s, Len(s) \in Nat, NEW n \in Nat, n <= Len(s), Whole(S, s, n),
           NEW r, \A i \in 1 .. Len(s) : r[i] = s[i],
           NEW m \in Nat, n <= m, EndRow \in S => m = n
    PROVE  Whole(S, r, m)
<1>1. S \subseteq Items(1 .. m) \union {RunRow, EndRow}
  <2>1. 1 .. n \subseteq 1 .. m
    OBVIOUS
  <2> QED
    BY <2>1 DEF Whole, Items
<1>2. ASSUME NEW k \in Nat, ~(Item(k) \in S <=> Item(k + 1) \in S)
      PROVE  OpenIn(r, k) = {}
  <2>1. Item(k) \in Items(1 .. n) \/ Item(k + 1) \in Items(1 .. n)
    BY <1>2, RowKinds DEF Whole
  <2>2. k \in 1 .. n \/ k + 1 \in 1 .. n
    BY <2>1, RowKinds
  <2>3. k \in 0 .. Len(s)
    BY <2>2
  <2>4. OpenIn(r, k) = OpenIn(s, k)
    BY <2>3, Prefix
  <2> QED
    BY <1>2, <2>4 DEF Whole
<1> QED
  BY <1>1, <1>2 DEF Whole

\* Rows stay whole with the events since a moment at which no utterance was open, when none
\* is open now.
LEMMA WholeUnion ==
    ASSUME NEW S, NEW s, NEW n \in Nat, Whole(S, s, n), RunRow \in S,
           NEW k \in 0 .. n, OpenIn(s, k) = {}, OpenIn(s, n) = {},
           NEW X, X \subseteq Items((k + 1) .. n) \union {EndRow}, Items((k + 1) .. n) \subseteq X,
           EndRow \in X => n \in (k + 1) .. n
    PROVE  Whole(S \union X, s, n)
<1>1. S \union X \subseteq Items(1 .. n) \union {RunRow, EndRow}
  <2>1. (k + 1) .. n \subseteq 1 .. n
    OBVIOUS
  <2> QED
    BY <2>1 DEF Whole, Items
<1>2. \A j : Item(j) \in X <=> j \in (k + 1) .. n
  BY RowKinds
<1>3. ASSUME NEW j \in Nat, ~(Item(j) \in S \union X <=> Item(j + 1) \in S \union X)
      PROVE  OpenIn(s, j) = {}
  <2>1. CASE ~(Item(j) \in S <=> Item(j + 1) \in S)
    BY <2>1 DEF Whole
  <2>2. CASE Item(j) \in S <=> Item(j + 1) \in S
    <3>1. ~(j \in (k + 1) .. n <=> j + 1 \in (k + 1) .. n)
      BY <1>2, <1>3, <2>2
    <3>2. j = k \/ j = n
      BY <3>1
    <3> QED
      BY <3>2
  <2> QED
    BY <2>1, <2>2
<1>4. EndRow \in S \union X => Item(n) \in S \union X
  BY <1>2 DEF Whole
<1> QED
  BY <1>1, <1>3, <1>4 DEF Whole

\* A savepoint adds what the connection sees to what it holds.
LEMMA HeldSavepoint ==
    ASSUME NEW c, \E T : c.stack \in Seq(T), NEW d, d = Savepoint(c)
    PROVE  /\ d = [durable |-> d.durable, work |-> d.work, stack |-> d.stack]
           /\ d.durable = c.durable /\ d.work = c.work /\ d.stack = Append(c.stack, c.work)
           /\ (\E T : d.stack \in Seq(T)) /\ d.stack # <<>> /\ HeldBy(d) \subseteq HeldBy(c)
<1>1. /\ d = [durable |-> d.durable, work |-> d.work, stack |-> d.stack]
      /\ d.durable = c.durable /\ d.work = c.work /\ d.stack = Append(c.stack, c.work)
  BY DEF Savepoint
<1> DEFINE s == c.stack
           r == d.stack
           e == c.work
<1>2. (\E T : s \in Seq(T)) /\ r = Append(s, e)
  BY <1>1
<1> HIDE DEF s, r, e
<1>3. /\ (\E T : r \in Seq(T)) /\ Len(s) \in Nat /\ Len(r) = Len(s) + 1
      /\ (\A i \in 1 .. Len(s) : r[i] = s[i]) /\ r[Len(s) + 1] = e
  BY <1>2, OneMore
<1>4. r # <<>>
  BY <1>3
<1>5. \A i \in 1 .. Len(r) : r[i] = e \/ \E j \in 1 .. Len(s) : r[i] = s[j]
  BY <1>3
<1>6. HeldBy(d) \subseteq HeldBy(c)
  BY <1>1, <1>5 DEF HeldBy, r, s, e
<1> QED
  BY <1>1, <1>3, <1>4, <1>6 DEF r

\* The savepoints but the innermost.
LEMMA Popped ==
    ASSUME NEW s, \E T : s \in Seq(T), s # <<>>
    PROVE  /\ \E T : Pop(s) \in Seq(T)
           /\ \A i \in 1 .. Len(Pop(s)) : \E j \in 1 .. Len(s) : Pop(s)[i] = s[j]
           /\ \E j \in 1 .. Len(s) : s[Len(s)] = s[j]
<1>1. PICK T : s \in Seq(T)
  OBVIOUS
<1>2. Len(s) \in Nat \ {0}
  BY <1>1
<1>3. Pop(s) \in Seq(T) /\ Len(Pop(s)) = Len(s) - 1 /\ \A i \in 1 .. Len(s) - 1 : Pop(s)[i] = s[i]
  <2>1. \A i \in 1 .. Len(s) - 1 : s[i] \in T
    BY <1>1, <1>2
  <2> DEFINE m == 1
             n == Len(s) - 1
  <2>2. m = 1 /\ n = Len(s) - 1 /\ m \in Int /\ n \in Nat /\ Pop(s) = SubSeq(s, m, n)
    BY <1>2 DEF Pop
  <2> HIDE DEF m, n
  <2>3. /\ SubSeq(s, m, n) \in Seq(T) /\ Len(SubSeq(s, m, n)) = IF m <= n THEN n - m + 1 ELSE 0
        /\ \A i \in 1 .. n - m + 1 : SubSeq(s, m, n)[i] = s[m + i - 1]
    BY <2>1, <2>2, SubSeqProperties
  <2> DEFINE p == SubSeq(s, m, n)
  <2>4. p \in Seq(T) /\ Len(p) = (IF m <= n THEN n - m + 1 ELSE 0) /\ \A i \in 1 .. n - m + 1 : p[i] = s[m + i - 1]
    BY <2>3
  <2> HIDE DEF p
  <2>5. p \in Seq(T) /\ Len(p) = Len(s) - 1 /\ \A i \in 1 .. Len(s) - 1 : p[i] = s[i]
    BY <1>2, <2>2, <2>4
  <2> QED
    BY <2>2, <2>5 DEF p
<1> DEFINE p == Pop(s)
<1> HIDE DEF p
<1>4. p \in Seq(T) /\ Len(p) = Len(s) - 1 /\ \A i \in 1 .. Len(s) - 1 : p[i] = s[i]
  BY <1>3 DEF p
<1>5. \A i \in 1 .. Len(p) : \E j \in 1 .. Len(s) : p[i] = s[j]
  BY <1>2, <1>4
<1>6. \E j \in 1 .. Len(s) : s[Len(s)] = s[j]
  BY <1>2
<1> QED
  BY <1>4, <1>5, <1>6 DEF p

\* A release, a rollback and the end of the transaction bring nothing new.
LEMMA HeldAfter ==
    ASSUME NEW c, c = [durable |-> c.durable, work |-> c.work, stack |-> c.stack],
           \E T : c.stack \in Seq(T), NEW d,
           \/ d = c \/ d = NewConnection(c.durable)
           \/ c.stack # <<>> /\ d = Release(c)
           \/ c.stack # <<>> /\ \E part : d = rollback_savepoint(Write(c, part))
    PROVE  /\ d = [durable |-> d.durable, work |-> d.work, stack |-> d.stack]
           /\ \E T : d.stack \in Seq(T)
           /\ HeldBy(d) \subseteq HeldBy(c)
<1>1. CASE d = c
  BY <1>1
<1>2. CASE d = NewConnection(c.durable)
  <2>1. d = [durable |-> c.durable, work |-> c.durable, stack |-> <<>>]
    BY <1>2 DEF NewConnection
  <2>2. <<>> \in Seq({}) /\ Len(<<>>) = 0
    OBVIOUS
  <2> QED
    BY <2>1, <2>2 DEF HeldBy
<1>3. ASSUME c.stack # <<>>, NEW w, w \in HeldBy(c), NEW u, u \in HeldBy(c),
             d = [durable |-> u, work |-> w, stack |-> Pop(c.stack)]
      PROVE  /\ d = [durable |-> d.durable, work |-> d.work, stack |-> d.stack]
             /\ \E T : d.stack \in Seq(T)
             /\ HeldBy(d) \subseteq HeldBy(c)
  <2> DEFINE p == Pop(c.stack)
  <2>1. (\E T : p \in Seq(T)) /\ \A i \in 1 .. Len(p) : \E j \in 1 .. Len(c.stack) : p[i] = c.stack[j]
    BY <1>3, Popped
  <2> HIDE DEF p
  <2>2. d.durable = u /\ d.work = w /\ d.stack = p
    BY <1>3 DEF p
  <2>3. HeldBy(d) \subseteq HeldBy(c)
    BY <1>3, <2>1, <2>2 DEF HeldBy
  <2> QED
    BY <1>3, <2>1, <2>2, <2>3
<1>4. CASE c.stack # <<>> /\ d = Release(c)
  <2>1. d = [durable |-> IF Len(c.stack) = 1 THEN c.work ELSE c.durable, work |-> c.work, stack |-> Pop(c.stack)]
    BY <1>4 DEF Release
  <2>2. c.work \in HeldBy(c) /\ c.durable \in HeldBy(c)
    BY DEF HeldBy
  <2> QED
    BY <1>3, <1>4, <2>1, <2>2
<1>5. CASE c.stack # <<>> /\ \E part : d = rollback_savepoint(Write(c, part))
  <2>1. PICK part : d = rollback_savepoint(Write(c, part))
    BY <1>5
  <2>2. Write(c, part).durable = c.durable /\ Write(c, part).stack = c.stack
    BY <1>5 DEF Write
  <2>3. d = [durable |-> c.durable, work |-> c.stack[Len(c.stack)], stack |-> Pop(c.stack)]
    BY <2>1, <2>2 DEF rollback_savepoint, Innermost
  <2>4. c.stack[Len(c.stack)] \in HeldBy(c) /\ c.durable \in HeldBy(c)
    BY <1>5, Popped DEF HeldBy
  <2> QED
    BY <1>3, <1>5, <2>3, <2>4
<1> QED
  BY <1>1, <1>2, <1>4, <1>5

\* What is held stays stored while the session goes on.
LEMMA StoredStays ==
    ASSUME SinkInv, ConnInv, NEW S \in HeldBy(conn),
           Len(trail) \in Nat, \A i \in 1 .. Len(trail) : trail'[i] = trail[i],
           recorded' \in Nat, recorded <= recorded', recorded' # recorded => call \notin Closing,
           at = "closed" => at' = "closed", call \in Closing => call' \in Closing,
           call' \in Sinking => call \in Sinking \/ RunRow \in S
    PROVE  Stored(S)'
<1>1. Stored(S) /\ recorded \in Nat /\ recorded <= Len(trail)
  BY DEF ConnInv, SinkInv
<1>2. EndRow \in S => recorded' = recorded
  BY <1>1 DEF Stored
<1>3. Whole(S, trail', recorded')
  <2>1. Whole(S, trail, recorded)
    BY <1>1 DEF Stored
  <2> QED
    BY <1>1, <1>2, <2>1, WholeGrows
<1>4. (call' \in Sinking => RunRow \in S) /\ (EndRow \in S => at' = "closed" /\ call' \in Closing)
  BY <1>1 DEF Stored
<1> QED
  BY <1>3, <1>4 DEF Stored

\* The moment since which the sink holds the events stays one at which no utterance was
\* open, however the trail grows.
LEMMA PendingStays ==
    ASSUME SinkInv, NEW m \in Nat, recorded' = recorded + m,
           pending' = pending \union (recorded + 1) .. recorded',
           \A i \in 1 .. Len(trail) : trail'[i] = trail[i], Len(trail) \in Nat
    PROVE  \E n \in 0 .. recorded' : Pending(n)'
<1>1. PICK n \in 0 .. recorded : Pending(n)
  BY DEF SinkInv
<1>2. recorded \in Nat /\ recorded <= Len(trail) /\ n \in 0 .. Len(trail) /\ n \in 0 .. recorded'
  BY DEF SinkInv
<1>3. OpenIn(trail', n) = {}
  <2>1. OpenIn(trail, n) = {}
    BY <1>1 DEF Pending
  <2>2. OpenIn(trail', n) = OpenIn(trail, n)
    BY ONLY <1>2, Len(trail) \in Nat, \A i \in 1 .. Len(trail) : trail'[i] = trail[i], Prefix
  <2> QED
    BY <2>1, <2>2
<1>4. pending' = (n + 1) .. recorded'
  BY <1>1, <1>2 DEF Pending
<1>5. Pending(n)'
  BY <1>3, <1>4 DEF Pending
<1> QED
  BY <1>2, <1>5

\* A step of the session: it records what it emits, and may ask for a flush or a close.
LEMMA SessionSink ==
    ASSUME SinkInv, ConnInv, SinkReady, LifeInv,
           NEW d, \E T : d \in Seq(T), trail' = trail \o d, Record(Len(d)),
           UNCHANGED <<conn, pc, flushed>>,
           at # "closed",
           \/ call' = call
           \/ call = "idle" /\ call' = "flush" /\ ~Speaking'
           \/ call = "idle" /\ call' = "close" /\ ~Speaking' /\ at' = "closed" /\ Len(d) = 1
    PROVE  SinkInv' /\ ConnInv'
<1>1. pc = "begin" /\ call \in {"idle", "degraded"}
  BY DEF ConnInv, SinkReady
<1>3. /\ Len(trail) \in Nat /\ Len(d) \in Nat /\ Len(trail') = Len(trail) + Len(d)
      /\ \A i \in 1 .. Len(trail) : trail'[i] = trail[i]
  <2>1. \E T : trail \in Seq(T)
    BY DEF LifeInv, Life
  <2> QED
    BY <2>1, Grown
<1> DEFINE m == IF call = "idle" THEN Len(d) ELSE 0
<1>4. /\ m \in Nat /\ recorded' = recorded + m /\ recorded \in Nat
      /\ pending' = pending \union (recorded + 1) .. recorded'
      /\ (call = "idle" => m = Len(d)) /\ (call = "degraded" => m = 0)
  BY <1>1, <1>3 DEF Record, SinkInv
<1> HIDE DEF m
<1>5. \A S \in HeldBy(conn') : Stored(S)'
  <2>1. recorded' \in Nat /\ recorded <= recorded' /\ call \notin Closing
    BY <1>1, <1>4 DEF Closing
  <2>2. call' \in Sinking => call \in Sinking
    BY <1>1 DEF Sinking
  <2>3. at = "closed" => at' = "closed"
    OBVIOUS
  <2>4. \A S \in HeldBy(conn) : Stored(S)'
    BY <1>3, <2>1, <2>2, <2>3, StoredStays
  <2> QED
    BY <2>4
<1>2. ConnInv'
  <2>1. conn' = conn /\ pc' = "begin" /\ call' # "open"
    BY <1>1
  <2> QED
    BY <1>5, <2>1 DEF ConnInv
<1>6. \E n \in 0 .. recorded' : Pending(n)'
  BY <1>3, <1>4, PendingStays
<1>7. /\ recorded' \in Nat /\ recorded' <= Len(trail')
      /\ call' \notin {"degraded", "crashed"} => recorded' = Len(trail')
      /\ call' \in {"open", "degraded"} => recorded' = 0
  <2>1. CASE call = "idle"
    <3>1. recorded = Len(trail)
      BY <2>1 DEF SinkInv
    <3>2. recorded' = Len(trail') /\ recorded' \in Nat
      <4>1. recorded' = recorded + m /\ m = Len(d) /\ Len(trail) \in Nat /\ Len(d) \in Nat
        BY <1>3, <1>4, <2>1
      <4>2. Len(trail') = Len(trail) + Len(d)
        BY <1>3
      <4> QED
        BY ONLY <3>1, <4>1, <4>2
    <3>3. call' \notin {"open", "degraded"}
      BY <2>1
    <3> QED
      BY <1>3, <3>2, <3>3
  <2>2. CASE call = "degraded"
    <3>1. /\ recorded <= Len(trail) /\ recorded = 0
      BY <2>2 DEF SinkInv
    <3> QED
      BY <1>3, <1>4, <2>2, <3>1
  <2> QED
    BY <1>1, <2>1, <2>2
<1>8. call' = "close" => recorded' \in pending'
  <2>1. call' = "close" => recorded' = recorded + 1
    BY <1>1, <1>4
  <2> QED
    BY <1>4, <2>1
<1> QED
  BY <1>1, <1>2, <1>6, <1>7, <1>8 DEF SinkInv

\* A step of the session that emits nothing.
LEMMA SilentSink ==
    ASSUME SinkInv, ConnInv, SinkReady, LifeInv, at # "closed", Silent, KeepsSink
    PROVE  SinkInv' /\ ConnInv'
<1>1. /\ \E T : trail \in Seq(T)
      /\ \E T : <<>> \in Seq(T)
  <2>1. <<>> \in Seq({})
    OBVIOUS
  <2> QED
    BY <2>1 DEF LifeInv, Life
<1>2. trail' = trail \o <<>>
  BY <1>1, Concats DEF Silent
<1>3. Record(Len(<<>>))
  BY DEF Silent, Record, SinkInv
<1> QED
  BY <1>1, <1>2, <1>3, SessionSink DEF KeepsSink

\* A step of the session that emits and asks for nothing.
LEMMA EmitSink ==
    ASSUME SinkInv, ConnInv, SinkReady, LifeInv, at # "closed", NEW d, \E T : d \in Seq(T),
           Emit(d), KeepsSink
    PROVE  SinkInv' /\ ConnInv'
BY SessionSink DEF Emit, KeepsSink

\* The end of an utterance asks for a flush.
LEMMA CloseSink ==
    ASSUME SinkInv, ConnInv, SinkReady, LifeInv, at # "closed", NEW t1, CloseUtterance(t1), ~Speaking'
    PROVE  SinkInv' /\ ConnInv'
<1> DEFINE d == Delta(window_from(slice_from), slice_from, t1)
                  \o <<Event("utterance_end", utt.id, {}, utt.t0, t1)>>
<1>1. \E T : d \in Seq(T)
  <2> DEFINE x == Event("delta", utt.id, window_from(slice_from), slice_from, t1)
             y == Event("utterance_end", utt.id, {}, utt.t0, t1)
             T == {x, y}
  <2>1. <<x>> \in Seq(T) /\ <<y>> \in Seq(T) /\ <<>> \in Seq(T)
    OBVIOUS
  <2>2. d = <<x>> \o <<y>> \/ d = <<>> \o <<y>>
    BY DEF Delta
  <2> HIDE DEF d, T, x, y
  <2>3. <<x>> \o <<y>> \in Seq(T) /\ <<>> \o <<y>> \in Seq(T)
    BY ONLY <2>1, ConcatProperties
  <2>4. d \in Seq(T)
    BY <2>2, <2>3
  <2> QED
    BY <2>4
<1>2. trail' = trail \o d /\ Record(Len(d)) /\ Ask("flush")
  BY DEF CloseUtterance, Emit
<1> HIDE DEF d
<1> QED
  BY <1>1, <1>2, SessionSink DEF Ask, SinkReady

\* The steps of the session and the sink.
LEMMA StepsSink ==
    ASSUME SinkInv, ConnInv, LifeInv,
           \/ SessionStart \/ Terminate \/ Read \/ Frame \/ Onset \/ Endpoint \/ Timeout
           \/ Reopen \/ Cap \/ Step \/ Close
    PROVE  SinkInv' /\ ConnInv'
<1>0. SinkReady /\ at # "closed"
  BY DEF SessionStart, Terminate, Read, Frame, Onset, Endpoint, Timeout, Reopen, Cap, Step, Close
<1>e. ASSUME NEW e, Emit(<<e>>), KeepsSink
      PROVE  SinkInv' /\ ConnInv'
  <2>1. <<e>> \in Seq({e})
    OBVIOUS
  <2> QED
    BY <1>0, <1>e, <2>1, EmitSink
<1>s. ASSUME Silent, KeepsSink PROVE SinkInv' /\ ConnInv'
  BY <1>0, <1>s, SilentSink
<1>1. CASE SessionStart
  <2> DEFINE x == Note("session_start")
             y == Note("persist_degraded")
  <2>1. Emit(<<x>> \o IF call = "degraded" THEN <<y>> ELSE <<>>) /\ KeepsSink
    BY <1>1 DEF SessionStart
  <2> DEFINE T == {x, y}
             d == <<x>> \o IF call = "degraded" THEN <<y>> ELSE <<>>
  <2>2. <<x>> \in Seq(T) /\ <<y>> \in Seq(T) /\ <<>> \in Seq(T)
    OBVIOUS
  <2> HIDE DEF T, x, y
  <2>3. <<x>> \o <<y>> \in Seq(T) /\ <<x>> \o <<>> \in Seq(T)
    BY ONLY <2>2, ConcatProperties
  <2>4. d \in Seq(T)
    BY <2>3
  <2> HIDE DEF d
  <2> QED
    BY <1>0, <2>1, <2>4, EmitSink DEF d
<1>2. CASE Terminate
  <2>1. ~Speaking'
    BY <1>2 DEF Terminate, Speaking
  <2>2. CloseUtterance(buffer.end) \/ (Silent /\ KeepsSink)
    BY <1>2 DEF Terminate
  <2> QED
    BY <1>0, <1>s, <2>1, <2>2, CloseSink
<1>3. CASE Read \/ Frame
  BY <1>3, <1>s DEF Read, Frame
<1>4. CASE Onset
  <2>1. KeepsSink /\ (Silent \/ Emit(<<SpeechStarted(utt.id + 1, Head(edges).t)>>))
    BY <1>4 DEF Onset
  <2> QED
    BY <1>e, <1>s, <2>1
<1>5. CASE Endpoint
  <2>1. \/ Silent /\ KeepsSink
        \/ /\ CloseUtterance(Head(edges).t)
           /\ utt' = [utt EXCEPT !.in_speech = FALSE]
    BY <1>5 DEF Endpoint, CancelledDecode
  <2>2. ASSUME utt' = [utt EXCEPT !.in_speech = FALSE] PROVE ~Speaking'
    <3>1. utt'.in_speech = FALSE
      BY <2>2 DEF LifeInv
    <3> QED
      BY <3>1 DEF Speaking
  <2> QED
    BY <1>0, <1>s, <2>1, <2>2, CloseSink
<1>6. CASE Timeout
  <2>1. \/ Silent /\ KeepsSink
        \/ CloseUtterance(buffer.end) /\ at' = "reopen"
    BY <1>6 DEF Timeout, CancelledDecode
  <2>2. at' = "reopen" => ~Speaking'
    BY DEF Speaking
  <2> QED
    BY <1>0, <1>s, <2>1, <2>2, CloseSink
<1>7. CASE Reopen
  BY <1>7, <1>e DEF Reopen
<1>8. CASE Cap
  <2>1. KeepsSink /\ (Silent \/ \E e : Emit(<<e>>))
    BY <1>8 DEF Cap
  <2> QED
    BY <1>e, <1>s, <2>1
<1>9. CASE Step
  <2>1. KeepsSink /\ (Silent \/ \E t, t1 : Emit(Delta(t, slice_from, t1)))
    BY <1>9 DEF Step
  <2>2. ASSUME NEW t, NEW t1, Emit(Delta(t, slice_from, t1)), KeepsSink
        PROVE  SinkInv' /\ ConnInv'
    <3> DEFINE x == Event("delta", utt.id, t, slice_from, t1)
    <3>1. Delta(t, slice_from, t1) = <<x>> \/ Delta(t, slice_from, t1) = <<>>
      BY DEF Delta
    <3>2. <<>> \in Seq({})
      OBVIOUS
    <3> HIDE DEF x
    <3>3. CASE Delta(t, slice_from, t1) = <<x>>
      BY <1>e, <2>2, <3>3
    <3>4. CASE Delta(t, slice_from, t1) = <<>>
      <4>1. Emit(<<>>)
        BY <2>2, <3>4
      <4> QED
        BY <1>0, <2>2, <3>2, <4>1, EmitSink
    <3> QED
      BY <3>1, <3>3, <3>4
  <2> QED
    BY <1>s, <2>1, <2>2
<1>10. CASE Close
  <2> DEFINE d == <<Note("session_stats")>>
  <2>1. /\ trail' = trail \o d /\ Record(Len(d)) /\ Ask("close")
        /\ at' = "closed" /\ ~Speaking' /\ d \in Seq({Note("session_stats")}) /\ Len(d) = 1
    BY <1>10 DEF Close, Emit, Speaking
  <2> HIDE DEF d
  <2>2. call' = call \/ (call = "idle" /\ call' = "close")
    BY <2>1 DEF Ask
  <2> QED
    BY <1>0, <2>1, <2>2, SessionSink DEF Ask
<1> QED
  BY <1>1, <1>2, <1>3, <1>4, <1>5, <1>6, <1>7, <1>8, <1>9, <1>10

\* A statement of a store operation fails, and leaves nothing new behind.
LEMMA ErrorSink ==
    ASSUME SinkInv, ConnInv, LifeInv, call \in {"open", "flush", "close"}, NEW e, NEW c,
           c = [durable |-> c.durable, work |-> c.work, stack |-> c.stack],
           \E T : c.stack \in Seq(T), HeldBy(c) \subseteq HeldBy(conn),
           \/ call # "open" \/ ~Retries(e, attempt)
           \/ c.durable = {} /\ (RunRow \in c.work \/ (c.work = {} /\ c.stack = <<>>)),
           Error(e, c),
           trail' = IF recorded' > recorded THEN Append(trail, Note("persist_degraded")) ELSE trail,
           UNCHANGED <<at, utt>>
    PROVE  SinkInv' /\ ConnInv'
<1>1. conn' = c /\ pc' = "begin" /\ (Speaking' <=> Speaking)
  BY DEF Error, Done, Speaking
<1>2. recorded \in Nat /\ recorded = Len(trail)
  BY DEF SinkInv
<1>3. \/ call' = call /\ recorded' = recorded /\ pending' = pending /\ Retries(e, attempt)
      \/ call = "open" /\ call' = "degraded" /\ recorded' = recorded /\ pending' = pending
      \/ call = "close" /\ call' = "close_failed" /\ recorded' = recorded /\ pending' = pending
      \/ call = "flush" /\ call' = "idle" /\ recorded' = recorded + 1 /\ pending' = pending \union {recorded + 1}
  BY DEF Error, Done, buffered
<1>4. \E T : trail \in Seq(T)
  BY DEF LifeInv, Life
<1>5. \E m \in {0, 1} : /\ recorded' = recorded + m
                        /\ pending' = pending \union (recorded + 1) .. recorded'
  <2>1. CASE recorded' = recorded /\ pending' = pending
    <3>1. (recorded + 1) .. recorded = {} /\ recorded' = recorded + 0
      BY <1>2, <2>1
    <3> QED
      BY <2>1, <3>1
  <2>2. CASE recorded' = recorded + 1 /\ pending' = pending \union {recorded + 1}
    BY <1>2, <2>2
  <2> QED
    BY <1>3, <2>1, <2>2
<1>6. PICK m \in {0, 1} : /\ recorded' = recorded + m
                          /\ pending' = pending \union (recorded + 1) .. recorded'
  BY <1>5
<1>7. /\ Len(trail) \in Nat /\ recorded' = Len(trail') /\ recorded' \in Nat /\ m \in Nat
      /\ \A i \in 1 .. Len(trail) : trail'[i] = trail[i]
  <2>1. CASE m = 0
    BY <1>2, <1>6, <2>1
  <2>2. CASE m = 1
    <3>1. trail' = Append(trail, Note("persist_degraded"))
      BY <1>2, <1>6, <2>2
    <3> QED
      BY <1>2, <1>4, <1>6, <2>2, <3>1, OneMore
  <2> QED
    BY <2>1, <2>2
<1>8. \E n \in 0 .. recorded' : Pending(n)'
  BY <1>6, <1>7, PendingStays
<1>9. SinkInv'
  BY <1>1, <1>2, <1>3, <1>7, <1>8 DEF SinkInv
<1>10. \A S \in HeldBy(conn') : Stored(S)'
  <2>1. /\ recorded <= recorded' /\ (recorded' # recorded => call \notin Closing)
        /\ call \in Closing => call' \in Closing
        /\ call' \in Sinking => call \in Sinking
    BY <1>2, <1>3, <1>6 DEF Closing, Sinking
  <2>2. \A S \in HeldBy(conn) : Stored(S)'
    BY <1>7, <2>1, StoredStays
  <2> QED
    BY <1>1, <2>2
<1>11. call' = "open" => Opening'
  <2> SUFFICES ASSUME call' = "open" PROVE Opening'
    OBVIOUS
  <2>1. c.durable = {} /\ (RunRow \in c.work \/ (c.work = {} /\ c.stack = <<>>))
    BY <1>3
  <2> QED
    BY <1>1, <2>1 DEF Opening
<1>12. ConnInv'
  BY <1>1, <1>10, <1>11 DEF ConnInv
<1> QED
  BY <1>9, <1>12

\* A store operation at work: nothing more is recorded.
LEMMA WorkingSink ==
    ASSUME SinkInv, UNCHANGED <<buffered, call, at, utt, trail>>
    PROVE  SinkInv'
<1>1. PICK n \in 0 .. recorded : Pending(n)
  BY DEF SinkInv
<1>2. Pending(n)'
  BY <1>1 DEF Pending, buffered, OpenIn, Starts, Ends
<1>3. \E m \in 0 .. recorded' : Pending(m)'
  BY <1>2 DEF buffered
<1>4. Speaking' <=> Speaking
  BY DEF Speaking
<1> QED
  BY <1>3, <1>4 DEF SinkInv, buffered

\* What is held stays stored when nothing more is recorded.
LEMMA StoredSame ==
    ASSUME NEW S, Stored(S), UNCHANGED <<recorded, call, at, trail>>
    PROVE  Stored(S)'
<1>1. trail' = trail /\ recorded' = recorded /\ call' = call /\ at' = at
  OBVIOUS
<1>2. Whole(S, trail', recorded')
  BY <1>1 DEF Stored
<1> QED
  BY <1>1, <1>2 DEF Stored

\* What a store operation writes is stored with what was there.
LEMMA RowsStored ==
    ASSUME SinkInv, LifeInv, NEW S, Stored(S), call \in {"flush", "close"}
    PROVE  Stored(S \union Rows)
<1>1. PICK n \in 0 .. recorded : Pending(n)
  BY DEF SinkInv
<1>2. recorded \in Nat /\ recorded = Len(trail) /\ ~Speaking
  BY DEF SinkInv
<1>3. OpenIn(trail, recorded) = {}
  BY <1>2 DEF LifeInv, Life
<1>4. /\ Rows \subseteq Items((n + 1) .. recorded) \union {EndRow} /\ Items((n + 1) .. recorded) \subseteq Rows
      /\ EndRow \in Rows => call = "close"
  BY <1>1, RowKinds DEF Rows, Pending
<1>5. EndRow \in Rows => recorded \in (n + 1) .. recorded
  BY <1>1, <1>4 DEF SinkInv, Pending
<1>6. Whole(S, trail, recorded) /\ RunRow \in S
  BY DEF Stored, Sinking
<1>7. Whole(S \union Rows, trail, recorded)
  <2> DEFINE X == Rows
  <2> HIDE DEF X
  <2>1. OpenIn(trail, n) = {}
    BY <1>1 DEF Pending
  <2>2. Whole(S \union X, trail, recorded)
    BY <1>2, <1>3, <1>4, <1>5, <1>6, <2>1, WholeUnion DEF X
  <2> QED
    BY <2>2 DEF X
<1>8. EndRow \in S \union Rows => at = "closed" /\ call \in Closing
  BY <1>4 DEF Stored, SinkInv, Closing
<1> QED
  BY <1>6, <1>7, <1>8 DEF Stored

\* A store operation begins, or writes its rows.
LEMMA BeginSink ==
    ASSUME SinkInv, ConnInv, LifeInv, Begin \/ WriteRows, UNCHANGED <<at, utt, trail>>
    PROVE  SinkInv' /\ ConnInv'
<1>1. UNCHANGED <<buffered, call, recorded>> /\ call \in {"open", "flush", "close"}
  BY DEF Begin, WriteRows, buffered, ConnInv
<1>2. SinkInv'
  BY <1>1, WorkingSink
<1>3. CASE Begin
  <2>1. pc = "begin" /\ pc' = "write" /\ conn' = Savepoint(conn)
    BY <1>3 DEF Begin
  <2>2. /\ conn' = [durable |-> conn'.durable, work |-> conn'.work, stack |-> conn'.stack]
        /\ conn'.durable = conn.durable /\ conn'.work = conn.work /\ conn'.stack = Append(conn.stack, conn.work)
        /\ (\E T : conn'.stack \in Seq(T)) /\ conn'.stack # <<>> /\ HeldBy(conn') \subseteq HeldBy(conn)
    BY <2>1, HeldSavepoint DEF ConnInv
  <2>3. \A S \in HeldBy(conn') : Stored(S)'
    BY <1>1, <2>2, StoredSame DEF ConnInv
  <2>4. call = "open" => Opening'
    <3>1. Append(<<>>, {}) = <<{}>>
      OBVIOUS
    <3> QED
      BY <2>1, <2>2, <3>1 DEF ConnInv, Opening
  <2> QED
    BY <1>1, <1>2, <2>1, <2>2, <2>3, <2>4 DEF ConnInv
<1>4. CASE WriteRows
  <2>1. pc = "write" /\ pc' = "release" /\ ~Collides /\ conn' = Write(conn, Rows)
    BY <1>4 DEF WriteRows
  <2>2. conn.stack # <<>>
    BY <2>1 DEF ConnInv
  <2>3. conn' = [durable |-> conn.durable, work |-> conn.work \union Rows, stack |-> conn.stack]
    BY <2>1, <2>2 DEF Write
  <2>4. HeldBy(conn') \subseteq HeldBy(conn) \union {conn.work \union Rows} /\ conn.work \in HeldBy(conn)
    BY <2>3 DEF HeldBy
  <2>7. /\ conn' = [durable |-> conn'.durable, work |-> conn'.work, stack |-> conn'.stack]
        /\ (\E T : conn'.stack \in Seq(T)) /\ conn'.stack # <<>> /\ call' = call
    BY <1>1, <2>2, <2>3 DEF ConnInv
  <2>5. CASE call # "open"
    <3>1. Stored(conn.work \union Rows)
      BY <1>1, <2>4, <2>5, RowsStored DEF ConnInv
    <3>2. \A S \in HeldBy(conn') : Stored(S)'
      BY <1>1, <2>4, <3>1, StoredSame DEF ConnInv
    <3>3. ConnInv'
      BY <1>1, <2>1, <2>5, <2>7, <3>2 DEF ConnInv
    <3> QED
      BY <1>2, <3>3
  <2>6. CASE call = "open"
    <3>1. /\ conn.durable = {} /\ conn.work = {} /\ conn.stack = <<{}>> /\ Rows = {RunRow}
      BY <2>1, <2>6 DEF ConnInv, Opening, Collides, Rows
    <3>2. /\ conn'.durable = {} /\ conn'.work = {RunRow} /\ conn'.stack = <<{}>> /\ Opening'
      BY <2>1, <2>3, <3>1 DEF Opening
    <3>3. Stored({RunRow})
      BY <2>6, RowKinds DEF Stored, Whole, Sinking
    <3>4. \A S \in HeldBy(conn') : Stored(S)'
      <4>1. conn.work \union Rows = {RunRow}
        BY <3>1
      <4> QED
        BY <1>1, <2>4, <3>3, <4>1, StoredSame DEF ConnInv
    <3>5. ConnInv'
      BY <1>1, <2>1, <2>7, <3>2, <3>4 DEF ConnInv
    <3> QED
      BY <1>2, <3>5
  <2> QED
    BY <1>2, <2>5, <2>6
<1> QED
  BY <1>1, <1>3, <1>4

\* A store operation ends well.  It may be inside a transaction an earlier one left open.
LEMMA CommitSink ==
    ASSUME SinkInv, ConnInv, LifeInv, Commit, UNCHANGED <<at, utt, trail>>
    PROVE  SinkInv' /\ ConnInv'
<1>1. /\ pc = "release" /\ conn' = Release(conn) /\ pending' = {} /\ recorded' = recorded /\ pc' = "begin"
      /\ call' = (IF call = "close" THEN "closed" ELSE "idle")
  BY DEF Commit, Done
<1>2. call \in {"open", "flush", "close"} /\ conn.stack # <<>>
  BY <1>1 DEF ConnInv
<1>3. recorded \in Nat /\ recorded = Len(trail)
  BY <1>2 DEF SinkInv
<1>4. OpenIn(trail, recorded) = {}
  <2>1. CASE call = "open"
    <3>1. recorded = 0
      BY <2>1 DEF SinkInv
    <3> QED
      BY <3>1 DEF SinkInv, Pending
  <2>2. CASE call \in {"flush", "close"}
    BY <1>3, <2>2 DEF SinkInv, LifeInv, Life
  <2> QED
    BY <1>2, <2>1, <2>2
<1>5. \E n \in 0 .. recorded' : Pending(n)'
  <2> DEFINE k == recorded
  <2>1. k \in 0 .. recorded' /\ (k + 1) .. recorded' = {} /\ OpenIn(trail', k) = {}
    BY <1>1, <1>3, <1>4
  <2>2. pending' = (k + 1) .. recorded' /\ OpenIn(trail', k) = {}
    BY <1>1, <2>1
  <2> HIDE DEF k
  <2> QED
    BY <2>1, <2>2 DEF Pending
<1>6. SinkInv'
  BY <1>1, <1>2, <1>3, <1>5 DEF SinkInv
<1>7. /\ conn' = [durable |-> conn'.durable, work |-> conn'.work, stack |-> conn'.stack]
      /\ (\E T : conn'.stack \in Seq(T)) /\ HeldBy(conn') \subseteq HeldBy(conn)
  BY <1>1, <1>2, HeldAfter DEF ConnInv
<1>8. ASSUME NEW S \in HeldBy(conn') PROVE Stored(S)'
  <2>1. call' \in Sinking => call \in Sinking \/ RunRow \in S
    <3>1. CASE call = "open"
      <4>1. conn.work = {RunRow} /\ conn.stack = <<{}>>
        BY <1>1, <3>1 DEF ConnInv, Opening
      <4>2. Len(conn.stack) = 1 /\ Pop(conn.stack) = <<>>
        BY <4>1 DEF Pop
      <4>3. conn' = [durable |-> {RunRow}, work |-> {RunRow}, stack |-> <<>>]
        BY <1>1, <4>1, <4>2 DEF Release
      <4>4. S = {RunRow}
        BY <1>8, <4>3 DEF HeldBy
      <4> QED
        BY <4>4
    <3> QED
      BY <1>2, <3>1 DEF Sinking
  <2>2. S \in HeldBy(conn) /\ (call \in Closing => call' \in Closing)
    BY <1>1, <1>2, <1>7, <1>8 DEF Closing
  <2>3. /\ recorded' \in Nat /\ recorded <= recorded' /\ recorded' = recorded
        /\ Len(trail) \in Nat /\ \A i \in 1 .. Len(trail) : trail'[i] = trail[i]
    BY <1>1, <1>3
  <2>4. recorded' # recorded => call \notin Closing
    BY <2>3
  <2> QED
    BY ONLY SinkInv, ConnInv, at' = at, <2>1, <2>2, <2>3, <2>4, StoredStays
<1>9. ConnInv'
  BY <1>1, <1>7, <1>8 DEF ConnInv
<1> QED
  BY <1>6, <1>9

\* The steps of a store operation and the crash.
LEMMA StoreSink ==
    ASSUME SinkInv, ConnInv, LifeInv, Store \/ Abort
    PROVE  SinkInv' /\ ConnInv'
<1>c. conn = [durable |-> conn.durable, work |-> conn.work, stack |-> conn.stack] /\ \E T : conn.stack \in Seq(T)
  BY DEF ConnInv
<1>0. CASE Store
  <2>0. /\ UNCHANGED <<at, utt>>
        /\ trail' = IF recorded' > recorded THEN Append(trail, Note("persist_degraded")) ELSE trail
        /\ StoreStep /\ recorded \in Nat
    BY <1>0 DEF Store, SinkInv
  <2>1. CASE Begin \/ WriteRows
    <3>1. trail' = trail
      BY <2>0, <2>1 DEF Begin, WriteRows, buffered
    <3> QED
      BY <2>0, <2>1, <3>1, BeginSink
  <2>2. CASE BeginFails
    <3>1. /\ call \in {"open", "flush", "close"} /\ pc = "begin"
      BY <2>2 DEF BeginFails
    <3>2. PICK e \in StatementErrors : Error(e, conn)
      BY <2>2 DEF BeginFails
    <3>3. call = "open" => conn.durable = {} /\ (RunRow \in conn.work \/ (conn.work = {} /\ conn.stack = <<>>))
      BY <3>1 DEF ConnInv, Opening
    <3> QED
      BY <1>c, <2>0, <3>1, <3>2, <3>3, ErrorSink
  <2>3. CASE WriteFails
    <3>1. pc = "write" /\ call \in {"open", "flush", "close"} /\ conn.stack # <<>>
      BY <2>3 DEF WriteFails, ConnInv
    <3>2. PICK e \in StatementErrors, part \in Written :
             /\ Collides => e = "Storage"
             /\ Error(e, rollback_savepoint(Write(conn, part)))
      BY <2>3 DEF WriteFails, StatementErrors
    <3> DEFINE c == rollback_savepoint(Write(conn, part))
    <3>3. /\ c = [durable |-> c.durable, work |-> c.work, stack |-> c.stack]
          /\ (\E T : c.stack \in Seq(T)) /\ HeldBy(c) \subseteq HeldBy(conn)
      <4> HIDE DEF c
      <4>1. \E p : c = rollback_savepoint(Write(conn, p))
        BY DEF c
      <4> QED
        BY <1>c, <3>1, <4>1, HeldAfter
    <3>4. \/ call # "open" \/ ~Retries(e, attempt)
          \/ c.durable = {} /\ (RunRow \in c.work \/ (c.work = {} /\ c.stack = <<>>))
      <4> SUFFICES ASSUME call = "open", Retries(e, attempt) PROVE c.durable = {} /\ c.work = {} /\ c.stack = <<>>
        OBVIOUS
      <4>1. ~Collides
        BY <3>2 DEF Retries
      <4>2. conn.durable = {} /\ conn.stack = <<{}>>
        BY <3>1, <4>1 DEF ConnInv, Opening, Collides
      <4>3. Write(conn, part).stack = <<{}>> /\ Write(conn, part).durable = {}
        BY <4>2 DEF Write
      <4>4. Pop(<<{}>>) = <<>> /\ Len(<<{}>>) = 1 /\ <<{}>>[1] = {}
        BY DEF Pop
      <4> QED
        BY <4>3, <4>4 DEF rollback_savepoint, Innermost
    <3>5. Error(e, c)
      BY <3>2
    <3> HIDE DEF c
    <3> QED
      BY <2>0, <3>1, <3>3, <3>4, <3>5, ErrorSink
  <2>4. CASE Commit
    <3>1. trail' = trail
      BY <2>0, <2>4 DEF Commit
    <3> QED
      BY <2>0, <2>4, <3>1, CommitSink
  <2>5. CASE CommitFails
    <3>1. PICK e \in StatementErrors, c \in ReleaseFails(conn) : Error(e, c) /\ pc = "release"
      BY <2>5 DEF CommitFails
    <3>2. c = NewConnection(conn.durable) \/ c = conn
      BY <3>1 DEF ReleaseFails
    <3>3. call \in {"open", "flush", "close"}
      BY <3>1 DEF ConnInv
    <3>4. /\ c = [durable |-> c.durable, work |-> c.work, stack |-> c.stack]
          /\ (\E T : c.stack \in Seq(T)) /\ HeldBy(c) \subseteq HeldBy(conn)
      BY <1>c, <3>2, HeldAfter
    <3>5. call = "open" => c.durable = {} /\ (RunRow \in c.work \/ (c.work = {} /\ c.stack = <<>>))
      <4>1. call = "open" => conn.durable = {} /\ conn.work = {RunRow}
        BY <3>1 DEF ConnInv, Opening
      <4> QED
        BY <3>2, <4>1 DEF NewConnection
    <3> QED
      BY <2>0, <3>1, <3>3, <3>4, <3>5, ErrorSink
  <2> QED
    BY <2>0, <2>1, <2>2, <2>3, <2>4, <2>5 DEF StoreStep
<1>1. CASE Abort
  <2>1. /\ call \in {"open", "idle", "degraded", "flush", "close"} /\ call' = "crashed" /\ pc' = "begin"
        /\ UNCHANGED <<recorded, pending, flushed, at, utt, trail>>
        /\ conn' = NewConnection(conn.durable)
    BY <1>1 DEF Abort, Crash, buffered, sessionVars
  <2>2. /\ conn' = [durable |-> conn'.durable, work |-> conn'.work, stack |-> conn'.stack]
        /\ (\E T : conn'.stack \in Seq(T)) /\ HeldBy(conn') \subseteq HeldBy(conn)
    BY <1>c, <2>1, HeldAfter
  <2>3. /\ recorded' \in Nat /\ recorded <= recorded' /\ recorded' = recorded
        /\ Len(trail) \in Nat /\ \A i \in 1 .. Len(trail) : trail'[i] = trail[i]
    BY <2>1 DEF SinkInv, LifeInv, Life
  <2>4. call' \in Closing /\ call' \notin Sinking
    BY <2>1 DEF Closing, Sinking
  <2>5. \A S \in HeldBy(conn) : Stored(S)'
    BY <2>1, <2>3, <2>4, StoredStays
  <2>6. ConnInv'
    BY <2>1, <2>2, <2>5 DEF ConnInv
  <2>7. PICK n \in 0 .. recorded : Pending(n)
    BY DEF SinkInv
  <2>8. OpenIn(trail, n)' = OpenIn(trail, n)
    BY <2>1 DEF OpenIn, Starts, Ends
  <2>9. Pending(n)' /\ n \in 0 .. recorded'
    BY <2>1, <2>7, <2>8 DEF Pending
  <2> QED
    BY <2>1, <2>6, <2>9 DEF SinkInv
<1> QED
  BY <1>0, <1>1

\* Nothing is held before the sink is open.
LEMMA SinkInitInv == Init => SinkInv /\ ConnInv
<1> SUFFICES ASSUME Init PROVE SinkInv /\ ConnInv
  OBVIOUS
<1>1. /\ conn = [durable |-> {}, work |-> {}, stack |-> <<>>] /\ recorded = 0 /\ pending = {}
      /\ call = "open" /\ pc = "begin" /\ trail = <<>> /\ at = "start"
  BY DEF Init, SinkInit, NewConnection
<1>2. HeldBy(conn) = {{}} /\ <<>> \in Seq({})
  BY <1>1 DEF HeldBy
<1>3. ConnInv
  BY <1>1, <1>2 DEF ConnInv, Stored, Whole, Opening, Sinking
<1>4. OpenIn(trail, 0) = {} /\ Len(trail) = 0
  BY <1>1 DEF OpenIn, Starts, Ends
<1>5. Pending(0)
  BY <1>1, <1>4 DEF Pending
<1> QED
  BY <1>1, <1>3, <1>4, <1>5 DEF SinkInv

\* "Utterances are the atomic durability unit": however flushes fail and are retried, whatever a
\* failed RELEASE leaves of the transaction and whenever the process dies, an utterance is durable
\* with all its events or with none, and the summary only with the last event of a session that
\* was closed (ListenPersistSink, listen_flush_utterance, listen_close_run), for any amount of
\* audio, any number of retries and every geometry of the buffer.
THEOREM UtterancesAreAtomic == Spec => []UtterancesAtomic
<1>1. LifeInv /\ SinkInv /\ ConnInv /\ [Next]_vars => SinkInv' /\ ConnInv'
  <2> SUFFICES ASSUME LifeInv, SinkInv, ConnInv, [Next]_vars PROVE SinkInv' /\ ConnInv'
    OBVIOUS
  <2>1. CASE UNCHANGED vars \/ Ended
    <3>1. UNCHANGED <<conn, pc, call, buffered, at, utt, trail>> /\ UNCHANGED recorded
      BY <2>1 DEF vars, sinkVars, sessionVars, Ended, buffered
    <3>2. \A S \in HeldBy(conn') : Stored(S)'
      BY <3>1, StoredSame DEF ConnInv
    <3>3. ConnInv'
      BY <3>1, <3>2 DEF ConnInv, Opening
    <3> QED
      BY <3>1, <3>3, WorkingSink
  <2>2. CASE Next /\ ~Ended
    BY <2>2, StepsSink, StoreSink DEF Next
  <2> QED
    BY <2>1, <2>2
<1>2. SinkInv /\ ConnInv => UtterancesAtomic
  <2> SUFFICES ASSUME SinkInv, ConnInv PROVE UtterancesAtomic
    OBVIOUS
  <2>1. Stored(conn.durable) /\ recorded \in Nat
    BY DEF ConnInv, SinkInv, HeldBy
  <2>2. ASSUME NEW n \in 1 .. recorded, (Item(n) \in conn.durable) # (Item(n + 1) \in conn.durable)
        PROVE  OpenAt(n + 1) = {}
    <3>1. n \in Nat /\ n + 1 - 1 = n
      BY <2>1
    <3>2. OpenIn(trail, n) = {}
      BY <2>1, <2>2, <3>1 DEF Stored, Whole
    <3> QED
      BY <3>1, <3>2, OpenAtIs
  <2>3. /\ conn.durable # {} => RunRow \in conn.durable
        /\ EndRow \in conn.durable => at = "closed" /\ Item(recorded) \in conn.durable
    BY <2>1 DEF Stored, Whole
  <2> QED
    BY <2>2, <2>3 DEF UtterancesAtomic
<1> QED
  BY <1>1, <1>2, LifeInit, LifeNext, SinkInitInv, PTL DEF Spec

-----------------------------------------------------------------------------
(* What a session says of the audio.                                       *)

\* The events that account for audio: deltas, ends of utterances and forced trims.
Marking == {"delta", "utterance_end", "forced_trim"}
Marks(s) == {s[i] : i \in {j \in 1 .. Len(s) : s[j].kind \in Marking}}

EndsOf(M) == {e \in M : e.kind = "utterance_end"}
Warned(M, k) == \E e \in M : e.kind = "forced_trim" /\ k \in e.text
Said(M, k, id) == \E e \in M : e.kind = "delta" /\ e.id = id /\ k \in e.text
Overrun(M, id) == \E e \in M : e.kind = "forced_trim" /\ e.id = id

\* No voiced tick from t on is before an end that was reported.
PastEnds(M, V, t) == \A e \in EndsOf(M) : \A k \in V : k >= t => k >= e.t1

\* A voiced tick from t on that is no longer in the buffer was reported lost.
KeptFrom(M, V, b, t) == \A k \in V : (t <= k /\ k < b.trimmed) => Warned(M, k)

\* The deltas of a trail are past the ends reported before them.
PastReported(s) == \A i, j \in 1 .. Len(s) :
    (i < j /\ s[i].kind = "utterance_end" /\ s[j].kind = "delta") => \A k \in s[j].text : k >= s[i].t1

\* The deltas of an utterance are disjoint, unless a forced trim overtook it.
Apart(s) == \A i, j \in 1 .. Len(s) :
    (i < j /\ s[i].kind = "delta" /\ s[j].kind = "delta" /\ s[i].id = s[j].id) =>
        Overrun(Marks(s), s[i].id) \/ \A k \in s[i].text : k \notin s[j].text

Buffers == [trimmed : Nat, end : Nat, committed : Nat]
Vads == [frames : Nat, speech : BOOLEAN, onset : SUBSET Nat, last_voiced_end : Nat, run : Nat, floor : Nat]
Edges == [kind : {"SpeechStarted", "Endpoint"}, t : Nat]

Places == {"start", "top", "frames", "edges", "reopen", "cap", "step", "closing", "closed"}
Going == at \notin {"closing", "closed"}

\* The edges that a cancelled decode drops are never handled: the loop ends.
Following == Going /\ ~(at = "top" /\ stopping)

Shape ==
    /\ vad_enabled \in BOOLEAN /\ stopping \in BOOLEAN /\ at \in Places
    /\ buffer \in Buffers /\ buffer.trimmed <= buffer.end /\ buffer.committed <= buffer.end
    /\ \A k \in voiced : k \in Nat /\ k < buffer.end
    /\ utt.t0 \in Nat /\ utt.through \in Nat
    /\ edges \in Seq(Edges)
    /\ at \notin {"frames", "edges"} => edges = <<>>

\* The voice detector has heard the audio up to `frames`.
Detector ==
    /\ vad \in Vads
    /\ vad.floor <= vad.last_voiced_end /\ vad.last_voiced_end <= vad.frames /\ vad.frames <= buffer.end
    /\ \A j \in vad.onset : vad.floor <= j /\ j < vad.frames
    /\ vad.speech => vad.onset = {}
    /\ vad_enabled => /\ at = "frames" => vad.frames < buffer.end
                      /\ at # "frames" => vad.frames = buffer.end
                      /\ \A k \in voiced : k < vad.frames => k < vad.last_voiced_end
                      /\ buffer.trimmed <= vad.frames
    /\ ~vad_enabled => at # "frames"

\* The edges not handled yet lead from the state of the session to that of the detector.
Alternate ==
    /\ edges = <<>> => (utt.in_speech <=> vad.speech)
    /\ edges # <<>> => /\ edges[1].kind = "Endpoint" <=> utt.in_speech
                       /\ edges[Len(edges)].kind = "SpeechStarted" <=> vad.speech
    /\ \A p \in 1 .. Len(edges) - 1 : edges[p].kind # edges[p + 1].kind

InStep ==
    /\ vad_enabled /\ Following => Alternate
    /\ \A p \in 1 .. Len(edges) : /\ edges[p].t <= buffer.end
                                  /\ edges[p].kind = "Endpoint" => edges[p].t <= vad.floor
    /\ \A p, q \in 1 .. Len(edges) : p < q /\ edges[p].kind = "Endpoint" => edges[p].t <= edges[q].t
    /\ ~vad_enabled => /\ edges # <<>> => ~utt.in_speech /\ Len(edges) = 1 /\ edges[1].kind = "SpeechStarted"
                       /\ ~utt.in_speech => EndsOf(Marks(trail)) = {}

\* An utterance may start at t: what is voiced from there on is new, and in the buffer.
Begins(M, V, b, t) == PastEnds(M, V, t) /\ KeptFrom(M, V, b, t)

Queued == \A p \in 1 .. Len(edges) : edges[p].kind = "SpeechStarted" =>
    Begins(Marks(trail), voiced, buffer, edges[p].t)

\* While nobody speaks, the next utterance may start anywhere after the last.
Quiet == vad_enabled /\ ~vad.speech /\ Going => Begins(Marks(trail), voiced, buffer, vad.floor)

\* The commit watermark is no further than an end that was reported.
Watermark == buffer.committed <= buffer.trimmed \/ \E e \in EndsOf(Marks(trail)) : buffer.committed <= e.t1

EndsKnown == \A e \in EndsOf(Marks(trail)) :
    e.t1 \in Nat /\ e.t1 <= buffer.end /\ (vad_enabled => e.t1 <= vad.frames)

\* What the open utterance has passed is in its deltas or was reported lost.
OpenKept == Speaking =>
    /\ slice_from <= buffer.end
    /\ PastEnds(Marks(trail), voiced, utt.t0)
    /\ \A k \in voiced : (utt.t0 <= k /\ (k < slice_from \/ k < buffer.trimmed)) =>
          Warned(Marks(trail), k) \/ Said(Marks(trail), k, utt.id)

Heard == \A e \in EndsOf(Marks(trail)) : \A k \in voiced :
    (e.t0 <= k /\ k < e.t1) => Warned(Marks(trail), k) \/ Said(Marks(trail), k, e.id)

HeardInv ==
    /\ Shape /\ Detector /\ InStep /\ Queued /\ Quiet /\ Watermark /\ EndsKnown /\ OpenKept
    /\ PastReported(trail) /\ Heard

\* How far trims and the commit watermark have come before the detector's next onset.
TrimSafe(b, v) ==
    \/ b.trimmed <= v.floor
    \/ b.trimmed + max_buffer <= v.frames
    \/ b.trimmed + pre_pad <= v.frames /\ \A j \in v.onset : b.trimmed + pre_pad <= j
CommitSafe(b, v) ==
    b.committed <= b.trimmed \/ (b.committed <= v.frames /\ \A j \in v.onset : b.committed <= j)

Trims == vad_enabled /\ Going => TrimSafe(buffer, vad) /\ CommitSafe(buffer, vad)

\* The window of an utterance that starts at t starts there, or the cap is about to say so.
InWindow(b, t) == b.trimmed <= t \/ b.trimmed + max_buffer < b.end

Onsets == \A p \in 1 .. Len(edges) : edges[p].kind = "SpeechStarted" =>
    /\ InWindow(buffer, edges[p].t)
    /\ buffer.committed <= buffer.trimmed \/ buffer.committed <= edges[p].t + keep_back

\* Unless it was overtaken, the next delta of the open utterance starts after the last.
OpenAhead == Speaking =>
    \/ Overrun(Marks(trail), utt.id)
    \/ /\ \A e \in Marks(trail) : e.kind = "delta" /\ e.id = utt.id => \A k \in e.text : k \in Nat /\ k < slice_from
       /\ InWindow(buffer, slice_from) /\ (at = "step" => buffer.trimmed <= slice_from)

OnceInv == Trims /\ Onsets /\ OpenAhead /\ Apart(trail)

-----------------------------------------------------------------------------
(* The events that account for audio.                                      *)

\* One more event.
LEMMA MarksAppend ==
    ASSUME NEW s, \E T : s \in Seq(T), NEW e
    PROVE  Marks(Append(s, e)) = Marks(s) \union (IF e.kind \in Marking THEN {e} ELSE {})
<1> DEFINE m == Append(s, e)
<1>1. /\ Len(s) \in Nat /\ Len(m) = Len(s) + 1 /\ m[Len(s) + 1] = e
      /\ \A i \in 1 .. Len(s) : m[i] = s[i]
  BY OneMore
<1> HIDE DEF m
<1>2. \A i : i \in 1 .. Len(m) <=> i \in 1 .. Len(s) \/ i = Len(s) + 1
  BY <1>1
<1>3. ASSUME NEW x \in Marks(m) PROVE x \in Marks(s) \/ (x = e /\ e.kind \in Marking)
  <2>1. PICK i \in 1 .. Len(m) : x = m[i] /\ m[i].kind \in Marking
    BY DEF Marks
  <2> QED
    BY <1>1, <1>2, <2>1 DEF Marks
<1>4. ASSUME NEW x \in Marks(s) PROVE x \in Marks(m)
  <2>1. PICK i \in 1 .. Len(s) : x = s[i] /\ s[i].kind \in Marking
    BY DEF Marks
  <2> QED
    BY <1>1, <1>2, <2>1 DEF Marks
<1>5. e.kind \in Marking => e \in Marks(m)
  BY <1>1, <1>2 DEF Marks
<1> QED
  BY <1>3, <1>4, <1>5 DEF m

\* The events of a trail with one more.
LEMMA OneMoreEvent ==
    ASSUME NEW s, \E T : s \in Seq(T), NEW e
    PROVE  /\ \A i, j \in 1 .. Len(Append(s, e)) : i < j =>
                 /\ i \in 1 .. Len(s) /\ Append(s, e)[i] = s[i]
                 /\ \/ j \in 1 .. Len(s) /\ Append(s, e)[j] = s[j]
                    \/ Append(s, e)[j] = e
           /\ \A i \in 1 .. Len(s) : s[i].kind \in Marking => s[i] \in Marks(s)
<1> DEFINE m == Append(s, e)
<1>1. /\ Len(s) \in Nat /\ Len(m) = Len(s) + 1 /\ m[Len(s) + 1] = e
      /\ \A i \in 1 .. Len(s) : m[i] = s[i]
  BY OneMore
<1> HIDE DEF m
<1>2. ASSUME NEW i \in 1 .. Len(m), NEW j \in 1 .. Len(m), i < j
      PROVE  /\ i \in 1 .. Len(s) /\ m[i] = s[i]
             /\ (j \in 1 .. Len(s) /\ m[j] = s[j]) \/ m[j] = e
  BY <1>1, <1>2
<1>3. \A i \in 1 .. Len(s) : s[i].kind \in Marking => s[i] \in Marks(s)
  BY DEF Marks
<1> QED
  BY <1>2, <1>3 DEF m

\* Another event keeps deltas past the ends, if it is no delta or is one past them.
LEMMA PastAppend ==
    ASSUME NEW s, \E T : s \in Seq(T), NEW e, PastReported(s),
           e.kind = "delta" => \A x \in EndsOf(Marks(s)) : \A k \in e.text : k >= x.t1
    PROVE  PastReported(Append(s, e))
<1> DEFINE m == Append(s, e)
<1> SUFFICES ASSUME NEW i \in 1 .. Len(m), NEW j \in 1 .. Len(m), i < j,
                    m[i].kind = "utterance_end", m[j].kind = "delta"
             PROVE  \A k \in m[j].text : k >= m[i].t1
  BY DEF PastReported
<1>1. /\ i \in 1 .. Len(s) /\ m[i] = s[i]
      /\ (j \in 1 .. Len(s) /\ m[j] = s[j]) \/ m[j] = e
  BY OneMoreEvent
<1>2. s[i] \in EndsOf(Marks(s))
  BY <1>1, OneMoreEvent DEF EndsOf, Marking
<1> HIDE DEF m
<1>3. CASE j \in 1 .. Len(s) /\ m[j] = s[j]
  BY <1>1, <1>3 DEF PastReported
<1>4. CASE m[j] = e
  BY <1>1, <1>2, <1>4
<1> QED
  BY <1>1, <1>3, <1>4

\* Another event keeps deltas apart, if it is no delta or is one apart from the others.
LEMMA ApartAppend ==
    ASSUME NEW s, \E T : s \in Seq(T), NEW e, Apart(s),
           e.kind = "delta" =>
              \/ Overrun(Marks(s), e.id)
              \/ \A x \in Marks(s) : x.kind = "delta" /\ x.id = e.id => \A k \in x.text : k \notin e.text
    PROVE  Apart(Append(s, e))
<1> DEFINE m == Append(s, e)
<1>m. \A id : Overrun(Marks(s), id) => Overrun(Marks(m), id)
  <2>1. Marks(s) \subseteq Marks(m)
    BY MarksAppend
  <2> QED
    BY <2>1 DEF Overrun
<1> SUFFICES ASSUME NEW i \in 1 .. Len(m), NEW j \in 1 .. Len(m), i < j,
                    m[i].kind = "delta", m[j].kind = "delta", m[i].id = m[j].id
             PROVE  Overrun(Marks(m), m[i].id) \/ \A k \in m[i].text : k \notin m[j].text
  BY DEF Apart
<1>1. /\ i \in 1 .. Len(s) /\ m[i] = s[i]
      /\ (j \in 1 .. Len(s) /\ m[j] = s[j]) \/ m[j] = e
  BY OneMoreEvent
<1>2. s[i] \in Marks(s)
  BY <1>1, OneMoreEvent DEF Marking
<1> HIDE DEF m
<1>3. CASE j \in 1 .. Len(s) /\ m[j] = s[j]
  BY <1>1, <1>3, <1>m DEF Apart
<1>4. CASE m[j] = e
  BY <1>1, <1>2, <1>4, <1>m
<1> QED
  BY <1>1, <1>3, <1>4

\* More events say more.
LEMMA MoreMarks ==
    ASSUME NEW M, NEW N, M \subseteq N
    PROVE  /\ \A k : Warned(M, k) => Warned(N, k)
           /\ \A k, id : Said(M, k, id) => Said(N, k, id)
           /\ \A id : Overrun(M, id) => Overrun(N, id)
           /\ EndsOf(M) \subseteq EndsOf(N)
BY DEF Warned, Said, Overrun, EndsOf

-----------------------------------------------------------------------------
(* The buffer and the detector.                                            *)

\* The geometry of the buffer.
LEMMA Geometry ==
    /\ max_buffer \in Nat /\ keep_back \in Nat /\ min_tail \in Nat /\ pre_pad \in Nat /\ min_speech \in Nat
    /\ endpoint \in Nat /\ max_buffer > 0 /\ min_speech > 0 /\ endpoint > 0 /\ min_tail <= max_buffer
  BY GeometryAssumption

\* A trim moves the front towards its target, never back and never past the end.
LEMMA TrimFront ==
    ASSUME NEW b \in Buffers, b.trimmed <= b.end, NEW target \in Nat
    PROVE  LET c == trim_front_to(b, target)
           IN  /\ c \in Buffers /\ c.end = b.end /\ c.committed = b.committed
               /\ b.trimmed <= c.trimmed /\ c.trimmed <= b.end
               /\ c.trimmed = b.trimmed \/ c.trimmed <= target
               /\ target <= c.trimmed \/ b.end <= c.trimmed + min_tail
<1> DEFINE x == Larger(b.trimmed, Smaller(target, Minus(b.end, min_tail)))
<1>1. /\ b.trimmed \in Nat /\ b.end \in Nat /\ b.committed \in Nat /\ min_tail \in Nat
      /\ b = [trimmed |-> b.trimmed, end |-> b.end, committed |-> b.committed]
  BY Geometry DEF Buffers
<1>2. /\ x \in Nat /\ b.trimmed <= x /\ x <= b.end /\ (x = b.trimmed \/ x <= target)
      /\ target <= x \/ b.end <= x + min_tail
  BY <1>1 DEF Larger, Smaller, Minus
<1> HIDE DEF x
<1>3. trim_front_to(b, target) = [trimmed |-> x, end |-> b.end, committed |-> b.committed]
  BY <1>1 DEF trim_front_to, x
<1> QED
  BY <1>1, <1>2, <1>3 DEF Buffers

\* The buffer after an utterance that ended at t.
LEMMA AfterEnd ==
    ASSUME buffer \in Buffers, buffer.trimmed <= buffer.end, buffer.committed <= buffer.end, NEW t \in Nat
    PROVE  LET c == AfterUtterance(t)
           IN  /\ c \in Buffers /\ c.end = buffer.end /\ c.committed <= buffer.end
               /\ buffer.trimmed <= c.trimmed /\ c.trimmed <= buffer.end
               /\ buffer.committed <= c.committed
               /\ c.committed = buffer.committed \/ c.committed <= t
               /\ c.trimmed = buffer.trimmed \/ c.trimmed + keep_back <= c.committed
<1> DEFINE w == Larger(buffer.committed, Smaller(t, buffer.end))
           b == [trimmed |-> buffer.trimmed, end |-> buffer.end, committed |-> w]
           target == Minus(w, keep_back)
<1>1. /\ buffer.trimmed \in Nat /\ buffer.end \in Nat /\ buffer.committed \in Nat /\ keep_back \in Nat
      /\ buffer = [trimmed |-> buffer.trimmed, end |-> buffer.end, committed |-> buffer.committed]
  BY Geometry DEF Buffers
<1>2. w \in Nat /\ w <= buffer.end /\ buffer.committed <= w /\ (w = buffer.committed \/ w <= t)
  BY <1>1 DEF Larger, Smaller
<1> HIDE DEF w
<1>3. target \in Nat /\ (target = 0 \/ target + keep_back <= w)
  BY <1>1, <1>2 DEF Minus, Larger
<1>4. b \in Buffers /\ b.trimmed = buffer.trimmed /\ b.end = buffer.end /\ b.committed = w
  BY <1>1, <1>2 DEF Buffers
<1>5. AfterUtterance(t) = trim_front_to(b, target)
  BY <1>1 DEF AfterUtterance, trim_to_committed, set_committed_through, w
<1> HIDE DEF b, target
<1> DEFINE c == trim_front_to(b, target)
<1>6. /\ c \in Buffers /\ c.end = b.end /\ c.committed = b.committed
      /\ b.trimmed <= c.trimmed /\ c.trimmed <= b.end /\ (c.trimmed = b.trimmed \/ c.trimmed <= target)
  BY <1>1, <1>3, <1>4, TrimFront
<1> HIDE DEF c
<1>7. c.trimmed = buffer.trimmed \/ c.trimmed + keep_back <= w
  <2>1. c.trimmed \in Nat
    BY <1>6 DEF Buffers
  <2> QED
    BY <1>1, <1>2, <1>3, <1>4, <1>6, <2>1
<1>8. AfterUtterance(t) = c
  BY <1>5 DEF c
<1> QED
  BY <1>2, <1>4, <1>6, <1>7, <1>8

\* The buffer after the cap: unchanged, or exactly full.
LEMMA AfterCap ==
    ASSUME buffer \in Buffers, buffer.trimmed <= buffer.end, buffer.committed <= buffer.end
    PROVE  LET c == enforce_cap(buffer)
           IN  /\ c \in Buffers /\ c.end = buffer.end /\ c.trimmed <= buffer.end /\ c.committed <= buffer.end
               /\ \/ c.trimmed = buffer.trimmed /\ c.committed = buffer.committed
                  \/ /\ buffer.trimmed < c.trimmed /\ c.trimmed + max_buffer <= buffer.end
                     /\ c.committed = Larger(buffer.committed, c.trimmed)
               /\ buffer.trimmed + max_buffer < buffer.end => buffer.trimmed < c.trimmed
<1> DEFINE target == buffer.trimmed + Minus(buffer.end - buffer.trimmed, max_buffer)
           d == trim_front_to(buffer, target)
           w == IF d.trimmed > buffer.trimmed THEN Larger(d.committed, d.trimmed) ELSE d.committed
<1>1. /\ buffer.trimmed \in Nat /\ buffer.end \in Nat /\ buffer.committed \in Nat /\ max_buffer \in Nat
      /\ min_tail \in Nat /\ min_tail <= max_buffer
  BY Geometry DEF Buffers
<1>2. /\ target \in Nat /\ (target = buffer.trimmed \/ target + max_buffer = buffer.end)
      /\ (buffer.trimmed + max_buffer < buffer.end => target + max_buffer = buffer.end)
  BY <1>1 DEF Minus, Larger
<1> HIDE DEF target
<1>3. /\ d \in Buffers /\ d.end = buffer.end /\ d.committed = buffer.committed
      /\ buffer.trimmed <= d.trimmed /\ d.trimmed <= buffer.end
      /\ d.trimmed = buffer.trimmed \/ d.trimmed <= target
      /\ target <= d.trimmed \/ buffer.end <= d.trimmed + min_tail
  BY <1>2, TrimFront
<1>4. enforce_cap(buffer) = [d EXCEPT !.committed = w]
  BY DEF enforce_cap, target
<1> HIDE DEF d
<1>5. d = [trimmed |-> d.trimmed, end |-> d.end, committed |-> d.committed] /\ d.trimmed \in Nat
  BY <1>3 DEF Buffers
<1>6. w \in Nat /\ w <= buffer.end
  BY <1>1, <1>3, <1>5 DEF Larger
<1>7. enforce_cap(buffer) = [trimmed |-> d.trimmed, end |-> d.end, committed |-> w]
  BY <1>4, <1>5
<1>8. /\ d.trimmed = buffer.trimmed \/ d.trimmed + max_buffer <= buffer.end
      /\ buffer.trimmed + max_buffer < buffer.end => buffer.trimmed < d.trimmed
  BY <1>1, <1>2, <1>3, <1>5
<1>9. \/ d.trimmed = buffer.trimmed /\ w = buffer.committed
      \/ buffer.trimmed < d.trimmed /\ w = Larger(buffer.committed, d.trimmed)
  BY <1>1, <1>3, <1>5
<1> HIDE DEF w
<1> DEFINE r == [trimmed |-> d.trimmed, end |-> d.end, committed |-> w]
<1>10. r \in Buffers
  BY <1>1, <1>3, <1>5, <1>6 DEF Buffers
<1>11. r.trimmed = d.trimmed /\ r.end = buffer.end /\ r.committed = w
  BY <1>3
<1>12. enforce_cap(buffer) = r
  BY <1>7
<1> HIDE DEF r
<1>13. d.trimmed \in Nat /\ buffer.trimmed \in Nat
  BY <1>1, <1>5
<1>14. \/ d.trimmed = buffer.trimmed /\ w = buffer.committed
       \/ /\ buffer.trimmed < d.trimmed /\ d.trimmed + max_buffer <= buffer.end
          /\ w = Larger(buffer.committed, d.trimmed)
  BY <1>8, <1>9, <1>13
<1> QED
  BY <1>3, <1>6, <1>8, <1>10, <1>11, <1>12, <1>14

\* Every nonempty set of numbers has a smallest one.
LEMMA Earliest ==
    ASSUME NEW J, J \subseteq Nat, J # {}
    PROVE  (CHOOSE j \in J : \A i \in J : j <= i) \in J
<1> DEFINE R == OpToRel(<, Nat)
<1>1. R = {ss \in Nat \X Nat : ss[1] < ss[2]}
  BY DEF OpToRel
<1>2. IsWellFoundedOn(R, Nat)
  BY NatLessThanWellFounded
<1> HIDE DEF R
<1>3. PICK j \in J : \A i \in J : ~(<<i, j>> \in R)
  BY <1>2, WFMin
<1>4. ASSUME NEW i \in J PROVE j <= i
  <2>1. i \in Nat /\ j \in Nat
    OBVIOUS
  <2>2. i < j => <<i, j>> \in R
    BY <1>1, <2>1
  <2> QED
    BY <1>3, <2>1, <2>2
<1> QED
  BY <1>4

\* A frame is quiet, or starts speech at some earlier voiced frame less the padding, or ends
\* it where the last voiced frame ended.
LEMMA FrameStep ==
    ASSUME NEW v \in Vads, NEW loud \in BOOLEAN, v.speech => v.onset = {}
    PROVE  LET f == step_frame(v, loud)
               k == v.frames
           IN  /\ f.vad \in Vads /\ f.vad.frames = k + 1
               /\ f.vad.last_voiced_end = (IF loud THEN k + 1 ELSE v.last_voiced_end)
               /\ \/ /\ f.edges = <<>> /\ f.vad.speech = v.speech /\ f.vad.floor = v.floor
                     /\ \A j \in f.vad.onset : j \in v.onset \/ (loud /\ j = k)
                     /\ v.speech => f.vad.onset = {}
                  \/ /\ ~v.speech /\ f.vad.speech /\ f.vad.onset = {} /\ f.vad.floor = v.floor
                     /\ \E j \in v.onset \union {k} :
                           f.edges = <<Edge("SpeechStarted", Larger(Minus(j, pre_pad), v.floor))>>
                  \/ /\ v.speech /\ ~loud /\ ~f.vad.speech /\ f.vad.onset = {}
                     /\ f.vad.floor = v.last_voiced_end
                     /\ f.edges = <<Edge("Endpoint", v.last_voiced_end)>>
<1> DEFINE k == v.frames
           L == IF loud THEN k + 1 ELSE v.last_voiced_end
           onset == {j \in v.onset \union (IF loud THEN {k} ELSE {}) : k - j < 2 * min_speech}
           first == CHOOSE j \in onset : \A i \in onset : j <= i
           run == IF loud THEN 0 ELSE v.run + 1
           t == Larger(Minus(first, pre_pad), v.floor)
           f == step_frame(v, loud)
           Result(u, es) == [vad |-> u, edges |-> es]
<1>1. /\ k \in Nat /\ v.last_voiced_end \in Nat /\ v.run \in Nat /\ v.floor \in Nat /\ v.onset \subseteq Nat
      /\ v.speech \in BOOLEAN
  BY DEF Vads
<1>2. /\ L \in Nat /\ run \in Nat /\ onset \subseteq Nat /\ k + 1 \in Nat
      /\ onset \subseteq v.onset \union (IF loud THEN {k} ELSE {})
  BY <1>1
<1>5. loud => k \in onset
  BY <1>1, Geometry
<1> HIDE DEF onset
<1>6. loud => first \in onset
  BY <1>2, <1>5, Earliest
<1> HIDE DEF L, run, first
<1> DEFINE h == [v EXCEPT !.frames = k + 1, !.last_voiced_end = L]
<1>h. /\ h \in Vads /\ h.frames = k + 1 /\ h.speech = v.speech /\ h.onset = v.onset
      /\ h.last_voiced_end = L /\ h.floor = v.floor
  BY <1>1, <1>2 DEF Vads
<1>4. f = IF ~v.speech
          THEN IF loud /\ Cardinality(onset) >= min_speech
               THEN Result([h EXCEPT !.speech = TRUE, !.run = 0, !.onset = {}], <<Edge("SpeechStarted", t)>>)
               ELSE Result([h EXCEPT !.onset = onset], <<>>)
          ELSE IF run >= endpoint
               THEN Result([h EXCEPT !.speech = FALSE, !.run = 0, !.onset = {}, !.floor = v.last_voiced_end],
                           <<Edge("Endpoint", v.last_voiced_end)>>)
               ELSE Result([h EXCEPT !.run = run], <<>>)
  BY Zenon DEF step_frame, L, onset, run, first
<1> HIDE DEF h, t, f
<1> DEFINE start == [h EXCEPT !.speech = TRUE, !.run = 0, !.onset = {}]
           wait == [h EXCEPT !.onset = onset]
           end == [h EXCEPT !.speech = FALSE, !.run = 0, !.onset = {}, !.floor = v.last_voiced_end]
           talk == [h EXCEPT !.run = run]
<1>p. /\ start \in Vads /\ start.frames = k + 1 /\ start.speech = TRUE /\ start.onset = {}
      /\ start.last_voiced_end = L /\ start.floor = v.floor
  BY <1>h DEF Vads
<1>q. /\ wait \in Vads /\ wait.frames = k + 1 /\ wait.speech = v.speech /\ wait.onset = onset
      /\ wait.last_voiced_end = L /\ wait.floor = v.floor
  BY <1>2, <1>h DEF Vads
<1>r. /\ end \in Vads /\ end.frames = k + 1 /\ end.speech = FALSE /\ end.onset = {}
      /\ end.last_voiced_end = L /\ end.floor = v.last_voiced_end
  BY <1>1, <1>h DEF Vads
<1>s. /\ talk \in Vads /\ talk.frames = k + 1 /\ talk.speech = v.speech /\ talk.onset = v.onset
      /\ talk.last_voiced_end = L /\ talk.floor = v.floor
  BY <1>2, <1>h DEF Vads
<1>e. f = IF ~v.speech
          THEN IF loud /\ Cardinality(onset) >= min_speech
               THEN Result(start, <<Edge("SpeechStarted", t)>>) ELSE Result(wait, <<>>)
          ELSE IF run >= endpoint
               THEN Result(end, <<Edge("Endpoint", v.last_voiced_end)>>) ELSE Result(talk, <<>>)
  BY <1>4
<1> HIDE DEF start, wait, end, talk
<1>7. CASE ~v.speech /\ loud /\ Cardinality(onset) >= min_speech
  <2>1. f.vad = start /\ f.edges = <<Edge("SpeechStarted", t)>>
    BY <1>7, <1>e
  <2>2. first \in v.onset \union {k}
    BY <1>2, <1>6, <1>7
  <2>3. \E j \in v.onset \union {k} : f.edges = <<Edge("SpeechStarted", Larger(Minus(j, pre_pad), v.floor))>>
    BY <2>1, <2>2, Zenon DEF t
  <2> QED
    BY <1>7, <1>p, <2>1, <2>3 DEF L, f
<1>8. CASE ~v.speech /\ ~(loud /\ Cardinality(onset) >= min_speech)
  <2>1. f.vad = wait /\ f.edges = <<>>
    BY <1>8, <1>e
  <2>2. \A j \in onset : j \in v.onset \/ (loud /\ j = k)
    BY <1>2
  <2> QED
    BY <1>8, <1>q, <2>1, <2>2 DEF L, f
<1>9. CASE v.speech /\ run >= endpoint
  <2>1. f.vad = end /\ f.edges = <<Edge("Endpoint", v.last_voiced_end)>>
    BY <1>9, <1>e
  <2>2. ~loud
    BY <1>9, Geometry DEF run
  <2> QED
    BY <1>9, <1>r, <2>1, <2>2 DEF L, f
<1>10. CASE v.speech /\ ~(run >= endpoint)
  <2>1. f.vad = talk /\ f.edges = <<>>
    BY <1>10, <1>e
  <2> QED
    BY <1>10, <1>s, <2>1 DEF L, f
<1> QED
  BY <1>7, <1>8, <1>9, <1>10

-----------------------------------------------------------------------------
(* What the steps of a session say of the audio.                           *)

\* A step that says nothing of the audio.
SaysNothing ==
    /\ Marks(trail') = Marks(trail)
    /\ PastReported(trail) => PastReported(trail')
    /\ Apart(trail) => Apart(trail')

\* An event that accounts for no audio.
LEMMA Unmarked ==
    ASSUME \E T : trail \in Seq(T), NEW e, e.kind \notin Marking, trail' = Append(trail, e)
    PROVE  SaysNothing
<1>1. e.kind # "delta"
  BY DEF Marking
<1>2. Marks(Append(trail, e)) = Marks(trail)
  BY MarksAppend
<1>3. PastReported(trail) => PastReported(Append(trail, e))
  BY <1>1, PastAppend
<1>4. Apart(trail) => Apart(Append(trail, e))
  BY <1>1, ApartAppend
<1> QED
  BY <1>2, <1>3, <1>4 DEF SaysNothing

\* The kinds of the events that account for no audio.
LEMMA UnmarkedKinds ==
    /\ \A kind \in {"session_start", "session_stats", "persist_degraded"} : Note(kind).kind \notin Marking
    /\ \A id, t : SpeechStarted(id, t).kind \notin Marking
  BY DEF Note, SpeechStarted, Event, Marking

\* Steps that say nothing of the audio.
LEMMA SayNothing ==
    ASSUME LifeInv, UNCHANGED trail \/ SessionStart \/ Reopen \/ Close \/ Store
    PROVE  SaysNothing
<1>0. \E T : trail \in Seq(T)
  BY DEF LifeInv, Life
<1>1. CASE UNCHANGED trail
  BY <1>1 DEF SaysNothing
<1>2. CASE SessionStart
  <2> DEFINE d == Note("session_start")
             e == Note("persist_degraded")
  <2>1. trail' = trail \o (<<d>> \o IF call = "degraded" THEN <<e>> ELSE <<>>)
    BY <1>2 DEF SessionStart, Emit
  <2>2. d.kind \notin Marking /\ e.kind \notin Marking
    BY UnmarkedKinds
  <2> HIDE DEF d, e
  <2>3. trail' = Append(trail, d) \/ trail' = Append(Append(trail, d), e)
    BY <1>0, <2>1, Concats
  <2>4. CASE trail' = Append(trail, d)
    BY <1>0, <2>2, <2>4, Unmarked
  <2>5. CASE trail' = Append(Append(trail, d), e)
    <3> DEFINE s == Append(trail, d)
    <3>1. d.kind # "delta" /\ e.kind # "delta"
      BY <2>2 DEF Marking
    <3>2. /\ \E T : s \in Seq(T)
          /\ Marks(s) = Marks(trail)
      BY <1>0, <2>2, MarksAppend, OneMore
    <3>3. (PastReported(trail) => PastReported(s)) /\ (Apart(trail) => Apart(s))
      BY <1>0, <3>1, PastAppend, ApartAppend
    <3>4. trail' = Append(s, e)
      BY <2>5
    <3> HIDE DEF s
    <3>5. Marks(trail') = Marks(s)
      BY <2>2, <3>2, <3>4, MarksAppend
    <3>6. (PastReported(s) => PastReported(trail')) /\ (Apart(s) => Apart(trail'))
      BY <3>1, <3>2, <3>4, PastAppend, ApartAppend
    <3> QED
      BY <3>2, <3>3, <3>5, <3>6 DEF SaysNothing
  <2> QED
    BY <2>3, <2>4, <2>5
<1>3. CASE Reopen
  <2> DEFINE e == SpeechStarted(utt.id + 1, buffer.end)
  <2>1. trail' = trail \o <<e>> /\ e.kind \notin Marking
    BY <1>3, UnmarkedKinds DEF Reopen, Emit
  <2> HIDE DEF e
  <2> QED
    BY <1>0, <2>1, Concats, Unmarked
<1>4. CASE Close
  <2> DEFINE e == Note("session_stats")
  <2>1. trail' = trail \o <<e>> /\ e.kind \notin Marking
    BY <1>4, UnmarkedKinds DEF Close, Emit
  <2> HIDE DEF e
  <2> QED
    BY <1>0, <2>1, Concats, Unmarked
<1>5. CASE Store
  <2> DEFINE e == Note("persist_degraded")
  <2>1. (trail' = Append(trail, e) \/ trail' = trail) /\ e.kind \notin Marking
    BY <1>5, UnmarkedKinds DEF Store
  <2> HIDE DEF e
  <2>2. CASE trail' = Append(trail, e)
    BY <1>0, <2>1, <2>2, Unmarked
  <2>3. CASE trail' = trail
    BY <2>3 DEF SaysNothing
  <2> QED
    BY <2>1, <2>2, <2>3
<1> QED
  BY <1>1, <1>2, <1>3, <1>4, <1>5

\* An utterance that has not started yet has no deltas.
LEMMA DeltaIds ==
    ASSUME LifeInv
    PROVE  \A e \in Marks(trail) : e.kind = "delta" => e.id \in 1 .. utt.id
<1> SUFFICES ASSUME NEW e \in Marks(trail), e.kind = "delta" PROVE e.id \in 1 .. utt.id
  OBVIOUS
<1>1. PICK i \in 1 .. Len(trail) : e = trail[i]
  BY DEF Marks
<1>2. /\ OpenIn(trail, i - 1) = {e.id} /\ i - 1 \in Nat /\ i - 1 <= Len(trail)
  BY <1>1 DEF LifeInv, Life
<1>3. PICK j \in Starts(trail, i - 1) : trail[j].id = e.id
  BY <1>2 DEF OpenIn
<1>4. j \in 1 .. Len(trail) /\ trail[j].kind = "speech_started"
  BY <1>2, <1>3 DEF Starts
<1> QED
  BY <1>3, <1>4 DEF LifeInv, Life

\* What is in the window of a decode.
LEMMA WindowIs ==
    \A t, k : k \in window_from(t) <=> k \in voiced /\ k >= t /\ k >= buffer.trimmed
  BY DEF window_from

\* What an utterance says when it is closed.
LEMMA CloseSays ==
    ASSUME LifeInv, NEW t1, CloseUtterance(t1)
    PROVE  LET t == window_from(slice_from)
               d == Event("delta", utt.id, t, slice_from, t1)
               e == Event("utterance_end", utt.id, {}, utt.t0, t1)
           IN  /\ Marks(trail') = Marks(trail) \union (IF t = {} THEN {} ELSE {d}) \union {e}
               /\ PastReported(trail) /\ (\A x \in EndsOf(Marks(trail)) : \A k \in t : k >= x.t1)
                     => PastReported(trail')
               /\ Apart(trail) /\ (\/ Overrun(Marks(trail), utt.id)
                                   \/ \A x \in Marks(trail) : x.kind = "delta" /\ x.id = utt.id => \A k \in x.text : k \notin t)
                     => Apart(trail')
<1> DEFINE t == window_from(slice_from)
           d == Event("delta", utt.id, t, slice_from, t1)
           e == Event("utterance_end", utt.id, {}, utt.t0, t1)
           N == Marks(trail) \union (IF t = {} THEN {} ELSE {d}) \union {e}
           P == \A x \in EndsOf(Marks(trail)) : \A k \in t : k >= x.t1
           A == \/ Overrun(Marks(trail), utt.id)
                \/ \A x \in Marks(trail) : x.kind = "delta" /\ x.id = utt.id => \A k \in x.text : k \notin t
<1>1. trail' = trail \o ((IF t = {} THEN <<>> ELSE <<d>>) \o <<e>>)
  BY DEF CloseUtterance, Emit, Delta
<1>2. /\ d.kind = "delta" /\ d.id = utt.id /\ d.text = t /\ e.kind = "utterance_end"
      /\ \E T : trail \in Seq(T)
  BY DEF LifeInv, Life, Event
<1>3. d.kind \in Marking /\ e.kind \in Marking /\ e.kind # "delta"
  BY <1>2 DEF Marking
<1> SUFFICES /\ Marks(trail') = N
             /\ PastReported(trail) /\ P => PastReported(trail')
             /\ Apart(trail) /\ A => Apart(trail')
  OBVIOUS
<1> HIDE DEF t, d, e
<1>4. CASE t = {}
  <2>1. trail' = Append(trail, e)
    BY <1>1, <1>2, <1>4, Concats
  <2>2. Marks(trail') = Marks(trail) \union {e}
    BY <1>2, <1>3, <2>1, MarksAppend
  <2>3. (PastReported(trail) => PastReported(trail')) /\ (Apart(trail) => Apart(trail'))
    BY <1>2, <1>3, <2>1, PastAppend, ApartAppend
  <2> QED
    BY <1>4, <2>2, <2>3
<1>5. CASE t # {}
  <2> DEFINE s == Append(trail, d)
  <2>1. trail' = Append(s, e)
    BY <1>1, <1>2, <1>5, Concats
  <2>2. (\E T : s \in Seq(T)) /\ Marks(s) = Marks(trail) \union {d}
    BY <1>2, <1>3, MarksAppend, OneMore
  <2>3. (PastReported(trail) /\ P => PastReported(s)) /\ (Apart(trail) /\ A => Apart(s))
    BY <1>2, PastAppend, ApartAppend
  <2> HIDE DEF s, P, A
  <2>4. Marks(trail') = Marks(s) \union {e}
    BY <1>3, <2>1, <2>2, MarksAppend
  <2>5. (PastReported(s) => PastReported(trail')) /\ (Apart(s) => Apart(trail'))
    BY <1>3, <2>1, <2>2, PastAppend, ApartAppend
  <2>6. Marks(trail') = N
    BY <1>5, <2>2, <2>4
  <2> QED
    BY <2>3, <2>5, <2>6
<1> QED
  BY <1>4, <1>5

-----------------------------------------------------------------------------
(* What is voiced is heard.                                                *)

\* The numbers of a session.
LEMMA Numbers ==
    ASSUME Shape
    PROVE  /\ buffer.trimmed \in Nat /\ buffer.end \in Nat /\ buffer.committed \in Nat
           /\ buffer.trimmed <= buffer.end /\ buffer.committed <= buffer.end
           /\ slice_from \in Nat /\ utt.t0 \in Nat /\ utt.t0 <= slice_from
           /\ \A k \in voiced : k \in Nat /\ k < buffer.end
  BY DEF Shape, Buffers, slice_from

LEMMA DetectorNumbers ==
    ASSUME Detector
    PROVE  /\ vad.frames \in Nat /\ vad.floor \in Nat /\ vad.last_voiced_end \in Nat
           /\ vad.floor <= vad.last_voiced_end /\ vad.last_voiced_end <= vad.frames
           /\ vad.speech \in BOOLEAN /\ vad.onset \subseteq Nat
           /\ \A j \in vad.onset : j \in Nat /\ vad.floor <= j /\ j < vad.frames
  BY DEF Detector, Vads

\* The first of the edges and the rest.
LEMMA EdgesSplit ==
    ASSUME edges \in Seq(Edges), edges # <<>>
    PROVE  /\ Tail(edges) \in Seq(Edges) /\ Len(edges) \in Nat /\ Len(edges) > 0 /\ 1 \in 1 .. Len(edges)
           /\ Len(Tail(edges)) = Len(edges) - 1
           /\ Head(edges) = edges[1] /\ edges[1] \in Edges
           /\ \A p \in 1 .. Len(Tail(edges)) : Tail(edges)[p] = edges[p + 1] /\ p + 1 \in 1 .. Len(edges)
  OBVIOUS

\* Steps that only move the loop on, or drop the edges when it ends.
LEMMA CalmHeard ==
    ASSUME HeardInv, SaysNothing, UNCHANGED <<vad_enabled, buffer, vad, voiced, utt>>,
           edges' = edges \/ (edges' = <<>> /\ ~Following'),
           stopping' \in BOOLEAN, at' \in Places, at' \notin {"frames", "edges"} => edges' = <<>>,
           at' = "frames" <=> at = "frames", Going' => Going, Following' => Following, Speaking' => Speaking
    PROVE  HeardInv'
<1>1. /\ Shape /\ Detector /\ InStep /\ Queued /\ Quiet /\ Watermark /\ EndsKnown /\ OpenKept
      /\ PastReported(trail) /\ Heard /\ Marks(trail') = Marks(trail) /\ PastReported(trail')
  BY DEF HeardInv, SaysNothing
<1>2. /\ UNCHANGED <<vad_enabled, buffer, vad, voiced, utt>>
      /\ edges' = edges \/ (edges' = <<>> /\ ~Following')
      /\ slice_from' = slice_from
  BY DEF slice_from
<1>3. Shape'
  <2>0. <<>> \in Seq(Edges) /\ edges \in Seq(Edges)
    BY <1>1 DEF Shape
  <2>1. edges' \in Seq(Edges)
    BY <1>2, <2>0
  <2> QED
    BY <1>1, <1>2, <2>1 DEF Shape
<1>4. Detector'
  BY <1>1, <1>2 DEF Detector
<1>5. InStep'
  <2>1. CASE edges' = edges
    BY <1>1, <1>2, <2>1 DEF InStep, Alternate
  <2>2. CASE edges' = <<>> /\ ~Following'
    BY <1>1, <1>2, <2>2 DEF InStep
  <2> QED
    BY <1>2, <2>1, <2>2
<1>6. Queued'
  <2>1. CASE edges' = edges
    BY <1>1, <1>2, <2>1 DEF Queued
  <2>2. CASE edges' = <<>>
    BY <2>2 DEF Queued
  <2> QED
    BY <1>2, <2>1, <2>2
<1>7. Quiet' /\ Watermark' /\ EndsKnown' /\ Heard'
  BY <1>1, <1>2 DEF Quiet, Watermark, EndsKnown, Heard
<1>8. OpenKept'
  BY <1>1, <1>2 DEF OpenKept
<1> QED
  BY <1>1, <1>3, <1>4, <1>5, <1>6, <1>7, <1>8 DEF HeardInv

\* What saying more leaves true.
LEMMA BeginsMore ==
    ASSUME NEW M, NEW N, M \subseteq N, EndsOf(N) = EndsOf(M), NEW V, NEW b, NEW t, Begins(M, V, b, t)
    PROVE  Begins(N, V, b, t)
  BY MoreMarks DEF Begins, PastEnds, KeptFrom

\* An utterance may start at t or later, once another has ended before.
LEMMA BeginsAfter ==
    ASSUME Shape, Watermark, EndsKnown, NEW t \in Nat, NEW t1 \in Nat, t1 <= t,
           Begins(Marks(trail), voiced, buffer, t),
           Marks(trail) \subseteq Marks(trail'),
           \A x \in EndsOf(Marks(trail')) : x \in EndsOf(Marks(trail)) \/ x.t1 = t1
    PROVE  Begins(Marks(trail'), voiced, AfterUtterance(t1), t)
<1> DEFINE c == AfterUtterance(t1)
<1>1. PastEnds(Marks(trail'), voiced, t)
  <2> SUFFICES ASSUME NEW x \in EndsOf(Marks(trail')), NEW k \in voiced, k >= t PROVE k >= x.t1
    BY DEF PastEnds
  <2>1. CASE x \in EndsOf(Marks(trail))
    BY <2>1 DEF Begins, PastEnds
  <2>2. CASE x.t1 = t1
    BY <2>2, Numbers
  <2> QED
    BY <2>1, <2>2
<1>2. /\ c \in Buffers /\ c.end = buffer.end
      /\ c.committed = buffer.committed \/ c.committed <= t1
      /\ c.trimmed = buffer.trimmed \/ c.trimmed + keep_back <= c.committed
  BY AfterEnd DEF Shape
<1>3. c.trimmed \in Nat /\ c.committed \in Nat /\ keep_back \in Nat
  BY <1>2, Geometry DEF Buffers
<1> HIDE DEF c
<1>4. ASSUME NEW k \in voiced, t <= k, k < c.trimmed PROVE Warned(Marks(trail'), k)
  <2>1. k \in Nat /\ buffer.trimmed \in Nat /\ buffer.committed \in Nat
    BY Numbers
  <2>2. CASE k < buffer.trimmed
    BY <1>4, <2>2, MoreMarks DEF Begins, KeptFrom
  <2>3. CASE ~(k < buffer.trimmed)
    <3>1. k < c.committed /\ c.trimmed # buffer.trimmed
      BY <1>2, <1>3, <1>4, <2>1, <2>3
    <3>2. c.committed = buffer.committed
      BY <1>2, <1>3, <1>4, <2>1, <3>1
    <3>3. ~(buffer.committed <= buffer.trimmed)
      BY <2>1, <2>3, <3>1, <3>2
    <3>4. PICK e \in EndsOf(Marks(trail)) : buffer.committed <= e.t1
      BY <3>3 DEF Watermark
    <3>5. k >= e.t1 /\ e.t1 \in Nat
      BY <1>4, <3>4, <2>1 DEF Begins, PastEnds, EndsKnown
    <3> QED
      BY <2>1, <3>1, <3>2, <3>4, <3>5
  <2> QED
    BY <2>2, <2>3
<1> QED
  BY <1>1, <1>4 DEF Begins, KeptFrom, c

\* The watermark after an utterance.
LEMMA WatermarkAfter ==
    ASSUME Shape, Watermark, NEW t1 \in Nat, buffer' = AfterUtterance(t1),
           EndsOf(Marks(trail)) \subseteq EndsOf(Marks(trail')), \E x \in EndsOf(Marks(trail')) : x.t1 = t1
    PROVE  Watermark'
<1> DEFINE c == AfterUtterance(t1)
<1>1. /\ c \in Buffers /\ buffer.trimmed <= c.trimmed
      /\ c.committed = buffer.committed \/ c.committed <= t1
  BY AfterEnd DEF Shape
<1> HIDE DEF c
<1>2. c.trimmed \in Nat /\ c.committed \in Nat /\ buffer.trimmed \in Nat
  BY <1>1, Numbers DEF Buffers
<1>3. buffer' = c
  BY DEF c
<1>4. CASE c.committed <= t1
  BY <1>3, <1>4 DEF Watermark
<1>5. CASE c.committed = buffer.committed
  BY <1>1, <1>2, <1>3, <1>5 DEF Watermark
<1> QED
  BY <1>1, <1>4, <1>5

\* Closing the open utterance at t1: all of it is in its deltas or was reported lost.
LEMMA CloseHeard ==
    ASSUME LifeInv, HeardInv, Speaking, NEW t1 \in Nat, CloseUtterance(t1), t1 <= buffer.end,
           vad_enabled => t1 <= vad.frames,
           UNCHANGED <<vad_enabled, voiced, vad>>, buffer'.end = buffer.end
    PROVE  /\ Marks(trail) \subseteq Marks(trail')
           /\ EndsOf(Marks(trail)) \subseteq EndsOf(Marks(trail'))
           /\ \A x \in EndsOf(Marks(trail')) : x \in EndsOf(Marks(trail)) \/ x.t1 = t1
           /\ \E x \in EndsOf(Marks(trail')) : x.t1 = t1
           /\ EndsKnown' /\ Heard' /\ PastReported(trail')
<1> DEFINE t == window_from(slice_from)
           d == Event("delta", utt.id, t, slice_from, t1)
           e == Event("utterance_end", utt.id, {}, utt.t0, t1)
           M == Marks(trail)
           N == Marks(trail')
<1>1. /\ N = M \union (IF t = {} THEN {} ELSE {d}) \union {e}
      /\ PastReported(trail) /\ (\A x \in EndsOf(M) : \A k \in t : k >= x.t1) => PastReported(trail')
  BY CloseSays
<1>2. /\ d.kind = "delta" /\ d.id = utt.id /\ d.text = t
      /\ e.kind = "utterance_end" /\ e.id = utt.id /\ e.t0 = utt.t0 /\ e.t1 = t1
  BY DEF Event
<1>3. \A k : k \in t <=> k \in voiced /\ k >= slice_from /\ k >= buffer.trimmed
  BY WindowIs
<1>n. /\ Shape /\ OpenKept /\ EndsKnown /\ Heard /\ PastReported(trail)
  BY DEF HeardInv
<1> HIDE DEF t, d, e, M, N
<1>4. M \subseteq N /\ e \in N /\ (t # {} => d \in N) /\ \A x \in N : x \in M \/ x = d \/ x = e
  BY <1>1
<1>5. /\ EndsOf(M) \subseteq EndsOf(N) /\ e \in EndsOf(N)
      /\ \A x \in EndsOf(N) : x \in EndsOf(M) \/ x = e
  BY <1>2, <1>4 DEF EndsOf
<1>6. PastReported(trail')
  <2>1. ASSUME NEW x \in EndsOf(M), NEW k \in t PROVE k >= x.t1
    <3>1. k \in voiced /\ k >= utt.t0
      BY <1>3, <1>n, Numbers
    <3> QED
      BY <1>n, <3>1 DEF OpenKept, PastEnds, M
  <2> QED
    BY <1>1, <1>n, <2>1
<1>7. EndsKnown'
  <2> SUFFICES ASSUME NEW x \in EndsOf(N)
               PROVE  x.t1 \in Nat /\ x.t1 <= buffer'.end /\ (vad_enabled' => x.t1 <= vad'.frames)
    BY DEF EndsKnown, N
  <2> QED
    BY <1>2, <1>5, <1>n DEF EndsKnown, M
<1>8. Heard'
  <2> SUFFICES ASSUME NEW x \in EndsOf(N), NEW k \in voiced, x.t0 <= k, k < x.t1
               PROVE  Warned(N, k) \/ Said(N, k, x.id)
    BY DEF Heard, N
  <2>1. CASE x \in EndsOf(M)
    BY <1>4, <1>n, <2>1, MoreMarks DEF Heard, M
  <2>2. CASE x = e /\ (k < slice_from \/ k < buffer.trimmed)
    <3>1. utt.t0 <= k /\ x.id = utt.id
      BY <1>2, <2>2
    <3>2. Warned(M, k) \/ Said(M, k, utt.id)
      BY <1>n, <2>2, <3>1 DEF OpenKept, M
    <3> QED
      BY <1>4, <3>1, <3>2, MoreMarks
  <2>3. CASE x = e /\ ~(k < slice_from \/ k < buffer.trimmed)
    <3>1. k \in t
      BY <1>3, <1>n, <2>3, Numbers
    <3> QED
      BY <1>2, <1>4, <2>3, <3>1 DEF Said
  <2> QED
    BY <1>5, <2>1, <2>2, <2>3
<1> QED
  BY <1>2, <1>4, <1>5, <1>6, <1>7, <1>8 DEF M, N

\* The end of the session closes its utterance.
LEMMA TerminateHeard ==
    ASSUME LifeInv, HeardInv, Terminate, utt.in_speech
    PROVE  HeardInv'
<1>1. /\ at = "top" /\ at' = "closing" /\ CloseUtterance(buffer.end)
      /\ UNCHANGED <<vad_enabled, buffer, vad, edges, voiced, utt, stopping>>
  BY DEF Terminate, audio
<1>2. /\ Shape /\ Detector /\ InStep /\ Queued /\ Watermark
      /\ edges = <<>> /\ (vad_enabled => vad.frames = buffer.end)
  BY <1>1 DEF HeardInv, Shape, Detector
<1>3. /\ Marks(trail) \subseteq Marks(trail') /\ EndsOf(Marks(trail)) \subseteq EndsOf(Marks(trail'))
      /\ EndsKnown' /\ Heard' /\ PastReported(trail')
  <2>1. Speaking /\ buffer.end \in Nat /\ buffer'.end = buffer.end
    BY <1>1, <1>2, Numbers DEF Speaking
  <2> QED
    BY <1>1, <1>2, <2>1, CloseHeard
<1>4. ~Going' /\ ~Following' /\ ~Speaking' /\ edges' = <<>>
  BY <1>1, <1>2 DEF Going, Following, Speaking
<1>5. Shape'
  BY <1>1, <1>2 DEF Shape, Places
<1>6. Detector'
  BY <1>1, <1>2 DEF Detector
<1>7. InStep'
  BY <1>1, <1>2, <1>4 DEF InStep
<1>8. Queued' /\ Quiet' /\ OpenKept'
  BY <1>4 DEF Queued, Quiet, OpenKept
<1>9. Watermark'
  BY <1>1, <1>2, <1>3 DEF Watermark
<1> QED
  BY <1>3, <1>5, <1>6, <1>7, <1>8, <1>9 DEF HeardInv

\* A timeout closes the utterance where the audio ends.
LEMMA TimeoutHeard ==
    ASSUME LifeInv, HeardInv, at = "edges", edges = <<>>, utt.in_speech, CloseUtterance(buffer.end),
           buffer' = AfterUtterance(buffer.end), at' = "reopen",
           UNCHANGED <<vad_enabled, vad, edges, voiced, utt, stopping>>
    PROVE  HeardInv'
<1>1. /\ Shape /\ Detector /\ InStep /\ Watermark /\ Going /\ Following /\ Speaking
      /\ (vad_enabled => vad.frames = buffer.end) /\ buffer.end \in Nat
  BY Numbers DEF HeardInv, Detector, Going, Following, Speaking
<1>2. /\ buffer' \in Buffers /\ buffer'.end = buffer.end /\ buffer'.committed <= buffer.end
      /\ buffer'.trimmed <= buffer.end
  BY <1>1, AfterEnd DEF Shape
<1>3. /\ EndsOf(Marks(trail)) \subseteq EndsOf(Marks(trail')) /\ \E x \in EndsOf(Marks(trail')) : x.t1 = buffer.end
      /\ EndsKnown' /\ Heard' /\ PastReported(trail')
  BY <1>1, <1>2, CloseHeard
<1>4. ~Speaking' /\ Following' /\ Going'
  BY DEF Speaking, Following, Going
<1>5. Shape'
  BY <1>1, <1>2 DEF Shape, Places
<1>6. Detector'
  BY <1>1, <1>2 DEF Detector
<1>7. InStep'
  <2>1. (vad_enabled /\ Following => Alternate)'
    BY <1>1 DEF InStep, Alternate
  <2>2. \A p \in 1 .. Len(edges) : FALSE
    OBVIOUS
  <2> QED
    BY <1>1, <2>1, <2>2 DEF InStep
<1>8. vad_enabled => vad.speech
  BY <1>1 DEF InStep, Alternate
<1>9. Queued' /\ Quiet' /\ OpenKept'
  BY <1>4, <1>8 DEF Queued, Quiet, OpenKept
<1>10. Watermark'
  BY <1>1, <1>3, WatermarkAfter DEF HeardInv
<1> QED
  BY <1>3, <1>5, <1>6, <1>7, <1>9, <1>10 DEF HeardInv

\* The edges left once the first is handled.
LEMMA RestOfEdges ==
    ASSUME Shape, InStep, Detector, at = "edges", edges # <<>>, NEW u \in BOOLEAN,
           u <=> Head(edges).kind = "SpeechStarted", utt'.in_speech = u,
           edges' = Tail(edges), at' = at, UNCHANGED <<vad_enabled, vad, stopping>>, buffer'.end = buffer.end,
           ~vad_enabled => utt'.in_speech
    PROVE  InStep'
<1>0. /\ Len(edges') = Len(edges) - 1 /\ Len(edges) \in Nat /\ Len(edges) > 0
      /\ edges' \in Seq(Edges) /\ edges[1] \in Edges /\ Head(edges) = edges[1]
      /\ \A p \in 1 .. Len(edges') : edges'[p] = edges[p + 1] /\ p + 1 \in 1 .. Len(edges)
  BY EdgesSplit DEF Shape
<1>1. Following /\ Following'
  BY DEF Following, Going
<1>2. ASSUME vad_enabled PROVE Alternate'
  <2>1. /\ edges[1].kind = "Endpoint" <=> utt.in_speech
        /\ edges[Len(edges)].kind = "SpeechStarted" <=> vad.speech
        /\ \A p \in 1 .. Len(edges) - 1 : edges[p].kind # edges[p + 1].kind
    BY <1>1, <1>2 DEF InStep, Alternate
  <2>2. edges[1].kind \in {"SpeechStarted", "Endpoint"} /\ (u <=> edges[1].kind = "SpeechStarted")
    BY <1>0 DEF Edges
  <2>3. ASSUME edges' = <<>> PROVE u <=> vad.speech
    <3>0. Len(edges') = 0
      <4>1. Len(<<>>) = 0
        OBVIOUS
      <4> QED
        BY <2>3, <4>1, Zenon
    <3>1. Len(edges) = 1
      BY <1>0, <3>0
    <3> QED
      BY <2>1, <2>2, <3>1
  <2>4. ASSUME edges' # <<>>
        PROVE  /\ edges'[1].kind = "Endpoint" <=> u
               /\ edges'[Len(edges')].kind = "SpeechStarted" <=> vad.speech
    <3>1. Len(edges') \in Nat /\ Len(edges') > 0
      BY <1>0, <2>4
    <3>2. 1 \in 1 .. Len(edges') /\ Len(edges') \in 1 .. Len(edges') /\ 1 \in 1 .. Len(edges) - 1
      BY <1>0, <3>1
    <3>3. edges'[1] = edges[2] /\ edges'[Len(edges')] = edges[Len(edges)] /\ edges[2] \in Edges
      <4>1. edges'[1] = edges[2] /\ 2 \in 1 .. Len(edges)
        BY <1>0, <3>2
      <4>2. edges'[Len(edges')] = edges[Len(edges') + 1] /\ Len(edges') + 1 = Len(edges)
        BY <1>0, <3>2
      <4> QED
        BY <4>1, <4>2 DEF Shape
    <3>4. edges[1].kind # edges[2].kind /\ edges[2].kind \in {"SpeechStarted", "Endpoint"}
      BY <2>1, <3>2, <3>3 DEF Edges
    <3> DEFINE k1 == edges[1].kind
               k2 == edges[2].kind
    <3>a. k1 \in {"SpeechStarted", "Endpoint"} /\ k2 \in {"SpeechStarted", "Endpoint"} /\ k1 # k2
      BY <2>2, <3>4
    <3>b. edges'[1].kind = k2 /\ (u <=> k1 = "SpeechStarted")
      BY <2>2, <3>3
    <3> HIDE DEF k1, k2
    <3>c. k2 = "Endpoint" <=> k1 = "SpeechStarted"
      BY <3>a
    <3>5. edges'[1].kind = "Endpoint" <=> u
      BY <3>b, <3>c
    <3>6. edges'[Len(edges')].kind = "SpeechStarted" <=> vad.speech
      BY <2>1, <3>3
    <3> QED
      BY <3>5, <3>6
  <2>5. \A p \in 1 .. Len(edges') - 1 : edges'[p].kind # edges'[p + 1].kind
    <3> SUFFICES ASSUME NEW p \in 1 .. Len(edges') - 1 PROVE edges'[p].kind # edges'[p + 1].kind
      OBVIOUS
    <3>1. p \in 1 .. Len(edges') /\ p + 1 \in 1 .. Len(edges') /\ p + 1 \in 1 .. Len(edges) - 1
      BY <1>0
    <3>2. edges'[p] = edges[p + 1] /\ edges'[p + 1] = edges[(p + 1) + 1]
      BY <1>0, <3>1
    <3> QED
      BY <2>1, <3>1, <3>2
  <2> QED
    BY <2>3, <2>4, <2>5 DEF Alternate
<1>3. \A p \in 1 .. Len(edges') : /\ edges'[p].t <= buffer'.end
                                  /\ edges'[p].kind = "Endpoint" => edges'[p].t <= vad.floor
  BY <1>0 DEF InStep
<1>4. ASSUME NEW p \in 1 .. Len(edges'), NEW q \in 1 .. Len(edges'), p < q, edges'[p].kind = "Endpoint"
      PROVE  edges'[p].t <= edges'[q].t
  <2>1. /\ edges'[p] = edges[p + 1] /\ edges'[q] = edges[q + 1] /\ p + 1 < q + 1
        /\ p + 1 \in 1 .. Len(edges) /\ q + 1 \in 1 .. Len(edges)
    BY <1>0, <1>4
  <2> QED
    BY <1>4, <2>1 DEF InStep
<1>5. ~vad_enabled => edges' = <<>>
  BY <1>0 DEF InStep
<1> QED
  BY <1>1, <1>2, <1>3, <1>4, <1>5 DEF InStep

\* An endpoint closes the utterance.
LEMMA EndpointHeard ==
    ASSUME LifeInv, HeardInv, at = "edges", edges # <<>>, Head(edges).kind = "Endpoint",
           utt.in_speech, CloseUtterance(Head(edges).t), buffer' = AfterUtterance(Head(edges).t),
           utt' = [utt EXCEPT !.in_speech = FALSE], edges' = Tail(edges),
           UNCHANGED <<vad_enabled, at, vad, voiced, stopping>>
    PROVE  HeardInv'
<1> DEFINE t1 == Head(edges).t
           M == Marks(trail)
           N == Marks(trail')
<1>1. /\ Shape /\ Detector /\ InStep /\ Queued /\ Quiet /\ Watermark /\ EndsKnown
      /\ Going /\ Following /\ Speaking
  BY DEF HeardInv, Going, Following, Speaking
<1>2. /\ t1 = edges[1].t /\ edges[1].kind = "Endpoint" /\ edges[1] \in Edges /\ 1 \in 1 .. Len(edges)
      /\ edges' \in Seq(Edges) /\ Len(edges) \in Nat
      /\ \A p \in 1 .. Len(edges') : edges'[p] = edges[p + 1] /\ p + 1 \in 1 .. Len(edges)
  BY <1>1, EdgesSplit DEF Shape
<1>3. t1 \in Nat /\ t1 <= buffer.end /\ t1 <= vad.floor
  BY <1>1, <1>2 DEF InStep, Edges
<1>4. /\ vad.frames \in Nat /\ vad.floor \in Nat /\ t1 <= vad.frames
      /\ (vad_enabled => vad.frames = buffer.end)
  BY <1>1, <1>3, DetectorNumbers DEF Detector
<1> HIDE DEF t1, M, N
<1>b. /\ buffer' \in Buffers /\ buffer'.end = buffer.end /\ buffer'.committed <= buffer.end
      /\ buffer'.trimmed <= buffer.end /\ buffer' = AfterUtterance(t1)
  BY <1>1, <1>3, AfterEnd DEF Shape, t1
<1>5. /\ M \subseteq N /\ EndsOf(M) \subseteq EndsOf(N)
      /\ \A x \in EndsOf(N) : x \in EndsOf(M) \/ x.t1 = t1
      /\ \E x \in EndsOf(N) : x.t1 = t1
      /\ EndsKnown' /\ Heard' /\ PastReported(trail')
  BY <1>1, <1>3, <1>4, <1>b, CloseHeard DEF t1, M, N
<1>6. utt'.in_speech = FALSE /\ utt'.t0 = utt.t0 /\ utt'.through = utt.through
  BY DEF LifeInv
<1>7. ASSUME NEW t \in Nat, t1 <= t, Begins(M, voiced, buffer, t) PROVE Begins(N, voiced, buffer', t)
  BY <1>1, <1>3, <1>5, <1>7, <1>b, BeginsAfter DEF M, N
<1>8. Shape'
  BY <1>1, <1>2, <1>6, <1>b DEF Shape
<1>9. Detector'
  BY <1>1, <1>4, <1>b DEF Detector
<1>10. vad_enabled
  BY <1>1, <1>2 DEF InStep, Shape
<1>11. InStep'
  <2>1. FALSE <=> Head(edges).kind = "SpeechStarted"
    OBVIOUS
  <2> QED
    BY <1>1, <1>6, <1>10, <1>b, <2>1, RestOfEdges
<1>12. Queued'
  <2> SUFFICES ASSUME NEW p \in 1 .. Len(edges'), edges'[p].kind = "SpeechStarted"
               PROVE  Begins(N, voiced, buffer', edges'[p].t)
    BY DEF Queued, N
  <2>1. p + 1 \in 1 .. Len(edges) /\ edges'[p] = edges[p + 1] /\ 1 < p + 1
    BY <1>2
  <2>2. edges[p + 1] \in Edges
    BY <1>1, <2>1 DEF Shape
  <2>3. t1 <= edges'[p].t /\ edges'[p].t \in Nat
    BY <1>1, <1>2, <2>1, <2>2 DEF InStep, Edges
  <2>4. Begins(M, voiced, buffer, edges'[p].t)
    BY <1>1, <2>1 DEF Queued, M
  <2> QED
    BY <1>7, <2>3, <2>4
<1>13. Quiet'
  <2> SUFFICES ASSUME vad_enabled, ~vad.speech PROVE Begins(N, voiced, buffer', vad.floor)
    BY DEF Quiet, N
  <2>1. Begins(M, voiced, buffer, vad.floor)
    BY <1>1 DEF Quiet, M
  <2> QED
    BY <1>3, <1>4, <1>7, <2>1
<1>14. Watermark'
  BY <1>1, <1>3, <1>5, <1>b, WatermarkAfter DEF M, N
<1>15. OpenKept'
  BY <1>6 DEF OpenKept, Speaking
<1> QED
  BY <1>5, <1>8, <1>9, <1>11, <1>12, <1>13, <1>14, <1>15 DEF HeardInv

\* An onset opens the next utterance.
LEMMA OnsetHeard ==
    ASSUME LifeInv, HeardInv, Onset, ~utt.in_speech
    PROVE  HeardInv'
<1> DEFINE t == Head(edges).t
<1>1. /\ Shape /\ Detector /\ InStep /\ Queued /\ Quiet /\ Watermark /\ EndsKnown /\ Heard /\ PastReported(trail)
  BY DEF HeardInv
<1>2. /\ at = "edges" /\ at' = at /\ edges # <<>> /\ Head(edges).kind = "SpeechStarted"
      /\ utt' = NewUtterance(t) /\ trail' = trail \o <<SpeechStarted(utt.id + 1, t)>> /\ edges' = Tail(edges)
      /\ UNCHANGED <<vad_enabled, buffer, vad, voiced, stopping>>
  BY DEF Onset, Emit
<1>3. Marks(trail') = Marks(trail) /\ PastReported(trail')
  <2> DEFINE e == SpeechStarted(utt.id + 1, t)
  <2>1. trail' = trail \o <<e>> /\ e.kind \notin Marking /\ \E T : trail \in Seq(T)
    BY <1>2, UnmarkedKinds DEF LifeInv, Life
  <2> HIDE DEF e
  <2>2. trail' = Append(trail, e)
    BY <2>1, Concats
  <2>3. SaysNothing
    BY <2>1, <2>2, Unmarked
  <2> QED
    BY <1>1, <2>3 DEF SaysNothing
<1>4. /\ t = edges[1].t /\ edges[1].kind = "SpeechStarted" /\ edges[1] \in Edges /\ 1 \in 1 .. Len(edges)
      /\ edges' \in Seq(Edges)
      /\ \A p \in 1 .. Len(edges') : edges'[p] = edges[p + 1] /\ p + 1 \in 1 .. Len(edges)
  BY <1>1, <1>2, EdgesSplit DEF Shape
<1>5. t \in Nat /\ t <= buffer.end /\ Begins(Marks(trail), voiced, buffer, t)
  BY <1>1, <1>4 DEF InStep, Queued, Edges
<1> HIDE DEF t
<1>6. utt'.in_speech = TRUE /\ utt'.t0 = t /\ utt'.through = 0 /\ slice_from' = t
  BY <1>2, <1>5 DEF NewUtterance, slice_from
<1>7. Shape'
  BY <1>1, <1>2, <1>4, <1>5, <1>6 DEF Shape
<1>8. Detector'
  BY <1>1, <1>2 DEF Detector
<1>9. InStep'
  <2>1. TRUE <=> Head(edges).kind = "SpeechStarted"
    BY <1>2
  <2> QED
    BY <1>1, <1>2, <1>6, <2>1, RestOfEdges
<1>10. Queued'
  BY <1>1, <1>2, <1>3, <1>4 DEF Queued
<1>11. Quiet' /\ Watermark' /\ EndsKnown' /\ Heard'
  BY <1>1, <1>2, <1>3 DEF Quiet, Watermark, EndsKnown, Heard, Going
<1>12. OpenKept'
  <2>1. \A k \in voiced : k \in Nat
    BY <1>1, Numbers
  <2> QED
    BY <1>2, <1>3, <1>5, <1>6, <2>1 DEF OpenKept, Begins, KeptFrom
<1> QED
  BY <1>3, <1>7, <1>8, <1>9, <1>10, <1>11, <1>12 DEF HeardInv

\* After a timeout the next utterance starts where the audio ends.
LEMMA ReopenHeard ==
    ASSUME LifeInv, HeardInv, Reopen
    PROVE  HeardInv'
<1>1. /\ Shape /\ Detector /\ InStep /\ Queued /\ Quiet /\ Watermark /\ EndsKnown /\ Heard /\ PastReported(trail)
  BY DEF HeardInv
<1>2. /\ at = "reopen" /\ at' = "cap" /\ utt' = NewUtterance(buffer.end)
      /\ UNCHANGED <<vad_enabled, buffer, vad, edges, voiced, stopping>>
  BY DEF Reopen, audio
<1>3. Marks(trail') = Marks(trail) /\ PastReported(trail')
  BY <1>1, SayNothing DEF SaysNothing
<1>4. /\ edges = <<>> /\ utt.in_speech
  BY <1>1, <1>2 DEF Shape, LifeInv
<1>5. /\ utt'.in_speech = TRUE /\ utt'.t0 = buffer.end /\ utt'.through = 0 /\ slice_from' = buffer.end
      /\ buffer.end \in Nat
  BY <1>1, <1>2, Numbers DEF NewUtterance, slice_from
<1>6. Shape'
  BY <1>1, <1>2, <1>5 DEF Shape, Places
<1>7. Detector'
  BY <1>1, <1>2 DEF Detector
<1>8. InStep'
  <2>1. Following /\ Following'
    BY <1>2 DEF Following, Going
  <2>2. vad_enabled => Alternate'
    BY <1>1, <1>2, <1>4, <1>5, <2>1 DEF InStep, Alternate
  <2> QED
    BY <1>1, <1>2, <1>4, <1>5, <2>2 DEF InStep
<1>9. Queued' /\ Quiet' /\ Watermark' /\ EndsKnown' /\ Heard'
  BY <1>1, <1>2, <1>3 DEF Queued, Quiet, Watermark, EndsKnown, Heard, Going
<1>10. OpenKept'
  <2>1. \A k \in voiced : k \in Nat /\ ~(buffer.end <= k)
    BY <1>1, Numbers
  <2> QED
    BY <1>2, <1>3, <1>5, <2>1 DEF OpenKept, PastEnds
<1> QED
  BY <1>3, <1>6, <1>7, <1>8, <1>9, <1>10 DEF HeardInv

\* What capping the buffer says.
LEMMA CapSays ==
    ASSUME LifeInv, Cap
    PROVE  /\ Marks(trail) \subseteq Marks(trail') /\ EndsOf(Marks(trail')) = EndsOf(Marks(trail))
           /\ \A x \in Marks(trail') : x.kind = "delta" => x \in Marks(trail)
           /\ PastReported(trail) => PastReported(trail')
           /\ Apart(trail) => Apart(trail')
           /\ buffer'.trimmed > buffer.trimmed =>
                 /\ \A k \in Lost(buffer') : Warned(Marks(trail'), k)
                 /\ Overrun(Marks(trail'), Overtaken(buffer'))
<1>0. \E T : trail \in Seq(T)
  BY DEF LifeInv, Life
<1>1. CASE buffer'.trimmed > buffer.trimmed
  <2> DEFINE f == Event("forced_trim", Overtaken(buffer'), Lost(buffer'), buffer.trimmed, buffer'.trimmed)
  <2>1. trail' = trail \o <<f>>
    BY <1>1 DEF Cap, Emit
  <2>2. f.kind = "forced_trim" /\ f.id = Overtaken(buffer') /\ f.text = Lost(buffer')
    BY DEF Event
  <2> HIDE DEF f
  <2>3. trail' = Append(trail, f) /\ f.kind \in Marking /\ f.kind # "delta" /\ f.kind # "utterance_end"
    BY <1>0, <2>1, <2>2, Concats DEF Marking
  <2>4. Marks(trail') = Marks(trail) \union {f}
    BY <1>0, <2>3, MarksAppend
  <2>5. (PastReported(trail) => PastReported(trail')) /\ (Apart(trail) => Apart(trail'))
    BY <1>0, <2>3, PastAppend, ApartAppend
  <2>6. EndsOf(Marks(trail')) = EndsOf(Marks(trail))
    BY <2>3, <2>4 DEF EndsOf
  <2> QED
    BY <2>2, <2>3, <2>4, <2>5, <2>6 DEF Warned, Overrun
<1>2. CASE ~(buffer'.trimmed > buffer.trimmed)
  BY <1>2 DEF Cap, Silent
<1> QED
  BY <1>1, <1>2

\* Capping the buffer loses no voiced audio without a warning.
LEMMA CapHeard ==
    ASSUME LifeInv, HeardInv, Cap
    PROVE  HeardInv'
<1>1. /\ Shape /\ Detector /\ InStep /\ Queued /\ Quiet /\ Watermark /\ EndsKnown /\ OpenKept /\ Heard
      /\ PastReported(trail)
  BY DEF HeardInv
<1>2. /\ at = "cap" /\ at' = "step" /\ edges = <<>> /\ buffer' = enforce_cap(buffer)
      /\ UNCHANGED <<vad_enabled, vad, edges, voiced, utt, stopping>>
  BY <1>1 DEF Cap, Shape
<1>3. /\ buffer' \in Buffers /\ buffer'.end = buffer.end /\ buffer'.trimmed <= buffer.end
      /\ buffer'.committed <= buffer.end
      /\ \/ buffer'.trimmed = buffer.trimmed /\ buffer'.committed = buffer.committed
         \/ buffer.trimmed < buffer'.trimmed /\ buffer'.committed = Larger(buffer.committed, buffer'.trimmed)
  BY <1>1, <1>2, AfterCap DEF Shape
<1>4. /\ buffer.trimmed \in Nat /\ buffer.end \in Nat /\ buffer.committed \in Nat /\ slice_from \in Nat
      /\ buffer'.trimmed \in Nat /\ buffer'.committed \in Nat /\ slice_from' = slice_from
      /\ \A k \in voiced : k \in Nat
  BY <1>1, <1>2, <1>3, Numbers DEF Buffers, slice_from
<1>5. /\ Marks(trail) \subseteq Marks(trail') /\ EndsOf(Marks(trail')) = EndsOf(Marks(trail))
      /\ PastReported(trail')
      /\ buffer'.trimmed > buffer.trimmed => \A k \in Lost(buffer') : Warned(Marks(trail'), k)
  BY <1>1, CapSays
<1>6. ASSUME NEW k \in voiced, buffer.trimmed <= k, k < buffer'.trimmed, utt.in_speech => k >= slice_from
      PROVE  Warned(Marks(trail'), k)
  <2>1. k \in Lost(buffer')
    BY <1>6 DEF Lost
  <2>2. buffer'.trimmed > buffer.trimmed
    BY <1>4, <1>6
  <2> QED
    BY <1>5, <2>1, <2>2
<1>7. Shape'
  BY <1>1, <1>2, <1>3 DEF Shape, Places
<1>8. Detector'
  BY <1>1, <1>2, <1>3 DEF Detector
<1>f. Following /\ Following' /\ Going /\ Going'
  BY <1>2 DEF Following, Going
<1>9. InStep'
  <2>1. vad_enabled => Alternate'
    BY <1>1, <1>2, <1>f DEF InStep, Alternate
  <2> QED
    BY <1>1, <1>2, <1>5, <2>1 DEF InStep
<1>10. Queued'
  BY <1>2 DEF Queued
<1>11. Quiet'
  <2> SUFFICES ASSUME vad_enabled, ~vad.speech
               PROVE  Begins(Marks(trail'), voiced, buffer', vad.floor)
    BY <1>2 DEF Quiet
  <2>1. ~utt.in_speech
    BY <1>1, <1>2, <1>f DEF InStep, Alternate
  <2>2. Begins(Marks(trail), voiced, buffer, vad.floor)
    BY <1>1, <1>f DEF Quiet
  <2>3. PastEnds(Marks(trail'), voiced, vad.floor)
    BY <1>5, <2>2 DEF Begins, PastEnds
  <2>4. ASSUME NEW k \in voiced, vad.floor <= k, k < buffer'.trimmed PROVE Warned(Marks(trail'), k)
    <3>1. CASE k < buffer.trimmed
      BY <1>5, <2>2, <2>4, <3>1, MoreMarks DEF Begins, KeptFrom
    <3>2. CASE ~(k < buffer.trimmed)
      BY <1>4, <1>6, <2>1, <2>4, <3>2
    <3> QED
      BY <3>1, <3>2
  <2> QED
    BY <2>3, <2>4 DEF Begins, KeptFrom
<1>12. Watermark'
  <2>1. CASE buffer'.trimmed = buffer.trimmed /\ buffer'.committed = buffer.committed
    BY <1>1, <1>5, <2>1 DEF Watermark
  <2>2. CASE buffer.trimmed < buffer'.trimmed /\ buffer'.committed = Larger(buffer.committed, buffer'.trimmed)
    <3>1. CASE buffer.committed <= buffer'.trimmed
      BY <1>4, <2>2, <3>1 DEF Watermark, Larger
    <3>2. CASE ~(buffer.committed <= buffer'.trimmed)
      <4>1. buffer'.committed = buffer.committed /\ ~(buffer.committed <= buffer.trimmed)
        BY <1>4, <2>2, <3>2 DEF Larger
      <4> QED
        BY <1>1, <1>5, <4>1 DEF Watermark
    <3> QED
      BY <3>1, <3>2
  <2> QED
    BY <1>3, <2>1, <2>2
<1>13. EndsKnown'
  BY <1>1, <1>2, <1>3, <1>5 DEF EndsKnown
<1>14. Heard'
  BY <1>1, <1>2, <1>5, MoreMarks DEF Heard
<1>15. OpenKept'
  <2> SUFFICES ASSUME Speaking
               PROVE  /\ slice_from <= buffer.end
                      /\ PastEnds(Marks(trail'), voiced, utt.t0)
                      /\ \A k \in voiced : (utt.t0 <= k /\ (k < slice_from \/ k < buffer'.trimmed)) =>
                            Warned(Marks(trail'), k) \/ Said(Marks(trail'), k, utt.id)
    BY <1>2, <1>3, <1>4 DEF OpenKept, Speaking
  <2>1. slice_from <= buffer.end /\ PastEnds(Marks(trail'), voiced, utt.t0)
    BY <1>1, <1>5 DEF OpenKept, PastEnds
  <2>2. ASSUME NEW k \in voiced, utt.t0 <= k, k < slice_from \/ k < buffer'.trimmed
        PROVE  Warned(Marks(trail'), k) \/ Said(Marks(trail'), k, utt.id)
    <3>1. CASE k < slice_from \/ k < buffer.trimmed
      BY <1>1, <1>5, <2>2, <3>1, MoreMarks DEF OpenKept
    <3>2. CASE ~(k < slice_from \/ k < buffer.trimmed)
      BY <1>4, <1>6, <2>2, <3>2
    <3> QED
      BY <3>1, <3>2
  <2> QED
    BY <2>1, <2>2
<1> QED
  BY <1>5, <1>7, <1>8, <1>9, <1>10, <1>11, <1>12, <1>13, <1>14, <1>15 DEF HeardInv

\* A step that commits words up to the tick `heard`.
CommitsTo(heard) ==
    LET through == heard + 1 - Larger(slice_from, buffer.trimmed)
    IN  /\ heard \in window_from(slice_from)
        /\ utt' = Committed(through)
        /\ Emit(Delta({k \in window_from(slice_from) : k <= heard}, slice_from, slice_from + through))

\* What a commit says, and how far the utterance is afterwards.
LEMMA CommitSays ==
    ASSUME LifeInv, Shape, NEW heard, CommitsTo(heard)
    PROVE  LET t == {k \in voiced : k >= slice_from /\ k >= buffer.trimmed /\ k <= heard}
           IN  /\ \E d : /\ d.kind = "delta" /\ d.id = utt.id /\ d.text = t
                         /\ Marks(trail') = Marks(trail) \union {d}
               /\ EndsOf(Marks(trail')) = EndsOf(Marks(trail))
               /\ \A id : Overrun(Marks(trail), id) => Overrun(Marks(trail'), id)
               /\ PastReported(trail) /\ (\A x \in EndsOf(Marks(trail)) : \A k \in t : k >= x.t1)
                     => PastReported(trail')
               /\ Apart(trail) /\ (\/ Overrun(Marks(trail), utt.id)
                                   \/ \A x \in Marks(trail) : x.kind = "delta" /\ x.id = utt.id => \A k \in x.text : k \notin t)
                     => Apart(trail')
               /\ utt'.id = utt.id /\ utt'.in_speech = utt.in_speech /\ utt'.t0 = utt.t0 /\ utt'.through \in Nat
               /\ slice_from <= slice_from' /\ slice_from' <= heard + 1 /\ heard \in Nat /\ heard < buffer.end
               /\ slice_from' \in Nat
               /\ buffer.trimmed <= slice_from => slice_from' = heard + 1
<1> DEFINE t == {k \in voiced : k >= slice_from /\ k >= buffer.trimmed /\ k <= heard}
           through == heard + 1 - Larger(slice_from, buffer.trimmed)
           d == Event("delta", utt.id, t, slice_from, slice_from + through)
           M == Marks(trail)
<1>1. {k \in window_from(slice_from) : k <= heard} = t
  BY WindowIs
<1>2. /\ slice_from \in Nat /\ buffer.trimmed \in Nat /\ heard \in voiced /\ heard \in Nat /\ heard < buffer.end
      /\ heard >= slice_from /\ heard >= buffer.trimmed /\ utt.t0 \in Nat /\ utt.through \in Nat
  BY Numbers, WindowIs DEF CommitsTo, Shape
<1>3. heard \in t
  BY <1>2
<1>4. through \in Nat /\ slice_from + through <= heard + 1 /\ (buffer.trimmed <= slice_from => slice_from + through = heard + 1)
  BY <1>2 DEF Larger
<1>5. utt' = [utt EXCEPT !.through = @ + through] /\ trail' = trail \o Delta(t, slice_from, slice_from + through)
  BY <1>1 DEF CommitsTo, Committed, Emit
<1>6. d.kind = "delta" /\ d.id = utt.id /\ d.text = t /\ d.kind \in Marking
  BY DEF Event, Marking
<1>7. Delta(t, slice_from, slice_from + through) = <<d>>
  BY <1>3 DEF Delta
<1> HIDE DEF t, through, d
<1>8. trail' = Append(trail, d) /\ \E T : trail \in Seq(T)
  <2>1. \E T : trail \in Seq(T)
    BY DEF LifeInv, Life
  <2>2. trail' = trail \o <<d>>
    BY <1>5, <1>7
  <2>3. trail \o <<d>> = Append(trail, d)
    BY ONLY <2>1, Concats
  <2> QED
    BY <2>1, <2>2, <2>3
<1>9. Marks(trail') = M \union {d}
  BY <1>6, <1>8, MarksAppend
<1>10. EndsOf(Marks(trail')) = EndsOf(M)
  BY <1>6, <1>9 DEF EndsOf
<1>11. PastReported(trail) /\ (\A x \in EndsOf(M) : \A k \in t : k >= x.t1) => PastReported(trail')
  BY <1>6, <1>8, PastAppend
<1>12. Apart(trail) /\ (\/ Overrun(M, utt.id)
                        \/ \A x \in M : x.kind = "delta" /\ x.id = utt.id => \A k \in x.text : k \notin t)
          => Apart(trail')
  BY <1>6, <1>8, ApartAppend
<1>13. utt'.id = utt.id /\ utt'.in_speech = utt.in_speech /\ utt'.t0 = utt.t0 /\ utt'.through = utt.through + through
  BY <1>5 DEF LifeInv
<1>14. slice_from' = slice_from + through /\ utt'.through \in Nat
  BY <1>2, <1>4, <1>13 DEF slice_from
<1>15. \A id : Overrun(M, id) => Overrun(Marks(trail'), id)
  BY <1>9 DEF Overrun
<1>16. /\ slice_from <= slice_from' /\ slice_from' <= heard + 1 /\ slice_from' \in Nat
       /\ buffer.trimmed <= slice_from => slice_from' = heard + 1
  BY <1>2, <1>4, <1>14
<1> QED
  BY <1>2, <1>6, <1>9, <1>10, <1>11, <1>12, <1>13, <1>14, <1>15, <1>16 DEF t

\* A commit says what it passes.
LEMMA CommitHeard ==
    ASSUME LifeInv, HeardInv, at = "step", at' = "top", utt.in_speech, NEW heard, CommitsTo(heard),
           UNCHANGED <<vad_enabled, buffer, vad, edges, voiced, stopping>>
    PROVE  HeardInv'
<1> DEFINE t == {k \in voiced : k >= slice_from /\ k >= buffer.trimmed /\ k <= heard}
           M == Marks(trail)
           N == Marks(trail')
<1>1. /\ Shape /\ Detector /\ InStep /\ Queued /\ Quiet /\ Watermark /\ EndsKnown /\ OpenKept /\ Heard
      /\ PastReported(trail) /\ edges = <<>> /\ Speaking /\ Going /\ Following
  BY DEF HeardInv, Shape, Speaking, Going, Following
<1>2. /\ \E d : d.kind = "delta" /\ d.id = utt.id /\ d.text = t /\ N = M \union {d}
      /\ EndsOf(N) = EndsOf(M)
      /\ PastReported(trail) /\ (\A x \in EndsOf(M) : \A k \in t : k >= x.t1) => PastReported(trail')
      /\ utt'.id = utt.id /\ utt'.in_speech = utt.in_speech /\ utt'.t0 = utt.t0 /\ utt'.through \in Nat
      /\ slice_from <= slice_from' /\ slice_from' <= heard + 1 /\ heard \in Nat /\ heard < buffer.end
      /\ slice_from' \in Nat
  BY <1>1, CommitSays
<1>3. /\ slice_from \in Nat /\ buffer.trimmed \in Nat /\ buffer.end \in Nat /\ utt.t0 \in Nat /\ utt.t0 <= slice_from
      /\ \A k \in voiced : k \in Nat
  BY <1>1, Numbers
<1>m. M \subseteq N /\ \A k \in t : Said(N, k, utt.id)
  BY <1>2 DEF Said
<1>4. PastReported(trail')
  <2>1. ASSUME NEW x \in EndsOf(M), NEW k \in t PROVE k >= x.t1
    BY <1>1, <1>3, <2>1 DEF OpenKept, PastEnds
  <2> QED
    BY <1>1, <1>2, <2>1
<1>5. ASSUME NEW k \in voiced, utt.t0 <= k, k < slice_from' \/ k < buffer.trimmed
      PROVE  Warned(N, k) \/ Said(N, k, utt.id)
  <2>1. CASE k < slice_from \/ k < buffer.trimmed
    BY <1>1, <1>5, <1>m, <2>1, MoreMarks DEF OpenKept
  <2>2. CASE ~(k < slice_from \/ k < buffer.trimmed)
    <3>1. k \in t
      BY <1>2, <1>3, <1>5, <2>2
    <3> QED
      BY <1>m, <3>1
  <2> QED
    BY <2>1, <2>2
<1> HIDE DEF t, M, N
<1>6. Shape'
  BY <1>1, <1>2 DEF Shape, Places
<1>7. Detector'
  BY <1>1 DEF Detector
<1>8. InStep'
  <2>1. vad_enabled => Alternate'
    BY <1>1, <1>2 DEF InStep, Alternate
  <2> QED
    BY <1>1, <1>2, <2>1 DEF InStep
<1>9. Queued'
  BY <1>1 DEF Queued
<1>10. Quiet' /\ Watermark' /\ EndsKnown'
  BY <1>1, <1>2, <1>m, BeginsMore DEF Quiet, Watermark, EndsKnown, M, N
<1>11. Heard'
  BY <1>1, <1>2, <1>m, MoreMarks DEF Heard, M, N
<1>12. OpenKept'
  <2>1. slice_from' <= buffer.end
    BY <1>2, <1>3
  <2>2. PastEnds(N, voiced, utt.t0)
    BY <1>1, <1>2 DEF OpenKept, PastEnds, M
  <2> QED
    BY <1>2, <1>5, <2>1, <2>2 DEF OpenKept, N
<1> QED
  BY <1>4, <1>6, <1>7, <1>8, <1>9, <1>10, <1>11, <1>12 DEF HeardInv

\* What reading audio does.
ReadIs(n) ==
    /\ n \in Nat /\ buffer' = [buffer EXCEPT !.end = @ + n] /\ stopping' \in BOOLEAN
    /\ voiced \subseteq voiced' /\ \A k \in voiced' : k \in voiced \/ (k \in Nat /\ buffer.end <= k /\ k < buffer.end + n)
    /\ at' = IF vad_enabled /\ n > 0 THEN "frames" ELSE "edges"
    /\ edges' = IF ~vad_enabled /\ ~utt.in_speech /\ n > 0
                THEN <<Edge("SpeechStarted", buffer.trimmed)>> ELSE <<>>

LEMMA ReadSteps ==
    ASSUME Shape, Read
    PROVE  /\ \E n : ReadIs(n)
           /\ at = "top" /\ ~stopping /\ UNCHANGED <<vad_enabled, vad, utt, trail>>
<1>1. /\ at = "top" /\ ~stopping /\ UNCHANGED <<vad_enabled, vad, utt, trail>>
  BY DEF Read, Silent
<1>2. PICK n \in 0 .. Smaller(MaxRead, MaxTicks - buffer.end), finished \in BOOLEAN :
         \E loud \in SUBSET (buffer.end .. buffer.end + n - 1) :
             /\ stopping' = finished
             /\ buffer' = [buffer EXCEPT !.end = @ + n]
             /\ voiced' = voiced \union loud
             /\ at' = IF vad_enabled /\ n > 0 THEN "frames" ELSE "edges"
             /\ edges' = IF ~vad_enabled /\ ~utt.in_speech /\ n > 0
                         THEN <<Edge("SpeechStarted", buffer.trimmed)>> ELSE <<>>
  BY DEF Read
<1>3. PICK loud \in SUBSET (buffer.end .. buffer.end + n - 1) : voiced' = voiced \union loud
  BY <1>2
<1>4. n \in Nat /\ buffer.end \in Nat
  <2>1. Smaller(MaxRead, MaxTicks - buffer.end) \in Int
    <3>1. MaxRead \in Nat /\ MaxTicks \in Nat /\ buffer.end \in Nat
      BY Numbers, GeometryAssumption
    <3> QED
      BY <3>1 DEF Smaller
  <2> QED
    BY <1>2, <2>1, Numbers
<1>5. \A k \in loud : k \in Nat /\ buffer.end <= k /\ k < buffer.end + n
  BY <1>3, <1>4
<1>6. voiced \subseteq voiced' /\ \A k \in voiced' : k \in voiced \/ (k \in Nat /\ buffer.end <= k /\ k < buffer.end + n)
  BY <1>3, <1>5
<1>7. ReadIs(n)
  BY <1>2, <1>4, <1>6 DEF ReadIs
<1> QED
  BY <1>1, <1>7

\* More audio changes nothing said of the audio before.
LEMMA ReadHeard ==
    ASSUME LifeInv, HeardInv, Read
    PROVE  HeardInv'
<1>1. /\ Shape /\ Detector /\ InStep /\ Queued /\ Quiet /\ Watermark /\ EndsKnown /\ OpenKept /\ Heard
      /\ PastReported(trail)
  BY DEF HeardInv
<1>2. PICK n : ReadIs(n)
  BY <1>1, ReadSteps
<1>3. /\ at = "top" /\ ~stopping /\ UNCHANGED <<vad_enabled, vad, utt, trail>> /\ edges = <<>>
  BY <1>1, ReadSteps DEF Shape
<1>4. /\ buffer.trimmed \in Nat /\ buffer.end \in Nat /\ buffer.committed \in Nat /\ slice_from \in Nat
      /\ buffer.trimmed <= buffer.end /\ buffer.committed <= buffer.end /\ utt.t0 \in Nat
      /\ \A k \in voiced : k \in Nat /\ k < buffer.end
  BY <1>1, Numbers
<1>5. /\ n \in Nat /\ buffer' = [buffer EXCEPT !.end = @ + n] /\ stopping' \in BOOLEAN
      /\ voiced \subseteq voiced' /\ \A k \in voiced' : k \in voiced \/ (k \in Nat /\ buffer.end <= k /\ k < buffer.end + n)
      /\ at' = IF vad_enabled /\ n > 0 THEN "frames" ELSE "edges"
      /\ edges' = IF ~vad_enabled /\ ~utt.in_speech /\ n > 0
                  THEN <<Edge("SpeechStarted", buffer.trimmed)>> ELSE <<>>
  BY <1>2 DEF ReadIs
<1>6. /\ buffer'.trimmed = buffer.trimmed /\ buffer'.committed = buffer.committed /\ buffer'.end = buffer.end + n
      /\ buffer' \in Buffers
  BY <1>1, <1>4, <1>5 DEF Shape, Buffers
<1>7. slice_from' = slice_from /\ at' \in {"frames", "edges"} /\ Following /\ Following' /\ Going /\ Going'
  BY <1>3, <1>5 DEF slice_from, Following, Going
<1>8. /\ edges' \in Seq(Edges)
      /\ vad_enabled \/ utt.in_speech => edges' = <<>>
      /\ edges' # <<>> => /\ Len(edges') = 1 /\ edges'[1].kind = "SpeechStarted" /\ edges'[1].t = buffer.trimmed
  <2> DEFINE e == Edge("SpeechStarted", buffer.trimmed)
  <2>1. e \in Edges /\ e.kind = "SpeechStarted" /\ e.t = buffer.trimmed
    BY <1>4 DEF Edge, Edges
  <2> HIDE DEF e
  <2>2. /\ <<e>> \in Seq(Edges) /\ Len(<<e>>) = 1 /\ <<e>>[1] = e /\ <<>> \in Seq(Edges)
    BY <2>1
  <2>3. edges' = (IF ~vad_enabled /\ ~utt.in_speech /\ n > 0 THEN <<e>> ELSE <<>>)
    BY <1>5 DEF e
  <2> QED
    BY <2>1, <2>2, <2>3
<1>9. Shape'
  <2>1. /\ buffer'.trimmed <= buffer'.end /\ buffer'.committed <= buffer'.end
        /\ \A k \in voiced' : k \in Nat /\ k < buffer'.end
    BY <1>4, <1>5, <1>6
  <2> QED
    BY <1>1, <1>3, <1>5, <1>6, <1>7, <1>8, <2>1 DEF Shape, Places
<1>10. Detector'
  <2>1. /\ vad.frames \in Nat /\ (vad_enabled => vad.frames = buffer.end)
    BY <1>1, <1>3, DetectorNumbers DEF Detector
  <2>2. vad'.frames <= buffer'.end
    BY <1>1, <1>3, <1>4, <1>5, <1>6, <2>1 DEF Detector
  <2>3. vad_enabled' =>
          /\ at' = "frames" => vad'.frames < buffer'.end
          /\ at' # "frames" => vad'.frames = buffer'.end
    BY <1>3, <1>4, <1>5, <1>6, <2>1
  <2>4. vad_enabled' => \A k \in voiced' : k < vad'.frames => k < vad'.last_voiced_end
    BY <1>1, <1>3, <1>4, <1>5, <2>1 DEF Detector
  <2> QED
    BY <1>1, <1>3, <1>5, <1>6, <2>2, <2>3, <2>4 DEF Detector
<1>11. InStep'
  <2>1. vad_enabled => Alternate'
    BY <1>1, <1>3, <1>7, <1>8 DEF InStep, Alternate
  <2>2. \A p \in 1 .. Len(edges') : p = 1 /\ edges'[p].kind = "SpeechStarted" /\ edges'[p].t <= buffer'.end
    BY <1>4, <1>5, <1>6, <1>8
  <2>3. ~vad_enabled => /\ edges' # <<>> => ~utt'.in_speech /\ Len(edges') = 1 /\ edges'[1].kind = "SpeechStarted"
                        /\ ~utt'.in_speech => EndsOf(Marks(trail')) = {}
    BY <1>1, <1>3, <1>8 DEF InStep
  <2>4. \A p, q \in 1 .. Len(edges') : p < q => FALSE
    BY <2>2
  <2> QED
    BY <1>3, <2>1, <2>2, <2>3, <2>4 DEF InStep
<1>p. ASSUME NEW t, PastEnds(Marks(trail), voiced, t) PROVE PastEnds(Marks(trail), voiced', t)
  <2> SUFFICES ASSUME NEW e \in EndsOf(Marks(trail)), NEW k \in voiced', k >= t PROVE k >= e.t1
    BY DEF PastEnds
  <2>1. CASE k \in voiced
    BY <1>p, <2>1 DEF PastEnds
  <2>2. CASE k \notin voiced
    BY <1>1, <1>4, <1>5, <2>2 DEF EndsKnown
  <2> QED
    BY <2>1, <2>2
<1>12. Queued'
  <2> SUFFICES ASSUME NEW p \in 1 .. Len(edges'), edges'[p].kind = "SpeechStarted"
               PROVE  Begins(Marks(trail), voiced', buffer', edges'[p].t)
    BY <1>3 DEF Queued
  <2>1. edges' # <<>>
    OBVIOUS
  <2>2. p = 1 /\ edges'[p].t = buffer.trimmed /\ ~vad_enabled /\ ~utt.in_speech
    <3>0. Len(edges') = 1 /\ edges'[1].t = buffer.trimmed
      BY <1>8, <2>1
    <3>1. p = 1
      BY <3>0
    <3>2. ~(vad_enabled \/ utt.in_speech)
      BY <1>8, <2>1
    <3> QED
      BY <3>0, <3>1, <3>2
  <2>3. EndsOf(Marks(trail)) = {}
    BY <1>1, <2>2 DEF InStep
  <2>4. \A k \in voiced' : k \in Nat
    BY <1>4, <1>5
  <2>5. KeptFrom(Marks(trail), voiced', buffer', buffer.trimmed)
    BY <1>4, <1>6, <2>4 DEF KeptFrom
  <2> QED
    BY <2>2, <2>3, <2>5 DEF Begins, PastEnds
<1>13. Quiet'
  <2> SUFFICES ASSUME vad_enabled, ~vad.speech PROVE Begins(Marks(trail), voiced', buffer', vad.floor)
    BY <1>3 DEF Quiet
  <2>1. Begins(Marks(trail), voiced, buffer, vad.floor)
    BY <1>1, <1>7 DEF Quiet
  <2>2. \A k \in voiced' : k < buffer'.trimmed => k \in voiced
    BY <1>4, <1>5, <1>6
  <2> QED
    BY <1>p, <1>6, <2>1, <2>2 DEF Begins, KeptFrom
<1>14. Watermark'
  BY <1>1, <1>3, <1>6 DEF Watermark
<1>15. EndsKnown'
  BY <1>1, <1>3, <1>4, <1>5, <1>6 DEF EndsKnown
<1>16. OpenKept'
  <2> SUFFICES ASSUME Speaking
               PROVE  /\ slice_from <= buffer'.end
                      /\ PastEnds(Marks(trail), voiced', utt.t0)
                      /\ \A k \in voiced' : (utt.t0 <= k /\ (k < slice_from \/ k < buffer.trimmed)) =>
                            Warned(Marks(trail), k) \/ Said(Marks(trail), k, utt.id)
    BY <1>3, <1>6, <1>7 DEF OpenKept, Speaking
  <2>1. slice_from <= buffer.end /\ PastEnds(Marks(trail), voiced, utt.t0)
    BY <1>1 DEF OpenKept
  <2>2. \A k \in voiced' : (k < slice_from \/ k < buffer.trimmed) => k \in voiced
    BY <1>4, <1>5, <2>1
  <2> QED
    BY <1>1, <1>4, <1>5, <1>6, <1>p, <2>1, <2>2 DEF OpenKept
<1>17. Heard'
  <2> SUFFICES ASSUME NEW e \in EndsOf(Marks(trail)), NEW k \in voiced', e.t0 <= k, k < e.t1
               PROVE  Warned(Marks(trail), k) \/ Said(Marks(trail), k, e.id)
    BY <1>3 DEF Heard
  <2>1. k \in voiced
    BY <1>1, <1>4, <1>5 DEF EndsKnown
  <2> QED
    BY <1>1, <2>1 DEF Heard
<1>18. PastReported(trail')
  BY <1>1, <1>3
<1> QED
  BY <1>9, <1>10, <1>11, <1>12, <1>13, <1>14, <1>15, <1>16, <1>17, <1>18 DEF HeardInv

\* What a frame does: the edges grow by at most one.
Quietly == /\ edges' = edges /\ vad'.speech = vad.speech /\ vad'.floor = vad.floor
           /\ \A j \in vad'.onset : j \in vad.onset \/ j = vad.frames
           /\ vad.speech => vad'.onset = {}
Starting(j) == /\ ~vad.speech /\ vad'.speech /\ vad'.onset = {} /\ vad'.floor = vad.floor
               /\ j \in vad.onset \union {vad.frames}
               /\ edges' = Append(edges, Edge("SpeechStarted", Larger(Minus(j, pre_pad), vad.floor)))
Ending == /\ vad.speech /\ ~vad'.speech /\ vad'.onset = {}
          /\ vad'.floor = vad.last_voiced_end /\ vad'.last_voiced_end = vad.last_voiced_end
          /\ edges' = Append(edges, Edge("Endpoint", vad.last_voiced_end))

LEMMA FrameSteps ==
    ASSUME Shape, Detector, Frame
    PROVE  /\ at = "frames" /\ vad_enabled /\ vad.frames < buffer.end
           /\ UNCHANGED <<vad_enabled, buffer, voiced, utt, stopping, trail>>
           /\ vad' \in Vads /\ vad'.frames = vad.frames + 1
           /\ vad'.last_voiced_end = (IF vad.frames \in voiced THEN vad.frames + 1 ELSE vad.last_voiced_end)
           /\ at' = (IF vad'.frames = buffer.end THEN "edges" ELSE "frames")
           /\ Quietly \/ (\E j : Starting(j)) \/ Ending
<1> DEFINE loud == vad.frames \in voiced
           f == step_frame(vad, loud)
<1>1. /\ at = "frames" /\ UNCHANGED <<vad_enabled, buffer, voiced, utt, stopping, trail>>
      /\ vad' = f.vad /\ edges' = edges \o f.edges
      /\ at' = (IF vad'.frames = buffer.end THEN "edges" ELSE "frames")
  BY DEF Frame, Silent
<1>2. vad_enabled /\ vad.frames < buffer.end
  BY <1>1 DEF Detector, Shape
<1>3. vad \in Vads /\ loud \in BOOLEAN /\ (vad.speech => vad.onset = {}) /\ \E T : edges \in Seq(T)
  BY DEF Detector, Shape
<1> HIDE DEF loud
<1>4. /\ f.vad \in Vads /\ f.vad.frames = vad.frames + 1
      /\ f.vad.last_voiced_end = (IF loud THEN vad.frames + 1 ELSE vad.last_voiced_end)
      /\ \/ /\ f.edges = <<>> /\ f.vad.speech = vad.speech /\ f.vad.floor = vad.floor
            /\ \A j \in f.vad.onset : j \in vad.onset \/ (loud /\ j = vad.frames)
            /\ vad.speech => f.vad.onset = {}
         \/ /\ ~vad.speech /\ f.vad.speech /\ f.vad.onset = {} /\ f.vad.floor = vad.floor
            /\ \E j \in vad.onset \union {vad.frames} :
                  f.edges = <<Edge("SpeechStarted", Larger(Minus(j, pre_pad), vad.floor))>>
         \/ /\ vad.speech /\ ~loud /\ ~f.vad.speech /\ f.vad.onset = {}
            /\ f.vad.floor = vad.last_voiced_end
            /\ f.edges = <<Edge("Endpoint", vad.last_voiced_end)>>
  BY <1>3, FrameStep
<1> HIDE DEF f
<1>5. CASE /\ f.edges = <<>> /\ f.vad.speech = vad.speech /\ f.vad.floor = vad.floor
           /\ \A j \in f.vad.onset : j \in vad.onset \/ (loud /\ j = vad.frames)
           /\ vad.speech => f.vad.onset = {}
  <2>1. edges' = edges
    BY <1>1, <1>3, <1>5, Concats
  <2> QED
    BY <1>1, <1>2, <1>4, <1>5, <2>1 DEF Quietly, loud
<1>6. CASE /\ ~vad.speech /\ f.vad.speech /\ f.vad.onset = {} /\ f.vad.floor = vad.floor
           /\ \E j \in vad.onset \union {vad.frames} :
                 f.edges = <<Edge("SpeechStarted", Larger(Minus(j, pre_pad), vad.floor))>>
  <2>1. PICK j \in vad.onset \union {vad.frames} :
           f.edges = <<Edge("SpeechStarted", Larger(Minus(j, pre_pad), vad.floor))>>
    BY <1>6
  <2> DEFINE e == Edge("SpeechStarted", Larger(Minus(j, pre_pad), vad.floor))
  <2>2. edges' = edges \o <<e>>
    BY <1>1, <2>1
  <2> HIDE DEF e
  <2>3. edges' = Append(edges, e)
    BY <1>3, <2>2, Concats
  <2>4. Starting(j)
    BY <1>1, <1>6, <2>1, <2>3 DEF Starting, e
  <2> QED
    BY <1>1, <1>2, <1>4, <2>4 DEF loud
<1>7. CASE /\ vad.speech /\ ~loud /\ ~f.vad.speech /\ f.vad.onset = {}
           /\ f.vad.floor = vad.last_voiced_end
           /\ f.edges = <<Edge("Endpoint", vad.last_voiced_end)>>
  <2> DEFINE e == Edge("Endpoint", vad.last_voiced_end)
  <2>2. edges' = edges \o <<e>>
    BY <1>1, <1>7
  <2> HIDE DEF e
  <2>3. edges' = Append(edges, e)
    BY <1>3, <2>2, Concats
  <2>4. Ending
    BY <1>1, <1>4, <1>7, <2>3 DEF Ending, e
  <2> QED
    BY <1>1, <1>2, <1>4, <2>4 DEF loud
<1> QED
  BY <1>4, <1>5, <1>6, <1>7

\* The edges with one more.
LEMMA EdgesGrow ==
    ASSUME Shape, Detector, InStep, vad_enabled, Following, vad_enabled' , Following', NEW e \in Edges,
           edges' = Append(edges, e), utt' = utt, buffer'.end = buffer.end,
           e.kind = "SpeechStarted" <=> ~vad.speech, vad'.speech <=> ~vad.speech, vad'.speech \in BOOLEAN,
           vad'.floor \in Nat, vad.floor <= vad'.floor,
           vad.floor <= e.t, e.t <= buffer.end, e.kind = "Endpoint" => e.t <= vad'.floor
    PROVE  InStep'
<1>0. /\ Len(edges) \in Nat /\ Len(edges') = Len(edges) + 1 /\ edges'[Len(edges) + 1] = e
      /\ \A p \in 1 .. Len(edges) : edges'[p] = edges[p] /\ edges[p] \in Edges
      /\ \A p \in 1 .. Len(edges') : p \in 1 .. Len(edges) \/ p = Len(edges) + 1
  <2>1. edges \in Seq(Edges)
    BY DEF Shape
  <2>2. Len(edges) \in Nat /\ \A p \in 1 .. Len(edges) : edges[p] \in Edges
    BY <2>1
  <2>3. Len(edges') = Len(edges) + 1 /\ edges'[Len(edges) + 1] = e /\ \A p \in 1 .. Len(edges) : edges'[p] = edges[p]
    BY <2>1, OneMore
  <2> QED
    BY <2>2, <2>3
<1>1. /\ edges = <<>> => (utt.in_speech <=> vad.speech)
      /\ edges # <<>> => /\ edges[1].kind = "Endpoint" <=> utt.in_speech
                         /\ edges[Len(edges)].kind = "SpeechStarted" <=> vad.speech
      /\ \A p \in 1 .. Len(edges) - 1 : edges[p].kind # edges[p + 1].kind
  BY DEF InStep, Alternate
<1>2. /\ vad.floor \in Nat /\ vad.speech \in BOOLEAN /\ buffer.end \in Nat /\ e.t \in Nat
      /\ e.kind \in {"SpeechStarted", "Endpoint"}
  BY Numbers, DetectorNumbers DEF Edges
<1>e. edges' # <<>>
  <2>1. Len(edges') # 0
    BY <1>0
  <2> QED
    BY <2>1
<1>3. Alternate'
  <2>1. edges'[1].kind = "Endpoint" <=> utt.in_speech
    <3>1. CASE edges = <<>>
      <4>1. Len(edges) = 0
        BY <3>1
      <4>2. edges'[1] = e
        BY <1>0, <4>1
      <4> QED
        BY <1>1, <1>2, <3>1, <4>2
    <3>2. CASE edges # <<>>
      <4>1. Len(edges) # 0
        BY <3>2 DEF Shape
      <4>2. edges'[1] = edges[1]
        BY <1>0, <4>1
      <4> QED
        BY <1>1, <3>2, <4>2
    <3> QED
      BY <3>1, <3>2
  <2>2. edges'[Len(edges')].kind = "SpeechStarted" <=> vad'.speech
    BY <1>0, <1>2
  <2>3. ASSUME NEW p \in 1 .. Len(edges') - 1 PROVE edges'[p].kind # edges'[p + 1].kind
    <3>1. CASE p \in 1 .. Len(edges) - 1
      <4>1. edges'[p] = edges[p] /\ edges'[p + 1] = edges[p + 1]
        BY <1>0, <3>1
      <4> QED
        BY <1>1, <3>1, <4>1
    <3>2. CASE p = Len(edges)
      <4>1. Len(edges) # 0 /\ p \in 1 .. Len(edges)
        BY <1>0, <3>2
      <4>2. edges # <<>>
        BY <4>1
      <4>3. edges'[p] = edges[Len(edges)] /\ edges'[p + 1] = e /\ edges[Len(edges)] \in Edges
        BY <1>0, <3>2, <4>1
      <4>4. edges[Len(edges)].kind = "SpeechStarted" <=> vad.speech
        BY <1>1, <4>2
      <4> DEFINE k1 == edges[Len(edges)].kind
                 k2 == e.kind
      <4>5. k1 \in {"SpeechStarted", "Endpoint"} /\ k2 \in {"SpeechStarted", "Endpoint"}
        BY <1>2, <4>3 DEF Edges
      <4>6. (k1 = "SpeechStarted" <=> vad.speech) /\ (k2 = "SpeechStarted" <=> ~vad.speech)
        BY <4>4
      <4> HIDE DEF k1, k2
      <4>7. k1 # k2
        BY <1>2, <4>5, <4>6
      <4> QED
        BY <4>3, <4>7 DEF k1, k2
    <3> QED
      BY <1>0, <3>1, <3>2
  <2> QED
    BY <1>e, <2>1, <2>2, <2>3 DEF Alternate
<1>4. ASSUME NEW p \in 1 .. Len(edges')
      PROVE  edges'[p].t <= buffer'.end /\ (edges'[p].kind = "Endpoint" => edges'[p].t <= vad'.floor)
  <2>1. CASE p \in 1 .. Len(edges)
    <3>1. edges[p].t \in Nat
      BY <1>0, <2>1 DEF Edges
    <3> QED
      BY <1>0, <1>2, <2>1, <3>1 DEF InStep
  <2>2. CASE p = Len(edges) + 1
    BY <1>0, <2>2
  <2> QED
    BY <1>0, <2>1, <2>2
<1>5. ASSUME NEW p \in 1 .. Len(edges'), NEW q \in 1 .. Len(edges'), p < q, edges'[p].kind = "Endpoint"
      PROVE  edges'[p].t <= edges'[q].t
  <2>1. p \in 1 .. Len(edges) /\ edges'[p] = edges[p] /\ edges[p].t \in Nat
    BY <1>0, <1>5 DEF Edges
  <2>2. CASE q \in 1 .. Len(edges)
    BY <1>0, <1>5, <2>1, <2>2 DEF InStep
  <2>3. CASE q = Len(edges) + 1
    <3>1. edges[p].t <= vad.floor
      BY <1>5, <2>1 DEF InStep
    <3> QED
      BY <1>0, <1>2, <2>1, <2>3, <3>1
  <2> QED
    BY <1>0, <2>2, <2>3
<1> QED
  BY <1>3, <1>4, <1>5 DEF InStep

\* What the detector reports an utterance may start at, one may.
LEMMA FrameHeard ==
    ASSUME LifeInv, HeardInv, Frame
    PROVE  HeardInv'
<1>1. /\ Shape /\ Detector /\ InStep /\ Queued /\ Quiet /\ Watermark /\ EndsKnown /\ OpenKept /\ Heard
      /\ PastReported(trail)
  BY DEF HeardInv
<1>2. /\ at = "frames" /\ vad_enabled /\ vad.frames < buffer.end
      /\ UNCHANGED <<vad_enabled, buffer, voiced, utt, stopping, trail>>
      /\ vad' \in Vads /\ vad'.frames = vad.frames + 1
      /\ vad'.last_voiced_end = (IF vad.frames \in voiced THEN vad.frames + 1 ELSE vad.last_voiced_end)
      /\ at' = (IF vad'.frames = buffer.end THEN "edges" ELSE "frames")
      /\ Quietly \/ (\E j : Starting(j)) \/ Ending
  BY <1>1, FrameSteps
<1>3. /\ buffer.trimmed \in Nat /\ buffer.end \in Nat /\ \A k \in voiced : k \in Nat /\ k < buffer.end
  BY <1>1, Numbers
<1>4. /\ vad.frames \in Nat /\ vad.floor \in Nat /\ vad.last_voiced_end \in Nat
      /\ vad.floor <= vad.last_voiced_end /\ vad.last_voiced_end <= vad.frames
      /\ vad.speech \in BOOLEAN /\ \A j \in vad.onset : j \in Nat /\ vad.floor <= j /\ j < vad.frames
  BY <1>1, DetectorNumbers
<1>5. Following /\ Following' /\ Going /\ Going' /\ at' \in {"frames", "edges"} /\ slice_from' = slice_from
  BY <1>2 DEF Following, Going, slice_from
<1>6. /\ vad'.last_voiced_end \in Nat /\ vad.last_voiced_end <= vad'.last_voiced_end
      /\ vad'.last_voiced_end <= vad'.frames /\ vad'.frames <= buffer.end
      /\ \A k \in voiced : k < vad'.frames => k < vad'.last_voiced_end
  <2>1. \A k \in voiced : k < vad.frames => k < vad.last_voiced_end
    BY <1>1, <1>2 DEF Detector
  <2> QED
    BY <1>2, <1>3, <1>4, <2>1
<1>7. /\ vad'.floor \in Nat /\ vad.floor <= vad'.floor /\ vad'.floor <= vad'.last_voiced_end
      /\ \A j \in vad'.onset : j \in Nat /\ vad'.floor <= j /\ j < vad'.frames
      /\ vad'.speech => vad'.onset = {}
  <2>1. CASE Quietly
    BY <1>2, <1>4, <1>6, <2>1 DEF Quietly
  <2>2. ASSUME NEW j, Starting(j) PROVE <1>7!:
    BY <1>4, <1>6, <2>2 DEF Starting
  <2>3. CASE Ending
    BY <1>4, <1>6, <2>3 DEF Ending
  <2> QED
    BY <1>2, <2>1, <2>2, <2>3
<1>8. Detector'
  <2>1. at' = "frames" => vad'.frames < buffer'.end
    BY <1>2, <1>3, <1>4, <1>6
  <2>2. at' # "frames" => vad'.frames = buffer'.end
    BY <1>2
  <2>3. buffer.trimmed <= vad'.frames
    BY <1>1, <1>2, <1>3, <1>4 DEF Detector
  <2> QED
    BY <1>2, <1>6, <1>7, <2>1, <2>2, <2>3 DEF Detector
<1>9. ASSUME NEW j, Starting(j)
      PROVE  LET e == Edge("SpeechStarted", Larger(Minus(j, pre_pad), vad.floor))
             IN  e \in Edges /\ e.kind = "SpeechStarted" /\ vad.floor <= e.t /\ e.t <= buffer.end
  <2>1. j \in Nat /\ j <= vad.frames /\ pre_pad \in Nat
    BY <1>4, <1>9, Geometry DEF Starting
  <2> DEFINE t == Larger(Minus(j, pre_pad), vad.floor)
  <2>2. t \in Nat /\ vad.floor <= t /\ t <= buffer.end
    BY <1>2, <1>3, <1>4, <2>1 DEF Larger, Minus
  <2> HIDE DEF t
  <2>3. Edge("SpeechStarted", t) \in Edges /\ Edge("SpeechStarted", t).kind = "SpeechStarted" /\ Edge("SpeechStarted", t).t = t
    BY <2>2 DEF Edge, Edges
  <2> QED
    BY <2>2, <2>3 DEF t
<1>10. InStep' /\ edges' \in Seq(Edges)
  <2>0. edges \in Seq(Edges)
    BY <1>1 DEF Shape
  <2>1. CASE Quietly
    <3>1. Alternate'
      BY <1>1, <1>2, <1>5, <2>1 DEF Quietly, InStep, Alternate
    <3>2. edges' = edges /\ vad'.floor = vad.floor
      BY <2>1 DEF Quietly
    <3> QED
      BY <1>1, <1>2, <2>0, <3>1, <3>2 DEF InStep
  <2>2. ASSUME NEW j, Starting(j) PROVE <1>10!:
    <3> DEFINE e == Edge("SpeechStarted", Larger(Minus(j, pre_pad), vad.floor))
    <3>1. e \in Edges /\ e.kind = "SpeechStarted" /\ vad.floor <= e.t /\ e.t <= buffer.end
      BY <1>9, <2>2
    <3>2. /\ edges' = Append(edges, e) /\ ~vad.speech /\ vad'.speech /\ vad'.speech \in BOOLEAN
      BY <1>2, <2>2 DEF Starting, Vads
    <3> HIDE DEF e
    <3>3. InStep'
      BY <1>1, <1>2, <1>5, <1>7, <3>1, <3>2, EdgesGrow
    <3> QED
      BY <2>0, <3>1, <3>2, <3>3
  <2>3. CASE Ending
    <3> DEFINE e == Edge("Endpoint", vad.last_voiced_end)
    <3>1. e \in Edges /\ e.kind = "Endpoint" /\ e.t = vad.last_voiced_end
      BY <1>4 DEF Edge, Edges
    <3>2. /\ edges' = Append(edges, e) /\ vad.speech /\ ~vad'.speech /\ vad'.speech \in BOOLEAN
          /\ vad'.floor = vad.last_voiced_end
      BY <1>2, <2>3 DEF Ending, Vads
    <3> HIDE DEF e
    <3>3. vad.floor <= e.t /\ e.t <= buffer.end /\ e.t <= vad'.floor
      BY <1>2, <1>3, <1>4, <3>1, <3>2
    <3>4. InStep'
      BY <1>1, <1>2, <1>5, <1>7, <3>1, <3>2, <3>3, EdgesGrow
    <3> QED
      BY <2>0, <3>1, <3>2, <3>4
  <2> QED
    BY <1>2, <2>1, <2>2, <2>3
<1>11. Shape'
  BY <1>1, <1>2, <1>5, <1>10 DEF Shape, Places
<1>12. Queued'
  <2>1. CASE Quietly
    BY <1>1, <1>2, <2>1 DEF Quietly, Queued
  <2>2. ASSUME NEW e, edges' = Append(edges, e), e.kind = "SpeechStarted" => Begins(Marks(trail), voiced, buffer, e.t)
        PROVE  Queued'
    <3>1. /\ Len(edges') = Len(edges) + 1 /\ edges'[Len(edges) + 1] = e /\ Len(edges) \in Nat
          /\ \A p \in 1 .. Len(edges) : edges'[p] = edges[p]
      BY <1>1, <2>2, OneMore DEF Shape
    <3> SUFFICES ASSUME NEW p \in 1 .. Len(edges'), edges'[p].kind = "SpeechStarted"
                 PROVE  Begins(Marks(trail), voiced, buffer, edges'[p].t)
      BY <1>2 DEF Queued
    <3>2. CASE p \in 1 .. Len(edges)
      BY <1>1, <3>1, <3>2 DEF Queued
    <3>3. CASE p = Len(edges) + 1
      BY <2>2, <3>1, <3>3
    <3> QED
      BY <3>1, <3>2, <3>3
  <2>3. ASSUME NEW j, Starting(j) PROVE Queued'
    <3> DEFINE e == Edge("SpeechStarted", Larger(Minus(j, pre_pad), vad.floor))
    <3>1. e \in Edges /\ vad.floor <= e.t
      BY <1>9, <2>3
    <3>2. edges' = Append(edges, e) /\ ~vad.speech
      BY <2>3 DEF Starting
    <3> HIDE DEF e
    <3>3. Begins(Marks(trail), voiced, buffer, vad.floor)
      BY <1>1, <1>2, <1>5, <3>2 DEF Quiet
    <3>4. \A k \in voiced : k >= e.t => k >= vad.floor
      BY <1>3, <1>4, <3>1 DEF Edges
    <3>5. Begins(Marks(trail), voiced, buffer, e.t)
      <4>1. PastEnds(Marks(trail), voiced, e.t)
        BY <3>3, <3>4 DEF Begins, PastEnds
      <4>2. KeptFrom(Marks(trail), voiced, buffer, e.t)
        <5>1. \A k \in voiced : e.t <= k => vad.floor <= k
          BY <1>3, <1>4, <3>1 DEF Edges
        <5> QED
          BY <3>3, <5>1 DEF Begins, KeptFrom
      <4> QED
        BY <4>1, <4>2 DEF Begins
    <3> QED
      BY <2>2, <3>2, <3>5
  <2>4. CASE Ending
    <3> DEFINE e == Edge("Endpoint", vad.last_voiced_end)
    <3>1. edges' = Append(edges, e) /\ e.kind # "SpeechStarted"
      BY <2>4 DEF Ending, Edge
    <3> HIDE DEF e
    <3> QED
      BY <2>2, <3>1
  <2> QED
    BY <1>2, <2>1, <2>3, <2>4
<1>13. Quiet'
  <2> SUFFICES ASSUME ~vad'.speech PROVE Begins(Marks(trail), voiced, buffer, vad'.floor)
    BY <1>2 DEF Quiet
  <2>1. CASE Quietly
    BY <1>1, <1>2, <1>5, <2>1 DEF Quietly, Quiet
  <2>2. CASE Ending
    <3>1. vad'.floor = vad.last_voiced_end
      BY <2>2 DEF Ending
    <3>2. ASSUME NEW k \in voiced, k >= vad.last_voiced_end PROVE k >= vad.frames
      BY <1>1, <1>2, <1>3, <1>4, <3>2 DEF Detector
    <3>3. PastEnds(Marks(trail), voiced, vad.last_voiced_end)
      BY <1>1, <1>2, <1>3, <1>4, <3>2 DEF PastEnds, EndsKnown
    <3>4. KeptFrom(Marks(trail), voiced, buffer, vad.last_voiced_end)
      <4>1. buffer.trimmed <= vad.frames
        BY <1>1, <1>2 DEF Detector
      <4>2. \A k \in voiced : vad.last_voiced_end <= k => ~(k < buffer.trimmed)
        BY <1>3, <1>4, <3>2, <4>1
      <4> QED
        BY <4>2 DEF KeptFrom
    <3> QED
      BY <3>1, <3>3, <3>4 DEF Begins
  <2> QED
    BY <1>2, <2>1, <2>2 DEF Starting
<1>14. Watermark' /\ Heard'
  BY <1>1, <1>2 DEF Watermark, Heard
<1>15. EndsKnown'
  BY <1>1, <1>2, <1>4 DEF EndsKnown
<1>16. OpenKept'
  BY <1>1, <1>2, <1>5 DEF OpenKept, Speaking
<1> QED
  BY <1>1, <1>2, <1>8, <1>10, <1>11, <1>12, <1>13, <1>14, <1>15, <1>16 DEF HeardInv

-----------------------------------------------------------------------------
(* The steps of a session, by what they do to its audio.                   *)

\* Only the loop moves on, or drops the edges when it ends.
Calm ==
    /\ SaysNothing
    /\ UNCHANGED <<vad_enabled, buffer, vad, voiced, utt>>
    /\ edges' = edges \/ (edges' = <<>> /\ ~Following')
    /\ stopping' \in BOOLEAN /\ at' \in Places /\ (at' \notin {"frames", "edges"} => edges' = <<>>)
    /\ at' = "frames" <=> at = "frames"
    /\ (Going' => Going) /\ (Following' => Following) /\ (Speaking' => Speaking)
    /\ at' = "step" => at = "step"

EndsSpeech ==
    /\ at = "edges" /\ edges # <<>> /\ Head(edges).kind = "Endpoint" /\ utt.in_speech
    /\ CloseUtterance(Head(edges).t) /\ buffer' = AfterUtterance(Head(edges).t)
    /\ utt' = [utt EXCEPT !.in_speech = FALSE] /\ edges' = Tail(edges)
    /\ UNCHANGED <<vad_enabled, at, vad, voiced, stopping>>

TimesOut ==
    /\ at = "edges" /\ edges = <<>> /\ utt.in_speech
    /\ CloseUtterance(buffer.end) /\ buffer' = AfterUtterance(buffer.end) /\ at' = "reopen"
    /\ UNCHANGED <<vad_enabled, vad, edges, voiced, utt, stopping>>

Commits ==
    /\ at = "step" /\ at' = "top" /\ utt.in_speech
    /\ \E heard : CommitsTo(heard)
    /\ UNCHANGED <<vad_enabled, buffer, vad, edges, voiced, stopping>>

\* An onset comes while nobody speaks, the end of speech while somebody does.
LEMMA EdgesAlternate ==
    ASSUME LifeInv, HeardInv, at = "edges", edges # <<>>
    PROVE  utt.in_speech <=> Head(edges).kind = "Endpoint"
<1>1. /\ Following /\ InStep /\ Shape /\ utt.in_speech \in BOOLEAN
  BY DEF Following, Going, HeardInv, LifeInv
<1>2. Head(edges) = edges[1] /\ vad_enabled \in BOOLEAN
  BY <1>1, EdgesSplit DEF Shape
<1>4. CASE vad_enabled
  BY <1>1, <1>2, <1>4 DEF InStep, Alternate
<1>5. CASE ~vad_enabled
  BY <1>1, <1>2, <1>5 DEF InStep
<1> QED
  BY <1>2, <1>4, <1>5

\* The steps outside utterances.
LEMMA OuterCalm ==
    ASSUME LifeInv, HeardInv,
           SessionStart \/ (Terminate /\ ~utt.in_speech) \/ Close \/ Store \/ Abort \/ UNCHANGED vars
    PROVE  Calm
<1>1. Shape
  BY DEF HeardInv
<1>2. SaysNothing
  <2>1. UNCHANGED trail \/ SessionStart \/ Close \/ Store
    BY DEF Terminate, Silent, Abort, vars, sessionVars
  <2> QED
    BY <2>1, SayNothing
<1>3. CASE SessionStart
  BY <1>1, <1>2, <1>3 DEF SessionStart, audio, Calm, Shape, Places, Going, Following, Speaking
<1>4. CASE Terminate /\ ~utt.in_speech
  BY <1>1, <1>2, <1>4 DEF Terminate, audio, Calm, Shape, Places, Going, Following, Speaking
<1>5. CASE Close
  BY <1>1, <1>2, <1>5 DEF Close, audio, Calm, Shape, Places, Going, Following, Speaking
<1>6. CASE Store \/ Abort \/ UNCHANGED vars
  <2>1. UNCHANGED <<vad_enabled, at, buffer, vad, edges, voiced, utt, stopping>>
    BY <1>6 DEF Store, Abort, vars, sessionVars, audio
  <2> QED
    BY <1>1, <1>2, <2>1 DEF Calm, Shape, Places, Going, Following, Speaking
<1> QED
  BY <1>3, <1>4, <1>5, <1>6

\* A decode that is cancelled, or that commits nothing, and the rest of the loop.
LEMMA InnerCalm ==
    ASSUME LifeInv, HeardInv, UNCHANGED trail, UNCHANGED <<vad_enabled, buffer, vad, voiced, utt>>,
           \/ at = "edges" /\ CancelledDecode
           \/ at = "edges" /\ at' = "cap" /\ edges = <<>> /\ UNCHANGED <<edges, stopping>>
           \/ at = "step" /\ at' = "top" /\ edges' = edges /\ (stopping' = TRUE \/ stopping' = stopping)
    PROVE  Calm
<1>1. Shape
  BY DEF HeardInv
<1>2. SaysNothing
  BY SayNothing
<1>3. CASE at = "edges" /\ CancelledDecode
  BY <1>1, <1>2, <1>3 DEF CancelledDecode, Calm, Shape, Places, Going, Following, Speaking
<1>4. CASE at = "edges" /\ at' = "cap" /\ edges = <<>> /\ UNCHANGED <<edges, stopping>>
  BY <1>1, <1>2, <1>4 DEF Calm, Shape, Places, Going, Following, Speaking
<1>5. CASE at = "step" /\ at' = "top" /\ edges' = edges /\ (stopping' = TRUE \/ stopping' = stopping)
  BY <1>1, <1>2, <1>5 DEF Calm, Shape, Places, Going, Following, Speaking
<1> QED
  BY <1>3, <1>4, <1>5

LEMMA AudioSteps ==
    ASSUME LifeInv, HeardInv, [Next]_vars
    PROVE  \/ Calm \/ Read \/ Frame \/ Reopen \/ Cap \/ EndsSpeech \/ TimesOut \/ Commits
           \/ (Terminate /\ utt.in_speech) \/ (Onset /\ ~utt.in_speech)
<1>1. CASE SessionStart \/ Close \/ Store \/ Abort \/ UNCHANGED vars
  BY <1>1, OuterCalm
<1>2. CASE Terminate
  BY <1>2, OuterCalm
<1>3. CASE Onset
  <2>1. Head(edges).kind = "SpeechStarted" /\ at = "edges" /\ edges # <<>>
    BY <1>3 DEF Onset
  <2> QED
    BY <1>3, <2>1, EdgesAlternate
<1>4. CASE Endpoint
  <2>1. Head(edges).kind = "Endpoint" /\ at = "edges" /\ edges # <<>>
    BY <1>4 DEF Endpoint
  <2>2. utt.in_speech
    BY <2>1, EdgesAlternate
  <2>3. CASE CancelledDecode
    <3>1. UNCHANGED trail /\ UNCHANGED <<vad_enabled, buffer, vad, voiced, utt>>
      BY <2>3 DEF CancelledDecode, Silent
    <3> QED
      BY <2>1, <2>3, <3>1, InnerCalm
  <2>4. EndsSpeech \/ CancelledDecode
    BY <1>4, <2>1, <2>2 DEF Endpoint, EndsSpeech
  <2> QED
    BY <2>3, <2>4
<1>5. CASE Timeout
  <2>1. at = "edges" /\ edges = <<>>
    BY <1>5 DEF Timeout
  <2>2. CASE CancelledDecode
    <3>1. UNCHANGED trail /\ UNCHANGED <<vad_enabled, buffer, vad, voiced, utt>>
      BY <2>2 DEF CancelledDecode, Silent
    <3> QED
      BY <2>1, <2>2, <3>1, InnerCalm
  <2>3. CASE at' = "cap" /\ Silent /\ UNCHANGED <<vad_enabled, audio, utt, stopping>>
    <3>1. UNCHANGED trail /\ UNCHANGED <<vad_enabled, buffer, vad, voiced, utt>> /\ UNCHANGED <<edges, stopping>>
      BY <2>3 DEF Silent, audio
    <3> QED
      BY <2>1, <2>3, <3>1, InnerCalm
  <2>4. TimesOut \/ CancelledDecode \/ (at' = "cap" /\ Silent /\ UNCHANGED <<vad_enabled, audio, utt, stopping>>)
    BY <1>5 DEF Timeout, TimesOut
  <2> QED
    BY <2>2, <2>3, <2>4
<1>6. CASE Step
  <2>1. at = "step" /\ at' = "top" /\ UNCHANGED <<vad_enabled, buffer, vad, edges, voiced>>
    BY <1>6 DEF Step, audio
  <2>2. CASE Silent /\ UNCHANGED utt /\ (stopping' = TRUE \/ stopping' = stopping)
    <3>1. UNCHANGED trail /\ UNCHANGED <<vad_enabled, buffer, vad, voiced, utt>> /\ edges' = edges
      BY <2>1, <2>2 DEF Silent
    <3> QED
      BY <2>1, <2>2, <3>1, InnerCalm
  <2>3. ASSUME NEW heard, CommitsTo(heard), utt.in_speech, UNCHANGED stopping PROVE Commits
    BY <2>1, <2>3 DEF Commits
  <2>4. \/ Silent /\ UNCHANGED utt /\ (stopping' = TRUE \/ stopping' = stopping)
        \/ utt.in_speech /\ UNCHANGED stopping /\ \E heard : CommitsTo(heard)
    BY <1>6 DEF Step, CommitsTo
  <2> QED
    BY <2>2, <2>3, <2>4
<1> QED
  BY <1>1, <1>2, <1>3, <1>4, <1>5, <1>6 DEF Next, Ended

-----------------------------------------------------------------------------
(* VoicedIsHeard.                                                          *)

LEMMA HeardInit == Init => HeardInv
<1> SUFFICES ASSUME Init PROVE HeardInv
  OBVIOUS
<1>1. /\ vad_enabled \in BOOLEAN /\ at = "start" /\ edges = <<>> /\ voiced = {} /\ stopping = FALSE /\ trail = <<>>
      /\ buffer = [trimmed |-> 0, end |-> 0, committed |-> 0]
      /\ vad = [frames |-> 0, speech |-> FALSE, onset |-> {}, last_voiced_end |-> 0, run |-> 0, floor |-> 0]
      /\ utt = [id |-> 0, in_speech |-> FALSE, t0 |-> 0, through |-> 0]
  BY GeometryAssumption DEF Init, NewVad
<1>2. Marks(trail) = {} /\ EndsOf(Marks(trail)) = {}
  <2>1. Len(trail) = 0
    BY <1>1, Zenon
  <2>2. \A j \in 1 .. Len(trail) : FALSE
    BY <2>1
  <2> QED
    BY <2>2 DEF Marks, EndsOf
<1>3. PastReported(trail)
  <2>1. Len(trail) = 0
    BY <1>1, Zenon
  <2> QED
    BY <2>1 DEF PastReported
<1>4. /\ \A p \in 1 .. Len(edges) : FALSE
      /\ \A p \in 1 .. Len(edges) - 1 : FALSE
      /\ edges \in Seq(Edges)
  <2>1. Len(edges) = 0 /\ edges \in Seq(Edges)
    BY <1>1
  <2> QED
    BY <2>1
<1>5. Shape
  <2>1. /\ buffer \in Buffers /\ buffer.trimmed <= buffer.end /\ buffer.committed <= buffer.end
        /\ utt.t0 \in Nat /\ utt.through \in Nat
    BY <1>1 DEF Buffers
  <2>2. stopping \in BOOLEAN /\ at \in Places /\ \A k \in voiced : k \in Nat /\ k < buffer.end
    BY <1>1 DEF Places
  <2> QED
    BY <1>1, <1>4, <2>1, <2>2 DEF Shape
<1>6. Detector
  BY <1>1 DEF Detector, Vads
<1>7. InStep
  BY <1>1, <1>2, <1>4 DEF InStep, Alternate
<1>8. Queued
  BY <1>4 DEF Queued
<1>9. Quiet
  BY <1>1, <1>2 DEF Quiet, Begins, PastEnds, KeptFrom
<1>10. Watermark /\ EndsKnown /\ OpenKept /\ Heard
  BY <1>1, <1>2 DEF Watermark, EndsKnown, OpenKept, Heard, Speaking
<1> QED
  BY <1>3, <1>5, <1>6, <1>7, <1>8, <1>9, <1>10 DEF HeardInv

LEMMA HeardNext == LifeInv /\ HeardInv /\ [Next]_vars => HeardInv'
<1> SUFFICES ASSUME LifeInv, HeardInv, [Next]_vars PROVE HeardInv'
  OBVIOUS
<1>1. CASE Calm
  BY <1>1, CalmHeard DEF Calm
<1>2. CASE Read
  BY <1>2, ReadHeard
<1>3. CASE Frame
  BY <1>3, FrameHeard
<1>4. CASE Reopen
  BY <1>4, ReopenHeard
<1>5. CASE Cap
  BY <1>5, CapHeard
<1>6. CASE EndsSpeech
  BY <1>6, EndpointHeard DEF EndsSpeech
<1>7. CASE TimesOut
  BY <1>7, TimeoutHeard DEF TimesOut
<1>8. CASE Commits
  BY <1>8, CommitHeard DEF Commits
<1>9. CASE Terminate /\ utt.in_speech
  BY <1>9, TerminateHeard
<1>10. CASE Onset /\ ~utt.in_speech
  BY <1>10, OnsetHeard
<1> QED
  BY <1>1, <1>2, <1>3, <1>4, <1>5, <1>6, <1>7, <1>8, <1>9, <1>10, AudioSteps

\* No word that was said is missing: every voiced tick between the reported start and end of
\* an utterance is in one of its deltas or in a forced_trim warning, for every geometry of
\* the buffer and the detector and however run_listen_session's trims, timeouts, pre-padded
\* onsets, cancelled decodes and the end of the session follow on each other.
THEOREM VoicedAudioIsHeard == Spec => []VoicedIsHeard
<1>1. LifeInv /\ HeardInv => VoicedIsHeard
  <2> SUFFICES ASSUME LifeInv, HeardInv, NEW e \in DOMAIN trail, Is(e, "utterance_end"), NEW k \in voiced,
                      trail[e].t0 <= k, k < trail[e].t1
               PROVE  \E i \in DOMAIN trail :
                          /\ k \in trail[i].text
                          /\ \/ Is(i, "forced_trim")
                             \/ Is(i, "delta") /\ trail[i].id = trail[e].id
    BY DEF VoicedIsHeard
  <2>1. DOMAIN trail = 1 .. Len(trail)
    BY DEF LifeInv, Life
  <2>2. trail[e] \in EndsOf(Marks(trail))
    BY <2>1 DEF EndsOf, Marks, Marking, Is
  <2>3. Warned(Marks(trail), k) \/ Said(Marks(trail), k, trail[e].id)
    BY <2>2 DEF HeardInv, Heard
  <2>4. \A m \in Marks(trail) : \E i \in DOMAIN trail : m = trail[i]
    BY <2>1 DEF Marks
  <2> QED
    BY <2>3, <2>4 DEF Warned, Said, Is
<1> QED
  BY <1>1, LifeInit, LifeNext, HeardInit, HeardNext, PTL DEF Spec

-----------------------------------------------------------------------------
(* CommittedOnce.                                                          *)

LEMMA OnceParts ==
    ASSUME HeardInv, OnceInv
    PROVE  /\ Shape /\ Detector /\ InStep /\ Watermark
           /\ Trims /\ Onsets /\ OpenAhead /\ Apart(trail)
BY DEF HeardInv, OnceInv

\* The last decode of an utterance says nothing its earlier ones have said.
LEMMA CloseApart ==
    ASSUME LifeInv, HeardInv, OnceInv, Speaking, NEW t1, CloseUtterance(t1)
    PROVE  Apart(trail')
<1> DEFINE t == window_from(slice_from)
<1>1. Shape /\ OpenAhead /\ Apart(trail)
  BY OnceParts
<1>2. \A k \in t : k \in Nat /\ k >= slice_from
  BY <1>1, Numbers, WindowIs
<1>3. slice_from \in Nat
  BY <1>1, Numbers
<1>4. \/ Overrun(Marks(trail), utt.id)
      \/ \A x \in Marks(trail) : x.kind = "delta" /\ x.id = utt.id => \A k \in x.text : k \notin t
  <2>1. \/ Overrun(Marks(trail), utt.id)
        \/ \A x \in Marks(trail) : x.kind = "delta" /\ x.id = utt.id => \A k \in x.text : k < slice_from
    BY <1>1 DEF OpenAhead
  <2>2. \A k \in t : ~(k < slice_from)
    BY <1>2, <1>3
  <2> QED
    BY <2>1, <2>2
<1> QED
  BY <1>1, <1>4, CloseSays

LEMMA CalmOnce ==
    ASSUME HeardInv, OnceInv, Calm
    PROVE  OnceInv'
<1>1. /\ Trims /\ Onsets /\ OpenAhead /\ Apart(trail)
  BY OnceParts
<1>2. Trims'
  BY <1>1 DEF Calm, Trims, TrimSafe, CommitSafe
<1>3. Onsets'
  <2>1. CASE edges' = edges
    BY <1>1, <2>1 DEF Calm, Onsets, InWindow
  <2>2. CASE edges' = <<>>
    BY <2>2 DEF Onsets
  <2> QED
    BY <2>1, <2>2 DEF Calm
<1>4. OpenAhead'
  <2>1. slice_from' = slice_from
    BY DEF Calm, slice_from
  <2> QED
    BY <1>1, <2>1 DEF Calm, SaysNothing, OpenAhead, InWindow
<1>5. Apart(trail')
  BY <1>1 DEF Calm, SaysNothing
<1> QED
  BY <1>2, <1>3, <1>4, <1>5 DEF OnceInv

LEMMA TerminateOnce ==
    ASSUME LifeInv, HeardInv, OnceInv, Terminate, utt.in_speech
    PROVE  OnceInv'
<1>1. /\ at = "top" /\ at' = "closing" /\ CloseUtterance(buffer.end) /\ edges' = edges
  BY DEF Terminate, audio
<1>2. edges = <<>>
  BY <1>1, OnceParts DEF Shape
<1>3. Speaking /\ ~Going' /\ ~Speaking'
  BY <1>1 DEF Speaking, Going
<1>4. Apart(trail')
  BY <1>1, <1>3, CloseApart
<1>5. Onsets'
  BY <1>1, <1>2 DEF Onsets
<1> QED
  BY <1>3, <1>4, <1>5 DEF OnceInv, Trims, OpenAhead

LEMMA TimesOutOnce ==
    ASSUME LifeInv, HeardInv, OnceInv, pre_pad <= keep_back, TimesOut
    PROVE  OnceInv'
<1>1. /\ at = "edges" /\ edges = <<>> /\ utt.in_speech /\ at' = "reopen"
      /\ CloseUtterance(buffer.end) /\ buffer' = AfterUtterance(buffer.end)
      /\ UNCHANGED <<vad_enabled, vad, edges>>
  BY DEF TimesOut
<1>2. Shape /\ Detector /\ InStep /\ Trims
  BY OnceParts
<1>3. Speaking /\ Following /\ Going /\ ~Speaking'
  BY <1>1 DEF Speaking, Following, Going
<1>4. Apart(trail')
  BY <1>1, <1>3, CloseApart
<1>5. /\ buffer' \in Buffers /\ buffer'.committed <= buffer.end
      /\ buffer'.trimmed = buffer.trimmed \/ buffer'.trimmed + keep_back <= buffer'.committed
  BY <1>1, <1>2, Numbers, AfterEnd DEF Shape
<1>6. ASSUME vad_enabled PROVE TrimSafe(buffer', vad) /\ CommitSafe(buffer', vad)
  <2>1. vad.frames = buffer.end /\ vad.onset = {}
    BY <1>1, <1>2, <1>3, <1>6 DEF Detector, InStep, Alternate
  <2>2. buffer.end \in Nat /\ keep_back \in Nat /\ pre_pad \in Nat /\ buffer'.trimmed \in Nat /\ buffer'.committed \in Nat
    BY <1>2, <1>5, Numbers, Geometry DEF Buffers
  <2>3. TrimSafe(buffer, vad)
    BY <1>2, <1>3, <1>6 DEF Trims
  <2>4. TrimSafe(buffer', vad)
    <3>1. CASE buffer'.trimmed = buffer.trimmed
      BY <2>3, <3>1 DEF TrimSafe
    <3>2. CASE buffer'.trimmed + keep_back <= buffer'.committed
      BY <1>5, <2>1, <2>2, <3>2 DEF TrimSafe
    <3> QED
      BY <1>5, <3>1, <3>2
  <2>5. CommitSafe(buffer', vad)
    BY <1>5, <2>1 DEF CommitSafe
  <2> QED
    BY <2>4, <2>5
<1>7. Trims'
  BY <1>1, <1>6 DEF Trims
<1>8. Onsets'
  BY <1>1 DEF Onsets
<1> QED
  BY <1>3, <1>4, <1>7, <1>8 DEF OnceInv, OpenAhead

LEMMA EndsSpeechOnce ==
    ASSUME LifeInv, HeardInv, OnceInv, pre_pad <= keep_back, EndsSpeech
    PROVE  OnceInv'
<1> DEFINE t1 == Head(edges).t
<1>1. /\ at = "edges" /\ edges # <<>> /\ Head(edges).kind = "Endpoint" /\ utt.in_speech
      /\ CloseUtterance(t1) /\ buffer' = AfterUtterance(t1)
      /\ utt'.in_speech = FALSE /\ edges' = Tail(edges) /\ UNCHANGED <<vad_enabled, at, vad>>
  BY DEF EndsSpeech, LifeInv
<1>2. Shape /\ Detector /\ InStep /\ Trims /\ Onsets
  BY OnceParts
<1>3. Speaking /\ Going /\ ~Speaking'
  BY <1>1 DEF Speaking, Going
<1>4. /\ edges[1] = Head(edges) /\ 1 \in 1 .. Len(edges) /\ Len(edges) \in Nat /\ edges[1] \in Edges
      /\ \A p \in 1 .. Len(edges') : edges'[p] = edges[p + 1] /\ p + 1 \in 1 .. Len(edges) /\ edges[p + 1] \in Edges
  BY <1>1, <1>2, EdgesSplit DEF Shape
<1>5. t1 \in Nat /\ t1 <= vad.floor
  BY <1>1, <1>2, <1>4 DEF InStep, Edges
<1> HIDE DEF t1
<1>6. Apart(trail')
  BY <1>1, <1>3, CloseApart
<1>7. /\ buffer' \in Buffers /\ buffer'.end = buffer.end /\ buffer'.trimmed >= buffer.trimmed
      /\ buffer'.trimmed = buffer.trimmed \/ buffer'.trimmed + keep_back <= buffer'.committed
      /\ buffer'.committed = buffer.committed \/ buffer'.committed <= t1
  BY <1>1, <1>2, <1>5, AfterEnd DEF Shape
<1>8. /\ buffer'.trimmed \in Nat /\ buffer'.committed \in Nat /\ buffer.trimmed \in Nat /\ buffer.committed \in Nat
      /\ buffer.end \in Nat /\ keep_back \in Nat /\ pre_pad \in Nat /\ max_buffer \in Nat
  BY <1>2, <1>7, Numbers, Geometry DEF Buffers
<1>9. /\ vad.frames \in Nat /\ vad.floor \in Nat /\ vad.floor <= vad.frames
      /\ \A j \in vad.onset : j \in Nat /\ vad.floor <= j
  BY <1>2, DetectorNumbers
<1>10. Trims'
  <2> SUFFICES ASSUME vad_enabled PROVE TrimSafe(buffer', vad) /\ CommitSafe(buffer', vad)
    BY <1>1 DEF Trims
  <2>1. TrimSafe(buffer, vad) /\ CommitSafe(buffer, vad)
    BY <1>2, <1>3 DEF Trims
  <2>2. CASE buffer'.committed <= t1
    <3>1. CommitSafe(buffer', vad)
      BY <1>5, <1>8, <1>9, <2>2 DEF CommitSafe
    <3>2. CASE buffer'.trimmed = buffer.trimmed
      BY <2>1, <3>1, <3>2 DEF TrimSafe
    <3>3. CASE buffer'.trimmed + keep_back <= buffer'.committed
      BY <1>5, <1>8, <1>9, <2>2, <3>1, <3>3 DEF TrimSafe
    <3> QED
      BY <1>7, <3>2, <3>3
  <2>3. CASE buffer'.committed = buffer.committed
    <3>1. CASE buffer.committed <= buffer.trimmed
      <4>1. buffer'.trimmed = buffer.trimmed
        BY <1>7, <1>8, <2>3, <3>1
      <4> QED
        BY <2>1, <2>3, <4>1 DEF TrimSafe, CommitSafe
    <3>2. CASE buffer.committed <= vad.frames /\ \A j \in vad.onset : buffer.committed <= j
      <4>1. CommitSafe(buffer', vad)
        BY <2>3, <3>2 DEF CommitSafe
      <4>2. CASE buffer'.trimmed = buffer.trimmed
        BY <2>1, <4>1, <4>2 DEF TrimSafe
      <4>3. CASE buffer'.trimmed + keep_back <= buffer'.committed
        BY <1>8, <1>9, <2>3, <3>2, <4>1, <4>3 DEF TrimSafe
      <4> QED
        BY <1>7, <4>2, <4>3
    <3> QED
      BY <2>1, <3>1, <3>2 DEF CommitSafe
  <2> QED
    BY <1>7, <2>2, <2>3
<1>11. Onsets'
  <2> SUFFICES ASSUME NEW p \in 1 .. Len(edges'), edges'[p].kind = "SpeechStarted"
               PROVE  /\ InWindow(buffer', edges'[p].t)
                      /\ buffer'.committed <= buffer'.trimmed \/ buffer'.committed <= edges'[p].t + keep_back
    BY DEF Onsets
  <2> DEFINE q == p + 1
             t == edges[q].t
  <2>1. edges'[p] = edges[q] /\ q \in 1 .. Len(edges) /\ t \in Nat /\ 1 < q
    BY <1>4 DEF Edges
  <2>2. t1 <= t
    BY <1>1, <1>2, <1>4, <2>1 DEF InStep, t1
  <2>3. /\ buffer.trimmed <= t \/ buffer.trimmed + max_buffer < buffer.end
        /\ buffer.committed <= buffer.trimmed \/ buffer.committed <= t + keep_back
    BY <1>2, <2>1 DEF Onsets, InWindow
  <2> HIDE DEF t, q
  <2>4. /\ buffer'.trimmed <= t \/ buffer'.trimmed + max_buffer < buffer.end
        /\ buffer'.committed <= buffer'.trimmed \/ buffer'.committed <= t + keep_back
    <3> DEFINE a == buffer.trimmed
               b == buffer'.trimmed
               c == buffer.committed
               d == buffer'.committed
               n == buffer.end
    <3>1. /\ a \in Nat /\ b \in Nat /\ c \in Nat /\ d \in Nat /\ n \in Nat
          /\ t \in Nat /\ t1 \in Nat /\ keep_back \in Nat /\ max_buffer \in Nat
      BY <1>5, <1>8, <2>1
    <3>2. /\ a <= b /\ (b = a \/ b + keep_back <= d) /\ (d = c \/ d <= t1) /\ t1 <= t
          /\ a <= t \/ a + max_buffer < n
          /\ c <= a \/ c <= t + keep_back
      BY <1>7, <2>2, <2>3
    <3> HIDE DEF a, b, c, d, n
    <3>3. d <= b \/ d <= t + keep_back
      BY <3>1, <3>2
    <3>4. b = a \/ b <= t
      BY <3>1, <3>2
    <3>5. b <= t \/ b + max_buffer < n
      BY <3>2, <3>4
    <3> QED
      BY <3>3, <3>5 DEF a, b, c, d, n
  <2> QED
    BY <1>7, <2>1, <2>4 DEF InWindow, t
<1> QED
  BY <1>3, <1>6, <1>10, <1>11 DEF OnceInv, OpenAhead

LEMMA OnsetOnce ==
    ASSUME LifeInv, HeardInv, OnceInv, Onset, ~utt.in_speech
    PROVE  OnceInv'
<1> DEFINE t == Head(edges).t
           e == SpeechStarted(utt.id + 1, t)
<1>1. /\ at = "edges" /\ at' = at /\ edges # <<>> /\ Head(edges).kind = "SpeechStarted" /\ edges' = Tail(edges)
      /\ utt' = [id |-> utt.id + 1, in_speech |-> TRUE, t0 |-> t, through |-> 0]
      /\ trail' = trail \o <<e>> /\ UNCHANGED <<vad_enabled, buffer, vad>>
  BY DEF Onset, NewUtterance, Emit
<1>2. Shape /\ Trims /\ Onsets /\ OpenAhead /\ Apart(trail)
  BY OnceParts
<1>3. /\ edges[1] = Head(edges) /\ 1 \in 1 .. Len(edges) /\ edges[1] \in Edges
      /\ \A p \in 1 .. Len(edges') : edges'[p] = edges[p + 1] /\ p + 1 \in 1 .. Len(edges)
  BY <1>1, <1>2, EdgesSplit DEF Shape
<1>4. Going /\ Going' /\ slice_from' = t /\ t \in Nat
  BY <1>1, <1>3 DEF Going, slice_from, Edges
<1>5. SaysNothing
  <2>1. e.kind \notin Marking /\ \E T : trail \in Seq(T)
    BY UnmarkedKinds DEF LifeInv, Life
  <2> HIDE DEF e
  <2> QED
    BY <1>1, <2>1, Concats, Unmarked
<1>6. Trims'
  BY <1>1, <1>2, <1>4 DEF Trims, TrimSafe, CommitSafe
<1>7. Onsets'
  BY <1>1, <1>2, <1>3 DEF Onsets, InWindow
<1>8. OpenAhead'
  <2>1. \A x \in Marks(trail) : x.kind = "delta" => x.id # utt.id + 1
    <3>1. utt.id \in Nat
      BY DEF LifeInv, Life
    <3> QED
      BY <3>1, DeltaIds
  <2>2. InWindow(buffer, t)
    BY <1>1, <1>2, <1>3 DEF Onsets
  <2>3. utt'.id = utt.id + 1
    BY <1>1
  <2>4. Marks(trail') = Marks(trail) /\ at' # "step" /\ buffer' = buffer
    BY <1>1, <1>5 DEF SaysNothing
  <2> QED
    BY <1>4, <2>1, <2>2, <2>3, <2>4 DEF OpenAhead, InWindow
<1> QED
  BY <1>2, <1>5, <1>6, <1>7, <1>8 DEF OnceInv, SaysNothing

LEMMA ReopenOnce ==
    ASSUME LifeInv, HeardInv, OnceInv, Reopen
    PROVE  OnceInv'
<1>1. /\ at = "reopen" /\ at' = "cap"
      /\ utt' = [id |-> utt.id + 1, in_speech |-> TRUE, t0 |-> buffer.end, through |-> 0]
      /\ UNCHANGED <<vad_enabled, buffer, vad, edges>>
  BY DEF Reopen, NewUtterance, audio
<1>2. Shape /\ Trims /\ Onsets /\ Apart(trail)
  BY OnceParts
<1>3. SaysNothing
  BY SayNothing
<1>4. Going /\ buffer.trimmed <= buffer.end /\ buffer.end \in Nat /\ slice_from' = buffer.end
  BY <1>1, <1>2, Numbers DEF Going, slice_from
<1>5. Trims'
  BY <1>1, <1>2, <1>4 DEF Trims, TrimSafe, CommitSafe
<1>6. Onsets'
  BY <1>1, <1>2 DEF Onsets, InWindow
<1>7. OpenAhead'
  <2>1. \A x \in Marks(trail) : x.kind = "delta" => x.id # utt.id + 1
    <3>1. utt.id \in Nat
      BY DEF LifeInv, Life
    <3> QED
      BY <3>1, DeltaIds
  <2>2. utt'.id = utt.id + 1
    BY <1>1
  <2>3. Marks(trail') = Marks(trail) /\ at' # "step" /\ buffer' = buffer
    BY <1>1, <1>3 DEF SaysNothing
  <2> QED
    BY <1>4, <2>1, <2>2, <2>3 DEF OpenAhead, InWindow
<1> QED
  BY <1>2, <1>3, <1>5, <1>6, <1>7 DEF OnceInv, SaysNothing

LEMMA CapOnce ==
    ASSUME LifeInv, HeardInv, OnceInv, Cap
    PROVE  OnceInv'
<1>1. /\ at = "cap" /\ at' = "step" /\ buffer' = enforce_cap(buffer)
      /\ UNCHANGED <<vad_enabled, vad, edges, utt>>
  BY DEF Cap
<1>2. /\ Shape /\ Detector /\ Trims /\ OpenAhead /\ Apart(trail) /\ edges = <<>> /\ Going
  BY <1>1, OnceParts DEF Shape, Going
<1>3. /\ buffer' \in Buffers
      /\ \/ buffer'.trimmed = buffer.trimmed /\ buffer'.committed = buffer.committed
         \/ /\ buffer.trimmed < buffer'.trimmed /\ buffer'.trimmed + max_buffer <= buffer.end
            /\ buffer'.committed = Larger(buffer.committed, buffer'.trimmed)
      /\ buffer.trimmed + max_buffer < buffer.end => buffer.trimmed < buffer'.trimmed
  BY <1>1, <1>2, AfterCap DEF Shape
<1>4. /\ buffer'.trimmed \in Nat /\ buffer'.committed \in Nat /\ buffer.trimmed \in Nat /\ buffer.committed \in Nat
      /\ slice_from \in Nat /\ slice_from' = slice_from
  BY <1>1, <1>2, <1>3, Numbers DEF Buffers, slice_from
<1>5. /\ Marks(trail) \subseteq Marks(trail') /\ Apart(trail')
      /\ \A x \in Marks(trail') : x.kind = "delta" => x \in Marks(trail)
      /\ buffer'.trimmed > buffer.trimmed => Overrun(Marks(trail'), Overtaken(buffer'))
  BY <1>2, CapSays
<1>6. Trims'
  <2> SUFFICES ASSUME vad_enabled PROVE TrimSafe(buffer', vad) /\ CommitSafe(buffer', vad)
    BY <1>1 DEF Trims
  <2>1. TrimSafe(buffer, vad) /\ CommitSafe(buffer, vad) /\ vad.frames = buffer.end
    BY <1>1, <1>2 DEF Trims, Detector
  <2>2. CASE buffer'.trimmed = buffer.trimmed /\ buffer'.committed = buffer.committed
    BY <2>1, <2>2 DEF TrimSafe, CommitSafe
  <2>3. CASE /\ buffer.trimmed < buffer'.trimmed /\ buffer'.trimmed + max_buffer <= buffer.end
             /\ buffer'.committed = Larger(buffer.committed, buffer'.trimmed)
    <3>1. TrimSafe(buffer', vad)
      BY <2>1, <2>3 DEF TrimSafe
    <3>2. buffer'.committed = buffer'.trimmed \/ (buffer'.committed = buffer.committed /\ buffer.committed > buffer'.trimmed)
      BY <2>3 DEF Larger
    <3>3. CommitSafe(buffer', vad)
      BY <1>4, <2>1, <2>3, <3>2 DEF CommitSafe
    <3> QED
      BY <3>1, <3>3
  <2> QED
    BY <1>3, <2>2, <2>3
<1>7. Onsets'
  BY <1>1, <1>2 DEF Onsets
<1>8. OpenAhead'
  <2> SUFFICES ASSUME Speaking', ~Overrun(Marks(trail'), utt.id)
               PROVE  /\ \A x \in Marks(trail') : x.kind = "delta" /\ x.id = utt.id => \A k \in x.text : k \in Nat /\ k < slice_from
                      /\ buffer'.trimmed <= slice_from
    BY <1>1, <1>4 DEF OpenAhead, InWindow
  <2>1. Speaking /\ utt.in_speech
    BY <1>1 DEF Speaking
  <2>2. ~Overrun(Marks(trail), utt.id)
    BY <1>5, MoreMarks
  <2>3. /\ \A x \in Marks(trail) : x.kind = "delta" /\ x.id = utt.id => \A k \in x.text : k \in Nat /\ k < slice_from
        /\ buffer.trimmed <= slice_from \/ buffer.trimmed + max_buffer < buffer.end
    BY <2>1, <2>2, <1>2 DEF OpenAhead, InWindow
  <2>4. ASSUME buffer'.trimmed > slice_from, buffer'.trimmed > buffer.trimmed PROVE FALSE
    BY <1>5, <2>1, <2>4 DEF Overtaken
  <2>5. buffer'.trimmed <= slice_from
    BY <1>3, <1>4, <2>3, <2>4
  <2> QED
    BY <1>5, <2>3, <2>5
<1> QED
  BY <1>5, <1>6, <1>7, <1>8 DEF OnceInv

LEMMA CommitsOnce ==
    ASSUME LifeInv, HeardInv, OnceInv, Commits
    PROVE  OnceInv'
<1>1. /\ at = "step" /\ at' = "top" /\ utt.in_speech /\ UNCHANGED <<vad_enabled, buffer, vad, edges>>
  BY DEF Commits
<1>2. /\ Shape /\ Trims /\ OpenAhead /\ Apart(trail) /\ edges = <<>> /\ Going /\ Speaking
  BY <1>1, OnceParts DEF Shape, Going, Speaking
<1>3. PICK heard : CommitsTo(heard)
  BY DEF Commits
<1> DEFINE t == {k \in voiced : k >= slice_from /\ k >= buffer.trimmed /\ k <= heard}
<1>4. PICK d : d.kind = "delta" /\ d.id = utt.id /\ d.text = t /\ Marks(trail') = Marks(trail) \union {d}
  BY <1>2, <1>3, CommitSays
<1>5. /\ \A id : Overrun(Marks(trail), id) => Overrun(Marks(trail'), id)
      /\ Apart(trail) /\ (\/ Overrun(Marks(trail), utt.id)
                          \/ \A x \in Marks(trail) : x.kind = "delta" /\ x.id = utt.id => \A k \in x.text : k \notin t)
            => Apart(trail')
      /\ utt'.id = utt.id /\ slice_from <= slice_from' /\ heard \in Nat
      /\ slice_from' \in Nat
      /\ buffer.trimmed <= slice_from => slice_from' = heard + 1
  BY <1>2, <1>3, CommitSays
<1>6. /\ buffer.trimmed \in Nat /\ slice_from \in Nat /\ \A k \in voiced : k \in Nat
  BY <1>2, Numbers
<1>7. \/ Overrun(Marks(trail), utt.id)
      \/ /\ \A x \in Marks(trail) : x.kind = "delta" /\ x.id = utt.id => \A k \in x.text : k \in Nat /\ k < slice_from
         /\ buffer.trimmed <= slice_from
  BY <1>1, <1>2 DEF OpenAhead
<1>8. Apart(trail')
  <2>1. \A k \in t : k \in Nat /\ k >= slice_from
    BY <1>6
  <2>2. \A k \in t : ~(k < slice_from)
    BY <1>6, <2>1
  <2> HIDE DEF t
  <2>3. \/ Overrun(Marks(trail), utt.id)
        \/ \A x \in Marks(trail) : x.kind = "delta" /\ x.id = utt.id => \A k \in x.text : k \notin t
    BY <1>7, <2>2
  <2> QED
    BY <1>2, <1>5, <2>3
<1>9. Trims'
  <2>1. Going'
    BY <1>1 DEF Going
  <2> QED
    BY <1>1, <1>2, <2>1 DEF Trims, TrimSafe, CommitSafe
<1>10. Onsets'
  BY <1>1, <1>2 DEF Onsets
<1>11. OpenAhead'
  <2>1. CASE Overrun(Marks(trail), utt.id)
    BY <1>5, <2>1 DEF OpenAhead
  <2>2. CASE /\ \A x \in Marks(trail) : x.kind = "delta" /\ x.id = utt.id => \A k \in x.text : k \in Nat /\ k < slice_from
             /\ buffer.trimmed <= slice_from
    <3>1. slice_from' = heard + 1 /\ buffer.trimmed <= slice_from'
      BY <1>5, <1>6, <2>2
    <3>2. \A k \in t : k \in Nat /\ k < slice_from'
      BY <1>5, <1>6, <3>1
    <3>3. \A x \in Marks(trail) : x.kind = "delta" /\ x.id = utt.id => \A k \in x.text : k \in Nat /\ k < slice_from'
      BY <1>5, <1>6, <2>2
    <3> HIDE DEF t
    <3>4. \A x \in Marks(trail') : x.kind = "delta" /\ x.id = utt'.id => \A k \in x.text : k \in Nat /\ k < slice_from'
      BY <1>4, <1>5, <3>2, <3>3
    <3> QED
      BY <1>1, <3>1, <3>4 DEF OpenAhead, InWindow
  <2> QED
    BY <1>7, <2>1, <2>2
<1> QED
  BY <1>8, <1>9, <1>10, <1>11 DEF OnceInv

LEMMA ReadOnce ==
    ASSUME HeardInv, OnceInv, Read
    PROVE  OnceInv'
<1>1. /\ Shape /\ Detector /\ Watermark /\ InStep /\ Trims /\ Onsets /\ OpenAhead /\ Apart(trail)
  BY OnceParts
<1>2. PICK n : ReadIs(n)
  BY <1>1, ReadSteps
<1>3. at = "top" /\ UNCHANGED <<vad_enabled, vad, utt, trail>>
  BY <1>1, ReadSteps
<1>4. /\ buffer.trimmed \in Nat /\ buffer.end \in Nat /\ slice_from \in Nat /\ n \in Nat /\ max_buffer \in Nat
      /\ slice_from' = slice_from
  BY <1>1, <1>2, <1>3, Numbers, Geometry DEF ReadIs, slice_from
<1>5. buffer'.trimmed = buffer.trimmed /\ buffer'.committed = buffer.committed /\ buffer'.end = buffer.end + n
  BY <1>1, <1>2 DEF ReadIs, Shape, Buffers
<1>6. /\ edges' = IF ~vad_enabled /\ ~utt.in_speech /\ n > 0 THEN <<Edge("SpeechStarted", buffer.trimmed)>> ELSE <<>>
      /\ at' # "step" /\ Going
  BY <1>2, <1>3 DEF ReadIs, Going
<1>7. Trims'
  BY <1>1, <1>3, <1>5, <1>6 DEF Trims, TrimSafe, CommitSafe
<1>8. \A t : InWindow(buffer, t) => InWindow(buffer', t)
  BY <1>4, <1>5 DEF InWindow
<1>9. Onsets'
  <2>1. CASE edges' = <<>>
    BY <2>1 DEF Onsets
  <2>2. CASE edges' = <<Edge("SpeechStarted", buffer.trimmed)>> /\ ~vad_enabled /\ ~utt.in_speech
    <3>1. EndsOf(Marks(trail)) = {}
      BY <1>1, <2>2 DEF InStep
    <3>2. buffer.committed <= buffer.trimmed
      BY <1>1, <3>1 DEF Watermark
    <3>3. InWindow(buffer, buffer.trimmed)
      BY <1>4 DEF InWindow
    <3>4. \A p \in 1 .. Len(edges') : edges'[p].t = buffer.trimmed
      BY <2>2 DEF Edge
    <3> QED
      BY <1>5, <1>8, <3>2, <3>3, <3>4 DEF Onsets
  <2> QED
    BY <1>6, <2>1, <2>2
<1>10. OpenAhead'
  <2>1. Speaking' => Speaking
    BY <1>3 DEF Speaking
  <2> QED
    BY <1>1, <1>3, <1>4, <1>6, <1>8, <2>1 DEF OpenAhead
<1> QED
  BY <1>1, <1>3, <1>7, <1>9, <1>10 DEF OnceInv

LEMMA FrameOnce ==
    ASSUME HeardInv, OnceInv, pre_pad <= keep_back, Frame
    PROVE  OnceInv'
<1>1. /\ Shape /\ Detector /\ Trims /\ Onsets /\ OpenAhead /\ Apart(trail)
  BY OnceParts
<1>2. /\ at = "frames" /\ vad_enabled /\ vad.frames < buffer.end
      /\ UNCHANGED <<vad_enabled, buffer, voiced, utt, stopping, trail>>
      /\ vad'.frames = vad.frames + 1
      /\ at' \in {"frames", "edges"}
      /\ Quietly \/ (\E j : Starting(j)) \/ Ending
  BY <1>1, FrameSteps
<1>3. /\ buffer.trimmed \in Nat /\ buffer.end \in Nat /\ buffer.committed \in Nat
      /\ max_buffer \in Nat /\ pre_pad \in Nat /\ keep_back \in Nat
  BY <1>1, Numbers, Geometry
<1>4. /\ vad.frames \in Nat /\ vad.floor \in Nat /\ vad.last_voiced_end \in Nat
      /\ vad.floor <= vad.last_voiced_end
      /\ \A j \in vad.onset : j \in Nat /\ vad.floor <= j /\ j < vad.frames
  BY <1>1, DetectorNumbers
<1>5. Going /\ Going' /\ slice_from' = slice_from /\ (Speaking' <=> Speaking) /\ at' # "step"
  BY <1>2 DEF Going, slice_from, Speaking
<1>6. TrimSafe(buffer, vad) /\ CommitSafe(buffer, vad)
  BY <1>1, <1>2, <1>5 DEF Trims
<1>7. /\ vad.floor <= vad'.floor
      /\ \A j \in vad'.onset : j \in vad.onset \/ j = vad.frames
  BY <1>2, <1>4 DEF Quietly, Starting, Ending
<1>8. Trims'
  <2>0. vad'.floor \in Nat
    BY <1>2, <1>4 DEF Quietly, Starting, Ending
  <2>1. TrimSafe(buffer, vad')
    <3>1. CASE buffer.trimmed <= vad.floor
      BY <1>3, <1>4, <1>7, <2>0, <3>1 DEF TrimSafe
    <3>2. CASE buffer.trimmed + max_buffer <= vad.frames
      BY <1>2, <1>3, <1>4, <3>2 DEF TrimSafe
    <3>3. CASE buffer.trimmed + pre_pad <= vad.frames /\ \A j \in vad.onset : buffer.trimmed + pre_pad <= j
      BY <1>2, <1>3, <1>4, <1>7, <3>3 DEF TrimSafe
    <3> QED
      BY <1>6, <3>1, <3>2, <3>3 DEF TrimSafe
  <2>2. CommitSafe(buffer, vad')
    BY <1>2, <1>3, <1>4, <1>6, <1>7 DEF CommitSafe
  <2> QED
    BY <1>2, <2>1, <2>2 DEF Trims
<1>9. ASSUME NEW j, Starting(j)
      PROVE  LET t == Larger(Minus(j, pre_pad), vad.floor)
             IN  InWindow(buffer, t) /\ (buffer.committed <= buffer.trimmed \/ buffer.committed <= t + keep_back)
  <2> DEFINE t == Larger(Minus(j, pre_pad), vad.floor)
  <2>1. /\ j \in Nat /\ j <= vad.frames /\ (j \in vad.onset \/ j = vad.frames)
    BY <1>4, <1>9 DEF Starting
  <2>2. t \in Nat /\ vad.floor <= t /\ j <= t + pre_pad
    BY <1>3, <1>4, <2>1 DEF Larger, Minus
  <2> HIDE DEF t
  <2>3. InWindow(buffer, t)
    <3>1. CASE buffer.trimmed <= vad.floor
      BY <1>3, <1>4, <2>2, <3>1 DEF InWindow
    <3>2. CASE buffer.trimmed + max_buffer <= vad.frames
      BY <1>2, <1>3, <1>4, <3>2 DEF InWindow
    <3>3. CASE buffer.trimmed + pre_pad <= vad.frames /\ \A i \in vad.onset : buffer.trimmed + pre_pad <= i
      BY <1>3, <2>1, <2>2, <3>3 DEF InWindow
    <3> QED
      BY <1>6, <3>1, <3>2, <3>3 DEF TrimSafe
  <2>4. buffer.committed <= buffer.trimmed \/ buffer.committed <= t + keep_back
    <3>1. CASE buffer.committed <= vad.frames /\ \A i \in vad.onset : buffer.committed <= i
      <4>1. buffer.committed <= j
        BY <2>1, <3>1
      <4> QED
        BY <1>3, <2>1, <2>2, <4>1
    <3> QED
      BY <1>6, <3>1 DEF CommitSafe
  <2> QED
    BY <2>3, <2>4 DEF t
<1>10. Onsets'
  <2>1. CASE edges' = edges
    BY <1>1, <1>2, <2>1 DEF Onsets
  <2>2. ASSUME NEW e, edges' = Append(edges, e),
               e.kind = "SpeechStarted" =>
                  InWindow(buffer, e.t) /\ (buffer.committed <= buffer.trimmed \/ buffer.committed <= e.t + keep_back)
        PROVE  Onsets'
    <3>1. /\ edges'[Len(edges) + 1] = e
          /\ \A p \in 1 .. Len(edges) : edges'[p] = edges[p]
          /\ \A p \in 1 .. Len(edges') : p \in 1 .. Len(edges) \/ p = Len(edges) + 1
      <4>1. \E T : edges \in Seq(T)
        BY <1>1 DEF Shape
      <4>2. /\ Len(edges) \in Nat /\ Len(edges') = Len(edges) + 1 /\ edges'[Len(edges) + 1] = e
            /\ \A p \in 1 .. Len(edges) : edges'[p] = edges[p]
        BY <2>2, <4>1, OneMore
      <4> QED
        BY <4>2
    <3>2. ASSUME NEW p \in 1 .. Len(edges'), edges'[p].kind = "SpeechStarted"
          PROVE  InWindow(buffer, edges'[p].t) /\ (buffer.committed <= buffer.trimmed \/ buffer.committed <= edges'[p].t + keep_back)
      <4>1. CASE p \in 1 .. Len(edges)
        BY <1>1, <3>1, <3>2, <4>1 DEF Onsets
      <4>2. CASE p = Len(edges) + 1
        BY <2>2, <3>1, <3>2, <4>2
      <4> QED
        BY <3>1, <4>1, <4>2
    <3> QED
      BY <1>2, <3>2 DEF Onsets, InWindow
  <2>3. ASSUME NEW j, Starting(j) PROVE Onsets'
    <3> DEFINE t == Larger(Minus(j, pre_pad), vad.floor)
    <3>1. edges' = Append(edges, Edge("SpeechStarted", t))
      BY <2>3 DEF Starting
    <3>2. InWindow(buffer, t) /\ (buffer.committed <= buffer.trimmed \/ buffer.committed <= t + keep_back)
      BY <1>9, <2>3
    <3> HIDE DEF t
    <3>3. Edge("SpeechStarted", t).t = t
      BY DEF Edge
    <3> QED
      BY <2>2, <3>1, <3>2, <3>3
  <2>4. CASE Ending
    <3>1. edges' = Append(edges, Edge("Endpoint", vad.last_voiced_end)) /\ Edge("Endpoint", vad.last_voiced_end).kind # "SpeechStarted"
      BY <2>4 DEF Ending, Edge
    <3> QED
      BY <2>2, <3>1
  <2> QED
    BY <1>2, <2>1, <2>3, <2>4 DEF Quietly
<1>11. OpenAhead'
  BY <1>1, <1>2, <1>5 DEF OpenAhead, InWindow
<1> QED
  BY <1>1, <1>2, <1>8, <1>10, <1>11 DEF OnceInv

LEMMA OnceInit == Init => OnceInv
<1> SUFFICES ASSUME Init PROVE OnceInv
  OBVIOUS
<1>1. /\ edges = <<>> /\ trail = <<>> /\ ~utt.in_speech
      /\ buffer.trimmed = 0 /\ buffer.committed = 0 /\ vad.floor = 0
  BY DEF Init, NewVad
<1>2. Trims
  BY <1>1 DEF Trims, TrimSafe, CommitSafe
<1>3. Onsets
  BY <1>1 DEF Onsets
<1>4. OpenAhead
  BY <1>1 DEF OpenAhead, Speaking
<1>5. Apart(trail)
  <2>1. Len(trail) = 0
    BY <1>1, Zenon
  <2> QED
    BY <2>1 DEF Apart
<1> QED
  BY <1>2, <1>3, <1>4, <1>5 DEF OnceInv

LEMMA OnceNext ==
    ASSUME pre_pad <= keep_back
    PROVE  LifeInv /\ HeardInv /\ OnceInv /\ [Next]_vars => OnceInv'
<1> SUFFICES ASSUME LifeInv, HeardInv, OnceInv, [Next]_vars PROVE OnceInv'
  OBVIOUS
<1>1. CASE Calm
  BY <1>1, CalmOnce
<1>2. CASE Read
  BY <1>2, ReadOnce
<1>3. CASE Frame
  BY <1>3, FrameOnce
<1>4. CASE Reopen
  BY <1>4, ReopenOnce
<1>5. CASE Cap
  BY <1>5, CapOnce
<1>6. CASE EndsSpeech
  BY <1>6, EndsSpeechOnce
<1>7. CASE TimesOut
  BY <1>7, TimesOutOnce
<1>8. CASE Commits
  BY <1>8, CommitsOnce
<1>9. CASE Terminate /\ utt.in_speech
  BY <1>9, TerminateOnce
<1>10. CASE Onset /\ ~utt.in_speech
  BY <1>10, OnsetOnce
<1> QED
  BY <1>1, <1>2, <1>3, <1>4, <1>5, <1>6, <1>7, <1>8, <1>9, <1>10, AudioSteps

\* Between a delta of one utterance and a delta of another, the first utterance ended.
LEMMA EndedBetween ==
    ASSUME LifeInv, NEW i \in 1 .. Len(trail), NEW j \in 1 .. Len(trail), i < j,
           Is(i, "delta"), Is(j, "delta"), trail[i].id # trail[j].id
    PROVE  \E e \in i .. j : e < j /\ Is(e, "utterance_end") /\ trail[e].id = trail[i].id
<1>1. OpenIn(trail, i - 1) = {trail[i].id} /\ OpenIn(trail, j - 1) = {trail[j].id}
  BY DEF LifeInv, Life, Is
<1>2. PICK s \in Starts(trail, i - 1) : trail[s].id = trail[i].id
  BY <1>1 DEF OpenIn
<1>3. s \in Starts(trail, j - 1)
  BY <1>2 DEF Starts
<1>4. PICK e \in Ends(trail, j - 1) : trail[e].id = trail[i].id
  BY <1>1, <1>2, <1>3 DEF OpenIn
<1>5. e \notin Ends(trail, i - 1)
  BY <1>1, <1>4 DEF OpenIn
<1>6. e \in 1 .. j - 1 /\ Is(e, "utterance_end") /\ e \notin 1 .. i - 1
  BY <1>4, <1>5 DEF Ends, Is
<1> QED
  BY <1>4, <1>6

\* "Later decodes never re-transcribe" committed audio: no voiced tick is in two deltas, but for
\* the code's two exceptions, whatever trims, timeouts, caps and cancelled decodes
\* run_listen_session meets.  The buffer must keep back what the detector's pre-padding can
\* reach: the defaults do (0.2 s and 200 ms), and with less an onset that follows a timeout
\* can start before the buffer does.
THEOREM AudioIsCommittedOnce ==
    ASSUME pre_pad <= keep_back
    PROVE  Spec => []CommittedOnce
<1>1. LifeInv /\ HeardInv /\ OnceInv => CommittedOnce
  <2> SUFFICES ASSUME LifeInv, HeardInv, OnceInv, NEW i \in DOMAIN trail, NEW j \in DOMAIN trail,
                      i < j, Is(i, "delta"), Is(j, "delta"), NEW k \in trail[i].text \intersect trail[j].text
               PROVE  IF trail[i].id = trail[j].id
                      THEN \E c \in DOMAIN trail : Is(c, "forced_trim") /\ trail[c].id = trail[i].id
                      ELSE \E e \in i .. j : Is(e, "utterance_end") /\ trail[e].id = trail[i].id /\ k >= trail[e].t1
    BY DEF CommittedOnce
  <2>1. DOMAIN trail = 1 .. Len(trail) /\ Len(trail) \in Nat
    BY DEF LifeInv, Life
  <2>2. CASE trail[i].id = trail[j].id
    <3>1. Overrun(Marks(trail), trail[i].id)
      BY <2>1, <2>2 DEF OnceInv, Apart, Is
    <3>2. \A m \in Marks(trail) : \E c \in DOMAIN trail : m = trail[c]
      BY <2>1 DEF Marks
    <3> QED
      BY <2>2, <3>1, <3>2 DEF Overrun, Is
  <2>3. CASE trail[i].id # trail[j].id
    <3>1. PICK e \in i .. j : e < j /\ Is(e, "utterance_end") /\ trail[e].id = trail[i].id
      BY <2>1, <2>3, EndedBetween
    <3>2. e \in 1 .. Len(trail)
      BY <2>1
    <3>3. k >= trail[e].t1
      BY <2>1, <3>1, <3>2 DEF HeardInv, PastReported, Is
    <3> QED
      BY <2>3, <3>1, <3>3
  <2> QED
    BY <2>2, <2>3
<1>2. LifeInv /\ HeardInv /\ OnceInv /\ [Next]_vars => OnceInv'
  BY OnceNext
<1> QED
  BY <1>1, <1>2, LifeInit, LifeNext, HeardInit, HeardNext, OnceInit, PTL DEF Spec
=============================================================================
