------------------------ MODULE VulkanPipeline_proofs ------------------------
(***************************************************************************)
(* Proofs about the Vulkan video path, for any capacities of the queues,   *)
(* any depth of the encoder and any clips.                                 *)
(*                                                                         *)
(* What the threads hold between them is one sequence of frames, written   *)
(* as a chain of concatenations, and the lemmas of the first part say what *)
(* the proofs need of prefixes and of Flatten.                             *)
(***************************************************************************)
EXTENDS VulkanPipelineProps, CommonFacts, TLAPS

-----------------------------------------------------------------------------
(* Sequences.                                                              *)

\* f is the function Flatten(b) recurs on, up to m.
FlatUpTo(b, m, f) == f = [n \in 0..m |-> IF n = 0 THEN << >> ELSE Then(f[n - 1], b[n])]

\* The function and its recursion equations.
LEMMA FlatUpToIs ==
  ASSUME NEW b, NEW m \in Nat, NEW f
  PROVE  FlatUpTo(b, m, f) <=>
           /\ f = [n \in 0..m |-> f[n]]
           /\ f[0] = << >>
           /\ \A n \in 1..m : f[n] = Then(f[n - 1], b[n])
<1> DEFINE F(n) == IF n = 0 THEN << >> ELSE Then(f[n - 1], b[n])
<1>1. ASSUME FlatUpTo(b, m, f)
      PROVE  /\ f = [n \in 0..m |-> f[n]]
             /\ f[0] = << >>
             /\ \A n \in 1..m : f[n] = Then(f[n - 1], b[n])
  <2>1. f = [n \in 0..m |-> F(n)]
    BY <1>1 DEF FlatUpTo
  <2> HIDE DEF F
  <2>2. f = [n \in 0..m |-> f[n]]
    BY <2>1
  <2>3. \A n \in 0..m : f[n] = F(n)
    BY <2>1
  <2>4. QED
    BY <2>2, <2>3 DEF F
<1>2. ASSUME f = [n \in 0..m |-> f[n]], f[0] = << >>,
             \A n \in 1..m : f[n] = Then(f[n - 1], b[n])
      PROVE  FlatUpTo(b, m, f)
  <2>1. ASSUME NEW n \in 0..m PROVE f[n] = F(n)
    <3>1. CASE n = 0
      BY <1>2, <3>1
    <3>2. CASE n \in 1..m
      BY <1>2, <3>2
    <3>3. QED
      BY <3>1, <3>2
  <2> HIDE DEF F
  <2>2. [n \in 0..m |-> f[n]] = [n \in 0..m |-> F(n)]
    BY <2>1
  <2>3. f = [n \in 0..m |-> F(n)]
    BY <1>2, <2>2
  <2>4. QED
    BY <2>3 DEF F, FlatUpTo
<1>3. QED
  BY <1>1, <1>2

\* There is such a function, however long the sequence.
LEMMA FlatExists ==
  ASSUME NEW b
  PROVE  \A m \in Nat : \E f : FlatUpTo(b, m, f)
<1> DEFINE S == {m \in Nat : \E f : FlatUpTo(b, m, f)}
<1>1. 0 \in S
  <2>1. FlatUpTo(b, 0, [n \in 0..0 |-> << >>])
    BY DEF FlatUpTo
  <2> QED BY <2>1
<1>2. ASSUME NEW m \in Nat, m \in S PROVE m + 1 \in S
  <2>1. PICK f : FlatUpTo(b, m, f)
    BY <1>2
  <2>2. f[0] = << >> /\ \A n \in 1..m : f[n] = Then(f[n - 1], b[n])
    BY <2>1, FlatUpToIs
  <2> DEFINE g == [n \in 0..(m + 1) |-> IF n = m + 1 THEN Then(f[m], b[m + 1]) ELSE f[n]]
  <2>3. g[0] = << >> /\ \A n \in 0..m : g[n] = f[n]
    BY <2>2
  <2>4. g[m + 1] = Then(f[m], b[m + 1])
    OBVIOUS
  <2>5. g = [n \in 0..(m + 1) |-> g[n]]
    OBVIOUS
  <2> HIDE DEF g
  <2>6. ASSUME NEW n \in 1..(m + 1) PROVE g[n] = Then(g[n - 1], b[n])
    <3>1. CASE n = m + 1
      <4>1. n - 1 = m /\ g[m] = f[m]
        BY <3>1, <2>3
      <4>2. QED
        BY <3>1, <4>1, <2>4
    <3>2. CASE n \in 1..m
      <4>1. n - 1 \in 0..m /\ n \in 0..m
        BY <3>2
      <4>2. QED
        BY <3>2, <4>1, <2>2, <2>3
    <3>3. QED
      BY <3>1, <3>2
  <2>7. FlatUpTo(b, m + 1, g)
    <3>1. m + 1 \in Nat
      OBVIOUS
    <3>2. QED
      BY <2>3, <2>5, <2>6, <3>1, FlatUpToIs
  <2> QED BY <2>7
<1> HIDE DEF S
<1>3. \A m \in Nat : m \in S
  BY <1>1, <1>2, SetInduction
<1> QED BY <1>3 DEF S

\* Flatten(b) is the last value of that function.
LEMMA FlatDef ==
  ASSUME NEW b, Len(b) \in Nat
  PROVE  \E f : /\ Flatten(b) = f[Len(b)]
                /\ f[0] = << >>
                /\ \A n \in 1..Len(b) : f[n] = Then(f[n - 1], b[n])
<1> DEFINE f == CHOOSE f : FlatUpTo(b, Len(b), f)
<1>1. FlatUpTo(b, Len(b), f)
  BY FlatExists
<1>2. Flatten(b) = f[Len(b)]
  BY DEF Flatten, FlatUpTo, Then
<1> HIDE DEF f
<1> QED
  BY <1>1, <1>2, FlatUpToIs

\* No batches, no packets.
LEMMA FlattenEmpty == Flatten(<< >>) = << >>
<1>1. Len(<< >>) = 0
  OBVIOUS
<1>2. QED
  BY <1>1, FlatDef

\* Concatenating sequences of naturals gives one.
LEMMA FlattenType ==
  ASSUME NEW b \in Seq(Seq(Nat))
  PROVE  Flatten(b) \in Seq(Nat)
<1>1. PICK f : /\ Flatten(b) = f[Len(b)]
               /\ f[0] = << >>
               /\ \A n \in 1..Len(b) : f[n] = Then(f[n - 1], b[n])
  BY FlatDef
<1> DEFINE S == {n \in Nat : n <= Len(b) => f[n] \in Seq(Nat)}
<1>2. 0 \in S
  BY <1>1, EmptySeq
<1>3. ASSUME NEW n \in Nat, n \in S PROVE n + 1 \in S
  <2> SUFFICES ASSUME n + 1 <= Len(b) PROVE f[n + 1] \in Seq(Nat)
    OBVIOUS
  <2>1. n + 1 \in 1..Len(b) /\ (n + 1) - 1 = n
    OBVIOUS
  <2>2. f[n + 1] = Then(f[n], b[n + 1])
    BY <1>1, <2>1
  <2>3. b[n + 1] \in Seq(Nat) /\ f[n] \in Seq(Nat)
    BY <1>3, <2>1, ElementOfSeq
  <2>4. QED
    BY <2>2, <2>3, ConcatProperties DEF Then
<1> HIDE DEF S
<1>4. \A n \in Nat : n \in S
  BY <1>2, <1>3, SetInduction
<1>5. QED
  BY <1>1, <1>4 DEF S

\* A batch queued last comes out last.
LEMMA FlattenAppend ==
  ASSUME NEW b \in Seq(Seq(Nat)), NEW x \in Seq(Nat)
  PROVE  Flatten(Append(b, x)) = Flatten(b) \o x
<1> DEFINE c == Append(b, x)
<1>1. /\ Len(b) \in Nat /\ Len(c) \in Nat /\ c \in Seq(Seq(Nat)) /\ Len(c) = Len(b) + 1
      /\ \A i \in 1..Len(b) : c[i] = b[i]
      /\ c[Len(b) + 1] = x
  BY AppendProperties
<1> HIDE DEF c
<1>2. PICK f : /\ Flatten(b) = f[Len(b)]
               /\ f[0] = << >>
               /\ \A n \in 1..Len(b) : f[n] = Then(f[n - 1], b[n])
  BY <1>1, FlatDef
<1>3. PICK g : /\ Flatten(c) = g[Len(c)]
               /\ g[0] = << >>
               /\ \A n \in 1..Len(c) : g[n] = Then(g[n - 1], c[n])
  BY <1>1, FlatDef
<1> DEFINE S == {n \in Nat : n <= Len(b) => f[n] = g[n]}
<1>4. 0 \in S
  BY <1>2, <1>3
<1>5. ASSUME NEW n \in Nat, n \in S PROVE n + 1 \in S
  <2> SUFFICES ASSUME n + 1 <= Len(b) PROVE f[n + 1] = g[n + 1]
    OBVIOUS
  <2>1. n + 1 \in 1..Len(b) /\ n + 1 \in 1..Len(c) /\ (n + 1) - 1 = n
    BY <1>1
  <2>2. f[n + 1] = Then(f[n], b[n + 1]) /\ g[n + 1] = Then(g[n], c[n + 1])
    BY <1>2, <1>3, <2>1
  <2>3. f[n] = g[n] /\ b[n + 1] = c[n + 1]
    BY <1>1, <1>5, <2>1
  <2>4. QED
    BY <2>2, <2>3
<1> HIDE DEF S
<1>6. \A n \in Nat : n \in S
  BY <1>4, <1>5, SetInduction
<1>7. f[Len(b)] = g[Len(b)]
  BY <1>1, <1>6 DEF S
<1>8. g[Len(b) + 1] = Then(g[(Len(b) + 1) - 1], c[Len(b) + 1])
  BY <1>1, <1>3
<1>9. (Len(b) + 1) - 1 = Len(b)
  BY <1>1
<1>10. QED
  BY <1>1, <1>2, <1>3, <1>7, <1>8, <1>9 DEF c, Then

\* The batch taken first is the one that comes out first.
LEMMA FlattenHead ==
  ASSUME NEW b \in Seq(Seq(Nat)), b # << >>
  PROVE  Flatten(b) = Head(b) \o Flatten(Tail(b))
<1> DEFINE c == Tail(b)
<1>1. /\ Len(b) \in Nat \ {0} /\ Len(c) \in Nat /\ c \in Seq(Seq(Nat)) /\ Len(c) = Len(b) - 1
      /\ \A i \in 1..Len(c) : c[i] = b[i + 1]
      /\ Head(b) = b[1] /\ b[1] \in Seq(Nat)
  BY HeadTailProperties
<1> HIDE DEF c
<1>2. PICK f : /\ Flatten(b) = f[Len(b)]
               /\ f[0] = << >>
               /\ \A n \in 1..Len(b) : f[n] = Then(f[n - 1], b[n])
  BY <1>1, FlatDef
<1>3. PICK g : /\ Flatten(c) = g[Len(c)]
               /\ g[0] = << >>
               /\ \A n \in 1..Len(c) : g[n] = Then(g[n - 1], c[n])
  BY <1>1, FlatDef
<1> DEFINE S == {n \in Nat : n <= Len(c) => /\ g[n] \in Seq(Nat)
                                            /\ f[n + 1] = Then(b[1], g[n])}
<1>4. 0 \in S
  <2>1. f[1] = Then(f[1 - 1], b[1])
    BY <1>1, <1>2
  <2>2. f[1] = b[1] /\ Then(b[1], << >>) = b[1]
    <3>1. 1 - 1 = 0
      OBVIOUS
    <3>2. f[1] = Then(<< >>, b[1])
      BY <1>2, <2>1, <3>1
    <3>3. Then(<< >>, b[1]) = b[1] /\ Then(b[1], << >>) = b[1]
      BY <1>1, ConcatEmptySeq DEF Then
    <3>4. QED
      BY <3>2, <3>3
  <2>3. g[0] \in Seq(Nat) /\ f[0 + 1] = Then(b[1], g[0])
    BY <1>3, <2>2, EmptySeq
  <2>4. QED
    BY <2>3
<1>5. ASSUME NEW n \in Nat, n \in S PROVE n + 1 \in S
  <2> SUFFICES ASSUME n + 1 <= Len(c)
               PROVE  g[n + 1] \in Seq(Nat) /\ f[(n + 1) + 1] = Then(b[1], g[n + 1])
    OBVIOUS
  <2>1. /\ n + 1 \in 1..Len(c) /\ (n + 1) + 1 \in 1..Len(b)
        /\ (n + 1) - 1 = n /\ ((n + 1) + 1) - 1 = n + 1
    BY <1>1
  <2>2. f[(n + 1) + 1] = Then(f[n + 1], b[(n + 1) + 1]) /\ g[n + 1] = Then(g[n], c[n + 1])
    BY <1>2, <1>3, <2>1
  <2>3. f[n + 1] = Then(b[1], g[n]) /\ b[(n + 1) + 1] = c[n + 1] /\ g[n] \in Seq(Nat)
    BY <1>1, <1>5, <2>1
  <2>4. c[n + 1] \in Seq(Nat)
    BY <1>1, <2>1, ElementOfSeq
  <2>5. Then(Then(b[1], g[n]), c[n + 1]) = Then(b[1], Then(g[n], c[n + 1]))
    BY <1>1, <2>3, <2>4, ThenAssociative
  <2>6. Then(g[n], c[n + 1]) \in Seq(Nat)
    BY <2>3, <2>4, ConcatProperties DEF Then
  <2>7. QED
    BY <2>2, <2>3, <2>5, <2>6
<1> HIDE DEF S
<1>6. \A n \in Nat : n \in S
  BY <1>4, <1>5, SetInduction
<1>7. Len(c) \in Nat /\ Len(c) + 1 = Len(b)
  BY <1>1
<1>8. f[Len(c) + 1] = Then(b[1], g[Len(c)])
  BY <1>6, <1>7 DEF S
<1>9. QED
  BY <1>1, <1>2, <1>3, <1>7, <1>8 DEF c, Then

\* A prefix agrees with the sequence where it is defined.
LEMMA PrefixElements ==
  ASSUME NEW s \in Seq(Nat), NEW t \in Seq(Nat)
  PROVE  IsPrefix(s, t) <=> /\ Len(s) <= Len(t)
                            /\ \A i \in 1..Len(s) : s[i] = t[i]
<1>1. Len(s) \in Nat /\ Len(t) \in Nat
  OBVIOUS
<1>2. ASSUME Len(s) <= Len(t)
      PROVE  SubSeq(t, 1, Len(s)) = s <=> \A i \in 1..Len(s) : s[i] = t[i]
  <2>1. \A i \in 1..Len(s) : t[i] \in Nat
    BY <1>1, <1>2
  <2> DEFINE u == SubSeq(t, 1, Len(s))
  <2>2. /\ u \in Seq(Nat)
        /\ Len(u) = IF 1 <= Len(s) THEN Len(s) - 1 + 1 ELSE 0
        /\ \A i \in 1..Len(s) - 1 + 1 : u[i] = t[1 + i - 1]
    BY <1>1, <2>1, SubSeqProperties
  <2> HIDE DEF u
  <2>3. Len(u) = Len(s)
    BY <1>1, <2>2
  <2>4. ASSUME NEW i \in 1..Len(s) PROVE u[i] = t[i]
    <3>1. i \in 1..Len(s) - 1 + 1 /\ 1 + i - 1 = i
      BY <1>1
    <3>2. QED
      BY <2>2, <3>1
  <2>5. u = s <=> \A i \in 1..Len(s) : u[i] = s[i]
    BY <2>2, <2>3, SeqEqual
  <2>6. QED
    BY <2>4, <2>5 DEF u
<1>3. QED
  BY <1>2 DEF IsPrefix

\* The first part of a sequence is a prefix of it.
LEMMA PrefixOfThen ==
  ASSUME NEW s \in Seq(Nat), NEW r \in Seq(Nat)
  PROVE  IsPrefix(s, Then(s, r))
<1>1. Len(s) \in Nat /\ Len(r) \in Nat
  OBVIOUS
<1>2. /\ Then(s, r) \in Seq(Nat)
      /\ Len(Then(s, r)) = Len(s) + Len(r)
      /\ \A i \in 1..Len(s) : Then(s, r)[i] = s[i]
  BY ThenProperties
<1>3. Len(s) <= Len(Then(s, r)) /\ \A i \in 1..Len(s) : s[i] = Then(s, r)[i]
  BY <1>1, <1>2
<1>4. QED
  BY <1>2, <1>3, PrefixElements

\* Being a prefix is transitive.
LEMMA PrefixTransitive ==
  ASSUME NEW s \in Seq(Nat), NEW t \in Seq(Nat), NEW u \in Seq(Nat),
         IsPrefix(s, t), IsPrefix(t, u)
  PROVE  IsPrefix(s, u)
<1>1. Len(s) \in Nat /\ Len(t) \in Nat /\ Len(u) \in Nat
  OBVIOUS
<1>2. /\ Len(s) <= Len(t) /\ \A i \in 1..Len(s) : s[i] = t[i]
      /\ Len(t) <= Len(u) /\ \A i \in 1..Len(t) : t[i] = u[i]
  BY PrefixElements
<1>3. Len(s) <= Len(u)
  BY <1>1, <1>2
<1>4. \A i \in 1..Len(s) : i \in 1..Len(t)
  BY <1>1, <1>2
<1>5. \A i \in 1..Len(s) : s[i] = u[i]
  BY <1>2, <1>4
<1>6. QED
  BY <1>3, <1>5, PrefixElements

\* A sequence is a prefix of itself.
LEMMA PrefixSelf ==
  ASSUME NEW s \in Seq(Nat)
  PROVE  IsPrefix(s, s)
<1>1. Len(s) \in Nat
  OBVIOUS
<1>2. QED
  BY <1>1, PrefixElements

-----------------------------------------------------------------------------
(* The frames in the pipeline, as one sequence.                            *)

\* The sequences of FramesInOrder, built with Then.
LEMMA Chains ==
  /\ Checked = Then(accepted, Unchecked)
  /\ Taken = Then(Checked, vulkan_jobs)
  /\ Written = Then(muxed, writing)
  /\ Outgoing = Then(Written, Flatten(vulkan_packets))
  /\ Held = IF pc["gpu"] \in {"frame_taken", "encode"}
            THEN Then(encoder, batch) ELSE Then(batch, encoder)
  /\ Encoded = Then(Outgoing, Held)
  /\ Stream = Then(Encoded, vulkan_frames_ready)
  /\ Sent = Then(Stream, Unsent)
BY DEF Checked, Taken, Written, Outgoing, Held, Encoded, Stream, Sent, Then

\* The same after a step.
LEMMA ChainsNext ==
  /\ Checked' = Then(accepted', Unchecked')
  /\ Taken' = Then(Checked', vulkan_jobs')
  /\ Written' = Then(muxed', writing')
  /\ Outgoing' = Then(Written', Flatten(vulkan_packets'))
  /\ Held' = IF pc'["gpu"] \in {"frame_taken", "encode"}
             THEN Then(encoder', batch') ELSE Then(batch', encoder')
  /\ Encoded' = Then(Outgoing', Held')
  /\ Stream' = Then(Encoded', vulkan_frames_ready')
  /\ Sent' = Then(Stream', Unsent')
BY DEF Checked, Taken, Written, Outgoing, Held, Encoded, Stream, Sent, Then, Flatten

\* All of them are sequences of timestamps.
ChainSeqs ==
  /\ Unchecked \in Seq(Nat) /\ Unsent \in Seq(Nat) /\ Held \in Seq(Nat)
  /\ Checked \in Seq(Nat) /\ Taken \in Seq(Nat)
  /\ Written \in Seq(Nat) /\ Outgoing \in Seq(Nat) /\ Encoded \in Seq(Nat)
  /\ Stream \in Seq(Nat) /\ Sent \in Seq(Nat)
  /\ Flatten(vulkan_packets) \in Seq(Nat)

\* Before a step and after it.
LEMMA ChainTypes == TypeOK /\ PrepareStage => ChainSeqs
<1> SUFFICES ASSUME TypeOK, PrepareStage PROVE ChainSeqs
  OBVIOUS
<1>1. /\ accepted \in Seq(Nat) /\ vulkan_jobs \in Seq(Nat) /\ muxed \in Seq(Nat)
      /\ writing \in Seq(Nat) /\ encoder \in Seq(Nat) /\ batch \in Seq(Nat)
      /\ vulkan_frames_ready \in Seq(Nat) /\ vulkan_packets \in Seq(Seq(Nat))
  BY DEF TypeOK, FlowTyped
<1>2. Flatten(vulkan_packets) \in Seq(Nat)
  BY <1>1, FlattenType
<1>3. Unchecked \in Seq(Nat) /\ Unsent \in Seq(Nat)
  BY DEF PrepareStage, Unchecked, Unsent
<1>4. Held \in Seq(Nat)
  BY <1>1, Chains, ThenProperties
<1>5. Checked \in Seq(Nat) /\ Written \in Seq(Nat)
  BY <1>1, <1>3, Chains, ThenProperties
<1>6. Taken \in Seq(Nat) /\ Outgoing \in Seq(Nat)
  BY <1>1, <1>2, <1>5, Chains, ThenProperties
<1>7. Encoded \in Seq(Nat)
  BY <1>4, <1>6, Chains, ThenProperties
<1>8. Stream \in Seq(Nat)
  BY <1>1, <1>7, Chains, ThenProperties
<1>9. Sent \in Seq(Nat)
  BY <1>3, <1>8, Chains, ThenProperties
<1>10. QED
  BY <1>2, <1>3, <1>4, <1>5, <1>6, <1>7, <1>8, <1>9 DEF ChainSeqs

\* The same after a step.
LEMMA ChainTypesNext == TypeOK' /\ PrepareStage' => ChainSeqs'
BY ChainTypes, PTL

\* The packet thread never meets a timestamp out of order.
LEMMA WriteInOrder ==
  ASSUME IInv, pc["packet"] = "write"
  PROVE  writing # << >> /\ Head(writing) \in Nat /\ Head(writing) > previous_video_pts
<1>1. /\ muxed \in Seq(Nat) /\ writing \in Seq(Nat) /\ accepted \in Seq(Nat)
      /\ writing # << >>
  BY DEF IInv, TypeOK, FlowTyped, PacketStage
<1>2. /\ Head(writing) \in Nat /\ Head(writing) = writing[1]
      /\ Len(writing) \in Nat \ {0} /\ Len(muxed) \in Nat /\ Len(accepted) \in Nat
  BY <1>1, HeadThenTail
<1>3. Written \in Seq(Nat) /\ Written = Then(muxed, writing)
  BY ChainTypes, Chains DEF IInv, ChainSeqs
<1>4. Len(Written) <= Len(accepted) /\ \A i \in 1..Len(Written) : Written[i] = accepted[i]
  BY <1>1, <1>3, PrefixElements DEF IInv, FramesInOrder
<1>5. /\ Len(Written) = Len(muxed) + Len(writing)
      /\ \A i \in 1..Len(muxed) : Written[i] = muxed[i]
      /\ \A i \in 1..Len(writing) : Written[Len(muxed) + i] = writing[i]
  <2>1. /\ Len(Then(muxed, writing)) = Len(muxed) + Len(writing)
        /\ \A i \in 1..Len(muxed) : Then(muxed, writing)[i] = muxed[i]
        /\ \A i \in 1..Len(writing) : Then(muxed, writing)[Len(muxed) + i] = writing[i]
    BY <1>1, ThenProperties
  <2>2. QED
    BY <1>3, <2>1
<1>6. accepted[Len(muxed) + 1] = Head(writing)
  <2>1. 1 \in 1..Len(writing) /\ Len(muxed) + 1 \in 1..Len(Written)
    BY <1>2, <1>5
  <2>2. QED
    BY <1>2, <1>4, <1>5, <2>1
<1>7. previous_video_pts = LastOf(muxed)
  BY DEF IInv, PtsChecked
<1>8. CASE muxed = << >>
  BY <1>2, <1>7, <1>8 DEF LastOf, NoPts
<1>9. CASE muxed # << >>
  <2>1. Len(muxed) \in 1..Len(muxed) /\ Len(muxed) \in 1..Len(Written)
    BY <1>1, <1>2, <1>5, <1>9
  <2>2. accepted[Len(muxed)] = muxed[Len(muxed)]
    BY <1>4, <1>5, <2>1
  <2>3. Len(muxed) \in 1..Len(accepted) /\ Len(muxed) + 1 \in 1..Len(accepted)
    BY <1>2, <1>4, <1>5, <2>1
  <2>4. accepted[Len(muxed)] < accepted[Len(muxed) + 1]
    BY <1>2, <2>3 DEF IInv, PtsChecked
  <2>5. muxed[Len(muxed)] \in Nat
    BY <1>1, <2>1
  <2>6. QED
    BY <1>2, <1>6, <1>7, <1>9, <2>2, <2>4, <2>5 DEF LastOf
<1>10. QED
  BY <1>1, <1>2, <1>8, <1>9

USE CapacityAssumption, ClipsAssumption
USE DEF NoPts, NoError, Threads, callerVars, threadVars, jobVars, prepareVars,
        gpuVars, writeVars, stopVars, failVars, flowVars, controlVars

\* What waking does to a thread's state.
LEMMA WakeIs ==
  ASSUME NEW l
  PROVE  Wake(l) = IF l = "job_sleep" THEN "job"
                   ELSE IF l = "frame_space_sleep" THEN "frame_space"
                   ELSE IF l = "frame_sleep" THEN "frame"
                   ELSE IF l = "packet_space_sleep" THEN "packet_space"
                   ELSE IF l = "packet_sleep" THEN "packet" ELSE l
BY DEF Wake, Woken

-----------------------------------------------------------------------------
(* Type correctness.                                                       *)

\* The threads and the exceptions they report.
LEMMA PcTypeNext ==
  ASSUME IInv, [Next]_vars
  PROVE  ThreadsTyped'
<1> USE DEF ControlTyped, ThreadsTyped, PcStates, States, CommonStates, ThreadErrors
<1>0. ThreadsTyped
  BY DEF IInv, TypeOK
<1>1. ASSUME NEW t \in Threads, StartThread(t) \/ ConstructFails PROVE
  ThreadsTyped'
  BY <1>0, <1>1 DEF StartThread, ConstructFails, Goto, NextThread, FirstState,
    Throw
<1>2. CASE WriteVideo \/ SubmitWait \/ SubmitFails \/ Submit \/ SubmitNotify
  BY <1>0, <1>2 DEF WriteVideo, SubmitWait, SubmitFails, Submit, SubmitNotify,
    Throw, JobRoom, MaySubmit, JobNotified
<1>3. CASE CallerThrows \/ Finish \/ Destroy
  BY <1>0, <1>3 DEF CallerThrows, Finish, Destroy, Throw
<1>4. CASE StopFlags \/ StopNotify
  BY <1>0, WakeIs, <1>4 DEF StopFlags, StopNotify, NothingToStop, Joinable,
    StopWakes
<1>5. ASSUME NEW t \in Threads, Join(t) PROVE ThreadsTyped'
  BY <1>0, WakeIs, <1>5 DEF Join, Joinable
<1>6. CASE FinishStopped
  BY <1>0, <1>6 DEF FinishStopped, Throw
<1>7. CASE CleanupStopped
  BY <1>0, <1>7 DEF CleanupStopped
<1>8. ASSUME NEW t \in Threads, FailFlags(t) \/ FailNotify(t) PROVE
  ThreadsTyped'
  BY <1>0, WakeIs, <1>8 DEF FailFlags, FailNotify, Goto, Recorded, WakeCaller
<1>9. CASE PrepareJob \/ PrepareTaken \/ Prepare
  BY <1>0, WakeIs, <1>9 DEF PrepareJob, PrepareTaken, Prepare, Goto,
    WakeCaller, Raise, Later
<1>10. CASE PrepareEnqueue \/ PreparePushed
  BY <1>0, WakeIs, <1>10 DEF PrepareEnqueue, PreparePushed, Goto, Raise,
    FrameRoom, GotoNotify
<1>11. CASE PrepareWaitSlots \/ PrepareDone \/ PrepareReturns
  BY <1>0, WakeIs, <1>11 DEF PrepareWaitSlots, PrepareDone, PrepareReturns,
    Goto, Raise, GotoNotify
<1>12. CASE GpuFrame
  BY <1>0, <1>12 DEF GpuFrame, Goto, PreparedAll
<1>13. CASE GpuTaken
  BY <1>0, WakeIs, <1>13 DEF GpuTaken, GotoNotify
<1>14. CASE GpuEncode
  <2>1. PICK l \in {"packet_space", "set_done", "frame", "failing"} :
          pc' = [pc EXCEPT !["gpu"] = l]
    BY <1>14 DEF GpuEncode, Raise, HandOver, Goto
  <2>2. thrown' \in [Threads -> ThreadErrors]
    BY <1>0, <1>14 DEF GpuEncode, Raise
  <2>3. QED
    BY <1>0, <2>1, <2>2
<1>15. CASE GpuFlush \/ GpuEnqueue \/ GpuPushed
  BY <1>0, WakeIs, <1>15 DEF GpuFlush, GpuEnqueue, GpuPushed, Raise, HandOver,
    Flushed, Goto, PacketRoom, AfterBatch, GotoNotify
<1>16. CASE GpuDone \/ GpuReturns
  BY <1>0, WakeIs, <1>16 DEF GpuDone, GpuReturns, Goto, GotoNotify
<1>17. CASE PacketTake \/ PacketTaken \/ PacketWrite
  BY <1>0, WakeIs, <1>17 DEF PacketTake, PacketTaken, PacketWrite, Goto,
    GotoNotify, Raise
<1>18. CASE UNCHANGED vars
  BY <1>0, <1>18 DEF vars
<1>19. QED
  BY <1>1, <1>2, <1>3, <1>4, <1>5, <1>6, <1>7, <1>8, <1>9, <1>10, <1>11,
    <1>12, <1>13, <1>14, <1>15, <1>16, <1>17, <1>18 DEF Next, CallerContinues,
    CallerCalls, PrepareThread, GpuThread, PacketThread, Terminated, vars

\* The caller, the flags and the errors.
LEMMA ControlTypeNext ==
  ASSUME IInv, [Next]_vars
  PROVE  ControlTyped'
<1> USE DEF ControlTyped, CallerStates, ThreadErrors, Errors
<1>0. ControlTyped /\ thrown \in [Threads -> ThreadErrors]
  BY DEF IInv, TypeOK, ThreadsTyped
<1>1. ASSUME NEW t \in Threads, StartThread(t) PROVE ControlTyped'
  BY <1>0, <1>1 DEF StartThread, Goto, NextThread, FirstState
<1>2. CASE ConstructFails
  BY <1>0, <1>2 DEF ConstructFails, Throw
<1>3. CASE WriteVideo
  BY <1>0, <1>3 DEF WriteVideo, Throw
<1>4. CASE SubmitWait
  BY <1>0, <1>4 DEF SubmitWait, JobRoom
<1>5. CASE SubmitFails
  BY <1>0, <1>5 DEF SubmitFails, Throw
<1>6. CASE Submit
  BY <1>0, <1>6 DEF Submit, MaySubmit, JobRoom
<1>7. CASE SubmitNotify
  BY <1>0, <1>7 DEF SubmitNotify, JobNotified
<1>8. CASE CallerThrows
  BY <1>0, <1>8 DEF CallerThrows, Throw
<1>9. CASE Finish
  BY <1>0, <1>9 DEF Finish
<1>10. CASE Destroy
  BY <1>0, <1>10 DEF Destroy
<1>11. CASE StopFlags
  <2>1. caller' \in {"stopped", "stop_notify"}
    BY <1>11 DEF StopFlags
  <2>2. vulkan_stop' \in BOOLEAN /\ vulkan_abort' \in BOOLEAN
    BY <1>0, <1>11 DEF StopFlags
  <2>3. UNCHANGED <<unwinding, finished, error, vulkan_prepare_done, vulkan_gpu_done,
                    vulkan_failed, vulkan_worker_error>>
    BY <1>11 DEF StopFlags
  <2>4. QED
    BY <1>0, <2>1, <2>2, <2>3
<1>12. CASE StopNotify
  BY <1>0, WakeIs, <1>12 DEF StopNotify, StopWakes
<1>13. ASSUME NEW t \in Threads, Join(t) PROVE ControlTyped'
  BY <1>0, WakeIs, <1>13 DEF Join, Joinable
<1>14. CASE FinishStopped
  BY <1>0, <1>14 DEF FinishStopped, Throw
<1>15. CASE CleanupStopped
  BY <1>0, <1>15 DEF CleanupStopped
<1>16. ASSUME NEW t \in Threads, FailFlags(t) PROVE ControlTyped'
  BY <1>0, <1>16 DEF FailFlags, Goto, Recorded
<1>17. ASSUME NEW t \in Threads, FailNotify(t) PROVE ControlTyped'
  BY <1>0, WakeIs, <1>17 DEF FailNotify, WakeCaller
<1>18. CASE PrepareJob
  BY <1>0, <1>18 DEF PrepareJob, Goto
<1>19. CASE PrepareTaken
  BY <1>0, WakeIs, <1>19 DEF PrepareTaken, Goto, WakeCaller
<1>20. CASE Prepare
  BY <1>0, <1>20 DEF Prepare, Goto, Raise, Later
<1>21. CASE PrepareEnqueue
  BY <1>0, <1>21 DEF PrepareEnqueue, Goto, Raise, FrameRoom
<1>22. CASE PreparePushed
  BY <1>0, WakeIs, <1>22 DEF PreparePushed, GotoNotify
<1>23. CASE PrepareWaitSlots
  BY <1>0, <1>23 DEF PrepareWaitSlots, Goto, Raise
<1>24. CASE PrepareDone
  BY <1>0, <1>24 DEF PrepareDone, Goto
<1>25. CASE PrepareReturns
  BY <1>0, WakeIs, <1>25 DEF PrepareReturns, GotoNotify
<1>26. CASE GpuFrame
  BY <1>0, <1>26 DEF GpuFrame, Goto, PreparedAll
<1>27. CASE GpuTaken
  BY <1>0, WakeIs, <1>27 DEF GpuTaken, GotoNotify
<1>28. CASE GpuEncode
  BY <1>0, <1>28 DEF GpuEncode, Raise, HandOver, Goto
<1>29. CASE GpuFlush
  BY <1>0, <1>29 DEF GpuFlush, Raise, HandOver, Flushed, Goto
<1>30. CASE GpuEnqueue
  BY <1>0, <1>30 DEF GpuEnqueue, Goto, PacketRoom, AfterBatch
<1>31. CASE GpuPushed
  BY <1>0, WakeIs, <1>31 DEF GpuPushed, GotoNotify, AfterBatch
<1>32. CASE GpuDone
  BY <1>0, <1>32 DEF GpuDone, Goto
<1>33. CASE GpuReturns
  BY <1>0, WakeIs, <1>33 DEF GpuReturns, GotoNotify
<1>34. CASE PacketTake
  BY <1>0, <1>34 DEF PacketTake, Goto
<1>35. CASE PacketTaken
  BY <1>0, WakeIs, <1>35 DEF PacketTaken, GotoNotify
<1>36. CASE PacketWrite
  BY <1>0, <1>36 DEF PacketWrite, Goto, Raise
<1>37. CASE UNCHANGED vars
  BY <1>0, <1>37 DEF vars
<1>38. QED
  BY <1>1, <1>2, <1>3, <1>4, <1>5, <1>6, <1>7, <1>8, <1>9, <1>10, <1>11,
    <1>12, <1>13, <1>14, <1>15, <1>16, <1>17, <1>18, <1>19, <1>20, <1>21,
    <1>22, <1>23, <1>24, <1>25, <1>26, <1>27, <1>28, <1>29, <1>30, <1>31,
    <1>32, <1>33, <1>34, <1>35, <1>36, <1>37 DEF Next, CallerContinues,
    CallerCalls, PrepareThread, GpuThread, PacketThread, Terminated, vars

\* The frames and where they are.
LEMMA FlowTypeNext ==
  ASSUME IInv, [Next]_vars
  PROVE  FlowTyped'
<1> USE DEF FlowTyped
<1>0. FlowTyped /\ << >> \in Seq(Nat) /\ << >> \in Seq(Seq(Nat))
  BY EmptySeq DEF IInv, TypeOK
<1>1. ASSUME NEW t \in Threads, StartThread(t) \/ ConstructFails PROVE
  FlowTyped'
  BY <1>0, <1>1 DEF StartThread, ConstructFails, Goto, NextThread, FirstState,
    Throw
<1>2. CASE WriteVideo
  BY <1>0, <1>2 DEF WriteVideo, Throw
<1>3. CASE SubmitWait
  BY <1>0, <1>3 DEF SubmitWait, JobRoom
<1>4. CASE SubmitFails
  BY <1>0, <1>4 DEF SubmitFails, Throw
<1>5. CASE Submit
  <2>1. Len(submitted) < Len(clip) /\ clip \in Seq(Nat)
    BY <1>0, <1>5 DEF IInv, CallerPhase, Submit
  <2>2. clip[Len(submitted) + 1] \in Nat
    BY <1>0, <2>1
  <2>3. QED
    BY <1>0, <1>5, <2>2 DEF Submit
<1>6. CASE SubmitNotify
  BY <1>0, <1>6 DEF SubmitNotify, JobNotified
<1>7. CASE CallerThrows \/ Finish \/ Destroy
  BY <1>0, <1>7 DEF CallerThrows, Finish, Destroy, Throw
<1>8. CASE StopFlags
  BY <1>0, <1>8 DEF StopFlags, NothingToStop, Joinable
<1>9. CASE StopNotify
  BY <1>0, WakeIs, <1>9 DEF StopNotify, StopWakes
<1>10. ASSUME NEW t \in Threads, Join(t) \/ FinishStopped \/ CleanupStopped
  PROVE FlowTyped'
  BY <1>0, WakeIs, <1>10 DEF Join, FinishStopped, CleanupStopped, Joinable,
    Throw
<1>11. ASSUME NEW t \in Threads, FailFlags(t) PROVE FlowTyped'
  BY <1>0, <1>11 DEF FailFlags, Goto, Recorded
<1>12. ASSUME NEW t \in Threads, FailNotify(t) PROVE FlowTyped'
  BY <1>0, WakeIs, <1>12 DEF FailNotify, WakeCaller
<1>13. CASE PrepareJob
  <2>1. vulkan_jobs # << >> => Head(vulkan_jobs) \in Nat /\ Tail(vulkan_jobs) \in Seq(Nat)
    BY <1>0, HeadTailProperties
  <2>2. QED
    BY <1>0, <1>13, <2>1 DEF PrepareJob
<1>14. CASE PrepareTaken
  BY <1>0, WakeIs, <1>14 DEF PrepareTaken, Goto, WakeCaller
<1>15. CASE Prepare
  <2>1. preparing \in Nat
    BY <1>0, <1>15 DEF IInv, PrepareStage, Prepare, Later, Raise
  <2>2. Append(accepted, preparing) \in Seq(Nat)
    BY <1>0, <2>1, AppendProperties
  <2>3. QED
    BY <1>0, <1>15, <2>1, <2>2 DEF Prepare, Later, Raise
<1>16. CASE PrepareEnqueue
  <2>1. preparing \in Nat
    BY <1>0, <1>16 DEF IInv, PrepareStage, PrepareEnqueue, Raise
  <2>2. Append(vulkan_frames_ready, preparing) \in Seq(Nat)
    BY <1>0, <2>1, AppendProperties
  <2>3. QED
    BY <1>0, <1>16, <2>1, <2>2 DEF PrepareEnqueue, Raise
<1>17. CASE PreparePushed
  BY <1>0, WakeIs, <1>17 DEF PreparePushed, GotoNotify
<1>18. CASE PrepareWaitSlots \/ PrepareDone \/ PrepareReturns
  BY <1>0, WakeIs, <1>18 DEF PrepareWaitSlots, PrepareDone, PrepareReturns,
    Goto, Raise, GotoNotify
<1>19. CASE GpuFrame
  <2>1. vulkan_frames_ready # << >> =>
          /\ <<Head(vulkan_frames_ready)>> \in Seq(Nat)
          /\ Tail(vulkan_frames_ready) \in Seq(Nat)
    BY <1>0, HeadTailProperties
  <2>2. QED
    BY <1>0, <1>19, <2>1 DEF GpuFrame
<1>20. CASE GpuTaken
  BY <1>0, WakeIs, <1>20 DEF GpuTaken, GotoNotify
<1>21. CASE GpuEncode
  <2>1. CASE UNCHANGED gpuVars
    BY <1>0, <1>21, <2>1 DEF GpuEncode
  <2>2. ASSUME NEW n \in 0..Len(encoder \o batch),
               encoder' = SubSeq(encoder \o batch, n + 1, Len(encoder \o batch)),
               batch' = SubSeq(encoder \o batch, 1, n), flush_sent' = flush_sent
        PROVE  encoder' \in Seq(Nat) /\ batch' \in Seq(Nat) /\ flush_sent' \in BOOLEAN
    <3>1. Then(encoder, batch) \in Seq(Nat)
      BY <1>0, ThenProperties
    <3>2. Then(encoder, batch) = encoder \o batch
      BY DEF Then
    <3>3. QED
      BY <1>0, <2>2, <3>1, <3>2, SplitAt
  <2>3. QED
    BY <1>0, <1>21, <2>1, <2>2 DEF GpuEncode, HandOver, Raise
<1>22. CASE GpuFlush
  BY <1>0, <1>22 DEF GpuFlush, Raise, HandOver, Flushed, Goto
<1>23. CASE GpuEnqueue
  <2>1. Append(vulkan_packets, batch) \in Seq(Seq(Nat))
    BY <1>0, AppendProperties
  <2>2. QED
    BY <1>0, <1>23, <2>1 DEF GpuEnqueue
<1>24. CASE GpuPushed
  BY <1>0, WakeIs, <1>24 DEF GpuPushed, GotoNotify, AfterBatch
<1>25. CASE GpuDone \/ GpuReturns
  BY <1>0, WakeIs, <1>25 DEF GpuDone, GpuReturns, Goto, GotoNotify
<1>26. CASE PacketTake
  <2>1. vulkan_packets # << >> => Head(vulkan_packets) \in Seq(Nat) /\ Tail(vulkan_packets) \in Seq(Seq(Nat))
    BY <1>0, HeadTailProperties
  <2>2. QED
    BY <1>0, <1>26, <2>1 DEF PacketTake
<1>27. CASE PacketTaken
  BY <1>0, WakeIs, <1>27 DEF PacketTaken, GotoNotify
<1>28. CASE PacketWrite
  <2>1. writing # << >> /\ Head(writing) \in Nat /\ Tail(writing) \in Seq(Nat)
    BY <1>0, <1>28, WriteInOrder, HeadThenTail DEF PacketWrite
  <2>2. Append(muxed, Head(writing)) \in Seq(Nat)
    BY <1>0, <2>1, AppendProperties
  <2>3. QED
    BY <1>0, <1>28, <2>1, <2>2 DEF PacketWrite, Raise
<1>29. CASE UNCHANGED vars
  BY <1>0, <1>29 DEF vars
<1>30. QED
  BY <1>1, <1>2, <1>3, <1>4, <1>5, <1>6, <1>7, <1>8, <1>9, <1>10, <1>11,
    <1>12, <1>13, <1>14, <1>15, <1>16, <1>17, <1>18, <1>19, <1>20, <1>21,
    <1>22, <1>23, <1>24, <1>25, <1>26, <1>27, <1>28, <1>29 DEF Next,
    CallerContinues, CallerCalls, PrepareThread, GpuThread, PacketThread,
    Terminated, vars

\* Every step keeps the types.
LEMMA TypeNext == IInv /\ [Next]_vars => TypeOK'
BY PcTypeNext, ControlTypeNext, FlowTypeNext DEF TypeOK

-----------------------------------------------------------------------------
(* Where the threads are, the flags, and what each stage holds.            *)

\* The order of the threads.
LEMMA ThreadOrderNext ==
  ASSUME IInv, [Next]_vars
  PROVE  ThreadOrder'
<1> USE DEF ThreadOrder, CallerPhase, NothingToStop, Joinable
<1>0. /\ pc \in [Threads -> PcStates] /\ thrown \in [Threads -> ThreadErrors]
      /\ ThreadOrder
      /\ CallerPhase
  BY DEF IInv, TypeOK, ThreadsTyped
<1>1. ASSUME NEW t \in Threads, StartThread(t) \/ ConstructFails PROVE
  ThreadOrder'
  BY <1>0, <1>1 DEF StartThread, ConstructFails, Goto, NextThread, FirstState,
    Throw
<1>2. CASE WriteVideo \/ SubmitWait \/ SubmitFails \/ Submit \/ SubmitNotify
  BY <1>0, <1>2 DEF WriteVideo, SubmitWait, SubmitFails, Submit, SubmitNotify,
    Throw, JobRoom, MaySubmit, JobNotified
<1>3. CASE CallerThrows \/ Finish \/ Destroy
  BY <1>0, <1>3 DEF CallerThrows, Finish, Destroy, Throw
<1>4. CASE StopFlags \/ StopNotify
  BY <1>0, WakeIs, <1>4 DEF StopFlags, StopNotify, NothingToStop, Joinable,
    StopWakes
<1>5. ASSUME NEW t \in Threads, Join(t) PROVE ThreadOrder'
  BY <1>0, WakeIs, <1>5 DEF Join, Joinable
<1>6. CASE FinishStopped
  BY <1>0, <1>6 DEF FinishStopped, Throw
<1>7. CASE CleanupStopped
  BY <1>0, <1>7 DEF CleanupStopped
<1>8. ASSUME NEW t \in Threads, FailFlags(t) PROVE ThreadOrder'
  BY <1>0, <1>8 DEF FailFlags, Goto, Recorded
<1>9. ASSUME NEW t \in Threads, FailNotify(t) PROVE ThreadOrder'
  BY <1>0, WakeIs, <1>9 DEF FailNotify, WakeCaller
<1>10. CASE PrepareJob \/ PrepareTaken \/ Prepare
  BY <1>0, WakeIs, <1>10 DEF PrepareJob, PrepareTaken, Prepare, Goto,
    WakeCaller, Raise, Later
<1>11. CASE PrepareEnqueue \/ PreparePushed
  BY <1>0, WakeIs, <1>11 DEF PrepareEnqueue, PreparePushed, Goto, Raise,
    FrameRoom, GotoNotify
<1>12. CASE PrepareWaitSlots \/ PrepareDone \/ PrepareReturns
  BY <1>0, WakeIs, <1>12 DEF PrepareWaitSlots, PrepareDone, PrepareReturns,
    Goto, Raise, GotoNotify
<1>13. CASE GpuFrame \/ GpuTaken \/ GpuEncode
  BY <1>0, WakeIs, <1>13 DEF GpuFrame, GpuTaken, GpuEncode, Goto, PreparedAll,
    GotoNotify, Raise, HandOver
<1>14. CASE GpuFlush \/ GpuEnqueue \/ GpuPushed
  BY <1>0, WakeIs, <1>14 DEF GpuFlush, GpuEnqueue, GpuPushed, Raise, HandOver,
    Flushed, Goto, PacketRoom, AfterBatch, GotoNotify
<1>15. CASE GpuDone \/ GpuReturns
  BY <1>0, WakeIs, <1>15 DEF GpuDone, GpuReturns, Goto, GotoNotify
<1>16. CASE PacketTake \/ PacketTaken \/ PacketWrite
  BY <1>0, WakeIs, <1>16 DEF PacketTake, PacketTaken, PacketWrite, Goto,
    GotoNotify, Raise
<1>17. CASE UNCHANGED vars
  BY <1>0, <1>17 DEF vars
<1>18. QED
  BY <1>1, <1>2, <1>3, <1>4, <1>5, <1>6, <1>7, <1>8, <1>9, <1>10, <1>11,
    <1>12, <1>13, <1>14, <1>15, <1>16, <1>17 DEF Next, CallerContinues,
    CallerCalls, PrepareThread, GpuThread, PacketThread, Terminated, vars

\* What the caller's place tells.
LEMMA CallerPhaseNext ==
  ASSUME IInv, [Next]_vars
  PROVE  CallerPhase'
<1> USE DEF ThreadOrder, CallerPhase, NothingToStop, Joinable, FailureFlags
<1>0. /\ pc \in [Threads -> PcStates] /\ thrown \in [Threads -> ThreadErrors]
      /\ ThreadOrder
      /\ CallerPhase
      /\ FailureFlags
      /\ clip \in Seq(Nat) /\ submitted \in Seq(Nat)
  BY DEF IInv, TypeOK, ThreadsTyped, FlowTyped
<1>1. ASSUME NEW t \in Threads, StartThread(t) PROVE CallerPhase'
  BY <1>0, <1>1 DEF StartThread, Goto, NextThread, FirstState
<1>2. CASE ConstructFails
  BY <1>0, <1>2 DEF ConstructFails, Throw
<1>3. CASE WriteVideo
  BY <1>0, <1>3 DEF WriteVideo, Throw
<1>4. CASE SubmitWait
  BY <1>0, <1>4 DEF SubmitWait, JobRoom
<1>5. CASE SubmitFails
  BY <1>0, <1>5 DEF SubmitFails, Throw
<1>6. CASE Submit
  BY <1>0, <1>6 DEF Submit, MaySubmit, JobRoom
<1>7. CASE SubmitNotify
  BY <1>0, <1>7 DEF SubmitNotify, JobNotified
<1>8. CASE CallerThrows
  BY <1>0, <1>8 DEF CallerThrows, Throw
<1>9. CASE Finish
  BY <1>0, <1>9 DEF Finish
<1>10. CASE Destroy
  BY <1>0, <1>10 DEF Destroy
<1>11. CASE StopFlags
  BY <1>0, <1>11 DEF StopFlags, NothingToStop, Joinable
<1>12. CASE StopNotify
  BY <1>0, WakeIs, <1>12 DEF StopNotify, StopWakes
<1>13. ASSUME NEW t \in Threads, Join(t) PROVE CallerPhase'
  BY <1>0, WakeIs, <1>13 DEF Join, Joinable
<1>14. CASE FinishStopped
  BY <1>0, <1>14 DEF FinishStopped, Throw
<1>15. CASE CleanupStopped
  BY <1>0, <1>15 DEF CleanupStopped
<1>16. ASSUME NEW t \in Threads, FailFlags(t) PROVE CallerPhase'
  BY <1>0, <1>16 DEF FailFlags, Goto, Recorded
<1>17. ASSUME NEW t \in Threads, FailNotify(t) PROVE CallerPhase'
  BY <1>0, WakeIs, <1>17 DEF FailNotify, WakeCaller
<1>18. CASE PrepareJob
  BY <1>0, <1>18 DEF PrepareJob, Goto
<1>19. CASE PrepareTaken
  BY <1>0, WakeIs, <1>19 DEF PrepareTaken, Goto, WakeCaller
<1>20. CASE Prepare
  BY <1>0, <1>20 DEF Prepare, Goto, Raise, Later
<1>21. CASE PrepareEnqueue
  BY <1>0, <1>21 DEF PrepareEnqueue, Goto, Raise, FrameRoom
<1>22. CASE PreparePushed
  BY <1>0, WakeIs, <1>22 DEF PreparePushed, GotoNotify
<1>23. CASE PrepareWaitSlots \/ PrepareDone \/ PrepareReturns
  BY <1>0, WakeIs, <1>23 DEF PrepareWaitSlots, PrepareDone, PrepareReturns,
    Goto, Raise, GotoNotify
<1>24. CASE GpuFrame
  BY <1>0, <1>24 DEF GpuFrame, Goto, PreparedAll
<1>25. CASE GpuTaken
  BY <1>0, WakeIs, <1>25 DEF GpuTaken, GotoNotify
<1>26. CASE GpuEncode
  BY <1>0, <1>26 DEF GpuEncode, Raise, HandOver, Goto
<1>27. CASE GpuFlush
  BY <1>0, <1>27 DEF GpuFlush, Raise, HandOver, Flushed, Goto
<1>28. CASE GpuEnqueue
  BY <1>0, <1>28 DEF GpuEnqueue, Goto, PacketRoom, AfterBatch
<1>29. CASE GpuPushed
  BY <1>0, WakeIs, <1>29 DEF GpuPushed, GotoNotify, AfterBatch
<1>30. CASE GpuDone \/ GpuReturns
  BY <1>0, WakeIs, <1>30 DEF GpuDone, GpuReturns, Goto, GotoNotify
<1>31. CASE PacketTake
  BY <1>0, <1>31 DEF PacketTake, Goto
<1>32. CASE PacketTaken
  BY <1>0, WakeIs, <1>32 DEF PacketTaken, GotoNotify
<1>33. CASE PacketWrite
  BY <1>0, <1>33 DEF PacketWrite, Goto, Raise
<1>34. CASE UNCHANGED vars
  BY <1>0, <1>34 DEF vars
<1>35. QED
  BY <1>1, <1>2, <1>3, <1>4, <1>5, <1>6, <1>7, <1>8, <1>9, <1>10, <1>11,
    <1>12, <1>13, <1>14, <1>15, <1>16, <1>17, <1>18, <1>19, <1>20, <1>21,
    <1>22, <1>23, <1>24, <1>25, <1>26, <1>27, <1>28, <1>29, <1>30, <1>31,
    <1>32, <1>33, <1>34 DEF Next, CallerContinues, CallerCalls, PrepareThread,
    GpuThread, PacketThread, Terminated, vars

\* The failure and the abort.
LEMMA FailureFlagsNext ==
  ASSUME IInv, [Next]_vars
  PROVE  FailureFlags'
<1> USE DEF FailureFlags
<1>0. /\ pc \in [Threads -> PcStates] /\ thrown \in [Threads -> ThreadErrors]
      /\ FailureFlags
      /\ CallerPhase
      /\ vulkan_worker_error \in ThreadErrors /\ vulkan_failed \in BOOLEAN
  BY DEF IInv, TypeOK, ThreadsTyped, ControlTyped
<1>1. ASSUME NEW t \in Threads, StartThread(t) PROVE FailureFlags'
  BY <1>0, <1>1 DEF StartThread, Goto, NextThread, FirstState
<1>2. CASE ConstructFails
  BY <1>0, <1>2 DEF ConstructFails, Throw
<1>3. CASE WriteVideo \/ SubmitWait \/ SubmitFails \/ Submit \/ SubmitNotify
  BY <1>0, <1>3 DEF WriteVideo, SubmitWait, SubmitFails, Submit, SubmitNotify,
    Throw, JobRoom, MaySubmit, JobNotified
<1>4. CASE CallerThrows \/ Finish \/ Destroy
  BY <1>0, <1>4 DEF CallerThrows, Finish, Destroy, Throw
<1>5. CASE StopFlags
  BY <1>0, <1>5 DEF StopFlags, NothingToStop, Joinable
<1>6. CASE StopNotify
  BY <1>0, WakeIs, <1>6 DEF StopNotify, StopWakes
<1>7. ASSUME NEW t \in Threads, Join(t) PROVE FailureFlags'
  BY <1>0, WakeIs, <1>7 DEF Join, Joinable
<1>8. CASE FinishStopped
  BY <1>0, <1>8 DEF FinishStopped, Throw
<1>9. CASE CleanupStopped
  BY <1>0, <1>9 DEF CleanupStopped
<1>10. ASSUME NEW t \in Threads, FailFlags(t) PROVE FailureFlags'
  <2>1. thrown[t] \in ThreadErrors /\ thrown[t] \notin {NoError, "packet_pts"}
    BY <1>0, <1>10 DEF FailFlags
  <2>2. /\ vulkan_worker_error' \notin {NoError, "packet_pts"}
        /\ vulkan_worker_error' = "cancelled" => unwinding
    BY <1>0, <1>10, <2>1 DEF FailFlags, Recorded
  <2>3. \A u \in Threads : pc'[u] = IF u = t THEN "fail_notify" ELSE pc[u]
    BY <1>0, <1>10 DEF FailFlags, Goto
  <2>4. /\ unwinding' = unwinding /\ finished' = finished /\ thrown' = thrown
        /\ vulkan_failed' /\ vulkan_abort'
        /\ vulkan_jobs' = << >> /\ vulkan_frames_ready' = << >> /\ vulkan_packets' = << >>
    BY <1>10 DEF FailFlags
  <2>5. ~finished
    BY <1>0, <1>10 DEF FailFlags, CallerPhase, NothingToStop, Joinable
  <2>6. QED
    BY <1>0, <2>2, <2>3, <2>4, <2>5
<1>11. ASSUME NEW t \in Threads, FailNotify(t) PROVE FailureFlags'
  BY <1>0, WakeIs, <1>11 DEF FailNotify, WakeCaller
<1>12. CASE PrepareJob \/ PrepareTaken \/ Prepare
  BY <1>0, WakeIs, <1>12 DEF PrepareJob, PrepareTaken, Prepare, Goto,
    WakeCaller, Raise, Later
<1>13. CASE PrepareEnqueue
  BY <1>0, <1>13 DEF PrepareEnqueue, Goto, Raise, FrameRoom
<1>14. CASE PreparePushed
  BY <1>0, WakeIs, <1>14 DEF PreparePushed, GotoNotify
<1>15. CASE PrepareWaitSlots \/ PrepareDone \/ PrepareReturns
  BY <1>0, WakeIs, <1>15 DEF PrepareWaitSlots, PrepareDone, PrepareReturns,
    Goto, Raise, GotoNotify
<1>16. CASE GpuFrame
  BY <1>0, <1>16 DEF GpuFrame, Goto, PreparedAll
<1>17. CASE GpuTaken
  BY <1>0, WakeIs, <1>17 DEF GpuTaken, GotoNotify
<1>18. CASE GpuEncode
  BY <1>0, <1>18 DEF GpuEncode, Raise, HandOver, Goto
<1>19. CASE GpuFlush
  BY <1>0, <1>19 DEF GpuFlush, Raise, HandOver, Flushed, Goto
<1>20. CASE GpuEnqueue
  BY <1>0, <1>20 DEF GpuEnqueue, Goto, PacketRoom, AfterBatch
<1>21. CASE GpuPushed
  BY <1>0, WakeIs, <1>21 DEF GpuPushed, GotoNotify, AfterBatch
<1>22. CASE GpuDone \/ GpuReturns
  BY <1>0, WakeIs, <1>22 DEF GpuDone, GpuReturns, Goto, GotoNotify
<1>23. CASE PacketTake
  BY <1>0, <1>23 DEF PacketTake, Goto
<1>24. CASE PacketTaken
  BY <1>0, WakeIs, <1>24 DEF PacketTaken, GotoNotify
<1>25. CASE PacketWrite
  <2>1. ~ (Head(writing) <= previous_video_pts)
    <3>1. previous_video_pts \in Int
      BY DEF IInv, TypeOK, FlowTyped
    <3>2. QED
      BY <1>25, <3>1, WriteInOrder DEF PacketWrite
  <2>2. QED
    BY <1>0, <1>25, <2>1 DEF PacketWrite, Goto, Raise
<1>26. CASE UNCHANGED vars
  BY <1>0, <1>26 DEF vars
<1>27. QED
  BY <1>1, <1>2, <1>3, <1>4, <1>5, <1>6, <1>7, <1>8, <1>9, <1>10, <1>11,
    <1>12, <1>13, <1>14, <1>15, <1>16, <1>17, <1>18, <1>19, <1>20, <1>21,
    <1>22, <1>23, <1>24, <1>25, <1>26 DEF Next, CallerContinues, CallerCalls,
    PrepareThread, GpuThread, PacketThread, Terminated, vars

\* What the prepare thread holds.
LEMMA PrepareStageNext ==
  ASSUME IInv, [Next]_vars
  PROVE  PrepareStage'
<1> USE DEF PrepareStage, CallerPhase, FailureFlags
<1>0. /\ pc \in [Threads -> PcStates] /\ thrown \in [Threads -> ThreadErrors]
      /\ PrepareStage
      /\ CallerPhase
      /\ FailureFlags
      /\ vulkan_jobs \in Seq(Nat) /\ preparing \in Nat \union {NoPts}
  BY DEF IInv, TypeOK, ThreadsTyped, FlowTyped
<1>1. ASSUME NEW t \in Threads, StartThread(t) \/ ConstructFails PROVE
  PrepareStage'
  BY <1>0, <1>1 DEF StartThread, ConstructFails, Goto, NextThread, FirstState,
    Throw
<1>2. CASE WriteVideo \/ SubmitWait \/ SubmitFails \/ Submit \/ SubmitNotify
  BY <1>0, <1>2 DEF WriteVideo, SubmitWait, SubmitFails, Submit, SubmitNotify,
    Throw, JobRoom, MaySubmit, JobNotified
<1>3. CASE CallerThrows \/ Finish \/ Destroy
  BY <1>0, <1>3 DEF CallerThrows, Finish, Destroy, Throw
<1>4. CASE StopFlags
  BY <1>0, <1>4 DEF StopFlags, NothingToStop, Joinable
<1>5. CASE StopNotify
  BY <1>0, WakeIs, <1>5 DEF StopNotify, StopWakes
<1>6. ASSUME NEW t \in Threads, Join(t) PROVE PrepareStage'
  BY <1>0, WakeIs, <1>6 DEF Join, Joinable
<1>7. CASE FinishStopped
  BY <1>0, <1>7 DEF FinishStopped, Throw
<1>8. CASE CleanupStopped
  BY <1>0, <1>8 DEF CleanupStopped
<1>9. ASSUME NEW t \in Threads, FailFlags(t) \/ FailNotify(t) PROVE
  PrepareStage'
  BY <1>0, WakeIs, <1>9 DEF FailFlags, FailNotify, Goto, Recorded, WakeCaller
<1>10. CASE PrepareJob
  BY <1>0, <1>10 DEF PrepareJob, Goto
<1>11. CASE PrepareTaken
  BY <1>0, WakeIs, <1>11 DEF PrepareTaken, Goto, WakeCaller
<1>12. CASE Prepare
  BY <1>0, <1>12 DEF Prepare, Goto, Raise, Later
<1>13. CASE PrepareEnqueue \/ PreparePushed
  BY <1>0, WakeIs, <1>13 DEF PrepareEnqueue, PreparePushed, Goto, Raise,
    FrameRoom, GotoNotify
<1>14. CASE PrepareWaitSlots \/ PrepareDone \/ PrepareReturns
  BY <1>0, WakeIs, <1>14 DEF PrepareWaitSlots, PrepareDone, PrepareReturns,
    Goto, Raise, GotoNotify
<1>15. CASE GpuFrame \/ GpuTaken
  BY <1>0, WakeIs, <1>15 DEF GpuFrame, GpuTaken, Goto, PreparedAll, GotoNotify
<1>16. CASE GpuEncode
  BY <1>0, <1>16 DEF GpuEncode, Goto, GotoNotify, Raise, HandOver
<1>17. CASE GpuFlush \/ GpuEnqueue \/ GpuPushed
  BY <1>0, WakeIs, <1>17 DEF GpuFlush, GpuEnqueue, GpuPushed, Raise, HandOver,
    Flushed, Goto, PacketRoom, AfterBatch, GotoNotify
<1>18. CASE GpuDone \/ GpuReturns
  BY <1>0, WakeIs, <1>18 DEF GpuDone, GpuReturns, Goto, GotoNotify
<1>19. CASE PacketTake \/ PacketTaken \/ PacketWrite
  BY <1>0, WakeIs, <1>19 DEF PacketTake, PacketTaken, PacketWrite, Goto,
    GotoNotify, Raise
<1>20. CASE UNCHANGED vars
  BY <1>0, <1>20 DEF vars
<1>21. QED
  BY <1>1, <1>2, <1>3, <1>4, <1>5, <1>6, <1>7, <1>8, <1>9, <1>10, <1>11,
    <1>12, <1>13, <1>14, <1>15, <1>16, <1>17, <1>18, <1>19, <1>20 DEF Next,
    CallerContinues, CallerCalls, PrepareThread, GpuThread, PacketThread,
    Terminated, vars

\* What the GPU thread holds.
LEMMA GpuStageNext ==
  ASSUME IInv, [Next]_vars
  PROVE  GpuStage'
<1> USE DEF GpuStage, PrepareStage, FailureFlags, ThreadOrder
<1>0. /\ pc \in [Threads -> PcStates] /\ thrown \in [Threads -> ThreadErrors]
      /\ GpuStage
      /\ PrepareStage
      /\ FailureFlags
      /\ ThreadOrder
      /\ /\ encoder \in Seq(Nat) /\ batch \in Seq(Nat)
         /\ vulkan_frames_ready \in Seq(Nat)
  BY DEF IInv, TypeOK, ThreadsTyped, FlowTyped
<1>1. ASSUME NEW t \in Threads, StartThread(t) PROVE GpuStage'
  BY <1>0, <1>1 DEF StartThread, Goto, NextThread, FirstState
<1>2. CASE ConstructFails
  BY <1>0, <1>2 DEF ConstructFails, Throw
<1>3. CASE WriteVideo \/ SubmitWait \/ SubmitFails \/ Submit \/ SubmitNotify
  <2>1. CASE WriteVideo \/ SubmitWait \/ SubmitFails \/ Submit
    <3>1. UNCHANGED <<pc, encoder, vulkan_frames_ready, batch, flush_sent,
                      vulkan_abort, vulkan_prepare_done, vulkan_gpu_done>>
      BY <2>1 DEF WriteVideo, SubmitWait, SubmitFails, Submit
    <3>2. QED
      BY <1>0, <3>1
  <2>2. CASE SubmitNotify
    BY <1>0, <2>2 DEF SubmitNotify, JobNotified
  <2>3. QED
    BY <1>3, <2>1, <2>2
<1>4. CASE CallerThrows \/ Finish \/ Destroy
  BY <1>0, <1>4 DEF CallerThrows, Finish, Destroy, Throw
<1>5. CASE StopFlags
  BY <1>0, <1>5 DEF StopFlags, NothingToStop, Joinable
<1>6. CASE StopNotify
  BY <1>0, WakeIs, <1>6 DEF StopNotify, StopWakes
<1>7. ASSUME NEW t \in Threads, Join(t) PROVE GpuStage'
  BY <1>0, WakeIs, <1>7 DEF Join, Joinable
<1>8. CASE FinishStopped
  BY <1>0, <1>8 DEF FinishStopped, Throw
<1>9. CASE CleanupStopped
  BY <1>0, <1>9 DEF CleanupStopped
<1>10. ASSUME NEW t \in Threads, FailFlags(t) PROVE GpuStage'
  BY <1>0, <1>10 DEF FailFlags, Goto, Recorded
<1>11. ASSUME NEW t \in Threads, FailNotify(t) PROVE GpuStage'
  BY <1>0, WakeIs, <1>11 DEF FailNotify, WakeCaller
<1>12. CASE PrepareJob
  BY <1>0, <1>12 DEF PrepareJob, Goto
<1>13. CASE PrepareTaken
  BY <1>0, WakeIs, <1>13 DEF PrepareTaken, Goto, WakeCaller
<1>14. CASE Prepare
  BY <1>0, <1>14 DEF Prepare, Goto, Raise, Later
<1>15. CASE PrepareEnqueue
  BY <1>0, <1>15 DEF PrepareEnqueue, Goto, Raise, FrameRoom
<1>16. CASE PreparePushed
  BY <1>0, WakeIs, <1>16 DEF PreparePushed, GotoNotify
<1>17. CASE PrepareWaitSlots
  BY <1>0, <1>17 DEF PrepareWaitSlots, Goto, Raise
<1>18. CASE PrepareDone
  BY <1>0, <1>18 DEF PrepareDone, Goto
<1>19. CASE PrepareReturns
  BY <1>0, WakeIs, <1>19 DEF PrepareReturns, GotoNotify
<1>20. CASE GpuFrame
  BY <1>0, <1>20 DEF GpuFrame, Goto, PreparedAll
<1>21. CASE GpuTaken
  BY <1>0, WakeIs, <1>21 DEF GpuTaken, GotoNotify
<1>22. CASE GpuEncode
  <2>1. CASE UNCHANGED gpuVars /\ Raise("gpu", "encode")
    BY <1>0, <1>22, <2>1 DEF GpuEncode, Raise, Goto
  <2>2. ASSUME NEW n \in 0..Len(encoder \o batch),
               Len(encoder \o batch) - n < AsyncDepth,
               encoder' = SubSeq(encoder \o batch, n + 1, Len(encoder \o batch)),
               flush_sent' = flush_sent, ~flush_sent,
               HandOver(SubSeq(encoder \o batch, 1, n))
        PROVE  GpuStage'
    <3>1. Then(encoder, batch) \in Seq(Nat) /\ Then(encoder, batch) = encoder \o batch
      BY <1>0, ThenProperties DEF Then
    <3>2. Len(encoder') < AsyncDepth
      BY <2>2, <3>1, SplitAt
    <3>3. batch' # << >> => pc' = [pc EXCEPT !["gpu"] = "packet_space"]
      BY <2>2 DEF HandOver, Goto
    <3>4. batch' = << >> => pc' = [pc EXCEPT !["gpu"] = "frame"]
      BY <2>2 DEF HandOver, Goto
    <3>5. UNCHANGED <<vulkan_frames_ready, controlVars>> /\ pc["gpu"] = "encode"
      BY <1>22 DEF GpuEncode
    <3>6. QED
      BY <1>0, <2>2, <3>2, <3>3, <3>4, <3>5
  <2>3. QED
    BY <1>22, <2>1, <2>2 DEF GpuEncode
<1>23. CASE GpuFlush
  BY <1>0, <1>23 DEF GpuFlush, Raise, HandOver, Flushed, Goto
<1>24. CASE GpuEnqueue
  BY <1>0, <1>24 DEF GpuEnqueue, Goto, PacketRoom, AfterBatch
<1>25. CASE GpuPushed
  BY <1>0, WakeIs, <1>25 DEF GpuPushed, GotoNotify, AfterBatch
<1>26. CASE GpuDone
  BY <1>0, <1>26 DEF GpuDone, Goto
<1>27. CASE GpuReturns
  BY <1>0, WakeIs, <1>27 DEF GpuReturns, GotoNotify
<1>28. CASE PacketTake
  BY <1>0, <1>28 DEF PacketTake, Goto
<1>29. CASE PacketTaken
  BY <1>0, WakeIs, <1>29 DEF PacketTaken, GotoNotify
<1>30. CASE PacketWrite
  BY <1>0, <1>30 DEF PacketWrite, Goto, Raise
<1>31. CASE UNCHANGED vars
  BY <1>0, <1>31 DEF vars
<1>32. QED
  BY <1>1, <1>2, <1>3, <1>4, <1>5, <1>6, <1>7, <1>8, <1>9, <1>10, <1>11,
    <1>12, <1>13, <1>14, <1>15, <1>16, <1>17, <1>18, <1>19, <1>20, <1>21,
    <1>22, <1>23, <1>24, <1>25, <1>26, <1>27, <1>28, <1>29, <1>30, <1>31 DEF
    Next, CallerContinues, CallerCalls, PrepareThread, GpuThread,
    PacketThread, Terminated, vars

\* What the packet thread holds.
LEMMA PacketStageNext ==
  ASSUME IInv, [Next]_vars
  PROVE  PacketStage'
<1> USE DEF PacketStage, GpuStage, FailureFlags
<1>0. /\ pc \in [Threads -> PcStates] /\ thrown \in [Threads -> ThreadErrors]
      /\ PacketStage
      /\ GpuStage
      /\ FailureFlags
      /\ /\ vulkan_packets \in Seq(Seq(Nat))
         /\ writing \in Seq(Nat) /\ batch \in Seq(Nat)
  BY DEF IInv, TypeOK, ThreadsTyped, FlowTyped
<1>1. ASSUME NEW t \in Threads, StartThread(t) PROVE PacketStage'
  BY <1>0, <1>1 DEF StartThread, Goto, NextThread, FirstState
<1>2. CASE ConstructFails
  BY <1>0, <1>2 DEF ConstructFails, Throw
<1>3. CASE WriteVideo \/ SubmitWait \/ SubmitFails \/ Submit \/ SubmitNotify
  BY <1>0, <1>3 DEF WriteVideo, SubmitWait, SubmitFails, Submit, SubmitNotify,
    Throw, JobRoom, MaySubmit, JobNotified
<1>4. CASE CallerThrows \/ Finish \/ Destroy
  BY <1>0, <1>4 DEF CallerThrows, Finish, Destroy, Throw
<1>5. CASE StopFlags
  BY <1>0, <1>5 DEF StopFlags, NothingToStop, Joinable
<1>6. CASE StopNotify
  BY <1>0, WakeIs, <1>6 DEF StopNotify, StopWakes
<1>7. ASSUME NEW t \in Threads, Join(t) PROVE PacketStage'
  BY <1>0, WakeIs, <1>7 DEF Join, Joinable
<1>8. CASE FinishStopped
  BY <1>0, <1>8 DEF FinishStopped, Throw
<1>9. CASE CleanupStopped
  BY <1>0, <1>9 DEF CleanupStopped
<1>10. ASSUME NEW t \in Threads, FailFlags(t) PROVE PacketStage'
  BY <1>0, <1>10 DEF FailFlags, Goto, Recorded
<1>11. ASSUME NEW t \in Threads, FailNotify(t) PROVE PacketStage'
  BY <1>0, WakeIs, <1>11 DEF FailNotify, WakeCaller
<1>12. CASE PrepareJob \/ PrepareTaken \/ Prepare
  BY <1>0, WakeIs, <1>12 DEF PrepareJob, PrepareTaken, Prepare, Goto,
    WakeCaller, Raise, Later
<1>13. CASE PrepareEnqueue
  BY <1>0, <1>13 DEF PrepareEnqueue, Goto, Raise, FrameRoom
<1>14. CASE PreparePushed
  BY <1>0, WakeIs, <1>14 DEF PreparePushed, GotoNotify
<1>15. CASE PrepareWaitSlots \/ PrepareDone \/ PrepareReturns
  BY <1>0, WakeIs, <1>15 DEF PrepareWaitSlots, PrepareDone, PrepareReturns,
    Goto, Raise, GotoNotify
<1>16. CASE GpuFrame
  BY <1>0, <1>16 DEF GpuFrame, Goto, PreparedAll
<1>17. CASE GpuTaken
  BY <1>0, WakeIs, <1>17 DEF GpuTaken, GotoNotify
<1>18. CASE GpuEncode
  BY <1>0, <1>18 DEF GpuEncode, Raise, HandOver, Goto
<1>19. CASE GpuFlush
  BY <1>0, <1>19 DEF GpuFlush, Raise, HandOver, Flushed, Goto
<1>20. CASE GpuEnqueue
  <2>1. CASE vulkan_packets' = Append(vulkan_packets, batch)
             /\ pc["gpu"] = "packet_space"
    <3>1. batch # << >> /\ Len(vulkan_packets) \in Nat
      BY <1>0, <2>1
    <3>2. /\ Len(vulkan_packets') = Len(vulkan_packets) + 1
          /\ \A i \in 1..Len(vulkan_packets) : vulkan_packets'[i] = vulkan_packets[i]
          /\ vulkan_packets'[Len(vulkan_packets) + 1] = batch
      BY <1>0, <2>1, AppendProperties
    <3>3. \A i \in 1..Len(vulkan_packets') : vulkan_packets'[i] # << >>
      <4>1. \A i \in 1..Len(vulkan_packets') :
              i \in 1..Len(vulkan_packets) \/ i = Len(vulkan_packets) + 1
        BY <3>1, <3>2
      <4>2. QED
        BY <1>0, <3>1, <3>2, <4>1
    <3>4. pc'["packet"] = pc["packet"] /\ UNCHANGED <<writing, controlVars>>
      BY <1>0, <1>20 DEF GpuEnqueue, Goto
    <3>5. ~vulkan_abort /\ pc["packet"] \in {"exited", "joined"} => pc["gpu"] # "packet_space"
      BY <1>0
    <3>6. QED
      BY <1>0, <2>1, <3>3, <3>4, <3>5
  <2>2. CASE vulkan_packets' = vulkan_packets
    BY <1>0, <1>20, <2>2 DEF GpuEnqueue, Goto
  <2>3. QED
    BY <1>20, <2>1, <2>2 DEF GpuEnqueue
<1>21. CASE GpuPushed
  BY <1>0, WakeIs, <1>21 DEF GpuPushed, GotoNotify, AfterBatch
<1>22. CASE GpuDone
  BY <1>0, <1>22 DEF GpuDone, Goto
<1>23. CASE GpuReturns
  BY <1>0, WakeIs, <1>23 DEF GpuReturns, GotoNotify
<1>24. CASE PacketTake
  <2>1. CASE /\ writing' = Head(vulkan_packets)
             /\ vulkan_packets' = Tail(vulkan_packets)
             /\ vulkan_packets # << >>
             /\ Goto("packet", "packet_taken")
    <3>1. /\ Head(vulkan_packets) = vulkan_packets[1] /\ Len(vulkan_packets) \in Nat \ {0}
          /\ Len(vulkan_packets') = Len(vulkan_packets) - 1
          /\ \A i \in 1..Len(vulkan_packets') : vulkan_packets'[i] = vulkan_packets[i + 1]
      BY <1>0, <2>1, HeadTailProperties
    <3>2. writing' # << >>
      BY <1>0, <2>1, <3>1
    <3>3. \A i \in 1..Len(vulkan_packets') : vulkan_packets'[i] # << >>
      <4>1. \A i \in 1..Len(vulkan_packets') : i + 1 \in 1..Len(vulkan_packets)
        BY <3>1
      <4>2. \A j \in 1..Len(vulkan_packets) : vulkan_packets[j] # << >>
        BY <1>0
      <4>3. \A i \in 1..Len(vulkan_packets') : vulkan_packets[i + 1] # << >>
        BY <4>1, <4>2
      <4>4. QED
        BY <3>1, <4>3, Zenon
    <3>4. pc'["packet"] = "packet_taken"
      BY <1>0, <2>1 DEF Goto
    <3>5. QED
      BY <3>2, <3>3, <3>4
  <2>2. CASE UNCHANGED <<vulkan_packets, writing>>
    BY <1>0, <1>24, <2>2 DEF PacketTake, Goto
  <2>3. QED
    BY <1>24, <2>1, <2>2 DEF PacketTake
<1>25. CASE PacketTaken
  BY <1>0, WakeIs, <1>25 DEF PacketTaken, GotoNotify
<1>26. CASE PacketWrite
  <2>1. writing # << >> /\ writing \in Seq(Nat)
    BY <1>0, <1>26 DEF PacketWrite
  <2>2. /\ Tail(writing) \in Seq(Nat) /\ Len(writing) \in Nat
        /\ Len(Tail(writing)) = Len(writing) - 1
    BY <2>1, HeadTailProperties
  <2>3. Tail(writing) = << >> <=> Len(writing) = 1
    <3>1. Tail(writing) = << >> <=> Len(Tail(writing)) = 0
      BY <2>2, EmptySeq
    <3>2. QED
      BY <2>2, <3>1
  <2>4. /\ UNCHANGED <<vulkan_packets, controlVars>>
        /\ \/ writing' = writing /\ Goto("packet", "failing")
           \/ /\ writing' = Tail(writing)
              /\ Goto("packet", IF Len(writing) = 1 THEN "packet" ELSE "write")
    BY <1>26 DEF PacketWrite, Raise
  <2>5. QED
    BY <1>0, <2>1, <2>3, <2>4 DEF Goto
<1>27. CASE UNCHANGED vars
  BY <1>0, <1>27 DEF vars
<1>28. QED
  BY <1>1, <1>2, <1>3, <1>4, <1>5, <1>6, <1>7, <1>8, <1>9, <1>10, <1>11,
    <1>12, <1>13, <1>14, <1>15, <1>16, <1>17, <1>18, <1>19, <1>20, <1>21,
    <1>22, <1>23, <1>24, <1>25, <1>26, <1>27 DEF Next, CallerContinues,
    CallerCalls, PrepareThread, GpuThread, PacketThread, Terminated, vars

-----------------------------------------------------------------------------
(* The frames keep their order.                                            *)

\* What the data part of the proof knows before a step.
LEMMA Flow ==
  IInv =>
    /\ ChainSeqs
    /\ accepted \in Seq(Nat) /\ vulkan_jobs \in Seq(Nat) /\ muxed \in Seq(Nat)
    /\ writing \in Seq(Nat) /\ encoder \in Seq(Nat) /\ batch \in Seq(Nat)
    /\ vulkan_frames_ready \in Seq(Nat) /\ vulkan_packets \in Seq(Seq(Nat))
    /\ submitted \in Seq(Nat) /\ clip \in Seq(Nat)
    /\ << >> \in Seq(Nat)
BY ChainTypes, EmptySeq DEF IInv, TypeOK, FlowTyped

\* A frame in the pipeline means that finish() has not returned.
LEMMA Unfinished ==
  IInv /\ (caller = "submit" \/ \E t \in Threads : Joinable(t)) => ~finished
BY DEF IInv, CallerPhase, NothingToStop

\* No thread takes a frame up or puts it down.
SameStage ==
  /\ pc'["prepare"] \in {"job_taken", "prepare"} <=>
       pc["prepare"] \in {"job_taken", "prepare"}
  /\ pc'["prepare"] \in {"frame_space", "frame_space_sleep"} <=>
       pc["prepare"] \in {"frame_space", "frame_space_sleep"}
  /\ pc'["gpu"] \in {"frame_taken", "encode"} <=> pc["gpu"] \in {"frame_taken", "encode"}
  /\ \A t \in {"prepare", "gpu"} :
       pc[t] = "failing" => pc'[t] = "failing" \/ vulkan_abort

\* A step that moves no frame keeps the frames in order.
LEMMA FramesQuiet ==
  ASSUME IInv, SameStage, UNCHANGED flowVars, vulkan_abort' = vulkan_abort,
         finished' => muxed = submitted
  PROVE  FramesInOrder'
<1>1. /\ clip' = clip /\ submitted' = submitted /\ accepted' = accepted
      /\ preparing' = preparing /\ vulkan_jobs' = vulkan_jobs /\ muxed' = muxed
      /\ writing' = writing /\ encoder' = encoder /\ batch' = batch
      /\ vulkan_frames_ready' = vulkan_frames_ready /\ vulkan_packets' = vulkan_packets
  OBVIOUS
<1>2. Unchecked' = Unchecked /\ Unsent' = Unsent
  BY <1>1 DEF SameStage, Unchecked, Unsent
<1>3. Held' = Held
  BY <1>1, Chains, ChainsNext DEF SameStage
<1>4. /\ Checked' = Checked /\ Taken' = Taken /\ Written' = Written
      /\ Outgoing' = Outgoing /\ Encoded' = Encoded /\ Stream' = Stream
      /\ Sent' = Sent
  BY <1>1, <1>2, <1>3, Chains, ChainsNext
<1>5. QED
  BY <1>1, <1>4 DEF IInv, FramesInOrder, SameStage, IsPrefix

\* Neither does one that aborts the pipeline, whatever it discards.
LEMMA FramesAborted ==
  ASSUME IInv, vulkan_abort',
         UNCHANGED <<clip, submitted, accepted, preparing, muxed, writing>>,
         pc'["prepare"] \in {"job_taken", "prepare"} <=>
           pc["prepare"] \in {"job_taken", "prepare"},
         finished' => finished
  PROVE  FramesInOrder'
<1>1. Unchecked' = Unchecked
  BY DEF Unchecked
<1>2. Checked' = Checked /\ Written' = Written
  BY <1>1, Chains, ChainsNext
<1>3. QED
  BY <1>2 DEF IInv, FramesInOrder, IsPrefix

\* write_video queues the next frame of the clip.
LEMMA SubmitFrames == ASSUME IInv, Submit, ChainSeqs' PROVE FramesInOrder'
<1> DEFINE x == clip[Len(submitted) + 1]
<1>1. Len(submitted) < Len(clip) /\ ~finished /\ finished' = finished
  BY DEF IInv, CallerPhase, Submit
<1>2. /\ x \in Nat /\ submitted' = Append(submitted, x)
      /\ vulkan_jobs' = Append(vulkan_jobs, x)
      /\ <<x>> \in Seq(Nat) /\ Len(submitted) \in Nat /\ Len(clip) \in Nat
  <2>1. submitted' = Append(submitted, x) /\ vulkan_jobs' = Append(vulkan_jobs, x)
    BY DEF Submit
  <2>2. Len(submitted) \in Nat /\ Len(clip) \in Nat
    BY Flow
  <2>3. Len(submitted) + 1 \in 1..Len(clip)
    BY <1>1, <2>2
  <2>4. x \in Nat
    <3>1. clip \in Seq(Nat)
      BY Flow
    <3>2. QED
      BY <2>3, <3>1, ElementOfSeq
  <2>5. <<x>> \in Seq(Nat)
    BY <2>4
  <2>6. QED
    BY <2>1, <2>2, <2>4, <2>5
<1>3. /\ UNCHANGED <<clip, pc, accepted, preparing, muxed, writing, encoder, batch>>
      /\ UNCHANGED <<vulkan_frames_ready, vulkan_packets, vulkan_abort>>
  BY DEF Submit
<1>4. submitted' = Then(submitted, <<x>>) /\ vulkan_jobs' = Then(vulkan_jobs, <<x>>)
  BY <1>2, Flow, AppendThen
<1>5. IsPrefix(submitted', clip)
  <2>1. /\ Len(submitted) <= Len(clip)
        /\ \A i \in 1..Len(submitted) : submitted[i] = clip[i]
    BY Flow, PrefixElements DEF IInv, FramesInOrder
  <2>2. /\ submitted' \in Seq(Nat) /\ Len(submitted') = Len(submitted) + 1
        /\ \A i \in 1..Len(submitted) : submitted'[i] = submitted[i]
        /\ submitted'[Len(submitted) + 1] = x
    BY <1>2, Flow, AppendProperties
  <2>3. \A i \in 1..Len(submitted') :
          i \in 1..Len(submitted) \/ i = Len(submitted) + 1
    BY <1>2, <2>2
  <2>4. \A i \in 1..Len(submitted') : submitted'[i] = clip[i]
    BY <2>1, <2>2, <2>3
  <2>5. Len(submitted') <= Len(clip)
    BY <1>1, <1>2, <2>2
  <2>6. QED
    BY <2>2, <2>4, <2>5, Flow, PrefixElements
<1>6. Unchecked' = Unchecked /\ Unsent' = Unsent
  BY <1>3 DEF Unchecked, Unsent
<1>7. Held' = Held
  BY <1>3, Chains, ChainsNext
<1>8. /\ Checked' = Checked /\ Written' = Written
      /\ Outgoing' = Outgoing /\ Encoded' = Encoded /\ Stream' = Stream
      /\ Sent' = Sent
  BY <1>3, <1>6, <1>7, Chains, ChainsNext
<1> HIDE DEF x
<1>9. Taken' = Then(Taken, <<x>>)
  <2> DEFINE h == <<x>>
  <2>1. h \in Seq(Nat) /\ Checked \in Seq(Nat) /\ vulkan_jobs \in Seq(Nat)
    BY <1>2, Flow DEF ChainSeqs
  <2>2. Taken' = Then(Checked, Then(vulkan_jobs, h)) /\ Taken = Then(Checked, vulkan_jobs)
    BY <1>4, <1>8, Chains, ChainsNext
  <2> HIDE DEF h
  <2>3. Taken' = Then(Taken, h)
    BY <2>1, <2>2, ThenAssociative
  <2>4. QED
    BY <2>3 DEF h
<1>10. IsPrefix(Checked, submitted')
  <2>1. IsPrefix(Checked, submitted) /\ IsPrefix(submitted, submitted')
    BY <1>2, <1>4, Flow, PrefixOfThen DEF IInv, FramesInOrder
  <2>2. submitted' \in Seq(Nat)
    BY <1>2, <1>4, Flow, ThenProperties
  <2>3. QED
    BY <2>1, <2>2, Flow, PrefixTransitive DEF ChainSeqs
<1>11. ~vulkan_abort' /\ pc'["prepare"] # "failing" => Taken' = submitted'
  BY <1>3, <1>4, <1>9 DEF IInv, FramesInOrder
<1>12. QED
  BY <1>1, <1>3, <1>5, <1>8, <1>10, <1>11 DEF IInv, FramesInOrder, IsPrefix

\* The prepare thread takes the oldest job.
LEMMA PrepareJobFrames == ASSUME IInv, PrepareJob, ChainSeqs' PROVE FramesInOrder'
<1>1. CASE UNCHANGED <<vulkan_jobs, preparing>>
  <2>1. SameStage
    BY <1>1, Flow DEF IInv, TypeOK, ThreadsTyped, PrepareJob, Goto, SameStage
  <2>2. UNCHANGED flowVars /\ UNCHANGED <<vulkan_abort, finished>>
    BY <1>1 DEF PrepareJob
  <2>3. QED
    BY <2>1, <2>2, FramesQuiet DEF IInv, FramesInOrder
<1>2. CASE /\ ~vulkan_abort /\ vulkan_jobs # << >>
           /\ preparing' = Head(vulkan_jobs)
           /\ vulkan_jobs' = Tail(vulkan_jobs)
           /\ Goto("prepare", "job_taken")
  <2>1. /\ pc["prepare"] = "job" /\ pc'["prepare"] = "job_taken"
        /\ pc'["gpu"] = pc["gpu"] /\ finished' = finished /\ ~vulkan_abort'
        /\ UNCHANGED <<clip, submitted, accepted, muxed, writing, encoder, batch>>
        /\ UNCHANGED <<vulkan_frames_ready, vulkan_packets>>
    BY <1>2 DEF IInv, TypeOK, ThreadsTyped, PrepareJob, Goto
  <2>2. /\ Unchecked = << >> /\ Unsent = << >>
        /\ Unchecked' = <<Head(vulkan_jobs)>> /\ Unsent' = << >>
    BY <1>2, <2>1 DEF Unchecked, Unsent
  <2>3. Held' = Held
    BY <2>1, Chains, ChainsNext
  <2>4. /\ Written' = Written /\ Outgoing' = Outgoing /\ Encoded' = Encoded
        /\ Stream' = Stream /\ Sent' = Sent
    BY <2>1, <2>2, <2>3, Chains, ChainsNext
  <2>5. /\ <<Head(vulkan_jobs)>> \in Seq(Nat) /\ Tail(vulkan_jobs) \in Seq(Nat)
        /\ vulkan_jobs = Then(<<Head(vulkan_jobs)>>, Tail(vulkan_jobs))
    BY <1>2, Flow, HeadThenTail
  <2>6. Taken = Then(accepted, vulkan_jobs)
    BY <2>2, Flow, Chains, ThenEmpty
  <2>7. Taken' = Then(Then(accepted, <<Head(vulkan_jobs)>>), Tail(vulkan_jobs))
    BY <1>2, <2>1, <2>2, ChainsNext
  <2>8. Taken' = Taken
    <3> DEFINE h == <<Head(vulkan_jobs)>>
               t == Tail(vulkan_jobs)
    <3>1. h \in Seq(Nat) /\ t \in Seq(Nat) /\ accepted \in Seq(Nat)
      BY <2>5, Flow
    <3>2. Taken' = Then(Then(accepted, h), t) /\ Taken = Then(accepted, Then(h, t))
      BY <2>5, <2>6, <2>7
    <3> HIDE DEF h, t
    <3>3. QED
      BY <3>1, <3>2, ThenAssociative
  <2>9. Taken' = submitted
    BY <1>2, <2>1, <2>8 DEF IInv, FramesInOrder
  <2>10. IsPrefix(Checked', submitted)
    BY <1>2, <2>5, <2>9, ChainsNext, PrefixOfThen DEF ChainSeqs
  <2>11. QED
    BY <1>2, <2>1, <2>4, <2>9, <2>10 DEF IInv, FramesInOrder, IsPrefix
<1>3. QED
  BY <1>1, <1>2 DEF PrepareJob

\* A timestamp is let through, or it is not.
LEMMA PrepareFrames == ASSUME IInv, Prepare, ChainSeqs' PROVE FramesInOrder'
<1>1. /\ pc["prepare"] = "prepare" /\ preparing \in Nat /\ <<preparing>> \in Seq(Nat)
      /\ pc'["prepare"] \in {"frame_space", "failing"}
      /\ pc'["gpu"] = pc["gpu"] /\ finished' = finished /\ vulkan_abort' = vulkan_abort
      /\ UNCHANGED <<clip, submitted, preparing, muxed, writing, encoder, batch>>
      /\ UNCHANGED <<vulkan_jobs, vulkan_frames_ready, vulkan_packets>>
  BY DEF IInv, TypeOK, ThreadsTyped, PrepareStage, Prepare, Goto, Raise
<1>2. /\ Unchecked = <<preparing>> /\ Unsent = << >> /\ Unchecked' = << >>
  BY <1>1 DEF Unchecked, Unsent
<1>3. Held' = Held
  BY <1>1, Chains, ChainsNext
<1>4. /\ Written' = Written /\ Outgoing' = Outgoing /\ Encoded' = Encoded
      /\ Stream' = Stream
  BY <1>1, <1>3, Chains, ChainsNext
<1>5. CASE accepted' = accepted /\ pc'["prepare"] = "failing"
  <2>1. Checked' = accepted
    BY <1>2, <1>5, Flow, ChainsNext, ThenEmpty
  <2>2. IsPrefix(accepted, Checked) /\ IsPrefix(Checked, submitted)
    BY <1>1, <1>2, Flow, Chains, PrefixOfThen DEF IInv, FramesInOrder
  <2>3. IsPrefix(Checked', submitted)
    BY <2>1, <2>2, Flow, PrefixTransitive DEF ChainSeqs
  <2>4. QED
    BY <1>1, <1>4, <1>5, <2>3 DEF IInv, FramesInOrder, IsPrefix
<1>6. CASE accepted' = Append(accepted, preparing)
  <2>1. accepted' = Checked /\ accepted' \in Seq(Nat)
    <3>1. accepted' = Then(accepted, <<preparing>>)
      BY <1>1, <1>6, Flow, AppendThen
    <3>2. accepted' = Checked
      BY <1>2, <3>1, Chains
    <3>3. QED
      BY <3>2, Flow DEF ChainSeqs
  <2>2. Checked' = Checked
    BY <1>2, <2>1, ChainsNext, ThenEmpty
  <2>3. Taken' = Taken
    BY <1>1, <2>2, Chains, ChainsNext
  <2>4. IsPrefix(accepted, accepted')
    BY <1>1, <1>2, <2>1, Flow, Chains, PrefixOfThen
  <2>5. \A s \in Seq(Nat) : IsPrefix(s, accepted) => IsPrefix(s, accepted')
    BY <2>1, <2>4, Flow, PrefixTransitive
  <2>6. IsPrefix(Written', accepted')
    BY <1>4, <2>5, Flow DEF IInv, FramesInOrder, ChainSeqs
  <2>7. ~vulkan_abort' => IsPrefix(Outgoing', accepted')
    BY <1>1, <1>4, <2>5, Flow DEF IInv, FramesInOrder, ChainSeqs
  <2>8. ASSUME ~vulkan_abort', pc'["gpu"] # "failing"
        PROVE  /\ IsPrefix(Stream', accepted')
               /\ pc'["prepare"] # "failing" => Sent' = accepted'
    <3>1. Stream = accepted
      BY <1>1, <1>2, <2>8, Flow, Chains, ThenEmpty DEF IInv, FramesInOrder, ChainSeqs
    <3>2. IsPrefix(Stream', accepted')
      BY <1>4, <2>4, <3>1
    <3>3. pc'["prepare"] # "failing" => Unsent' = <<preparing>>
      BY <1>1 DEF Unsent
    <3>4. pc'["prepare"] # "failing" => Sent' = Then(accepted, <<preparing>>)
      BY <1>4, <3>1, <3>3, ChainsNext
    <3>5. accepted' = Then(accepted, <<preparing>>)
      BY <1>1, <1>6, Flow, AppendThen
    <3>6. QED
      BY <3>2, <3>4, <3>5
  <2>9. IsPrefix(submitted', clip') /\ IsPrefix(Checked', submitted')
        /\ (~vulkan_abort' /\ pc'["prepare"] # "failing" => Taken' = submitted')
        /\ (finished' => muxed' = submitted')
    BY <1>1, <2>2, <2>3 DEF IInv, FramesInOrder, IsPrefix
  <2>10. QED
    BY <2>6, <2>7, <2>8, <2>9 DEF FramesInOrder, IsPrefix
<1>7. QED
  BY <1>5, <1>6, <1>1 DEF Prepare, Raise, Goto, IInv, TypeOK, ThreadsTyped

\* The packed frame goes into the queue of the GPU thread.
LEMMA EnqueueFrames == ASSUME IInv, PrepareEnqueue, ChainSeqs' PROVE FramesInOrder'
<1>1. /\ pc["prepare"] = "frame_space" /\ pc'["gpu"] = pc["gpu"]
      /\ pc'["prepare"] \notin {"job_taken", "prepare"}
      /\ finished' = finished /\ vulkan_abort' = vulkan_abort
      /\ UNCHANGED <<clip, submitted, accepted, muxed, writing, encoder, batch>>
      /\ UNCHANGED <<vulkan_jobs, vulkan_packets>>
  BY DEF IInv, TypeOK, ThreadsTyped, PrepareEnqueue, Goto, Raise
<1>2. CASE pc'["prepare"] = "frame_space_sleep" /\ UNCHANGED <<vulkan_frames_ready, preparing>>
  <2>1. SameStage /\ UNCHANGED flowVars
    BY <1>1, <1>2 DEF PrepareEnqueue, SameStage
  <2>2. QED
    BY <1>1, <2>1, FramesQuiet DEF IInv, FramesInOrder
<1>3. CASE vulkan_abort
  <2>1. UNCHANGED preparing
    BY <1>3 DEF PrepareEnqueue
  <2>2. QED
    BY <1>1, <1>3, <2>1, FramesAborted
<1>4. CASE /\ vulkan_frames_ready' = Append(vulkan_frames_ready, preparing)
           /\ pc'["prepare"] = "frame_pushed"
  <2>1. preparing \in Nat /\ <<preparing>> \in Seq(Nat)
    BY <1>1 DEF IInv, PrepareStage
  <2>2. /\ Unchecked = << >> /\ Unchecked' = << >>
        /\ Unsent = <<preparing>> /\ Unsent' = << >>
    BY <1>1, <1>4 DEF Unchecked, Unsent
  <2>3. Held' = Held
    BY <1>1, Chains, ChainsNext
  <2>4. /\ Checked' = Checked /\ Taken' = Taken
        /\ Written' = Written /\ Outgoing' = Outgoing /\ Encoded' = Encoded
    BY <1>1, <2>2, <2>3, Chains, ChainsNext
  <2>5. vulkan_frames_ready' = Then(vulkan_frames_ready, Unsent)
    BY <1>4, <2>1, <2>2, Flow, AppendThen
  <2>6. Stream' = Then(Encoded, Then(vulkan_frames_ready, Unsent))
    BY <2>4, <2>5, ChainsNext
  <2>7. Stream' = Sent
    <3>1. Encoded \in Seq(Nat) /\ vulkan_frames_ready \in Seq(Nat) /\ Unsent \in Seq(Nat)
      BY Flow DEF ChainSeqs
    <3>2. Sent = Then(Then(Encoded, vulkan_frames_ready), Unsent)
      BY Chains
    <3>3. QED
      BY <2>6, <3>1, <3>2, ThenAssociative
  <2>8. Sent' = Sent
    BY <2>2, <2>7, ChainsNext, ThenEmpty DEF ChainSeqs
  <2>9. ASSUME ~vulkan_abort', pc'["gpu"] # "failing"
        PROVE  IsPrefix(Stream', accepted) /\ Sent' = accepted
    <3>1. Sent = accepted
      BY <1>1, <2>9 DEF IInv, FramesInOrder
    <3>2. QED
      BY <2>7, <2>8, <3>1, Flow, PrefixSelf
  <2>10. QED
    BY <1>1, <2>4, <2>9 DEF IInv, FramesInOrder, IsPrefix
<1>5. QED
  BY <1>2, <1>3, <1>4, <1>1
  DEF PrepareEnqueue, Goto, Raise, IInv, TypeOK, ThreadsTyped

\* The GPU thread takes the oldest frame: it is younger than those in the
\* encoder and older than those queued.
LEMMA GpuFrameFrames == ASSUME IInv, GpuFrame, ChainSeqs' PROVE FramesInOrder'
<1>1. /\ pc["gpu"] = "frame" /\ pc'["prepare"] = pc["prepare"]
      /\ finished' = finished /\ vulkan_abort' = vulkan_abort
      /\ UNCHANGED <<clip, submitted, accepted, preparing, muxed, writing, encoder>>
      /\ UNCHANGED <<vulkan_jobs, vulkan_packets>>
  BY DEF IInv, TypeOK, ThreadsTyped, GpuFrame, Goto
<1>2. CASE UNCHANGED <<vulkan_frames_ready, batch>>
  <2>1. pc'["gpu"] \in {"frame_sleep", "exited", "flush", "frame_taken"}
    BY DEF IInv, TypeOK, ThreadsTyped, GpuFrame, Goto
  <2>2. CASE pc'["gpu"] = "frame_taken"
    <3>1. \E x : batch' = <<x>>
      BY <1>1, <2>2 DEF IInv, TypeOK, ThreadsTyped, GpuFrame, Goto
    <3>2. batch = << >>
      BY <1>1 DEF IInv, GpuStage
    <3>3. batch' # batch
      BY <3>1, <3>2
    <3>4. QED
      BY <1>2, <3>3
  <2>3. CASE pc'["gpu"] # "frame_taken"
    <3>1. SameStage /\ UNCHANGED flowVars
      BY <1>1, <1>2, <2>1, <2>3 DEF GpuFrame, SameStage
    <3>2. QED
      BY <1>1, <3>1, FramesQuiet DEF IInv, FramesInOrder
  <2>4. QED
    BY <2>2, <2>3
<1>3. CASE /\ ~vulkan_abort /\ vulkan_frames_ready # << >>
           /\ batch' = <<Head(vulkan_frames_ready)>>
           /\ vulkan_frames_ready' = Tail(vulkan_frames_ready)
           /\ Goto("gpu", "frame_taken")
  <2> DEFINE h == <<Head(vulkan_frames_ready)>>
             r == Tail(vulkan_frames_ready)
  <2>1. pc'["gpu"] = "frame_taken" /\ batch = << >>
    BY <1>1, <1>3 DEF IInv, TypeOK, ThreadsTyped, GpuStage, Goto
  <2>2. /\ h \in Seq(Nat) /\ r \in Seq(Nat) /\ vulkan_frames_ready = Then(h, r)
        /\ batch' = h /\ vulkan_frames_ready' = r
    BY <1>3, Flow, HeadThenTail
  <2> HIDE DEF h, r
  <2>3. Held = encoder /\ Held' = Then(encoder, h)
    BY <1>1, <2>1, <2>2, Flow, Chains, ChainsNext, ThenEmpty
  <2>4. Unchecked' = Unchecked /\ Unsent' = Unsent
    BY <1>1 DEF Unchecked, Unsent
  <2>5. /\ Checked' = Checked /\ Taken' = Taken
        /\ Written' = Written /\ Outgoing' = Outgoing
    BY <1>1, <2>4, Chains, ChainsNext
  <2>6. Encoded' = Then(Encoded, h)
    <3>1. Encoded' = Then(Outgoing, Then(encoder, h)) /\ Encoded = Then(Outgoing, encoder)
      BY <2>3, <2>5, Chains, ChainsNext
    <3>2. Outgoing \in Seq(Nat) /\ encoder \in Seq(Nat)
      BY Flow DEF ChainSeqs
    <3>3. QED
      BY <2>2, <3>1, <3>2, ThenAssociative
  <2>7. Stream' = Stream
    <3>1. Stream' = Then(Then(Encoded, h), r) /\ Stream = Then(Encoded, Then(h, r))
      BY <2>2, <2>6, Chains, ChainsNext
    <3>2. Encoded \in Seq(Nat)
      BY Flow DEF ChainSeqs
    <3>3. QED
      BY <2>2, <3>1, <3>2, ThenAssociative
  <2>8. Sent' = Sent
    BY <2>4, <2>7, Chains, ChainsNext
  <2>9. QED
    BY <1>1, <2>1, <2>5, <2>7, <2>8 DEF IInv, FramesInOrder, IsPrefix
<1>4. QED
  BY <1>2, <1>3 DEF GpuFrame

\* The encoder gives packets out in the order it was given the frames.
LEMMA GpuEncodeFrames == ASSUME IInv, GpuEncode, ChainSeqs' PROVE FramesInOrder'
<1>1. /\ pc["gpu"] = "encode" /\ pc'["prepare"] = pc["prepare"]
      /\ finished' = finished /\ vulkan_abort' = vulkan_abort
      /\ UNCHANGED <<clip, submitted, accepted, preparing, muxed, writing>>
      /\ UNCHANGED <<vulkan_jobs, vulkan_packets, vulkan_frames_ready>>
  <2>1. \E l : pc' = [pc EXCEPT !["gpu"] = l]
    BY DEF GpuEncode, HandOver, Goto, Raise
  <2>2. QED
    BY <2>1 DEF IInv, TypeOK, ThreadsTyped, GpuEncode
<1>2. Unchecked' = Unchecked /\ Unsent' = Unsent
  BY <1>1 DEF Unchecked, Unsent
<1>3. /\ Checked' = Checked /\ Taken' = Taken
      /\ Written' = Written /\ Outgoing' = Outgoing
  BY <1>1, <1>2, Chains, ChainsNext
<1>4. CASE Raise("gpu", "encode")
  <2>1. pc'["gpu"] = "failing"
    BY <1>4 DEF IInv, TypeOK, ThreadsTyped, Raise, Goto
  <2>2. QED
    BY <1>1, <1>3, <2>1 DEF IInv, FramesInOrder, IsPrefix
<1>5. ASSUME NEW n \in 0..Len(encoder \o batch),
             encoder' = SubSeq(encoder \o batch, n + 1, Len(encoder \o batch)),
             HandOver(SubSeq(encoder \o batch, 1, n)),
             flush_sent' = flush_sent
      PROVE  FramesInOrder'
  <2> DEFINE f == Then(encoder, batch)
  <2>1. f \in Seq(Nat) /\ f = encoder \o batch /\ Held = f
    BY <1>1, Flow, Chains, ThenProperties DEF Then
  <2> HIDE DEF f
  <2>2. batch' = SubSeq(f, 1, n) /\ encoder' = SubSeq(f, n + 1, Len(f))
    BY <1>5, <2>1 DEF HandOver
  <2>3. Then(batch', encoder') = f
    BY <1>5, <2>1, <2>2, SplitAt
  <2>4. pc'["gpu"] \in {"packet_space", "set_done", "frame"}
    BY <1>5 DEF IInv, TypeOK, ThreadsTyped, HandOver, Goto
  <2>5. Held' = Held
    BY <2>1, <2>3, <2>4, ChainsNext
  <2>6. Encoded' = Encoded /\ Stream' = Stream /\ Sent' = Sent
    BY <1>1, <1>2, <1>3, <2>5, Chains, ChainsNext
  <2>7. QED
    BY <1>1, <1>3, <2>6 DEF IInv, FramesInOrder, IsPrefix
<1>6. QED
  BY <1>4, <1>5 DEF GpuEncode

\* Flushing the encoder gives out what is left in it.
LEMMA GpuFlushFrames == ASSUME IInv, GpuFlush, ChainSeqs' PROVE FramesInOrder'
<1>1. /\ pc["gpu"] = "flush" /\ pc'["prepare"] = pc["prepare"] /\ batch = << >>
      /\ finished' = finished /\ vulkan_abort' = vulkan_abort
      /\ UNCHANGED <<clip, submitted, accepted, preparing, muxed, writing>>
      /\ UNCHANGED <<vulkan_jobs, vulkan_packets, vulkan_frames_ready>>
  <2>1. \E l : pc' = [pc EXCEPT !["gpu"] = l]
    BY DEF GpuFlush, HandOver, Goto, Raise
  <2>2. QED
    BY <2>1 DEF IInv, TypeOK, ThreadsTyped, GpuFlush, GpuStage
<1>2. Unchecked' = Unchecked /\ Unsent' = Unsent
  BY <1>1 DEF Unchecked, Unsent
<1>3. /\ Checked' = Checked /\ Taken' = Taken
      /\ Written' = Written /\ Outgoing' = Outgoing
  BY <1>1, <1>2, Chains, ChainsNext
<1>4. CASE Raise("gpu", "flush")
  <2>1. pc'["gpu"] = "failing"
    BY <1>4 DEF IInv, TypeOK, ThreadsTyped, Raise, Goto
  <2>2. QED
    BY <1>1, <1>3, <2>1 DEF IInv, FramesInOrder, IsPrefix
<1>5. CASE encoder' = << >> /\ HandOver(Flushed)
  <2>1. batch' = encoder /\ pc'["gpu"] \in {"packet_space", "set_done", "frame"}
    BY <1>5 DEF IInv, TypeOK, ThreadsTyped, HandOver, Goto, Flushed
  <2>2. Held = encoder /\ Held' = encoder
    BY <1>1, <1>5, <2>1, Flow, Chains, ChainsNext, ThenEmpty
  <2>3. Encoded' = Encoded /\ Stream' = Stream /\ Sent' = Sent
    BY <1>1, <1>2, <1>3, <2>2, Chains, ChainsNext
  <2>4. QED
    BY <1>1, <1>3, <2>3 DEF IInv, FramesInOrder, IsPrefix
<1>6. QED
  BY <1>4, <1>5 DEF GpuFlush

\* A batch handed over is older than anything in the encoder.
LEMMA GpuEnqueueFrames == ASSUME IInv, GpuEnqueue, ChainSeqs' PROVE FramesInOrder'
<1>1. /\ pc["gpu"] = "packet_space" /\ pc'["prepare"] = pc["prepare"]
      /\ pc'["gpu"] \notin {"frame_taken", "encode", "failing"}
      /\ finished' = finished /\ vulkan_abort' = vulkan_abort
      /\ UNCHANGED <<clip, submitted, accepted, preparing, muxed, writing, encoder>>
      /\ UNCHANGED <<vulkan_jobs, vulkan_frames_ready>>
  BY DEF IInv, TypeOK, ThreadsTyped, GpuEnqueue, Goto, AfterBatch
<1>2. CASE UNCHANGED <<vulkan_packets, batch>>
  <2>1. SameStage /\ UNCHANGED flowVars
    BY <1>1, <1>2 DEF GpuEnqueue, SameStage
  <2>2. QED
    BY <1>1, <2>1, FramesQuiet DEF IInv, FramesInOrder
<1>3. CASE vulkan_failed \/ vulkan_abort
  <2>1. vulkan_abort'
    BY <1>1, <1>3 DEF IInv, FailureFlags
  <2>2. QED
    BY <1>1, <2>1, FramesAborted
<1>4. CASE vulkan_packets' = Append(vulkan_packets, batch) /\ batch' = << >>
  <2>1. Held = Then(batch, encoder) /\ Held' = encoder
    BY <1>1, <1>4, Flow, Chains, ChainsNext, ThenEmpty
  <2>2. Unchecked' = Unchecked /\ Unsent' = Unsent
    BY <1>1 DEF Unchecked, Unsent
  <2>3. Checked' = Checked /\ Taken' = Taken /\ Written' = Written
    BY <1>1, <2>2, Chains, ChainsNext
  <2>4. Flatten(vulkan_packets') = Then(Flatten(vulkan_packets), batch)
    BY <1>4, Flow, FlattenAppend DEF Then
  <2>5. Outgoing' = Then(Outgoing, batch)
    <3>1. Outgoing' = Then(Written, Then(Flatten(vulkan_packets), batch))
      BY <2>3, <2>4, ChainsNext
    <3>2. Outgoing = Then(Written, Flatten(vulkan_packets))
      BY Chains
    <3>3. Written \in Seq(Nat) /\ Flatten(vulkan_packets) \in Seq(Nat) /\ batch \in Seq(Nat)
      BY Flow DEF ChainSeqs
    <3>4. QED
      BY <3>1, <3>2, <3>3, ThenAssociative
  <2>6. Encoded' = Encoded
    <3>1. /\ Encoded' = Then(Then(Outgoing, batch), encoder)
          /\ Encoded = Then(Outgoing, Then(batch, encoder))
      BY <2>1, <2>5, Chains, ChainsNext
    <3>2. Outgoing \in Seq(Nat) /\ batch \in Seq(Nat) /\ encoder \in Seq(Nat)
      BY Flow DEF ChainSeqs
    <3>3. QED
      BY <3>1, <3>2, ThenAssociative
  <2>7. Stream' = Stream /\ Sent' = Sent
    BY <1>1, <2>2, <2>6, Chains, ChainsNext
  <2>8. ~vulkan_abort => IsPrefix(Outgoing', accepted)
    <3> SUFFICES ASSUME ~vulkan_abort PROVE IsPrefix(Outgoing', accepted)
      OBVIOUS
    <3>1. IsPrefix(Stream, accepted)
      BY <1>1 DEF IInv, FramesInOrder
    <3>2. IsPrefix(Encoded, Stream)
      BY Flow, Chains, PrefixOfThen DEF ChainSeqs
    <3>3. IsPrefix(Outgoing', Encoded)
      BY <2>1, <2>6, Flow, ChainsNext, PrefixOfThen DEF ChainSeqs
    <3>4. QED
      BY <3>1, <3>2, <3>3, Flow, PrefixTransitive DEF ChainSeqs
  <2>9. QED
    BY <1>1, <2>3, <2>7, <2>8 DEF IInv, FramesInOrder, IsPrefix
<1>5. QED
  BY <1>2, <1>3, <1>4 DEF GpuEnqueue

\* The packet thread takes the oldest batch.
LEMMA PacketTakeFrames == ASSUME IInv, PacketTake, ChainSeqs' PROVE FramesInOrder'
<1>1. /\ pc["packet"] = "packet" /\ pc'["prepare"] = pc["prepare"]
      /\ pc'["gpu"] = pc["gpu"] /\ writing = << >>
      /\ finished' = finished /\ vulkan_abort' = vulkan_abort
      /\ UNCHANGED <<clip, submitted, accepted, preparing, muxed, encoder, batch>>
      /\ UNCHANGED <<vulkan_jobs, vulkan_frames_ready>>
  BY DEF IInv, TypeOK, ThreadsTyped, PacketTake, Goto, PacketStage
<1>2. CASE UNCHANGED <<vulkan_packets, writing>>
  <2>1. SameStage /\ UNCHANGED flowVars
    BY <1>1, <1>2 DEF PacketTake, SameStage
  <2>2. QED
    BY <1>1, <2>1, FramesQuiet DEF IInv, FramesInOrder
<1>3. CASE /\ ~vulkan_abort /\ vulkan_packets # << >>
           /\ writing' = Head(vulkan_packets)
           /\ vulkan_packets' = Tail(vulkan_packets)
  <2>1. /\ Head(vulkan_packets) \in Seq(Nat)
        /\ Tail(vulkan_packets) \in Seq(Seq(Nat))
    BY <1>3, Flow, HeadTailProperties
  <2>2. Flatten(vulkan_packets) = Then(writing', Flatten(vulkan_packets'))
    BY <1>3, Flow, FlattenHead DEF Then
  <2>3. Flatten(vulkan_packets') \in Seq(Nat) /\ writing' \in Seq(Nat)
    BY <1>3, <2>1, FlattenType
  <2>4. Unchecked' = Unchecked /\ Unsent' = Unsent
    BY <1>1 DEF Unchecked, Unsent
  <2>5. Held' = Held /\ Checked' = Checked /\ Taken' = Taken
    BY <1>1, <2>4, Chains, ChainsNext
  <2>6. Written = muxed /\ Written' = Then(muxed, writing')
    BY <1>1, Flow, Chains, ChainsNext, ThenEmpty
  <2>7. Outgoing' = Outgoing
    <3>1. /\ Outgoing = Then(muxed, Then(writing', Flatten(vulkan_packets')))
          /\ Outgoing' = Then(Then(muxed, writing'), Flatten(vulkan_packets'))
      BY <2>2, <2>6, Chains, ChainsNext
    <3>2. QED
      BY <2>3, <3>1, Flow, ThenAssociative
  <2>8. Encoded' = Encoded /\ Stream' = Stream /\ Sent' = Sent
    BY <1>1, <2>4, <2>5, <2>7, Chains, ChainsNext
  <2>9. IsPrefix(Written', accepted)
    <3>1. IsPrefix(Outgoing, accepted)
      BY <1>3 DEF IInv, FramesInOrder
    <3>2. IsPrefix(Written', Outgoing)
      BY <2>3, <2>7, ChainsNext, PrefixOfThen DEF ChainSeqs
    <3>3. QED
      BY <3>1, <3>2, Flow, PrefixTransitive DEF ChainSeqs
  <2>10. QED
    BY <1>1, <1>3, <2>5, <2>7, <2>8, <2>9 DEF IInv, FramesInOrder, IsPrefix
<1>4. QED
  BY <1>2, <1>3 DEF PacketTake

\* The oldest packet goes into the file.
LEMMA PacketWriteFrames == ASSUME IInv, PacketWrite, ChainSeqs' PROVE FramesInOrder'
<1>1. /\ pc["packet"] = "write" /\ pc'["prepare"] = pc["prepare"]
      /\ pc'["gpu"] = pc["gpu"] /\ writing # << >>
      /\ finished' = finished /\ vulkan_abort' = vulkan_abort
      /\ UNCHANGED <<clip, submitted, accepted, preparing, encoder, batch>>
      /\ UNCHANGED <<vulkan_jobs, vulkan_frames_ready, vulkan_packets>>
  BY DEF IInv, TypeOK, ThreadsTyped, PacketWrite, Goto, Raise, PacketStage
<1>2. ~finished
  BY <1>1, Unfinished DEF Joinable
<1>3. CASE UNCHANGED <<muxed, writing>>
  <2>1. SameStage /\ UNCHANGED <<jobVars, vulkan_frames_ready, vulkan_packets>>
    BY <1>1, <1>3 DEF SameStage, PacketWrite
  <2>2. Unchecked' = Unchecked /\ Unsent' = Unsent
    BY <1>1 DEF Unchecked, Unsent
  <2>3. Held' = Held /\ Checked' = Checked /\ Taken' = Taken
    BY <1>1, <2>2, Chains, ChainsNext
  <2>4. /\ Written' = Written /\ Outgoing' = Outgoing
        /\ Encoded' = Encoded /\ Stream' = Stream /\ Sent' = Sent
    BY <1>1, <1>3, <2>2, <2>3, Chains, ChainsNext
  <2>5. QED
    BY <1>1, <1>2, <1>3, <2>3, <2>4 DEF IInv, FramesInOrder, IsPrefix
<1>4. CASE muxed' = Append(muxed, Head(writing)) /\ writing' = Tail(writing)
  <2> DEFINE h == <<Head(writing)>>
             r == Tail(writing)
  <2>0. writing \in Seq(Nat) /\ writing # << >> /\ muxed \in Seq(Nat)
    BY <1>1, Flow
  <2>1. /\ h \in Seq(Nat) /\ r \in Seq(Nat) /\ writing = Then(h, r)
        /\ muxed' = Then(muxed, h) /\ writing' = r
    <3>1. /\ Head(writing) \in Nat /\ r \in Seq(Nat)
          /\ writing = Then(<<Head(writing)>>, r)
      BY <2>0, HeadThenTail
    <3>2. Append(muxed, Head(writing)) = Then(muxed, <<Head(writing)>>)
      BY <2>0, <3>1, AppendThen
    <3>3. QED
      BY <1>4, <3>1, <3>2
  <2> HIDE DEF h, r
  <2>2. Unchecked' = Unchecked /\ Unsent' = Unsent
    BY <1>1 DEF Unchecked, Unsent
  <2>3. Held' = Held /\ Checked' = Checked /\ Taken' = Taken
    BY <1>1, <2>2, Chains, ChainsNext
  <2>4. Written' = Written
    <3>1. Written' = Then(Then(muxed, h), r) /\ Written = Then(muxed, Then(h, r))
      BY <2>1, Chains, ChainsNext
    <3>2. QED
      BY <2>1, <3>1, Flow, ThenAssociative
  <2>5. /\ Outgoing' = Outgoing /\ Encoded' = Encoded /\ Stream' = Stream /\ Sent' = Sent
    BY <1>1, <2>2, <2>3, <2>4, Chains, ChainsNext
  <2>6. QED
    BY <1>1, <1>2, <2>3, <2>4, <2>5 DEF IInv, FramesInOrder, IsPrefix
<1>5. QED
  BY <1>3, <1>4 DEF PacketWrite

\* When the threads have been joined without a failure, every frame is in
\* the file.
LEMMA AllWritten ==
  ASSUME IInv, caller = "stopped", ~unwinding, vulkan_worker_error = NoError
  PROVE  muxed = submitted /\ muxed = accepted
<1>1. /\ ~vulkan_abort
      /\ pc["prepare"] = "joined" /\ pc["gpu"] = "joined" /\ pc["packet"] = "joined"
  BY DEF IInv, FailureFlags, CallerPhase, ThreadOrder, NothingToStop, Joinable
<1>2. /\ vulkan_jobs = << >> /\ batch = << >> /\ encoder = << >>
      /\ vulkan_frames_ready = << >> /\ vulkan_packets = << >> /\ writing = << >>
  BY <1>1 DEF IInv, PrepareStage, GpuStage, PacketStage
<1>3. Unchecked = << >> /\ Unsent = << >>
  BY <1>1 DEF Unchecked, Unsent
<1>4. Held = << >>
  BY <1>2, Flow, Chains, ThenEmpty
<1>5. Checked = accepted /\ Taken = accepted /\ Written = muxed
  BY <1>2, <1>3, Flow, Chains, ThenEmpty
<1>6. Outgoing = muxed
  BY <1>2, <1>5, Flow, Chains, FlattenEmpty, ThenEmpty
<1>7. Encoded = muxed
  BY <1>4, <1>6, Flow, Chains, ThenEmpty
<1>8. Sent = muxed
  <2>1. Stream = muxed
    BY <1>2, <1>7, Flow, Chains, ThenEmpty
  <2>2. QED
    BY <1>3, <2>1, Flow, Chains, ThenEmpty
<1>9. Taken = submitted /\ Sent = accepted
  BY <1>1 DEF IInv, FramesInOrder
<1>10. QED
  BY <1>5, <1>8, <1>9

\* The steps of the caller's thread.
LEMMA CallerFrames ==
  ASSUME IInv, CallerContinues \/ CallerCalls, ChainSeqs'
  PROVE  FramesInOrder'
<1>0. /\ pc \in [Threads -> PcStates]
      /\ finished => muxed = submitted
  BY DEF IInv, TypeOK, ThreadsTyped, FramesInOrder
<1>1. ASSUME NEW t \in Threads, StartThread(t) PROVE FramesInOrder'
  <2>1. SameStage
    BY <1>0, <1>1 DEF StartThread, NextThread, Goto, FirstState, SameStage
  <2>2. QED
    BY <1>0, <1>1, <2>1, FramesQuiet DEF StartThread
<1>2. CASE ConstructFails \/ WriteVideo \/ SubmitWait \/ SubmitFails \/ CallerThrows
           \/ Finish \/ Destroy \/ CleanupStopped
  <2>1. UNCHANGED pc /\ UNCHANGED flowVars /\ UNCHANGED <<vulkan_abort, finished>>
    BY <1>2 DEF ConstructFails, WriteVideo, SubmitWait, SubmitFails, CallerThrows,
       Finish, Destroy, CleanupStopped
  <2>2. SameStage
    BY <2>1 DEF SameStage
  <2>3. QED
    BY <1>0, <2>1, <2>2, FramesQuiet
<1>3. CASE Submit
  BY <1>3, SubmitFrames
<1>4. CASE SubmitNotify
  <2>1. SameStage
    BY <1>0, <1>4 DEF SubmitNotify, JobNotified, SameStage
  <2>2. QED
    BY <1>0, <1>4, <2>1, FramesQuiet DEF SubmitNotify
<1>5. CASE StopFlags
  <2>0. UNCHANGED <<pc, finished, clip, submitted, accepted, preparing, muxed, writing>>
    BY <1>5 DEF StopFlags
  <2>1. CASE vulkan_abort'
    BY <2>0, <2>1, FramesAborted
  <2>2. CASE ~vulkan_abort'
    <3>1. UNCHANGED flowVars /\ vulkan_abort' = vulkan_abort
      BY <1>5, <2>2 DEF StopFlags
    <3>2. SameStage
      BY <2>0 DEF SameStage
    <3>3. QED
      BY <1>0, <2>0, <3>1, <3>2, FramesQuiet
  <2>3. QED
    BY <2>1, <2>2
<1>6. CASE StopNotify
  <2>1. SameStage
    BY <1>0, <1>6, WakeIs DEF StopNotify, StopWakes, SameStage
  <2>2. QED
    BY <1>0, <1>6, <2>1, FramesQuiet DEF StopNotify
<1>7. ASSUME NEW t \in Threads, Join(t) PROVE FramesInOrder'
  <2>1. SameStage
    BY <1>0, <1>7, WakeIs DEF Join, SameStage
  <2>2. QED
    BY <1>0, <1>7, <2>1, FramesQuiet DEF Join
<1>8. CASE FinishStopped
  <2>1. UNCHANGED pc /\ UNCHANGED flowVars /\ vulkan_abort' = vulkan_abort
    BY <1>8 DEF FinishStopped
  <2>2. SameStage
    BY <2>1 DEF SameStage
  <2>3. finished' => muxed = submitted
    BY <1>0, <1>8, AllWritten DEF FinishStopped
  <2>4. QED
    BY <2>1, <2>2, <2>3, FramesQuiet
<1>9. QED
  BY <1>1, <1>2, <1>3, <1>4, <1>5, <1>6, <1>7, <1>8 DEF CallerContinues, CallerCalls

\* The steps of the three pipeline threads.
LEMMA ThreadFrames ==
  ASSUME IInv, PrepareThread \/ GpuThread \/ PacketThread, ChainSeqs'
  PROVE  FramesInOrder'
<1>0. /\ pc \in [Threads -> PcStates]
      /\ finished => muxed = submitted
  BY DEF IInv, TypeOK, ThreadsTyped, FramesInOrder
<1>1. ASSUME NEW t \in Threads, FailFlags(t) PROVE FramesInOrder'
  <2>1. /\ vulkan_abort' /\ finished' = finished
        /\ UNCHANGED <<clip, submitted, accepted, preparing, muxed, writing>>
        /\ pc'["prepare"] \in {"job_taken", "prepare"} <=>
             pc["prepare"] \in {"job_taken", "prepare"}
    BY <1>0, <1>1 DEF FailFlags, Goto
  <2>2. QED
    BY <2>1, FramesAborted
<1>2. ASSUME NEW t \in Threads, FailNotify(t) PROVE FramesInOrder'
  <2>1. SameStage
    BY <1>0, <1>2, WakeIs DEF FailNotify, SameStage
  <2>2. QED
    BY <1>0, <1>2, <2>1, FramesQuiet DEF FailNotify
<1>3. CASE PrepareTaken \/ PreparePushed
  <2>1. SameStage
    BY <1>0, <1>3, WakeIs DEF PrepareTaken, PreparePushed, Goto, GotoNotify, SameStage
  <2>2. QED
    BY <1>0, <1>3, <2>1, FramesQuiet DEF PrepareTaken, PreparePushed
<1>4. CASE PrepareWaitSlots \/ PrepareDone \/ PrepareReturns
  <2>1. SameStage
    BY <1>0, <1>4, WakeIs DEF PrepareWaitSlots, PrepareDone, PrepareReturns, Goto,
       Raise, GotoNotify, SameStage
  <2>2. QED
    BY <1>0, <1>4, <2>1, FramesQuiet DEF PrepareWaitSlots, PrepareDone, PrepareReturns
<1>5. CASE GpuTaken \/ GpuPushed \/ GpuDone \/ GpuReturns
  <2>1. SameStage
    BY <1>0, <1>5, WakeIs DEF GpuTaken, GpuPushed, GpuDone, GpuReturns, Goto,
       AfterBatch, GotoNotify, SameStage
  <2>2. QED
    BY <1>0, <1>5, <2>1, FramesQuiet DEF GpuTaken, GpuPushed, GpuDone, GpuReturns
<1>6. CASE PacketTaken
  <2>1. SameStage
    BY <1>0, <1>6, WakeIs DEF PacketTaken, GotoNotify, SameStage
  <2>2. QED
    BY <1>0, <1>6, <2>1, FramesQuiet DEF PacketTaken
<1>7. QED
  BY <1>1, <1>2, <1>3, <1>4, <1>5, <1>6, PrepareJobFrames, PrepareFrames,
     EnqueueFrames, GpuFrameFrames, GpuEncodeFrames, GpuFlushFrames,
     GpuEnqueueFrames, PacketTakeFrames, PacketWriteFrames
  DEF PrepareThread, GpuThread, PacketThread

\* Every step keeps the frames in order.
LEMMA FramesNext == ASSUME IInv, [Next]_vars PROVE FramesInOrder'
<1>1. ChainSeqs'
  BY TypeNext, PrepareStageNext, ChainTypesNext
<1>2. CASE UNCHANGED vars
  <2>1. UNCHANGED pc /\ UNCHANGED flowVars /\ UNCHANGED <<vulkan_abort, finished>>
    BY <1>2 DEF vars
  <2>2. SameStage
    BY <2>1 DEF SameStage
  <2>3. finished' => muxed = submitted
    BY <2>1 DEF IInv, FramesInOrder
  <2>4. QED
    BY <2>1, <2>2, <2>3, FramesQuiet
<1>3. QED
  BY <1>1, <1>2, CallerFrames, ThreadFrames DEF Next, Terminated

-----------------------------------------------------------------------------
(* Timestamps.                                                             *)

\* A checked timestamp is later than every one before it.
LEMMA PreparePts == ASSUME IInv, Prepare PROVE PtsChecked'
<1>1. /\ pc["prepare"] = "prepare" /\ preparing \in Nat /\ accepted \in Seq(Nat)
      /\ pc'["packet"] = pc["packet"]
      /\ UNCHANGED <<previous_video_pts, muxed>>
  BY DEF IInv, TypeOK, ThreadsTyped, FlowTyped, PrepareStage, Prepare, Goto, Raise
<1>2. CASE UNCHANGED <<last_video_pts, accepted>>
  BY <1>1, <1>2 DEF IInv, PtsChecked, LastOf
<1>3. CASE /\ last_video_pts' = preparing
           /\ accepted' = Append(accepted, preparing)
           /\ Later(preparing)
  <2>1. /\ Len(accepted) \in Nat /\ accepted' \in Seq(Nat) /\ accepted' # << >>
        /\ Len(accepted') = Len(accepted) + 1
        /\ \A i \in 1..Len(accepted) : accepted'[i] = accepted[i]
        /\ accepted'[Len(accepted) + 1] = preparing
    BY <1>1, <1>3, AppendProperties
  <2>2. \A i \in 1..Len(accepted) : accepted[i] < preparing
    <3> SUFFICES ASSUME NEW i \in 1..Len(accepted) PROVE accepted[i] < preparing
      OBVIOUS
    <3>1. accepted # << >> /\ Len(accepted) \in 1..Len(accepted)
      BY <1>1, <2>1
    <3>2. last_video_pts = accepted[Len(accepted)]
      BY <3>1 DEF IInv, PtsChecked, LastOf
    <3>3. i = Len(accepted) \/ accepted[i] < accepted[Len(accepted)]
      BY <2>1, <3>1 DEF IInv, PtsChecked
    <3>4. accepted[i] \in Nat /\ accepted[Len(accepted)] \in Nat
      BY <1>1, <3>1
    <3>5. QED
      BY <1>1, <1>3, <3>2, <3>3, <3>4 DEF Later
  <2>3. ASSUME NEW i \in 1..Len(accepted'), NEW j \in 1..Len(accepted'), i < j
        PROVE  accepted'[i] < accepted'[j]
    <3>1. CASE j = Len(accepted) + 1
      <4>1. i \in 1..Len(accepted)
        BY <2>1, <2>3, <3>1
      <4>2. QED
        BY <2>1, <2>2, <3>1, <4>1
    <3>2. CASE j # Len(accepted) + 1
      <4>1. i \in 1..Len(accepted) /\ j \in 1..Len(accepted)
        BY <2>1, <2>3, <3>2
      <4>2. accepted[i] < accepted[j]
        BY <2>3, <4>1 DEF IInv, PtsChecked
      <4>3. QED
        BY <2>1, <4>1, <4>2
    <3>3. QED
      BY <3>1, <3>2
  <2>4. last_video_pts' = LastOf(accepted')
    BY <1>3, <2>1 DEF LastOf
  <2>5. pc'["packet"] \notin {"failing", "fail_notify", "exited", "joined"} =>
          previous_video_pts' = LastOf(muxed')
    BY <1>1 DEF IInv, PtsChecked, LastOf
  <2>6. QED
    BY <2>3, <2>4, <2>5 DEF PtsChecked
<1>4. QED
  BY <1>2, <1>3 DEF Prepare

\* A written packet is the last one the packet thread checked.
LEMMA PacketWritePts == ASSUME IInv, PacketWrite PROVE PtsChecked'
<1>1. UNCHANGED <<last_video_pts, accepted>> /\ pc["packet"] = "write"
  BY DEF PacketWrite
<1>2. CASE Goto("packet", "failing")
  <2>1. pc'["packet"] = "failing"
    BY <1>2 DEF IInv, TypeOK, ThreadsTyped, Goto
  <2>2. QED
    BY <1>1, <2>1 DEF IInv, PtsChecked, LastOf
<1>3. CASE /\ previous_video_pts' = Head(writing)
           /\ muxed' = Append(muxed, Head(writing))
  <2>1. muxed \in Seq(Nat) /\ Head(writing) \in Nat
    BY <1>1, WriteInOrder DEF IInv, TypeOK, FlowTyped
  <2>2. LastOf(muxed') = Head(writing)
    BY <1>3, <2>1, AppendProperties DEF LastOf
  <2>3. QED
    BY <1>1, <1>3, <2>2 DEF IInv, PtsChecked, LastOf
<1>4. QED
  BY <1>2, <1>3 DEF PacketWrite, Raise

\* No other step checks a timestamp, and a thread that failed stays failed.
LEMMA PtsNext == ASSUME IInv, [Next]_vars PROVE PtsChecked'
<1> DEFINE Off == {"failing", "fail_notify", "exited", "joined"}
           Same == /\ UNCHANGED <<last_video_pts, accepted, previous_video_pts, muxed>>
                   /\ pc["packet"] \in Off => pc'["packet"] \in Off
<1>0. pc \in [Threads -> PcStates]
  BY DEF IInv, TypeOK, ThreadsTyped
<1>1. ASSUME Same PROVE PtsChecked'
  BY <1>1 DEF IInv, PtsChecked, LastOf
<1>2. CASE UNCHANGED vars
  BY <1>1, <1>2 DEF vars
<1>3. CASE CallerContinues \/ CallerCalls
  <2>1. ASSUME NEW t \in Threads, StartThread(t) \/ Join(t) PROVE Same
    BY <1>0, <2>1, WakeIs DEF StartThread, Join, NextThread, Goto
  <2>2. ASSUME ConstructFails \/ WriteVideo \/ SubmitWait \/ SubmitFails \/ CallerThrows
             \/ Finish \/ Destroy \/ CleanupStopped \/ Submit \/ FinishStopped
        PROVE  Same
    BY <2>2 DEF ConstructFails, WriteVideo, SubmitWait, SubmitFails, CallerThrows,
       Finish, Destroy, CleanupStopped, Submit, FinishStopped
  <2>3. ASSUME SubmitNotify \/ StopFlags \/ StopNotify
        PROVE  Same
    BY <1>0, <2>3, WakeIs DEF SubmitNotify, StopFlags, StopNotify, StopWakes
  <2>4. QED
    BY <1>1, <1>3, <2>1, <2>2, <2>3 DEF CallerContinues, CallerCalls
<1>4. CASE PrepareThread
  <2>1. ASSUME NEW t \in Threads, FailFlags(t) \/ FailNotify(t) PROVE Same
    BY <1>0, <2>1, WakeIs DEF FailFlags, FailNotify, Goto
  <2>2. ASSUME PrepareJob \/ PrepareTaken \/ PrepareEnqueue \/ PreparePushed
        PROVE  Same
    BY <1>0, <2>2, WakeIs DEF PrepareJob, PrepareTaken, PrepareEnqueue, PreparePushed,
       Goto, GotoNotify, Raise
  <2>3. ASSUME PrepareWaitSlots \/ PrepareDone \/ PrepareReturns
        PROVE  Same
    BY <1>0, <2>3, WakeIs DEF PrepareWaitSlots, PrepareDone, PrepareReturns,
       Goto, GotoNotify, Raise
  <2>4. QED
    BY <1>1, <1>4, <2>1, <2>2, <2>3, PreparePts DEF PrepareThread
<1>5. CASE GpuThread
  <2>1. ASSUME NEW t \in Threads, FailFlags(t) \/ FailNotify(t) PROVE Same
    BY <1>0, <2>1, WakeIs DEF FailFlags, FailNotify, Goto
  <2>2. ASSUME GpuFrame \/ GpuTaken \/ GpuEnqueue \/ GpuPushed
        PROVE  Same
    BY <1>0, <2>2, WakeIs DEF GpuFrame, GpuTaken, GpuEnqueue, GpuPushed, Goto,
       GotoNotify
  <2>3. ASSUME GpuEncode \/ GpuFlush \/ GpuDone \/ GpuReturns
        PROVE  Same
    BY <1>0, <2>3, WakeIs DEF GpuEncode, GpuFlush, GpuDone, GpuReturns, HandOver,
       Goto, GotoNotify, Raise
  <2>4. QED
    BY <1>1, <1>5, <2>1, <2>2, <2>3 DEF GpuThread
<1>6. CASE PacketThread
  <2>1. ASSUME NEW t \in Threads, FailFlags(t) \/ FailNotify(t) PROVE Same
    BY <1>0, <2>1, WakeIs DEF FailFlags, FailNotify, Goto
  <2>2. ASSUME PacketTake \/ PacketTaken
        PROVE  Same
    BY <1>0, <2>2, WakeIs DEF PacketTake, PacketTaken, Goto, GotoNotify
  <2>3. QED
    BY <1>1, <1>6, <2>1, <2>2, PacketWritePts DEF PacketThread
<1>7. QED
  BY <1>2, <1>3, <1>4, <1>5, <1>6 DEF Next, Terminated

-----------------------------------------------------------------------------
(* The inductive invariant.                                                *)

\* It holds before the first thread is created.
LEMMA InitInv == Init => IInv
<1> SUFFICES ASSUME Init PROVE IInv
  OBVIOUS
<1> USE DEF Init
<1>1. /\ clip \in Seq(Nat) /\ Len(clip) \in Nat
      /\ << >> \in Seq(Nat) /\ << >> \in Seq(Seq(Nat)) /\ Len(<< >>) = 0
  OBVIOUS
<1>2. ThreadsTyped /\ ControlTyped
  BY DEF ThreadsTyped, ControlTyped, PcStates, States, CommonStates, ThreadErrors,
     Errors, CallerStates
<1>3. FlowTyped
  BY <1>1 DEF FlowTyped
<1>4. ThreadOrder /\ CallerPhase /\ FailureFlags
  BY DEF ThreadOrder, CallerPhase, FailureFlags
<1>5. PrepareStage
  BY DEF PrepareStage
<1>6. GpuStage
  BY <1>1 DEF GpuStage
<1>7. PacketStage
  BY <1>1 DEF PacketStage
<1>8. /\ Checked = << >> /\ Taken = << >> /\ Written = << >> /\ Outgoing = << >>
      /\ Stream = << >> /\ Sent = << >>
  <2>1. Unchecked = << >> /\ Unsent = << >>
    BY DEF Unchecked, Unsent
  <2>2. Checked = << >> /\ Taken = << >> /\ Written = << >>
    BY <1>1, <2>1, Chains, ThenEmpty
  <2>3. Held = << >> /\ Outgoing = << >>
    BY <1>1, <2>2, Chains, ThenEmpty, FlattenEmpty
  <2>4. Encoded = << >> /\ Stream = << >>
    BY <1>1, <2>3, Chains, ThenEmpty
  <2>5. QED
    BY <1>1, <2>1, <2>2, <2>3, <2>4, Chains, ThenEmpty
<1>9. ASSUME NEW s \in Seq(Nat) PROVE IsPrefix(<< >>, s)
  <2>1. Len(<< >>) <= Len(s) /\ 1..Len(<< >>) = {}
    BY <1>1
  <2>2. \A i \in 1..Len(<< >>) : << >>[i] = s[i]
    BY <2>1
  <2>3. QED
    BY <1>1, <2>1, <2>2, PrefixElements
<1>10. FramesInOrder
  BY <1>1, <1>8, <1>9 DEF FramesInOrder
<1>11. PtsChecked
  BY <1>1 DEF PtsChecked, LastOf
<1>12. QED
  BY <1>2, <1>3, <1>4, <1>5, <1>6, <1>7, <1>10, <1>11 DEF IInv, TypeOK

\* Every step of every thread keeps it.
LEMMA NextInv == IInv /\ [Next]_vars => IInv'
BY TypeNext, ThreadOrderNext, CallerPhaseNext, FailureFlagsNext, PrepareStageNext,
   GpuStageNext, PacketStageNext, FramesNext, PtsNext DEF IInv

\* Hence it always holds.
THEOREM Invariance == Spec => []IInv
BY InitInv, NextInv, PTL DEF Spec

-----------------------------------------------------------------------------
(* The theorems.                                                           *)

\* Every variable of the Vulkan video path keeps its type.
THEOREM TypeCorrect == Spec => []TypeOK
<1>1. IInv => TypeOK
  BY DEF IInv
<1>2. QED
  BY <1>1, Invariance, PTL

\* No queue drops a frame: what the four threads hold between them, in the
\* order of the stages, is exactly what write_video queued.
THEOREM NothingDropped == Spec => []NoFrameDropped
<1>1. ASSUME IInv, Healthy PROVE muxed \o InTransit = submitted
  <2>1. /\ ~vulkan_abort /\ pc["prepare"] # "failing" /\ pc["gpu"] # "failing"
        /\ Sent = accepted /\ Taken = submitted
    BY <1>1 DEF Healthy, IInv, FramesInOrder
  <2> DEFINE Queued == Flatten(vulkan_packets)
             Ready == vulkan_frames_ready
  <2>2. /\ muxed \in Seq(Nat) /\ writing \in Seq(Nat) /\ Queued \in Seq(Nat)
        /\ Held \in Seq(Nat) /\ Ready \in Seq(Nat) /\ Unsent \in Seq(Nat)
        /\ Unchecked \in Seq(Nat) /\ vulkan_jobs \in Seq(Nat) /\ Stream \in Seq(Nat)
        /\ << >> \in Seq(Nat)
    BY <1>1, Flow DEF ChainSeqs
  <2>3. Prepared = Then(Unsent, Unchecked)
    <3>1. pc["prepare"] \notin {"failing", "fail_notify"}
      BY <1>1 DEF Healthy
    <3>2. CASE preparing = NoPts
      <4>1. Unsent = << >> /\ Unchecked = << >> /\ Prepared = << >>
        BY <1>1, <3>2 DEF IInv, PrepareStage, Unsent, Unchecked, Prepared
      <4>2. QED
        BY <2>2, <4>1, ThenEmpty
    <3>3. CASE preparing # NoPts
      <4>1. preparing \in Nat
        BY <1>1, <3>3 DEF IInv, TypeOK, FlowTyped
      <4>2. pc["prepare"] \in {"job_taken", "prepare", "frame_space", "frame_space_sleep"}
        BY <1>1, <2>1, <3>1, <3>3, <4>1 DEF IInv, PrepareStage
      <4>3. /\ Prepared = <<preparing>>
            /\ \/ Unsent = <<preparing>> /\ Unchecked = << >>
               \/ Unsent = << >> /\ Unchecked = <<preparing>>
        BY <3>3, <4>2 DEF Unsent, Unchecked, Prepared
      <4>4. QED
        BY <2>2, <4>3, ThenEmpty
    <3>4. QED
      BY <3>2, <3>3
  <2>4. InTransit =
          Then(Then(Then(Then(Then(writing, Queued), Held), Ready), Prepared), vulkan_jobs)
    BY DEF InTransit, Held, Then
  <2> HIDE DEF Queued, Ready
  <2> DEFINE a == Then(writing, Queued)
             b == Then(a, Held)
             c == Then(b, Ready)
             d == Then(c, Prepared)
  <2>5. Prepared \in Seq(Nat)
    BY <2>2, <2>3, ThenProperties
  <2>6. a \in Seq(Nat) /\ b \in Seq(Nat) /\ c \in Seq(Nat) /\ d \in Seq(Nat)
    BY <2>2, <2>5, ThenProperties
  <2>7. Then(muxed, a) = Outgoing
    BY <2>2, ThenAssociative, Chains DEF Queued
  <2>8. Then(muxed, b) = Encoded
    BY <2>2, <2>6, <2>7, ThenAssociative, Chains
  <2>9. Then(muxed, c) = Stream
    BY <2>2, <2>6, <2>8, ThenAssociative, Chains DEF Ready
  <2>10. Then(muxed, d) = Checked
    <3>1. Then(muxed, d) = Then(Stream, Prepared)
      BY <2>2, <2>5, <2>6, <2>9, ThenAssociative
    <3>2. Then(Stream, Prepared) = Then(Sent, Unchecked)
      BY <2>2, <2>3, ThenAssociative, Chains
    <3>3. QED
      BY <2>1, <3>1, <3>2, Chains
  <2>11. Then(muxed, Then(d, vulkan_jobs)) = Taken
    BY <2>2, <2>6, <2>10, ThenAssociative, Chains
  <2>12. muxed \o InTransit = Then(muxed, InTransit)
    BY DEF Then
  <2>13. QED
    BY <2>1, <2>4, <2>11, <2>12
<1>2. IInv => NoFrameDropped
  BY <1>1 DEF NoFrameDropped
<1>3. QED
  BY <1>2, Invariance, PTL

\* When finish() has returned normally, every frame is in the file and no
\* thread failed.
THEOREM Complete == Spec => []FinishedComplete
<1>1. IInv => FinishedComplete
  BY DEF IInv, FramesInOrder, FailureFlags, FinishedComplete
<1>2. QED
  BY <1>1, Invariance, PTL

\* FFmpeg's pool of hardware frames, sized by create_video, never runs out.
THEOREM PoolSuffices == Spec => []FramePoolSuffices
<1>1. ASSUME IInv PROVE FramePoolSuffices
  <2>1. /\ Len(encoder) \in Nat /\ Len(vulkan_frames_ready) \in Nat
        /\ Len(encoder) < AsyncDepth /\ Len(vulkan_frames_ready) <= FrameCapacity
    BY <1>1 DEF IInv, TypeOK, FlowTyped, GpuStage
  <2> DEFINE packing == IF pc["prepare"] \in {"frame_space", "frame_space_sleep"} THEN 1 ELSE 0
             sending == IF pc["gpu"] \in {"frame_taken", "encode"} THEN 1 ELSE 0
  <2>2. packing \in {0, 1} /\ sending \in {0, 1}
    OBVIOUS
  <2>3. HardwareFrames = packing + Len(vulkan_frames_ready) + sending + Len(encoder)
    BY DEF HardwareFrames
  <2> HIDE DEF packing, sending
  <2>4. QED
    BY <2>1, <2>2, <2>3 DEF FramePoolSuffices
<1>2. IInv => FramePoolSuffices
  BY <1>1
<1>3. QED
  BY <1>2, Invariance, PTL

\* A failure empties the queues for good.
THEOREM Cancelled == Spec => []FailureCancels
<1>1. IInv => FailureCancels
  BY DEF IInv, FailureFlags, FailureCancels
<1>2. QED
  BY <1>1, Invariance, PTL

\* No pipeline thread outlives the pipeline.
THEOREM Joined == Spec => []TeardownAlone
<1>1. IInv => TeardownAlone
  BY DEF IInv, CallerPhase, NothingToStop, TeardownAlone
<1>2. QED
  BY <1>1, Invariance, PTL

\* validate_video_packet never refuses a packet for its timestamp.
THEOREM PtsAccepted == Spec => []NoPtsRejection
<1>1. IInv => NoPtsRejection
  BY DEF IInv, FailureFlags, NoPtsRejection
<1>2. QED
  BY <1>1, Invariance, PTL

\* The exception kept is never that of a thread cancelled by another's.
THEOREM RootCause == Spec => []CancelledIsNoCause
<1>1. IInv => CancelledIsNoCause
  BY DEF IInv, FailureFlags, CancelledIsNoCause
<1>2. QED
  BY <1>1, Invariance, PTL

-----------------------------------------------------------------------------
(* The refinement.                                                         *)

\* While a thread runs, the file is neither sealed nor abandoned.
LEMMA OpenWhileRunning ==
  ASSUME IInv, NEW t \in Threads, Joinable(t)
  PROVE  ~finished /\ caller # "closed"
BY DEF IInv, CallerPhase, NothingToStop

\* A frame whose timestamp passes is one of the clip's, later than all
\* before it.
LEMMA PrepareAccepts ==
  ASSUME IInv, IInv', Prepare, accepted' # accepted
  PROVE  \E p \in Pts : Sink!Accept(p)
<1>1. /\ pc["prepare"] = "prepare" /\ accepted' = Append(accepted, preparing)
      /\ UNCHANGED <<caller, finished, muxed>> /\ preparing \in Nat
      /\ accepted \in Seq(Nat) /\ Len(accepted) \in Nat /\ Len(clip) \in Nat
      /\ clip \in Clips /\ clip \in Seq(Nat) /\ submitted \in Seq(Nat)
  BY SMTT(30) DEF Prepare, IInv, TypeOK, FlowTyped, PrepareStage
<1>2. ~finished /\ caller # "closed"
  BY <1>1, OpenWhileRunning DEF Joinable
<1>3. /\ Len(accepted') = Len(accepted) + 1
      /\ \A i \in 1..Len(accepted) : accepted'[i] = accepted[i]
      /\ accepted'[Len(accepted) + 1] = preparing
  BY <1>1, AppendProperties
<1>4. \A i \in 1..Len(accepted) : accepted[i] < preparing
  <2> SUFFICES ASSUME NEW i \in 1..Len(accepted) PROVE accepted[i] < preparing
    OBVIOUS
  <2>1. /\ i \in 1..Len(accepted') /\ Len(accepted) + 1 \in 1..Len(accepted')
        /\ i < Len(accepted) + 1
    BY <1>1, <1>3
  <2>2. accepted'[i] < accepted'[Len(accepted) + 1]
    BY <2>1 DEF IInv, PtsChecked
  <2>3. QED
    BY <1>3, <2>2
<1>5. preparing \in Pts
  <2>1. Unchecked = <<preparing>>
    BY <1>1 DEF Unchecked
  <2>2. Checked = accepted'
    BY <1>1, <2>1, AppendThen, Chains
  <2>3. Checked \in Seq(Nat)
    BY ChainTypes DEF IInv, ChainSeqs
  <2>4. IsPrefix(Checked, clip)
    BY <1>1, <2>3, PrefixTransitive DEF IInv, FramesInOrder
  <2>5. Len(Checked) <= Len(clip) /\ \A i \in 1..Len(Checked) : Checked[i] = clip[i]
    BY <1>1, <2>3, <2>4, PrefixElements
  <2>6. Len(accepted) + 1 \in 1..Len(Checked) /\ Len(accepted) + 1 \in 1..Len(clip)
    BY <1>1, <1>3, <2>2, <2>5
  <2>7. preparing = clip[Len(accepted) + 1]
    BY <1>3, <2>2, <2>5, <2>6
  <2>8. QED
    BY <1>1, <2>6, <2>7 DEF Pts
<1>6. Sink!Accept(preparing)
  BY <1>1, <1>2, <1>4 DEF Sink!Accept
<1>7. QED
  BY <1>5, <1>6

\* A packet that reaches the file is that of the oldest frame not in it.
LEMMA PacketWriteWrites ==
  ASSUME IInv, IInv', PacketWrite, muxed' # muxed
  PROVE  Sink!Write
<1>1. /\ pc["packet"] = "write" /\ muxed' = Append(muxed, Head(writing))
      /\ UNCHANGED <<caller, finished, accepted>>
      /\ muxed \in Seq(Nat) /\ Len(muxed) \in Nat
      /\ accepted \in Seq(Nat) /\ Len(accepted) \in Nat
  <2>1. /\ pc["packet"] = "write" /\ UNCHANGED <<caller, finished, accepted>>
        /\ muxed' = Append(muxed, Head(writing))
    BY DEF PacketWrite
  <2>2. muxed \in Seq(Nat) /\ accepted \in Seq(Nat)
    BY DEF IInv, TypeOK, FlowTyped
  <2>3. QED
    BY <2>1, <2>2
<1>2. ~finished /\ caller # "closed"
  BY <1>1, OpenWhileRunning DEF Joinable
<1>3. Head(writing) \in Nat
  BY <1>1, WriteInOrder
<1>4. /\ muxed' \in Seq(Nat) /\ Len(muxed') = Len(muxed) + 1
      /\ muxed'[Len(muxed) + 1] = Head(writing)
  BY <1>1, <1>3, AppendProperties
<1>5. /\ Written' = Then(muxed', writing') /\ writing' \in Seq(Nat)
      /\ Written' \in Seq(Nat) /\ IsPrefix(Written, accepted)'
  BY ChainTypesNext, ChainsNext DEF IInv, TypeOK, FlowTyped, ChainSeqs, FramesInOrder
<1>6. IsPrefix(muxed', accepted)
  <2>1. IsPrefix(muxed', Written')
    BY <1>4, <1>5, PrefixOfThen
  <2>2. IsPrefix(Written', accepted)
    BY <1>1, <1>5 DEF IsPrefix
  <2>3. QED
    BY <1>1, <1>4, <1>5, <2>1, <2>2, PrefixTransitive
<1>7. Len(muxed') <= Len(accepted) /\ \A i \in 1..Len(muxed') : muxed'[i] = accepted[i]
  BY <1>1, <1>4, <1>6, PrefixElements
<1>8. Len(muxed) < Len(accepted) /\ accepted[Len(muxed) + 1] = Head(writing)
  <2>1. Len(muxed) + 1 \in 1..Len(muxed')
    BY <1>1, <1>4
  <2>2. QED
    BY <1>1, <1>4, <1>7, <2>1, SMTT(30)
<1>9. QED
  BY <1>1, <1>2, <1>8 DEF Sink!Write

\* What no other step changes.
Unseen == UNCHANGED <<accepted, muxed, finished>> /\ (caller' = "closed" <=> caller = "closed")

\* No other step of a pipeline thread is visible in the file.
LEMMA ThreadsUnseen ==
  ASSUME IInv, PrepareThread \/ GpuThread \/ PacketThread,
         UNCHANGED <<accepted, muxed>>
  PROVE  Unseen
<1>1. ASSUME NEW t \in Threads, FailFlags(t) \/ FailNotify(t) PROVE Unseen
  BY <1>1 DEF FailFlags, FailNotify, WakeCaller, Unseen
<1>2. CASE PrepareJob \/ PrepareTaken \/ Prepare \/ PrepareEnqueue \/ PreparePushed
           \/ PrepareWaitSlots \/ PrepareDone \/ PrepareReturns
  BY <1>2 DEF PrepareJob, PrepareTaken, Prepare, PrepareEnqueue, PreparePushed,
     PrepareWaitSlots, PrepareDone, PrepareReturns, WakeCaller, Unseen
<1>3. CASE GpuFrame \/ GpuTaken \/ GpuEncode \/ GpuFlush \/ GpuEnqueue \/ GpuPushed
           \/ GpuDone \/ GpuReturns
  BY <1>3 DEF GpuFrame, GpuTaken, GpuEncode, GpuFlush, GpuEnqueue, GpuPushed,
     GpuDone, GpuReturns, Unseen
<1>4. CASE PacketTake \/ PacketTaken \/ PacketWrite
  BY <1>4 DEF PacketTake, PacketTaken, PacketWrite, Unseen
<1>5. QED
  BY <1>1, <1>2, <1>3, <1>4 DEF PrepareThread, GpuThread, PacketThread

\* Only the prepare thread accepts, only the packet thread writes.
LEMMA ThreadsSeen ==
  ASSUME IInv, PrepareThread \/ GpuThread \/ PacketThread
  PROVE  \/ Prepare
         \/ PacketWrite
         \/ UNCHANGED <<accepted, muxed>>
<1>1. ASSUME NEW t \in Threads, FailFlags(t) \/ FailNotify(t)
      PROVE  UNCHANGED <<accepted, muxed>>
  BY <1>1 DEF FailFlags, FailNotify
<1>2. ASSUME PrepareJob \/ PrepareTaken \/ PrepareEnqueue \/ PreparePushed
             \/ PrepareWaitSlots \/ PrepareDone \/ PrepareReturns
      PROVE  UNCHANGED <<accepted, muxed>>
  BY <1>2 DEF PrepareJob, PrepareTaken, PrepareEnqueue, PreparePushed,
     PrepareWaitSlots, PrepareDone, PrepareReturns
<1>3. ASSUME GpuFrame \/ GpuTaken \/ GpuEncode \/ GpuFlush \/ GpuEnqueue \/ GpuPushed
             \/ GpuDone \/ GpuReturns
      PROVE  UNCHANGED <<accepted, muxed>>
  BY <1>3 DEF GpuFrame, GpuTaken, GpuEncode, GpuFlush, GpuEnqueue, GpuPushed,
     GpuDone, GpuReturns
<1>4. ASSUME PacketTake \/ PacketTaken PROVE UNCHANGED <<accepted, muxed>>
  BY <1>4 DEF PacketTake, PacketTaken
<1>5. QED
  BY <1>1, <1>2, <1>3, <1>4 DEF PrepareThread, GpuThread, PacketThread

\* Nor is any step of the caller but the two that settle the file.
LEMMA CallerUnseen ==
  ASSUME IInv, CallerContinues \/ CallerCalls, ~CleanupStopped,
         ~(FinishStopped /\ finished')
  PROVE  Unseen
<1>1. ASSUME NEW t \in Threads, StartThread(t) \/ Join(t) PROVE Unseen
  BY <1>1 DEF StartThread, Join, Unseen
<1>2. ASSUME FinishStopped PROVE Unseen
  <2>1. ~finished'
    BY <1>2
  <2>2. ~finished
    BY <1>2 DEF FinishStopped, IInv, CallerPhase
  <2>3. finished \in BOOLEAN /\ finished' = finished
    BY <1>2, <2>1, <2>2 DEF FinishStopped, IInv, TypeOK, ControlTyped
  <2>4. QED
    BY <1>2, <2>3 DEF FinishStopped, Throw, Unseen
<1>3. CASE ConstructFails \/ WriteVideo \/ SubmitWait \/ SubmitFails \/ Submit
           \/ SubmitNotify
  BY <1>3 DEF ConstructFails, WriteVideo, SubmitWait, SubmitFails, Submit,
     SubmitNotify, Throw, Unseen
<1>4. CASE CallerThrows \/ Finish \/ Destroy \/ StopFlags \/ StopNotify
  BY <1>4 DEF CallerThrows, Finish, Destroy, StopFlags, StopNotify, Throw, Unseen
<1>5. QED
  BY <1>1, <1>2, <1>3, <1>4 DEF CallerContinues, CallerCalls

\* The Vulkan video path implements OrderedSink: four threads, three queues
\* and an asynchronous encoder behave like one ordered, lossless file.
THEOREM Refinement == Spec => SinkSpec
<1>1. Init => Sink!Init
  BY DEF Init, Sink!Init
<1>2. IInv /\ IInv' /\ [Next]_vars => [Sink!Next]_(Sink!vars)
  <2> SUFFICES ASSUME IInv, IInv', [Next]_vars
               PROVE  Sink!Next \/ UNCHANGED Sink!vars
    OBVIOUS
  <2>1. ASSUME Unseen PROVE UNCHANGED Sink!vars
    BY <2>1 DEF Unseen, Sink!vars
  <2>2. CASE UNCHANGED vars
    <3>1. UNCHANGED <<accepted, muxed, finished, caller>>
      BY <2>2 DEF vars
    <3>2. QED
      BY <2>1, <3>1 DEF Unseen
  <2>3. CASE PrepareThread \/ GpuThread \/ PacketThread
    <3>1. CASE UNCHANGED <<accepted, muxed>>
      BY <2>1, <2>3, <3>1, ThreadsUnseen
    <3>2. CASE Prepare /\ accepted' # accepted
      BY <3>2, PrepareAccepts DEF Sink!Next
    <3>3. CASE PacketWrite /\ muxed' # muxed
      BY <3>3, PacketWriteWrites DEF Sink!Next
    <3>4. Prepare => muxed' = muxed
      BY DEF Prepare
    <3>5. PacketWrite => accepted' = accepted
      BY DEF PacketWrite
    <3>6. QED
      BY <2>3, <3>1, <3>2, <3>3, <3>4, <3>5, ThreadsSeen
  <2>4. CASE CleanupStopped
    <3>1. /\ caller = "stopped" /\ caller' = "closed"
          /\ UNCHANGED <<accepted, muxed, finished>>
      BY <2>4 DEF CleanupStopped
    <3>2. QED
      BY <3>1 DEF Sink!Next, Sink!Abandon, Sink!vars
  <2>5. CASE FinishStopped /\ finished'
    <3>1. /\ caller = "stopped" /\ ~unwinding /\ ~finished
          /\ UNCHANGED <<accepted, muxed>>
      BY <2>5 DEF FinishStopped, IInv, CallerPhase
    <3>2. vulkan_worker_error = NoError
      BY <2>5, <3>1 DEF FinishStopped
    <3>3. muxed = accepted
      BY <3>1, <3>2, AllWritten
    <3>4. QED
      BY <2>5, <3>1, <3>3 DEF Sink!Next, Sink!Seal
  <2>6. CASE (CallerContinues \/ CallerCalls) /\ ~CleanupStopped
             /\ ~(FinishStopped /\ finished')
    BY <2>1, <2>6, CallerUnseen
  <2>7. QED
    BY <2>2, <2>3, <2>4, <2>5, <2>6 DEF Next, Terminated
<1>3. QED
  BY <1>1, <1>2, Invariance, PTL DEF Spec, SinkSpec, Sink!Spec

=============================================================================
