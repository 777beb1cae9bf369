------------------------ MODULE ClaimCreationProofs ------------------------
(***************************************************************************)
(* Proofs about ClaimCreation for every request, size of a TLS record and  *)
(* set of redactions: the request is written whole, no traffic key of a    *)
(* redacted section is revealed and everything public is, as long as the   *)
(* server sends nothing during a write.                                    *)
(***************************************************************************)
EXTENDS ClaimCreation, FiniteSetTheorems, TLAPS

(* The states of an attempt. *)
BeforeReveal == {"section", "updated", "writing", "waiting", "revealing"}
Written == {"waiting", "revealing", "claiming"}

(* What a new attempt starts with, and that there is one left to make. *)
AttemptOK ==
  /\ pc # "done" => retries < maxRetries
  /\ pc = "connecting" =>
       /\ section = 1 /\ todo = 0 /\ before = 0 /\ transcript = <<>> /\ key = 0
       /\ lastMsgRevealed = FALSE /\ revealMap = [complete |-> {}, zk |-> {}]
       /\ crossed = FALSE /\ writeFailed = FALSE

(* A handshake record of the client (a key update) is the last one under   *)
(* its key.                                                                *)
KeysOrdered ==
  /\ \A i \in DOMAIN transcript : transcript[i].sender = "client" =>
       /\ transcript[i].key <= key
       /\ transcript[i].type = "handshake" => transcript[i].key < key
  /\ \A i, j \in DOMAIN transcript :
       /\ i < j /\ transcript[i].sender = "client" /\ transcript[j].sender = "client"
       /\ transcript[i].type = "handshake"
       => transcript[i].key < transcript[j].key

(* A traffic key encrypts redacted data only, or public data only. *)
KeysOfOneKind ==
  mode = "key-update" =>
    \A i, j \in ClientData :
      transcript[i].key = transcript[j].key => (Redacted(i) <=> Redacted(j))

(* Which of the two the key in use encrypts, lastMsgRevealed says; a new   *)
(* one has encrypted nothing.                                              *)
CurrentKey ==
  mode = "key-update" =>
    \A i \in ClientData : transcript[i].key = key =>
      /\ pc = "section" => (Redacted(i) <=> ~lastMsgRevealed)
      /\ pc # "updated"
      /\ pc = "writing" => (Redacted(i) <=> ~Revealed(section))

(* The request is written up to w. *)
WrittenTo(w) ==
  /\ \A i \in ClientData : transcript[i].from < transcript[i].to /\ transcript[i].to <= w
  /\ \A i, j \in ClientData : i < j => transcript[i].to <= transcript[j].from
  /\ \A x \in 0..w-1 : \E i \in ClientData :
       transcript[i].from <= x /\ x < transcript[i].to

Progress ==
  /\ pc \in {"section", "updated"} => WrittenTo(From(section))
  /\ pc \in {"updated", "writing"} => ~NothingToWrite
  /\ pc = "writing" =>
       /\ todo \in From(section)..To(section) /\ WrittenTo(todo)
       /\ From(section) < todo => before < Len(transcript)
  /\ pc \in Written /\ ~writeFailed => WrittenTo(Size)

(* Without records of the server in between, what the transcript has grown *)
(* by is the section's data.                                               *)
SectionRecords ==
  pc = "writing" /\ ~crossed =>
    \A i \in (before + 1)..Len(transcript) :
      /\ i \in ClientData
      /\ mode = "key-update" => (Redacted(i) <=> ~Revealed(section))

Shown(i) == IF mode = "zk" THEN i \in revealMap.zk
            ELSE Redacted(i) \/ i \in revealMap.complete

Marks ==
  ~crossed =>
    /\ mode = "key-update" /\ pc \in BeforeReveal =>
         \A i \in revealMap.complete : i \in ClientData /\ ~Redacted(i)
    /\ pc \in {"section", "updated"} => \A i \in ClientData : Shown(i)
    /\ pc = "writing" => \A i \in ClientData : i <= before => Shown(i)
    /\ pc \in Written \cup {"done"} /\ ~writeFailed => \A i \in ClientData : Shown(i)

ClaimHides == pc \in {"claiming", "done"} => HiddenUnlessCrossed

(* The inductive invariant. *)
IInv ==
  /\ TypeOK /\ AttemptOK /\ KeysOrdered /\ KeysOfOneKind /\ CurrentKey
  /\ Progress /\ SectionRecords /\ Marks /\ ClaimHides
----------------------------------------------------------------------------
(* The sections of a request. *)
LEMMA Half ==
  ASSUME NEW s \in Nat
  PROVE  /\ s % 2 \in {0, 1} /\ s \div 2 \in Nat /\ s = 2 * (s \div 2) + (s % 2)
         /\ s % 2 = 0 => (s + 1) % 2 = 1 /\ (s + 1) \div 2 = s \div 2
         /\ s % 2 = 1 => (s + 1) % 2 = 0 /\ (s + 1) \div 2 = s \div 2 + 1
OBVIOUS

Slices == [fromIndex : 0..Size, toIndex : 0..Size]

LEMMA RedactionFacts ==
  ASSUME TypeOK
  PROVE  /\ redactions \in Seq(Slices) /\ Cuts \in Seq(Slices)
         /\ \A i \in 1..Len(redactions) :
              \/ redactions[i].fromIndex < redactions[i].toIndex
              \/ redactions[i].fromIndex = 0 /\ redactions[i].toIndex = 0
         /\ \A i, j \in 1..Len(redactions) :
              i < j => redactions[i].toIndex <= redactions[j].fromIndex
<1>1. redactions \in Seq(Slices)
  <2>1. Redactions \subseteq Seq(Slices)
    BY ClaimAssumption DEF ClaimAssumption, Slices
  <2>2. <<>> \in Seq(Slices)
    OBVIOUS
  <2>3. redactions \in Redactions \cup {<<>>}
    BY DEF TypeOK
  <2>. QED
    BY <2>1, <2>2, <2>3
<1>2. DOMAIN redactions = 1..Len(redactions)
  BY <1>1
<1>3. Cuts \in Seq(Slices)
  BY <1>1 DEF Cuts
<1>4. CASE redactions \in Redactions
  BY <1>1, <1>2, <1>3, <1>4, ClaimAssumption DEF ClaimAssumption
<1>5. CASE redactions = <<>>
  BY <1>1, <1>3, <1>5
<1>. QED
  BY <1>4, <1>5 DEF TypeOK

LEMMA CutFacts ==
  ASSUME TypeOK
  PROVE  /\ Len(Cuts) \in Nat
         /\ \A i \in 1..Len(Cuts) :
              /\ Cuts[i].fromIndex \in 0..Size /\ Cuts[i].toIndex \in 0..Size
              /\ \/ Cuts[i].fromIndex < Cuts[i].toIndex
                 \/ Cuts[i].fromIndex = 0 /\ Cuts[i].toIndex = 0
         /\ \A i, j \in 1..Len(Cuts) : i < j => Cuts[i].toIndex <= Cuts[j].fromIndex
<1>1. Cuts \in Seq(Slices)
  BY RedactionFacts
<1>2. \A i \in 1..Len(Cuts) : Cuts[i] \in Slices
  BY <1>1
<1>3. CASE mode = "zk"
  BY <1>3 DEF Cuts
<1>4. CASE mode # "zk"
  BY <1>1, <1>2, <1>4, RedactionFacts DEF Cuts, Slices
<1>. QED
  BY <1>3, <1>4

LEMMA SectionFacts ==
  ASSUME TypeOK, NEW s \in 1..Sections
  PROVE  /\ From(s) \in 0..Size /\ To(s) \in 0..Size /\ From(s) <= To(s)
         /\ s < Sections => s + 1 \in 1..Sections /\ From(s + 1) = To(s)
         /\ s = Sections => To(s) = Size
         /\ s = 1 => From(s) = 0
         /\ ~Revealed(s) => From(s) < To(s) \/ To(s) = 0
<1>. DEFINE n == Len(Cuts)  k == s \div 2
<1>1. /\ n \in Nat /\ Sections = 2 * n + 1 /\ Size \in Nat
  BY CutFacts, ClaimAssumption DEF Sections, ClaimAssumption
<1>2. s \in Nat /\ s >= 1 /\ s <= 2 * n + 1
  BY <1>1
<1>3. /\ s % 2 \in {0, 1} /\ k \in Nat /\ s = 2 * k + (s % 2)
      /\ s % 2 = 0 => (s + 1) % 2 = 1 /\ (s + 1) \div 2 = k
      /\ s % 2 = 1 => (s + 1) % 2 = 0 /\ (s + 1) \div 2 = k + 1
  BY <1>2, Half
<1>. HIDE DEF n, k
<1>4. CASE s % 2 = 0
  <2>1. k \in 1..n /\ s # 1 /\ s # Sections /\ s < Sections /\ s + 1 # 1
        /\ (s + 1) % 2 # 0
    BY <1>1, <1>2, <1>3, <1>4
  <2>2. From(s) = Cuts[k].fromIndex /\ To(s) = Cuts[k].toIndex
    BY <1>4, <2>1 DEF From, To, k
  <2>3. From(s + 1) = Cuts[(s + 1) \div 2].toIndex
    BY <2>1 DEF From
  <2>. QED
    BY <1>1, <1>2, <1>3, <1>4, <2>1, <2>2, <2>3, CutFacts DEF n
<1>5. CASE s % 2 = 1
  <2>1. k \in 0..n /\ (s = 1 <=> k = 0) /\ (s = Sections <=> k = n) /\ s % 2 # 0
    BY <1>1, <1>2, <1>3, <1>5
  <2>2. /\ k = 0 => From(s) = 0
        /\ k # 0 => From(s) = Cuts[k].toIndex
    BY <2>1 DEF From, k
  <2>3. /\ k = n => To(s) = Size
        /\ k # n => To(s) = Cuts[k + 1].fromIndex
    BY <1>3, <1>5, <2>1 DEF To
  <2>4. k # n => s + 1 \in 1..Sections /\ From(s + 1) = Cuts[k + 1].fromIndex
    <3>1. s + 1 # 1 /\ (s + 1) % 2 = 0 /\ (s + 1) \div 2 = k + 1
      BY <1>2, <1>3, <1>5
    <3>2. From(s + 1) = Cuts[k + 1].fromIndex
      BY <3>1 DEF From
    <3>. QED
      BY <1>1, <1>2, <1>3, <1>5, <2>1, <3>2
  <2>5. Revealed(s)
    BY <1>5 DEF Revealed
  <2>6. k # 0 => k \in 1..n
    BY <1>1, <1>3, <2>1
  <2>7. k # n => k + 1 \in 1..n
    BY <1>1, <1>3, <2>1
  <2>8. From(s) \in 0..Size /\ To(s) \in 0..Size
    BY <1>1, <2>2, <2>3, <2>6, <2>7, CutFacts DEF n
  <2>9. From(s) <= To(s)
    <3>1. CASE k = 0 \/ k = n
      BY <1>1, <2>2, <2>3, <2>8, <3>1
    <3>2. CASE k # 0 /\ k # n
      BY <1>3, <2>2, <2>3, <2>6, <2>7, <3>2, CutFacts DEF n
    <3>. QED
      BY <3>1, <3>2
  <2>10. s < Sections => k # n
    BY <1>1, <1>2, <2>1
  <2>. QED
    BY <2>1, <2>2, <2>3, <2>4, <2>5, <2>8, <2>9, <2>10
<1>. QED
  BY <1>3, <1>4, <1>5

(* What lies in a section is redacted exactly when the section is. *)
LEMMA SectionKind ==
  ASSUME TypeOK, mode # "zk", NEW s \in 1..Sections, NEW a \in Nat, NEW b \in Nat,
         From(s) <= a, a < b, b <= To(s)
  PROVE  (\E j \in DOMAIN redactions :
            a < redactions[j].toIndex /\ redactions[j].fromIndex < b)
         <=> ~Revealed(s)
<1>. DEFINE n == Len(Cuts)  k == s \div 2
<1>1. /\ n \in Nat /\ Sections = 2 * n + 1 /\ Size \in Nat
  BY CutFacts, ClaimAssumption DEF Sections, ClaimAssumption
<1>2. s \in Nat /\ s >= 1 /\ s <= 2 * n + 1
  BY <1>1
<1>3. /\ s % 2 \in {0, 1} /\ k \in Nat /\ s = 2 * k + (s % 2)
      /\ s % 2 = 1 => (s + 1) \div 2 = k + 1
  BY <1>2, Half
<1>4. Cuts = redactions /\ DOMAIN redactions = 1..n
  BY RedactionFacts DEF Cuts
<1>. HIDE DEF n, k
<1>5. CASE s % 2 = 0
  <2>1. k \in 1..n /\ s # 1 /\ s # Sections
    BY <1>1, <1>2, <1>3, <1>5
  <2>2. From(s) = Cuts[k].fromIndex /\ To(s) = Cuts[k].toIndex
    BY <1>5, <2>1 DEF From, To, k
  <2>3. a < redactions[k].toIndex /\ redactions[k].fromIndex < b
    BY <1>4, <2>1, <2>2, CutFacts DEF n
  <2>. QED
    BY <1>4, <1>5, <2>1, <2>3 DEF Revealed
<1>6. CASE s % 2 = 1
  <2>1. k \in 0..n /\ (s = 1 <=> k = 0) /\ (s = Sections <=> k = n) /\ s % 2 # 0
    BY <1>1, <1>2, <1>3, <1>6
  <2>2. k # 0 => k \in 1..n /\ From(s) = Cuts[k].toIndex
    BY <1>1, <1>3, <2>1 DEF From, k
  <2>3. k # n => k + 1 \in 1..n /\ To(s) = Cuts[k + 1].fromIndex
    <3>1. k # n => To(s) = Cuts[k + 1].fromIndex
      BY <1>3, <1>6, <2>1 DEF To
    <3>. QED
      BY <1>1, <1>3, <2>1, <3>1
  <2>4. ASSUME NEW j \in 1..n PROVE ~(a < Cuts[j].toIndex /\ Cuts[j].fromIndex < b)
    <3>1. \A i \in 1..n : /\ Cuts[i].fromIndex \in Nat /\ Cuts[i].toIndex \in Nat
                          /\ Cuts[i].fromIndex <= Cuts[i].toIndex
      <4>1. \A i \in 1..n :
              /\ Cuts[i].fromIndex \in 0..Size /\ Cuts[i].toIndex \in 0..Size
              /\ \/ Cuts[i].fromIndex < Cuts[i].toIndex
                 \/ Cuts[i].fromIndex = 0 /\ Cuts[i].toIndex = 0
        BY CutFacts DEF n
      <4>. QED
        BY <1>1, <4>1
    <3>2. \A i \in 1..n : i < j => Cuts[i].toIndex <= Cuts[j].fromIndex
      BY CutFacts DEF n
    <3>3. \A i \in 1..n : j < i => Cuts[j].toIndex <= Cuts[i].fromIndex
      BY CutFacts DEF n
    <3>4. CASE j <= k
      <4>1. k # 0
        BY <1>3, <3>4
      <4>2. Cuts[j].toIndex <= Cuts[k].toIndex
        <5>1. CASE j = k
          BY <3>1, <5>1
        <5>2. CASE j < k
          BY <2>2, <3>1, <3>3, <4>1, <5>2
        <5>. QED
          BY <1>3, <3>4, <5>1, <5>2
      <4>. QED
        BY <2>2, <3>1, <4>1, <4>2
    <3>5. CASE k < j
      <4>1. k # n
        BY <1>1, <1>3, <3>5
      <4>2. Cuts[k + 1].fromIndex <= Cuts[j].fromIndex
        <5>1. CASE j = k + 1
          BY <3>1, <5>1
        <5>2. CASE k + 1 < j
          BY <2>3, <3>1, <3>2, <4>1, <5>2
        <5>. QED
          BY <1>3, <3>5, <5>1, <5>2
      <4>. QED
        BY <2>3, <3>1, <4>1, <4>2
    <3>. QED
      BY <1>3, <3>4, <3>5
  <2>. QED
    BY <1>4, <1>6, <2>4 DEF Revealed
<1>. QED
  BY <1>3, <1>5, <1>6
----------------------------------------------------------------------------
(* Counting back finds the section's records, when it is them that the     *)
(* transcript has grown by.                                                *)
LEMMA LastBlocksOfSection ==
  ASSUME TypeOK, before < Len(transcript),
         \A i \in (before + 1)..Len(transcript) : transcript[i].sender = "client"
  PROVE  LastBlocks("client", Len(transcript) - before)
           = (before + 1)..Len(transcript)
<1>. DEFINE L == Len(transcript)
            n == L - before
            Of(i) == {j \in i..L : transcript[j].sender = "client"}
<1>1. L \in Nat /\ before \in Nat /\ before < L /\ n \in Nat /\ n # 0
  BY DEF TypeOK
<1>2. LastBlocks("client", n) = {i \in Of(1) : Cardinality(Of(i)) <= n}
  BY <1>1 DEF LastBlocks
<1>3. \A i \in (before + 1)..L : transcript[i].sender = "client"
  OBVIOUS
<1>. HIDE DEF L
<1>4. ASSUME NEW i \in (before + 1)..L PROVE i \in Of(1) /\ Cardinality(Of(i)) <= n
  <2>1. Of(i) = i..L
    BY <1>1, <1>3
  <2>2. Cardinality(i..L) = L - i + 1
    BY <1>1, FS_Interval
  <2>3. i \in Of(1)
    BY <1>1, <1>3
  <2>. HIDE DEF Of
  <2>. QED
    BY <1>1, <2>1, <2>2, <2>3
<1>5. ASSUME NEW i \in Of(1), i \notin (before + 1)..L PROVE ~(Cardinality(Of(i)) <= n)
  <2>. DEFINE I == (before + 1)..L
              J == I \cup {i}
  <2>1. IsFiniteSet(I) /\ Cardinality(I) = n
    <3>1. before + 1 \in Int /\ L \in Int /\ ~(before + 1 > L)
      BY <1>1
    <3>2. IsFiniteSet(I) /\ Cardinality(I) = L - (before + 1) + 1
      BY <3>1, FS_Interval
    <3>. QED
      BY <1>1, <3>2
  <2>2. Cardinality(J) = n + 1
    BY <1>5, <2>1, FS_AddElement
  <2>3. J \subseteq Of(i)
    BY <1>1, <1>3, <1>5
  <2>4. IsFiniteSet(Of(i))
    <3>1. i \in Int /\ L \in Int
      BY <1>1
    <3>2. IsFiniteSet(i..L)
      BY <3>1, FS_Interval
    <3>3. Of(i) \subseteq i..L
      OBVIOUS
    <3>. HIDE DEF Of
    <3>. QED
      BY <3>2, <3>3, FS_Subset
  <2>5. Cardinality(J) <= Cardinality(Of(i)) /\ Cardinality(Of(i)) \in Nat
    BY <2>3, <2>4, FS_Subset, FS_CardinalityType
  <2>. HIDE DEF Of, J
  <2>. QED
    BY <1>1, <2>2, <2>5
<1>6. {i \in Of(1) : Cardinality(Of(i)) <= n} = (before + 1)..L
  <2>. DEFINE C(i) == Cardinality(Of(i)) <= n
              O == Of(1)
  <2>1. /\ \A i \in (before + 1)..L : i \in O /\ C(i)
        /\ \A i \in O : i \notin (before + 1)..L => ~C(i)
    BY <1>4, <1>5
  <2>. HIDE DEF C, O
  <2>2. {i \in O : C(i)} = (before + 1)..L
    BY <2>1
  <2>. QED
    BY <2>2 DEF C, O
<1>. QED
  BY <1>2, <1>6 DEF L

LEMMA SameTranscript ==
  ASSUME UNCHANGED <<transcript, redactions>>
  PROVE  ClientData' = ClientData /\ \A i : Redacted(i)' <=> Redacted(i)
BY DEF ClientData, Redacted

LEMMA SameSections ==
  ASSUME UNCHANGED <<mode, redactions>>
  PROVE  /\ Sections' = Sections /\ From(section)' = From(section')
         /\ To(section)' = To(section') /\ (Revealed(section)' <=> Revealed(section'))
         /\ NothingToWrite' <=> Revealed(section') /\ From(section') = To(section')
<1>1. Cuts' = Cuts
  BY DEF Cuts
<1>2. Sections' = Sections
  BY <1>1 DEF Sections
<1>. QED
  BY <1>1, <1>2 DEF From, To, Revealed, NothingToWrite

LEMMA RecordFields ==
  ASSUME TypeOK, NEW i \in 1..Len(transcript)
  PROVE  /\ transcript[i].sender \in {"client", "server"}
         /\ transcript[i].type \in {"handshake", "data"} /\ transcript[i].key \in Nat
         /\ transcript[i].from \in 0..Size /\ transcript[i].to \in 0..Size
<1>1. transcript[i] \in Records
  BY DEF TypeOK
<1>. QED
  BY <1>1 DEF Records

LEMMA ClientDataFacts ==
  ASSUME TypeOK, NEW i \in ClientData
  PROVE  /\ i \in 1..Len(transcript) /\ i \in Nat /\ transcript[i].sender = "client"
         /\ transcript[i].type = "data" /\ transcript[i].key \in Nat
         /\ transcript[i].from \in 0..Size /\ transcript[i].to \in 0..Size
<1>1. /\ i \in 1..Len(transcript) /\ transcript[i].sender = "client"
      /\ transcript[i].type = "data"
  BY DEF TypeOK, ClientData
<1>. QED
  BY <1>1, RecordFields

LEMMA Appended ==
  ASSUME TypeOK, NEW p \in Records, transcript' = Append(transcript, p),
         UNCHANGED redactions
  PROVE  /\ Len(transcript) \in Nat /\ Len(transcript') = Len(transcript) + 1
         /\ DOMAIN transcript = 1..Len(transcript)
         /\ DOMAIN transcript' = 1..Len(transcript) + 1
         /\ \A i \in 1..Len(transcript) : transcript'[i] = transcript[i]
         /\ transcript'[Len(transcript) + 1] = p
         /\ ClientData' = IF p.sender = "client" /\ p.type = "data"
                          THEN ClientData \cup {Len(transcript) + 1} ELSE ClientData
         /\ \A i \in ClientData : transcript'[i] = transcript[i]
         /\ \A i \in ClientData : Redacted(i)' <=> Redacted(i)
         /\ transcript' \in Seq(Records)
<1>1. transcript \in Seq(Records)
  BY DEF TypeOK
<1>2. /\ Len(transcript) \in Nat /\ Len(transcript') = Len(transcript) + 1
      /\ DOMAIN transcript = 1..Len(transcript)
      /\ DOMAIN transcript' = 1..Len(transcript) + 1
      /\ \A i \in 1..Len(transcript) : transcript'[i] = transcript[i]
      /\ transcript'[Len(transcript) + 1] = p
      /\ transcript' \in Seq(Records)
  BY <1>1
<1>3. \A i : i \in ClientData' <=>
               IF p.sender = "client" /\ p.type = "data"
               THEN i \in ClientData \cup {Len(transcript) + 1} ELSE i \in ClientData
  BY <1>2 DEF ClientData
<1>4. \A i \in ClientData : transcript'[i] = transcript[i]
  BY <1>2 DEF ClientData
<1>. QED
  BY <1>2, <1>3, <1>4 DEF Redacted
----------------------------------------------------------------------------
(* An attempt that has not started, or will not. *)
Fresh ==
  /\ pc \in {"connecting", "done"} /\ result \in {"pending", "claim", "error"}
  /\ retries \in 0..maxRetries /\ (pc # "done" => retries < maxRetries)
  /\ mode = "key-update" /\ redactions = <<>> /\ section = 1 /\ todo = 0
  /\ before = 0 /\ transcript = <<>> /\ key = 0 /\ lastMsgRevealed = FALSE
  /\ revealMap = [complete |-> {}, zk |-> {}] /\ tlsOpen = TRUE
  /\ ended = "unset" /\ resDone = FALSE
  /\ writeFailed = FALSE /\ crossed = FALSE

LEMMA FreshIInv == Fresh => IInv
<1>. SUFFICES ASSUME Fresh PROVE IInv
  OBVIOUS
<1>1. ClientData = {}
  BY DEF Fresh, ClientData
<1>2. TypeOK
  <2>1. Sections = 1
    BY DEF Sections, Cuts, Fresh
  <2>2. Size \in Nat
    BY ClaimAssumption DEF ClaimAssumption
  <2>3. revealMap \in [{"complete", "zk"} -> SUBSET DOMAIN transcript]
    BY DEF Fresh
  <2>4. before \in 0..Len(transcript) /\ transcript \in Seq(Records)
    BY DEF Fresh
  <2>5. section \in 1..Sections /\ todo \in 0..Size /\ key \in Nat
    BY <2>1, <2>2 DEF Fresh
  <2>6. /\ lastMsgRevealed \in BOOLEAN /\ tlsOpen \in BOOLEAN /\ resDone \in BOOLEAN
        /\ writeFailed \in BOOLEAN /\ crossed \in BOOLEAN
    BY DEF Fresh
  <2>7. /\ pc \in {"connecting", "done"} /\ mode = "key-update"
        /\ redactions \in Redactions \cup {<<>>} /\ ended = "unset"
        /\ retries \in 0..maxRetries /\ result \in {"pending", "claim", "error"}
    BY DEF Fresh
  <2>. QED
    BY <2>3, <2>4, <2>5, <2>6, <2>7 DEF TypeOK
<1>3. AttemptOK
  BY DEF AttemptOK, Fresh
<1>4. KeysOrdered
  BY DEF KeysOrdered, Fresh
<1>5. pc \in {"connecting", "done"}
  BY DEF Fresh
<1>6. KeysOfOneKind /\ CurrentKey /\ Marks
  BY <1>1, <1>5 DEF KeysOfOneKind, CurrentKey, Marks, BeforeReveal
<1>7. Progress /\ SectionRecords
  BY <1>5 DEF Progress, SectionRecords, Written
<1>8. ClaimHides
  BY <1>1 DEF ClaimHides, HiddenUnlessCrossed, RedactedKeysHidden
<1>. QED
  BY <1>2, <1>3, <1>4, <1>6, <1>7, <1>8 DEF IInv

LEMMA FailStep ==
  ASSUME IInv, pc # "done", Fail
  PROVE  IInv'
<1>1. retries \in 0..maxRetries /\ retries < maxRetries /\ maxRetries \in Nat
  BY ClaimAssumption DEF IInv, TypeOK, AttemptOK, ClaimAssumption
<1>2. retries' \in 0..maxRetries /\ result' \in {"pending", "claim", "error"}
  BY <1>1 DEF Fail, IInv, TypeOK
<1>3. \/ NewAttempt("connecting") /\ retries' < maxRetries
      \/ NewAttempt("done")
  BY DEF Fail
<1>4. Fresh'
  BY <1>1, <1>2, <1>3 DEF NewAttempt, Fresh
<1>. QED
  BY <1>4, FreshIInv, PTL

LEMMA StartRequestStep ==
  ASSUME IInv, StartRequest
  PROVE  IInv'
<1>1. pc = "connecting" /\ TypeOK /\ AttemptOK /\ retries < maxRetries
  BY DEF StartRequest, IInv, AttemptOK
<1>2. CASE Fail
  BY <1>1, <1>2, FailStep
<1>3. ASSUME NEW m \in {"key-update", "zk"}, NEW r \in Redactions,
             mode' = m, redactions' = r, pc' = "section",
             transcript' = <<Packet("server", "handshake", 0, 0, 0),
                             Packet("client", "handshake", 0, 0, 0)>>,
             key' = 1, ended' = "pending",
             UNCHANGED <<retryVars, section, todo, before, lastMsgRevealed,
                         revealMap, tlsOpen, resDone, history>>
      PROVE  IInv'
  <2>. USE DEF retryVars, history
  <2>1. /\ section' = 1 /\ todo' = 0 /\ before' = 0 /\ lastMsgRevealed' = FALSE
        /\ revealMap' = [complete |-> {}, zk |-> {}] /\ crossed' = FALSE
        /\ writeFailed' = FALSE
    BY <1>1, <1>3 DEF AttemptOK
  <2>2. Size \in Nat
    BY ClaimAssumption DEF ClaimAssumption
  <2>. DEFINE a == Packet("server", "handshake", 0, 0, 0)
              b == Packet("client", "handshake", 0, 0, 0)
  <2>3. /\ a \in Records /\ b \in Records
        /\ a.sender = "server" /\ a.type = "handshake"
        /\ b.sender = "client" /\ b.type = "handshake" /\ b.key = 0
    BY <2>2 DEF Packet, Records
  <2>4. transcript' = <<a, b>>
    BY <1>3
  <2>. HIDE DEF a, b
  <2>5. /\ transcript' \in Seq(Records) /\ DOMAIN transcript' = 1..2
        /\ Len(transcript') = 2 /\ transcript'[1] = a /\ transcript'[2] = b
    BY <2>3, <2>4
  <2>6. ClientData' = {}
    BY <2>3, <2>5 DEF ClientData
  <2>7. Sections' \in Nat /\ Sections' >= 1
    <3>1. Cuts' \in Seq(Slices)
      <4>1. Redactions \subseteq Seq(Slices)
        BY ClaimAssumption DEF ClaimAssumption, Slices
      <4>2. <<>> \in Seq(Slices)
        OBVIOUS
      <4>. QED
        BY <1>3, <4>1, <4>2 DEF Cuts
    <3>2. Len(Cuts') \in Nat
      BY <3>1
    <3>. QED
      BY <3>2 DEF Sections
  <2>8. TypeOK'
    <3>1. revealMap' \in [{"complete", "zk"} -> SUBSET DOMAIN transcript']
      BY <2>1
    <3>2. before' \in 0..Len(transcript') /\ todo' \in 0..Size
      BY <2>1, <2>2, <2>5
    <3>3. section' \in 1..Sections'
      BY <2>1, <2>7
    <3>4. /\ lastMsgRevealed' \in BOOLEAN /\ tlsOpen' \in BOOLEAN
          /\ resDone' \in BOOLEAN /\ writeFailed' \in BOOLEAN /\ crossed' \in BOOLEAN
      BY <1>1, <1>3, <2>1 DEF TypeOK
    <3>5. retries' \in 0..maxRetries /\ result' \in {"pending", "claim", "error"}
      BY <1>1, <1>3 DEF TypeOK
    <3>. QED
      BY <1>3, <2>5, <3>1, <3>2, <3>3, <3>4, <3>5 DEF TypeOK
  <2>9. AttemptOK'
    BY <1>1, <1>3 DEF AttemptOK
  <2>10. KeysOrdered'
    BY <1>3, <2>3, <2>5 DEF KeysOrdered
  <2>11. KeysOfOneKind' /\ CurrentKey' /\ SectionRecords'
    BY <1>3, <2>6 DEF KeysOfOneKind, CurrentKey, SectionRecords
  <2>12. Progress'
    <3>1. From(section)' = 0
      BY <2>1 DEF From
    <3>2. WrittenTo(From(section))'
      BY <2>6, <3>1 DEF WrittenTo
    <3>. QED
      BY <1>3, <3>2 DEF Progress, Written
  <2>13. Marks' /\ ClaimHides'
    BY <1>3, <2>1, <2>6 DEF Marks, ClaimHides, Written
  <2>. QED
    BY <2>8, <2>9, <2>10, <2>11, <2>12, <2>13 DEF IInv
<1>. QED
  BY <1>2, <1>3 DEF StartRequest

(* Steps that leave the transcript and the keys alone. *)
LEMMA QuietStep ==
  ASSUME IInv, UNCHANGED <<transcript, redactions, mode, key>>
  PROVE  /\ KeysOrdered' /\ KeysOfOneKind'
         /\ \A i \in ClientData' : transcript'[i].key = key' /\ mode' = "key-update" =>
              /\ pc = "section" => (Redacted(i)' <=> ~lastMsgRevealed)
              /\ pc # "updated"
              /\ pc = "writing" => (Redacted(i)' <=> ~Revealed(section))
<1>1. ClientData' = ClientData /\ \A i : Redacted(i)' <=> Redacted(i)
  BY SameTranscript
<1>. QED
  BY <1>1 DEF IInv, KeysOrdered, KeysOfOneKind, CurrentKey

LEMMA SkipEmptyStep ==
  ASSUME IInv, SkipEmpty
  PROVE  IInv'
<1>. USE DEF retryVars, requestVars, sessionVars, history
<1>1. /\ pc = "section" /\ NothingToWrite /\ TypeOK
      /\ UNCHANGED <<retries, result, mode, redactions, todo, before, key,
                     lastMsgRevealed, transcript, revealMap, tlsOpen, ended, resDone,
                     writeFailed, crossed>>
      /\ \/ section = Sections /\ pc' = "waiting" /\ section' = section
         \/ section # Sections /\ pc' = "section" /\ section' = section + 1
  BY DEF SkipEmpty, IInv
<1>2. ClientData' = ClientData /\ \A i : Redacted(i)' <=> Redacted(i)
  BY <1>1, SameTranscript
<1>3. /\ Sections' = Sections /\ From(section)' = From(section')
  BY <1>1, SameSections
<1>4. /\ section \in 1..Sections /\ Sections \in Nat
      /\ section # Sections => section < Sections
  <2>1. Sections \in Nat
    BY CutFacts DEF Sections, TypeOK, IInv
  <2>. QED
    BY <1>1, <2>1 DEF TypeOK
<1>5. /\ section # Sections => section + 1 \in 1..Sections /\ From(section + 1) = To(section)
      /\ section = Sections => To(section) = Size
      /\ From(section) = To(section)
  BY <1>1, <1>4, SectionFacts DEF NothingToWrite
<1>6. TypeOK'
  <2>1. section' \in 1..Sections'
    BY <1>1, <1>3, <1>4, <1>5
  <2>2. pc' \in {"section", "waiting"}
    BY <1>1
  <2>. QED
    BY <1>1, <2>1, <2>2 DEF TypeOK
<1>7. AttemptOK'
  BY <1>1 DEF IInv, AttemptOK
<1>8. KeysOrdered' /\ KeysOfOneKind' /\ CurrentKey'
  BY <1>1, QuietStep DEF CurrentKey
<1>9. Progress'
  <2>1. WrittenTo(From(section))
    BY <1>1 DEF IInv, Progress
  <2>2. CASE section = Sections
    <3>1. WrittenTo(Size)'
      BY <1>1, <1>2, <1>5, <2>1, <2>2 DEF WrittenTo
    <3>. QED
      BY <1>1, <2>2, <3>1 DEF Progress, Written
  <2>3. CASE section # Sections
    <3>1. From(section)' = From(section)
      BY <1>1, <1>3, <1>5, <2>3
    <3>2. WrittenTo(From(section))'
      BY <1>1, <1>2, <2>1, <3>1 DEF WrittenTo
    <3>. QED
      BY <1>1, <2>3, <3>2 DEF Progress, Written
  <2>. QED
    BY <2>2, <2>3
<1>10. SectionRecords' /\ ClaimHides'
  BY <1>1 DEF SectionRecords, ClaimHides
<1>11. Marks'
  BY <1>1, <1>2 DEF IInv, Marks, Shown, Written, BeforeReveal
<1>. QED
  BY <1>6, <1>7, <1>8, <1>9, <1>10, <1>11 DEF IInv

(* The client sends a key update. *)
LEMMA UpdateTrafficKeysStep ==
  ASSUME IInv, UpdateTrafficKeys
  PROVE  IInv'
<1>. USE DEF retryVars, requestVars, sessionVars, history
<1>. DEFINE p == Packet("client", "handshake", key, 0, 0)
            L == Len(transcript)
<1>1. /\ pc = "section" /\ ~NothingToWrite /\ TypeOK
      /\ transcript' = Append(transcript, p) /\ key' = key + 1 /\ pc' = "updated"
      /\ UNCHANGED <<retries, result, mode, redactions, section, todo, before,
                     lastMsgRevealed, revealMap, tlsOpen, ended, resDone,
                     writeFailed, crossed>>
  BY DEF UpdateTrafficKeys, IInv
<1>2. p \in Records /\ p.sender = "client" /\ p.type = "handshake" /\ p.key = key
  BY <1>1, ClaimAssumption DEF Packet, Records, TypeOK, ClaimAssumption
<1>. HIDE DEF p
<1>3. /\ L \in Nat /\ Len(transcript') = L + 1
      /\ DOMAIN transcript = 1..L /\ DOMAIN transcript' = 1..L + 1
      /\ \A i \in 1..L : transcript'[i] = transcript[i]
      /\ transcript'[L + 1] = p /\ transcript' \in Seq(Records)
  BY <1>1, <1>2, Appended
<1>4. /\ ClientData' = ClientData
      /\ \A i \in ClientData : transcript'[i] = transcript[i]
      /\ \A i \in ClientData : Redacted(i)' <=> Redacted(i)
  BY <1>1, <1>2, Appended
<1>5. /\ Sections' = Sections /\ From(section)' = From(section)
      /\ NothingToWrite' <=> NothingToWrite
  BY <1>1, SameSections DEF NothingToWrite
<1>6. TypeOK'
  <2>1. before' \in 0..Len(transcript')
    BY <1>1, <1>3 DEF TypeOK
  <2>2. revealMap' \in [{"complete", "zk"} -> SUBSET DOMAIN transcript']
    BY <1>1, <1>3 DEF TypeOK
  <2>3. key' \in Nat /\ section' \in 1..Sections' /\ todo' \in 0..Size
    BY <1>1, <1>5 DEF TypeOK
  <2>. QED
    BY <1>1, <1>3, <2>1, <2>2, <2>3 DEF TypeOK
<1>7. AttemptOK'
  BY <1>1 DEF IInv, AttemptOK
<1>. HIDE DEF L
<1>8. KeysOrdered'
  <2>1. \A i \in 1..L : transcript[i].key \in Nat
    BY <1>1, RecordFields DEF L
  <2>2. key \in Nat
    BY <1>1 DEF TypeOK
  <2>. QED
    BY <1>1, <1>2, <1>3, <2>1, <2>2 DEF IInv, KeysOrdered
<1>9. KeysOfOneKind'
  BY <1>1, <1>4 DEF IInv, KeysOfOneKind
<1>10. CurrentKey'
  <2>1. ASSUME NEW i \in ClientData PROVE transcript[i].key # key + 1
    <3>1. i \in DOMAIN transcript /\ transcript[i].sender = "client"
      BY DEF ClientData
    <3>2. transcript[i].key \in Nat /\ key \in Nat
      BY <1>1, ClientDataFacts DEF TypeOK
    <3>. QED
      BY <3>1, <3>2 DEF IInv, KeysOrdered
  <2>. QED
    BY <1>1, <1>4, <2>1 DEF CurrentKey
<1>11. Progress'
  <2>1. WrittenTo(From(section))
    BY <1>1 DEF IInv, Progress
  <2>2. WrittenTo(From(section))'
    BY <1>4, <1>5, <2>1 DEF WrittenTo
  <2>. QED
    BY <1>1, <1>5, <2>2 DEF Progress, Written
<1>12. SectionRecords' /\ ClaimHides'
  BY <1>1 DEF SectionRecords, ClaimHides
<1>13. Marks'
  BY <1>1, <1>4 DEF IInv, Marks, Shown, Written, BeforeReveal
<1>. QED
  BY <1>6, <1>7, <1>8, <1>9, <1>10, <1>11, <1>12, <1>13 DEF IInv

LEMMA BeginWriteStep ==
  ASSUME IInv, BeginWrite
  PROVE  IInv'
<1>. USE DEF retryVars, requestVars, sessionVars, history
<1>1. /\ \/ pc = "updated"
         \/ pc = "section" /\ ~NothingToWrite /\ ~NeedsKeyUpdate
      /\ before' = Len(transcript) /\ todo' = From(section) /\ pc' = "writing"
      /\ UNCHANGED <<retries, result, mode, redactions, section, key, transcript,
                     lastMsgRevealed, revealMap, tlsOpen, ended, resDone,
                     writeFailed, crossed>>
      /\ TypeOK
  BY DEF BeginWrite, IInv
<1>2. ClientData' = ClientData /\ \A i : Redacted(i)' <=> Redacted(i)
  BY <1>1, SameTranscript
<1>3. /\ Sections' = Sections /\ From(section)' = From(section)
      /\ To(section)' = To(section) /\ (Revealed(section)' <=> Revealed(section))
      /\ NothingToWrite' <=> NothingToWrite
  BY <1>1, SameSections DEF NothingToWrite
<1>4. /\ section \in 1..Sections /\ From(section) \in 0..Size /\ To(section) \in 0..Size
      /\ From(section) <= To(section) /\ Size \in Nat /\ Len(transcript) \in Nat
  BY <1>1, SectionFacts, ClaimAssumption DEF TypeOK, ClaimAssumption
<1>5. TypeOK'
  <2>1. before' \in 0..Len(transcript') /\ todo' \in 0..Size /\ section' \in 1..Sections'
    BY <1>1, <1>3, <1>4
  <2>. QED
    BY <1>1, <2>1 DEF TypeOK
<1>6. AttemptOK'
  BY <1>1 DEF IInv, AttemptOK
<1>7. KeysOrdered' /\ KeysOfOneKind'
  BY <1>1, QuietStep
<1>8. CurrentKey'
  <2>. SUFFICES ASSUME mode = "key-update", NEW i \in ClientData, transcript[i].key = key
                PROVE  Redacted(i) <=> ~Revealed(section)
    BY <1>1, <1>2, <1>3 DEF CurrentKey
  <2>1. /\ pc = "section" => (Redacted(i) <=> ~lastMsgRevealed)
        /\ pc # "updated"
    BY DEF IInv, CurrentKey
  <2>2. pc = "section" /\ Revealed(section) = lastMsgRevealed
    BY <1>1, <2>1 DEF NeedsKeyUpdate
  <2>. QED
    BY <2>1, <2>2
<1>9. Progress'
  <2>1. WrittenTo(From(section)) /\ ~NothingToWrite
    BY <1>1 DEF IInv, Progress
  <2>2. todo' = From(section)' /\ todo' \in From(section)'..To(section)'
    BY <1>1, <1>3, <1>4
  <2>3. WrittenTo(todo)'
    BY <1>1, <1>2, <2>1 DEF WrittenTo
  <2>4. ~(From(section)' < todo')
    BY <1>1, <1>3, <1>4
  <2>. QED
    BY <1>1, <1>3, <2>1, <2>2, <2>3, <2>4 DEF Progress, Written
<1>10. SectionRecords' /\ ClaimHides'
  BY <1>1, <1>4 DEF SectionRecords, ClaimHides
<1>11. Marks'
  BY <1>1, <1>2 DEF IInv, Marks, Shown, Written, BeforeReveal
<1>. QED
  BY <1>5, <1>6, <1>7, <1>8, <1>9, <1>10, <1>11 DEF IInv

LEMMA WriteRecordStep ==
  ASSUME IInv, WriteRecord
  PROVE  IInv'
<1>. USE DEF retryVars, requestVars, sessionVars, history
<1>. DEFINE to == IF todo + RecordSize < To(section)
                  THEN todo + RecordSize ELSE To(section)
            p == Packet("client", "data", key, todo, to)
<1>1. /\ pc = "writing" /\ todo < To(section) /\ TypeOK
      /\ transcript' = Append(transcript, p) /\ todo' = to
      /\ UNCHANGED <<retries, result, pc, mode, redactions, section, before, key,
                     lastMsgRevealed, revealMap, tlsOpen, ended, resDone,
                     writeFailed, crossed>>
  BY DEF WriteRecord, IInv
<1>2. /\ section \in 1..Sections /\ From(section) \in 0..Size /\ To(section) \in 0..Size
      /\ Size \in Nat /\ RecordSize \in Nat \ {0} /\ key \in Nat
  BY <1>1, SectionFacts, ClaimAssumption DEF TypeOK, ClaimAssumption
<1>3. todo \in From(section)..To(section) /\ ~NothingToWrite /\ WrittenTo(todo)
  BY <1>1 DEF IInv, Progress
<1>4. /\ to \in 0..Size /\ todo < to /\ to <= To(section)
      /\ todo \in 0..Size /\ From(section) <= todo
  BY <1>1, <1>2, <1>3
<1>. HIDE DEF to
<1>5. /\ p \in Records /\ p.sender = "client" /\ p.type = "data" /\ p.key = key
      /\ p.from = todo /\ p.to = to
  BY <1>2, <1>4 DEF Packet, Records
<1>. HIDE DEF p
<1>6. PICK L : L = Len(transcript)
  OBVIOUS
<1>7. PICK e : e = to
  OBVIOUS
<1>8. /\ L \in Nat /\ Len(transcript') = L + 1
      /\ DOMAIN transcript = 1..L /\ DOMAIN transcript' = 1..L + 1
      /\ \A i \in 1..L : transcript'[i] = transcript[i]
      /\ transcript'[L + 1] = p /\ transcript' \in Seq(Records)
  BY <1>1, <1>5, <1>6, Appended
<1>9. /\ ClientData' = ClientData \cup {L + 1}
      /\ \A i \in ClientData : transcript'[i] = transcript[i]
      /\ \A i \in ClientData : Redacted(i)' <=> Redacted(i)
  BY <1>1, <1>5, <1>6, Appended
<1>10. /\ Sections' = Sections /\ From(section)' = From(section)
       /\ To(section)' = To(section) /\ (Revealed(section)' <=> Revealed(section))
       /\ NothingToWrite' <=> NothingToWrite
  BY <1>1, SameSections DEF NothingToWrite
<1>11. mode = "key-update" => (Redacted(L + 1)' <=> ~Revealed(section))
  <2>1. mode = "key-update" =>
          ((\E j \in DOMAIN redactions :
              todo < redactions[j].toIndex /\ redactions[j].fromIndex < to)
           <=> ~Revealed(section))
    BY <1>1, <1>2, <1>4, SectionKind
  <2>. QED
    BY <1>1, <1>5, <1>8, <2>1 DEF Redacted
<1>12. TypeOK'
  <2>1. before' \in 0..Len(transcript')
    BY <1>1, <1>6, <1>8 DEF TypeOK
  <2>2. revealMap' \in [{"complete", "zk"} -> SUBSET DOMAIN transcript']
    BY <1>1, <1>6, <1>8 DEF TypeOK
  <2>3. section' \in 1..Sections' /\ todo' \in 0..Size
    <3>1. todo' \in 0..Size
      BY <1>1, <1>4
    <3>2. section' \in 1..Sections'
      BY <1>1, <1>2, <1>10
    <3>. QED
      BY <3>1, <3>2
  <2>. QED
    BY <1>1, <1>8, <2>1, <2>2, <2>3 DEF TypeOK
<1>13. AttemptOK'
  BY <1>1 DEF IInv, AttemptOK
<1>14. \A i \in ClientData : i \in 1..L /\ i \in Nat
  BY <1>1, <1>6, ClientDataFacts
<1>15. KeysOrdered'
  <2>1. \A i \in 1..L : transcript[i].key \in Nat
    BY <1>1, <1>6, RecordFields
  <2>. QED
    BY <1>1, <1>2, <1>5, <1>8, <2>1 DEF IInv, KeysOrdered
<1>16. CurrentKey'
  BY <1>1, <1>9, <1>10, <1>11 DEF IInv, CurrentKey
<1>17. KeysOfOneKind'
  <2>. SUFFICES ASSUME mode = "key-update", NEW i \in ClientData', NEW j \in ClientData',
                       transcript'[i].key = transcript'[j].key
                PROVE  Redacted(i)' <=> Redacted(j)'
    BY <1>1 DEF KeysOfOneKind
  <2>1. CASE i \in ClientData /\ j \in ClientData
    BY <1>9, <2>1 DEF IInv, KeysOfOneKind
  <2>2. \A k \in ClientData' : transcript'[k].key = key => (Redacted(k)' <=> ~Revealed(section))
    BY <1>1, <1>10, <1>16 DEF CurrentKey
  <2>3. CASE i = L + 1 \/ j = L + 1
    BY <1>5, <1>8, <2>2, <2>3
  <2>. QED
    BY <1>9, <2>1, <2>3
<1>18. Progress'
  <2>1. todo' \in From(section)'..To(section)'
    <3>1. todo' = e /\ From(section)' = From(section) /\ To(section)' = To(section)
      BY <1>1, <1>7, <1>10
    <3>2. e \in From(section)..To(section)
      BY <1>2, <1>4, <1>7
    <3>. QED
      BY <3>1, <3>2
  <2>2. before' < Len(transcript')
    BY <1>1, <1>6, <1>8 DEF TypeOK
  <2>3. WrittenTo(e)'
    <3>. DEFINE t == transcript'
    <3>1. ASSUME NEW i \in ClientData' PROVE t[i].from < t[i].to /\ t[i].to <= e
      <4>1. CASE i \in ClientData
        <5>1. /\ transcript[i].from < transcript[i].to /\ transcript[i].to <= todo
              /\ transcript[i].to \in 0..Size
          BY <1>1, <1>3, <4>1, ClientDataFacts DEF WrittenTo
        <5>. QED
          BY <1>2, <1>4, <1>7, <1>9, <4>1, <5>1
      <4>2. CASE i = L + 1
        BY <1>2, <1>4, <1>7, <1>5, <1>8, <4>2
      <4>. QED
        BY <1>9, <4>1, <4>2
    <3>2. ASSUME NEW i \in ClientData', NEW j \in ClientData', i < j
          PROVE  t[i].to <= t[j].from
      <4>1. i \in ClientData
        BY <1>8, <1>9, <1>14, <3>2
      <4>2. CASE j \in ClientData
        BY <1>3, <1>9, <3>2, <4>1, <4>2 DEF WrittenTo
      <4>3. CASE j = L + 1
        <5>1. transcript[i].to <= todo
          BY <1>3, <4>1 DEF WrittenTo
        <5>. QED
          BY <1>7, <1>5, <1>8, <1>9, <4>1, <4>3, <5>1
      <4>. QED
        BY <1>9, <4>2, <4>3
    <3>3. ASSUME NEW x \in 0..e-1
          PROVE  \E i \in ClientData' : t[i].from <= x /\ x < t[i].to
      <4>1. CASE x < todo
        <5>1. x \in 0..todo-1
          BY <1>2, <1>4, <1>7, <4>1
        <5>2. PICK i \in ClientData : transcript[i].from <= x /\ x < transcript[i].to
          BY <1>3, <5>1 DEF WrittenTo
        <5>. QED
          BY <1>9, <5>2
      <4>2. CASE ~(x < todo)
        <5>1. todo <= x /\ x < e
          BY <1>2, <1>4, <1>7, <4>2
        <5>. QED
          BY <1>7, <1>5, <1>8, <1>9, <5>1
      <4>. QED
        BY <4>1, <4>2
    <3>. QED
      BY <3>1, <3>2, <3>3 DEF WrittenTo
  <2>4. WrittenTo(todo)'
    BY <1>1, <1>7, <2>3 DEF WrittenTo
  <2>5. pc' = "writing" /\ ~NothingToWrite'
    BY <1>1, <1>3, <1>10
  <2>. QED
    BY <2>1, <2>2, <2>4, <2>5 DEF Progress, Written
<1>19. SectionRecords'
  <2>. SUFFICES ASSUME ~crossed, NEW i \in (before + 1)..(L + 1)
                PROVE  /\ i \in ClientData'
                       /\ mode = "key-update" => (Redacted(i)' <=> ~Revealed(section))
    BY <1>1, <1>8, <1>10 DEF SectionRecords
  <2>1. CASE i = L + 1
    BY <1>9, <1>11, <2>1
  <2>2. CASE i \in (before + 1)..L
    BY <1>1, <1>6, <1>9, <2>2 DEF IInv, SectionRecords
  <2>3. before \in Nat
    BY <1>1 DEF TypeOK
  <2>. QED
    BY <1>8, <2>1, <2>2, <2>3
<1>20. Marks'
  <2>1. ~(L + 1 <= before)
    BY <1>1, <1>6, <1>8 DEF TypeOK
  <2>. QED
    BY <1>1, <1>9, <2>1 DEF IInv, Marks, Shown, Written, BeforeReveal
<1>21. ClaimHides'
  BY <1>1 DEF ClaimHides
<1>. QED
  BY <1>12, <1>13, <1>15, <1>16, <1>17, <1>18, <1>19, <1>20, <1>21 DEF IInv

(* The section's records get its reveal, and no other record loses or gets *)
(* one.                                                                    *)
LEMMA MarkSection ==
  ASSUME IInv, EndWrite, ~crossed
  PROVE  /\ mode = "key-update" =>
              \A i \in revealMap'.complete : i \in ClientData /\ ~Redacted(i)
         /\ \A i \in ClientData :
              IF mode = "zk" THEN i \in revealMap'.zk
              ELSE Redacted(i) \/ i \in revealMap'.complete
<1>. DEFINE n == Len(transcript) - before
            B == LastBlocks("client", n)
            reveal == IF Revealed(section) THEN "complete" ELSE "none"
            kind == IF mode = "zk" THEN "zk" ELSE reveal
<1>1. /\ pc = "writing" /\ todo >= To(section) /\ TypeOK
      /\ revealMap' = [k \in {"complete", "zk"} |->
                         IF k = kind THEN revealMap[k] \cup B ELSE revealMap[k] \ B]
  BY DEF EndWrite, Mark, IInv
<1>2. /\ revealMap'.complete = IF kind = "complete" THEN revealMap.complete \cup B
                               ELSE revealMap.complete \ B
      /\ revealMap'.zk = IF kind = "zk" THEN revealMap.zk \cup B ELSE revealMap.zk \ B
  BY <1>1
<1>. HIDE DEF B, kind
<1>3. /\ mode = "key-update" =>
           \A i \in revealMap.complete : i \in ClientData /\ ~Redacted(i)
      /\ \A i \in ClientData : i <= before => Shown(i)
  BY <1>1 DEF IInv, Marks, BeforeReveal
<1>4. /\ section \in 1..Sections /\ mode \in {"key-update", "zk"}
      /\ Len(transcript) \in Nat /\ before \in 0..Len(transcript)
  BY <1>1 DEF TypeOK
<1>5. /\ todo \in From(section)..To(section) /\ ~NothingToWrite /\ WrittenTo(todo)
      /\ From(section) < todo => before < Len(transcript)
  BY <1>1 DEF IInv, Progress
<1>6. /\ From(section) \in 0..Size /\ To(section) \in 0..Size
      /\ From(section) <= To(section) /\ Size \in Nat \ {0}
      /\ section = Sections => To(section) = Size
      /\ section = 1 => From(section) = 0
      /\ ~Revealed(section) => From(section) < To(section) \/ To(section) = 0
  BY <1>1, <1>4, SectionFacts, ClaimAssumption DEF ClaimAssumption
<1>7. CASE before < Len(transcript)
  <2>1. \A i \in (before + 1)..Len(transcript) :
          /\ i \in ClientData
          /\ mode = "key-update" => (Redacted(i) <=> ~Revealed(section))
    BY <1>1 DEF IInv, SectionRecords
  <2>2. B = (before + 1)..Len(transcript)
    <3>1. \A i \in (before + 1)..Len(transcript) : transcript[i].sender = "client"
      BY <2>1 DEF ClientData
    <3>. QED
      BY <1>1, <1>7, <3>1, LastBlocksOfSection DEF B
  <2>3. \A i \in ClientData : i \in Nat /\ (i \in B <=> ~(i <= before))
    <3>1. \A i \in ClientData : i \in 1..Len(transcript)
      BY <1>1, ClientDataFacts
    <3>. QED
      BY <1>4, <2>2, <3>1
  <2>4. CASE mode = "zk"
    <3>1. kind = "zk"
      BY <2>4 DEF kind
    <3>. QED
      BY <1>2, <1>3, <2>3, <2>4, <3>1 DEF Shown
  <2>5. CASE mode = "key-update" /\ Revealed(section)
    <3>1. kind = "complete"
      BY <2>5 DEF kind
    <3>. QED
      BY <1>2, <1>3, <2>1, <2>2, <2>3, <2>5, <3>1 DEF Shown
  <2>6. CASE mode = "key-update" /\ ~Revealed(section)
    <3>1. kind = "none"
      BY <2>6 DEF kind
    <3>. QED
      BY <1>2, <1>3, <2>1, <2>2, <2>3, <2>6, <3>1 DEF Shown
  <2>. QED
    BY <1>4, <2>4, <2>5, <2>6
<1>8. CASE ~(before < Len(transcript))
  <2>1. From(section) = To(section) /\ todo = To(section)
    BY <1>1, <1>5, <1>6, <1>8
  <2>2. ~Revealed(section)
    BY <1>5, <2>1 DEF NothingToWrite
  <2>3. todo = 0
    BY <1>6, <2>1, <2>2
  <2>4. ClientData = {}
    <3>1. ASSUME NEW i \in ClientData PROVE FALSE
      <4>1. transcript[i].from < transcript[i].to /\ transcript[i].to <= 0
        BY <1>5, <2>3 DEF WrittenTo
      <4>. QED
        BY <1>1, <1>6, <4>1, ClientDataFacts
    <3>. QED
      BY <3>1
  <2>5. mode = "key-update" => revealMap'.complete \subseteq revealMap.complete
    <3>1. mode = "key-update" => kind = "none"
      BY <2>2 DEF kind
    <3>. QED
      BY <1>2, <3>1
  <2>. QED
    BY <1>3, <2>4, <2>5
<1>. QED
  BY <1>7, <1>8

LEMMA EndWriteStep ==
  ASSUME IInv, EndWrite
  PROVE  IInv'
<1>. USE DEF retryVars, requestVars, sessionVars, history
<1>1. /\ pc = "writing" /\ todo >= To(section) /\ TypeOK
      /\ lastMsgRevealed' = (mode = "key-update" /\ Revealed(section))
      /\ UNCHANGED <<retries, result, mode, redactions, todo, before, key, transcript,
                     tlsOpen, ended, resDone, writeFailed, crossed>>
      /\ \/ section = Sections /\ pc' = "waiting" /\ section' = section
         \/ section # Sections /\ pc' = "section" /\ section' = section + 1
  BY DEF EndWrite, IInv
<1>2. ClientData' = ClientData /\ \A i : Redacted(i)' <=> Redacted(i)
  BY <1>1, SameTranscript
<1>3. Sections' = Sections /\ From(section)' = From(section')
  BY <1>1, SameSections
<1>4. /\ section \in 1..Sections /\ Sections \in Nat
      /\ section # Sections => section < Sections
  <2>1. Sections \in Nat
    BY CutFacts DEF Sections, TypeOK, IInv
  <2>. QED
    BY <1>1, <2>1 DEF TypeOK
<1>5. /\ section # Sections => section + 1 \in 1..Sections /\ From(section + 1) = To(section)
      /\ section = Sections => To(section) = Size
      /\ To(section) \in 0..Size /\ From(section) \in 0..Size
  BY <1>1, <1>4, SectionFacts
<1>6. todo = To(section) /\ WrittenTo(todo)
  <2>1. todo \in From(section)..To(section) /\ WrittenTo(todo)
    BY <1>1 DEF IInv, Progress
  <2>. QED
    BY <1>1, <1>5, <2>1
<1>7. TypeOK'
  <2>1. section' \in 1..Sections'
    BY <1>1, <1>3, <1>4, <1>5
  <2>2. pc' \in {"section", "waiting"}
    BY <1>1
  <2>3. revealMap' \in [{"complete", "zk"} -> SUBSET DOMAIN transcript']
    <3>. DEFINE B == LastBlocks("client", Len(transcript) - before)
    <3>1. B \subseteq DOMAIN transcript
      BY <1>1 DEF LastBlocks, TypeOK
    <3>2. PICK kind : revealMap' = [k \in {"complete", "zk"} |->
                         IF k = kind THEN revealMap[k] \cup B ELSE revealMap[k] \ B]
      BY DEF EndWrite, Mark
    <3>. HIDE DEF B
    <3>. QED
      BY <1>1, <3>1, <3>2 DEF TypeOK
  <2>4. lastMsgRevealed' \in BOOLEAN
    BY <1>1
  <2>. QED
    BY <1>1, <2>1, <2>2, <2>3, <2>4 DEF TypeOK
<1>8. AttemptOK'
  BY <1>1 DEF IInv, AttemptOK
<1>9. KeysOrdered' /\ KeysOfOneKind' /\ CurrentKey'
  <2>1. /\ KeysOrdered' /\ KeysOfOneKind'
        /\ \A i \in ClientData' : transcript'[i].key = key' /\ mode' = "key-update" =>
             (Redacted(i)' <=> ~Revealed(section))
    BY <1>1, QuietStep
  <2>2. mode' = "key-update" => (lastMsgRevealed' <=> Revealed(section))
    BY <1>1
  <2>3. pc' # "updated" /\ pc' # "writing"
    BY <1>1
  <2>. QED
    BY <2>1, <2>2, <2>3 DEF CurrentKey
<1>10. Progress'
  <2>1. CASE section = Sections
    <3>1. WrittenTo(Size)'
      BY <1>1, <1>2, <1>5, <1>6, <2>1 DEF WrittenTo
    <3>. QED
      BY <1>1, <2>1, <3>1 DEF Progress, Written
  <2>2. CASE section # Sections
    <3>1. From(section)' = todo
      BY <1>1, <1>3, <1>5, <1>6, <2>2
    <3>2. WrittenTo(From(section))'
      BY <1>1, <1>2, <1>6, <3>1 DEF WrittenTo
    <3>. QED
      BY <1>1, <2>2, <3>2 DEF Progress, Written
  <2>. QED
    BY <2>1, <2>2
<1>11. SectionRecords' /\ ClaimHides'
  BY <1>1 DEF SectionRecords, ClaimHides
<1>12. Marks'
  <2>1. CASE ~crossed
    <3>1. mode' = "key-update" =>
            \A i \in revealMap'.complete : i \in ClientData' /\ ~Redacted(i)'
      BY <1>1, <1>2, <2>1, MarkSection
    <3>2. \A i \in ClientData' : Shown(i)'
      BY <1>1, <1>2, <2>1, MarkSection DEF Shown
    <3>. QED
      BY <1>1, <3>1, <3>2 DEF Marks
  <2>2. CASE crossed
    BY <1>1, <2>2 DEF Marks
  <2>. QED
    BY <2>1, <2>2
<1>. QED
  BY <1>7, <1>8, <1>9, <1>10, <1>11, <1>12 DEF IInv

(* The server's records are no data of the request. *)
LEMMA ServerRecordStep ==
  ASSUME IInv, ServerRecord
  PROVE  IInv'
<1>. USE DEF retryVars, requestVars, writeVars
<1>1. PICK type \in {"handshake", "data"}, complete \in BOOLEAN :
        /\ transcript' = Append(transcript, Packet("server", type, 1, 0, 0))
        /\ resDone' = (resDone \/ complete)
  BY DEF ServerRecord
<1>2. /\ pc \in {"section", "updated", "writing", "waiting"} /\ TypeOK
      /\ crossed' = (crossed \/ pc = "writing")
      /\ UNCHANGED <<retries, result, pc, mode, redactions, section, todo, before, key,
                     lastMsgRevealed, revealMap, tlsOpen, ended, writeFailed>>
  BY DEF ServerRecord, IInv
<1>3. PICK p : p = Packet("server", type, 1, 0, 0)
  OBVIOUS
<1>4. PICK L : L = Len(transcript)
  OBVIOUS
<1>5. p \in Records /\ p.sender = "server"
  BY <1>3, ClaimAssumption DEF Packet, Records, ClaimAssumption
<1>6. /\ L \in Nat /\ Len(transcript') = L + 1
      /\ DOMAIN transcript = 1..L /\ DOMAIN transcript' = 1..L + 1
      /\ \A i \in 1..L : transcript'[i] = transcript[i]
      /\ transcript'[L + 1] = p /\ transcript' \in Seq(Records)
  BY <1>1, <1>2, <1>3, <1>4, <1>5, Appended
<1>7. /\ ClientData' = ClientData
      /\ \A i \in ClientData : transcript'[i] = transcript[i]
      /\ \A i \in ClientData : Redacted(i)' <=> Redacted(i)
  BY <1>1, <1>2, <1>3, <1>5, Appended
<1>8. /\ Sections' = Sections /\ From(section)' = From(section)
      /\ To(section)' = To(section) /\ (Revealed(section)' <=> Revealed(section))
      /\ NothingToWrite' <=> NothingToWrite
  BY <1>2, SameSections DEF NothingToWrite
<1>9. TypeOK'
  <2>1. before' \in 0..Len(transcript')
    BY <1>2, <1>4, <1>6 DEF TypeOK
  <2>2. revealMap' \in [{"complete", "zk"} -> SUBSET DOMAIN transcript']
    BY <1>2, <1>6 DEF TypeOK
  <2>3. section' \in 1..Sections'
    BY <1>2, <1>8 DEF TypeOK
  <2>4. resDone' \in BOOLEAN /\ crossed' \in BOOLEAN
    BY <1>1, <1>2
  <2>. QED
    BY <1>2, <1>6, <2>1, <2>2, <2>3, <2>4 DEF TypeOK
<1>10. AttemptOK'
  BY <1>2 DEF IInv, AttemptOK
<1>11. KeysOrdered'
  BY <1>2, <1>5, <1>6 DEF IInv, KeysOrdered
<1>12. KeysOfOneKind' /\ CurrentKey'
  BY <1>2, <1>7, <1>8 DEF IInv, KeysOfOneKind, CurrentKey
<1>13. Progress'
  <2>1. WrittenTo(From(section)) => WrittenTo(From(section))'
    BY <1>7, <1>8 DEF WrittenTo
  <2>2. WrittenTo(todo) => WrittenTo(todo)'
    BY <1>2, <1>7 DEF WrittenTo
  <2>3. WrittenTo(Size) => WrittenTo(Size)'
    BY <1>7 DEF WrittenTo
  <2>4. before < Len(transcript) => before' < Len(transcript')
    BY <1>2, <1>4, <1>6 DEF TypeOK
  <2>. QED
    BY <1>2, <1>8, <2>1, <2>2, <2>3, <2>4 DEF IInv, Progress, Written
<1>14. SectionRecords' /\ ClaimHides'
  BY <1>2 DEF SectionRecords, ClaimHides
<1>15. Marks'
  BY <1>2, <1>7 DEF IInv, Marks, Shown, Written, BeforeReveal
<1>. QED
  BY <1>9, <1>10, <1>11, <1>12, <1>13, <1>14, <1>15 DEF IInv

(* The steps that only move the attempt on: none of them to a state in     *)
(* which it writes.                                                        *)
LEMMA MoveStep ==
  ASSUME IInv, TypeOK',
         UNCHANGED <<retries, mode, redactions, section, todo, before, key,
                     lastMsgRevealed, transcript, revealMap, crossed>>,
         \/ pc' = pc /\ UNCHANGED writeFailed
         \/ pc \in BeforeReveal /\ pc' = "waiting" /\ writeFailed' = TRUE
         \/ pc = "waiting" /\ pc' = "revealing" /\ UNCHANGED writeFailed
         \/ pc = "claiming" /\ pc' = "done" /\ UNCHANGED writeFailed
  PROVE  IInv'
<1>1. ClientData' = ClientData /\ \A i : Redacted(i)' <=> Redacted(i)
  BY SameTranscript
<1>2. /\ From(section)' = From(section)
      /\ To(section)' = To(section) /\ (Revealed(section)' <=> Revealed(section))
      /\ NothingToWrite' <=> NothingToWrite
  BY SameSections DEF NothingToWrite
<1>3. AttemptOK'
  BY DEF IInv, AttemptOK, BeforeReveal
<1>4. KeysOrdered' /\ KeysOfOneKind' /\ CurrentKey'
  BY <1>1, <1>2, QuietStep DEF CurrentKey
<1>5. Progress'
  <2>1. WrittenTo(From(section)) => WrittenTo(From(section))'
    BY <1>1, <1>2 DEF WrittenTo
  <2>2. WrittenTo(todo) => WrittenTo(todo)'
    BY <1>1 DEF WrittenTo
  <2>3. WrittenTo(Size) => WrittenTo(Size)'
    BY <1>1 DEF WrittenTo
  <2>. QED
    BY <1>2, <2>1, <2>2, <2>3 DEF IInv, Progress, Written
<1>6. SectionRecords'
  BY <1>1, <1>2 DEF IInv, SectionRecords
<1>7. Marks'
  BY <1>1 DEF IInv, Marks, Shown, Written, BeforeReveal
<1>8. ClaimHides'
  <2>1. KeysRevealed' = KeysRevealed
    BY DEF KeysRevealed
  <2>2. HiddenUnlessCrossed => HiddenUnlessCrossed'
    BY <1>1, <2>1 DEF HiddenUnlessCrossed, RedactedKeysHidden
  <2>. QED
    BY <2>2 DEF IInv, ClaimHides
<1>. QED
  BY <1>3, <1>4, <1>5, <1>6, <1>7, <1>8 DEF IInv

LEMMA QuietActions ==
  ASSUME IInv, WriteFails \/ ResponseTimer \/ TlsClosed \/ WaitDone \/ ClaimTunnel
  PROVE  IInv'
<1>. USE DEF retryVars, requestVars, writeVars, sessionVars, history
<1>1. TypeOK
  BY DEF IInv
<1>2. UNCHANGED <<mode, redactions>> => Sections' = Sections
  BY SameSections
<1>3. CASE WriteFails
  <2>1. TypeOK'
    BY <1>1, <1>2, <1>3 DEF WriteFails, TypeOK
  <2>. QED
    BY <1>3, <2>1, MoveStep DEF WriteFails, BeforeReveal
<1>4. CASE ResponseTimer
  <2>1. TypeOK'
    BY <1>1, <1>2, <1>4 DEF ResponseTimer, EndedHttpRequest, TypeOK
  <2>. QED
    BY <1>4, <2>1, MoveStep DEF ResponseTimer
<1>5. CASE TlsClosed
  <2>1. CASE pc = "connecting" /\ Fail
    BY <2>1, FailStep
  <2>2. CASE ~(pc = "connecting" /\ Fail)
    <3>1. TypeOK'
      <4>1. ended' \in {"unset", "pending", "ok", "err"} /\ tlsOpen' = FALSE
        BY <1>1, <1>5, <2>2 DEF TlsClosed, EndedHttpRequest, TypeOK
      <4>2. UNCHANGED <<retries, result, pc, mode, redactions, section, todo, before, key,
                        lastMsgRevealed, transcript, revealMap, resDone,
                        writeFailed, crossed>>
        BY <1>5, <2>2 DEF TlsClosed
      <4>. QED
        BY <1>1, <1>2, <4>1, <4>2 DEF TypeOK
    <3>. QED
      BY <1>5, <2>2, <3>1, MoveStep DEF TlsClosed
  <2>. QED
    BY <2>1, <2>2
<1>6. CASE WaitDone
  <2>1. CASE Fail
    BY <1>6, <2>1, FailStep DEF WaitDone
  <2>2. CASE ~Fail
    <3>1. TypeOK'
      BY <1>1, <1>2, <1>6, <2>2 DEF WaitDone, TypeOK
    <3>. QED
      BY <1>6, <2>2, <3>1, MoveStep DEF WaitDone
  <2>. QED
    BY <2>1, <2>2
<1>7. CASE ClaimTunnel
  <2>1. CASE Fail
    BY <1>7, <2>1, FailStep DEF ClaimTunnel
  <2>2. CASE ~Fail
    <3>1. TypeOK'
      BY <1>1, <1>2, <1>7, <2>2 DEF ClaimTunnel, TypeOK
    <3>. QED
      BY <1>7, <2>2, <3>1, MoveStep DEF ClaimTunnel
  <2>. QED
    BY <2>1, <2>2
<1>. QED
  BY <1>3, <1>4, <1>5, <1>6, <1>7

(* The server's records and the handshake are revealed: no client record   *)
(* among them is under a key that encrypts data.                           *)
LEMMA RevealStep ==
  ASSUME IInv, AddServerSideReveals
  PROVE  IInv'
<1>. USE DEF retryVars, requestVars, writeVars, sessionVars, history
<1>. DEFINE N         == DOMAIN transcript
            Server    == {i \in N : transcript[i].sender = "server"}
            Data      == {i \in Server : transcript[i].type = "data"}
            Handshake == {i \in N : \A j \in 1..i : transcript[j].type # "data"}
<1>1. pc = "revealing" /\ TypeOK
  BY DEF AddServerSideReveals, IInv
<1>2. CASE Fail
  BY <1>1, <1>2, FailStep
<1>3. ASSUME NEW C \in SUBSET (Server \cup Handshake), NEW Z \in SUBSET Data,
             revealMap' = [complete |-> revealMap.complete \cup C,
                           zk       |-> (revealMap.zk \cup Z) \ C],
             pc' = "claiming",
             UNCHANGED <<retries, result, mode, redactions, section, todo, before, key,
                         lastMsgRevealed, transcript, tlsOpen, ended, resDone,
                         writeFailed, crossed>>
      PROVE  IInv'
  <2>1. ClientData' = ClientData /\ \A i : Redacted(i)' <=> Redacted(i)
    BY <1>3, SameTranscript
  <2>2. /\ revealMap'.complete = revealMap.complete \cup C
        /\ revealMap'.zk = (revealMap.zk \cup Z) \ C
    BY <1>3
  <2>3. TypeOK'
    <3>1. Sections' = Sections
      BY <1>3, SameSections
    <3>2. C \subseteq N /\ Z \subseteq N
      OBVIOUS
    <3>3. revealMap.complete \subseteq N /\ revealMap.zk \subseteq N
      BY <1>1 DEF TypeOK
    <3>4. revealMap' \in [{"complete", "zk"} -> SUBSET DOMAIN transcript']
      BY <1>3, <3>2, <3>3
    <3>. QED
      BY <1>1, <1>3, <3>1, <3>4 DEF TypeOK
  <2>4. \A i \in ClientData : i \notin C
    <3>1. \A i \in ClientData : /\ i \in 1..i /\ transcript[i].sender = "client"
                                /\ transcript[i].type = "data"
      BY <1>1, ClientDataFacts
    <3>. QED
      BY <3>1
  <2>5. AttemptOK'
    BY <1>1, <1>3 DEF IInv, AttemptOK
  <2>6. KeysOrdered' /\ KeysOfOneKind' /\ CurrentKey'
    BY <1>3, QuietStep DEF CurrentKey
  <2>7. Progress'
    <3>1. WrittenTo(Size) => WrittenTo(Size)'
      BY <1>3, <2>1 DEF WrittenTo
    <3>. QED
      BY <1>1, <1>3, <3>1 DEF IInv, Progress, Written
  <2>8. SectionRecords'
    BY <1>3 DEF SectionRecords
  <2>9. Marks'
    <3>1. \A i \in ClientData : Shown(i) => Shown(i)'
      BY <1>3, <2>1, <2>2, <2>4 DEF Shown
    <3>. QED
      BY <1>1, <1>3, <2>1, <3>1 DEF IInv, Marks, Written, BeforeReveal
  <2>10. ClaimHides'
    <3>. SUFFICES ASSUME ~crossed, mode = "key-update", NEW i \in ClientData, Redacted(i),
                         NEW j \in revealMap'.complete, transcript[j].sender = "client"
                  PROVE  transcript[i].key # transcript[j].key
      BY <1>3, <2>1 DEF ClaimHides, HiddenUnlessCrossed, RedactedKeysHidden, KeysRevealed
    <3>1. CASE j \in revealMap.complete
      <4>1. j \in ClientData /\ ~Redacted(j)
        BY <1>1, <3>1 DEF IInv, Marks, BeforeReveal
      <4>. QED
        BY <4>1 DEF IInv, KeysOfOneKind
    <3>2. CASE j \in C
      <4>1. j \in N /\ \A k \in 1..j : transcript[k].type # "data"
        BY <3>2
      <4>2. j \in 1..Len(transcript) /\ i \in 1..Len(transcript) /\ i \in N
        BY <1>1, <4>1, ClientDataFacts DEF TypeOK
      <4>3. transcript[j].type = "handshake" /\ transcript[j].key \in Nat
        <5>1. j \in 1..j
          BY <4>2
        <5>. QED
          BY <1>1, <4>1, <4>2, <5>1, RecordFields
      <4>4. /\ transcript[i].type = "data" /\ transcript[i].sender = "client"
            /\ transcript[i].key \in Nat
        BY <1>1, ClientDataFacts
      <4>5. j < i
        <5>1. i \notin 1..j
          BY <4>1, <4>4
        <5>. QED
          BY <4>2, <5>1
      <4>6. transcript[j].key < transcript[i].key
        BY <4>1, <4>2, <4>3, <4>4, <4>5 DEF IInv, KeysOrdered
      <4>. QED
        BY <4>3, <4>4, <4>6
    <3>. QED
      BY <2>2, <3>1, <3>2
  <2>. QED
    BY <2>3, <2>5, <2>6, <2>7, <2>8, <2>9, <2>10 DEF IInv
<1>4. \/ Fail
      \/ \E C \in SUBSET (Server \cup Handshake), Z \in SUBSET Data :
           /\ revealMap' = [complete |-> revealMap.complete \cup C,
                            zk       |-> (revealMap.zk \cup Z) \ C]
           /\ pc' = "claiming"
           /\ UNCHANGED <<retryVars, requestVars, writeVars, transcript,
                          sessionVars, history>>
  <2>. DEFINE Goal == \E C \in SUBSET (Server \cup Handshake), Z \in SUBSET Data :
                /\ revealMap' = [complete |-> revealMap.complete \cup C,
                                 zk       |-> (revealMap.zk \cup Z) \ C]
                /\ pc' = "claiming"
                /\ UNCHANGED <<retryVars, requestVars, writeVars, transcript,
                               sessionVars, history>>
              Set(complete, zk) ==
                /\ revealMap' = [complete |-> revealMap.complete \cup complete,
                                 zk       |-> (revealMap.zk \cup zk) \ complete]
                /\ pc' = "claiming"
                /\ UNCHANGED <<retryVars, requestVars, writeVars, transcript,
                               sessionVars, history>>
  <2>1. \/ Set(Server \cup Handshake, {}) \/ Fail
        \/ \E zk \in SUBSET Data : Set(Handshake, zk)
    BY DEF AddServerSideReveals
  <2>2. Set(Server \cup Handshake, {}) => Goal
    <3>1. {} \in SUBSET Data /\ Server \cup Handshake \in SUBSET (Server \cup Handshake)
      OBVIOUS
    <3>. HIDE DEF Server, Handshake, Data
    <3>. QED
      BY <3>1
  <2>3. ASSUME NEW zk \in SUBSET Data, Set(Handshake, zk) PROVE Goal
    <3>1. Handshake \in SUBSET (Server \cup Handshake)
      OBVIOUS
    <3>. HIDE DEF Server, Handshake, Data
    <3>. QED
      BY <2>3, <3>1
  <2>. QED
    BY <2>1, <2>2, <2>3
<1>. HIDE DEF Server, Handshake, Data
<1>. QED
  BY <1>2, <1>3, <1>4
----------------------------------------------------------------------------
LEMMA InitIInv == Init => IInv
<1>. SUFFICES ASSUME Init PROVE IInv
  OBVIOUS
<1>1. Fresh
  BY ClaimAssumption DEF Init, Fresh, ClaimAssumption
<1>. QED
  BY <1>1, FreshIInv

LEMMA NextIInv == IInv /\ [Next]_vars => IInv'
<1>. SUFFICES ASSUME IInv, [Next]_vars PROVE IInv'
  OBVIOUS
<1>1. CASE UNCHANGED vars
  <2>1. UNCHANGED <<retries, result, pc, mode, redactions, section, todo, before, key,
                    lastMsgRevealed, transcript, revealMap, tlsOpen, ended, resDone,
                    writeFailed, crossed>>
    BY <1>1 DEF vars, retryVars, requestVars, writeVars, sessionVars, history
  <2>2. TypeOK'
    BY <2>1, SameSections DEF IInv, TypeOK
  <2>. QED
    BY <2>1, <2>2, MoveStep
<1>. QED
  BY <1>1, StartRequestStep, SkipEmptyStep, UpdateTrafficKeysStep, BeginWriteStep,
     WriteRecordStep, EndWriteStep, ServerRecordStep, QuietActions, RevealStep DEF Next
----------------------------------------------------------------------------
(* IInv, which says at each await of an attempt what was written, under    *)
(* which keys and with which reveal, holds in every reachable state.       *)
THEOREM ClaimInvariant == Spec => []IInv
BY InitIInv, NextIInv, PTL DEF Spec

(* Every variable keeps its type, and no more than maxRetries attempts are *)
(* made (utils/retries.ts).                                                *)
THEOREM ClaimTypeCorrect == Spec => []TypeOK
<1>1. IInv => TypeOK
  BY DEF IInv
<1>. QED
  BY <1>1, ClaimInvariant, PTL

(* No traffic key of a redacted part of the request is revealed, unless    *)
(* the server sent a record during a write: for every request, redaction   *)
(* and size of a record (create-claim.ts:358-376).                         *)
THEOREM RedactedKeysStayHidden == Spec => []HiddenUnlessCrossed
<1>1. IInv => HiddenUnlessCrossed
  <2>. SUFFICES ASSUME IInv, ~crossed, mode = "key-update", NEW i \in ClientData,
                       Redacted(i), NEW j \in revealMap.complete,
                       transcript[j].sender = "client"
                PROVE  transcript[i].key # transcript[j].key
    BY DEF HiddenUnlessCrossed, RedactedKeysHidden, KeysRevealed
  <2>1. CASE pc \in BeforeReveal
    <3>1. j \in ClientData /\ ~Redacted(j)
      BY <2>1 DEF IInv, Marks
    <3>. QED
      BY <3>1 DEF IInv, KeysOfOneKind
  <2>2. CASE pc \in {"claiming", "done"}
    BY <2>2 DEF IInv, ClaimHides, HiddenUnlessCrossed, RedactedKeysHidden, KeysRevealed
  <2>3. CASE pc = "connecting"
    BY <2>3 DEF IInv, AttemptOK, ClientData
  <2>. QED
    BY <2>1, <2>2, <2>3 DEF IInv, TypeOK, BeforeReveal
<1>. QED
  BY <1>1, ClaimInvariant, PTL

(* Everything public is revealed when the claim is requested, unless the   *)
(* server sent a record during a write or the write was given up           *)
(* (create-claim.ts:364-376).                                              *)
THEOREM PublicDataIsShown == Spec => []ShownUnlessCrossed
<1>1. IInv => ShownUnlessCrossed
  BY DEF IInv, Marks, Shown, Written, ShownUnlessCrossed
<1>. QED
  BY <1>1, ClaimInvariant, PTL

(* The request is sent whole, in order and without overlap: the sections   *)
(* writeRedactedWithKeyUpdate cuts it into tile it (create-claim.ts:319).  *)
THEOREM RequestIsWritten == Spec => []RequestWritten
<1>1. IInv => RequestWritten
  <2>. SUFFICES ASSUME IInv, pc \in Written, ~writeFailed
                PROVE  /\ UNION {transcript[i].from .. transcript[i].to - 1 : i \in ClientData}
                            = 0..Size - 1
                       /\ \A i, j \in ClientData :
                            i < j => transcript[i].to <= transcript[j].from
    BY DEF RequestWritten, Written
  <2>1. WrittenTo(Size) /\ TypeOK
    BY DEF IInv, Progress
  <2>2. Size \in Nat
    BY ClaimAssumption DEF ClaimAssumption
  <2>3. ASSUME NEW i \in ClientData, NEW x \in transcript[i].from .. transcript[i].to - 1
        PROVE  x \in 0..Size - 1
    BY <2>1, <2>2, <2>3, ClientDataFacts
  <2>4. ASSUME NEW x \in 0..Size - 1
        PROVE  \E i \in ClientData : x \in transcript[i].from .. transcript[i].to - 1
    <3>1. PICK i \in ClientData : transcript[i].from <= x /\ x < transcript[i].to
      BY <2>1, <2>4 DEF WrittenTo
    <3>2. transcript[i].from \in 0..Size /\ transcript[i].to \in 0..Size
      BY <2>1, ClientDataFacts
    <3>. QED
      BY <2>2, <3>1, <3>2
  <2>5. UNION {transcript[i].from .. transcript[i].to - 1 : i \in ClientData} = 0..Size - 1
    BY <2>3, <2>4
  <2>. QED
    BY <2>1, <2>5 DEF WrittenTo
<1>. QED
  BY <1>1, ClaimInvariant, PTL
============================================================================
