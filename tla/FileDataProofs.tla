--------------------------- MODULE FileDataProofs ---------------------------
(***************************************************************************)
(* Proofs about FileData, for every number of clients, files and blocks:   *)
(* where blocks are, and which blocks a client that caches a file uses.    *)
(***************************************************************************)
EXTENDS FileData, SequenceTheorems, FiniteSetTheorems, TLAPS

-----------------------------------------------------------------------------
(* Sequences without repetition.                                           *)

Disjoint(s, t) == Range(s) \cap Range(t) = {}

LEMMA InSet ==
  ASSUME NEW s \in Seq(Blocks)
  PROVE  /\ \A i \in 1 .. Len(s) : s[i] \in Range(s)
         /\ \A b \in Range(s) : \E i \in 1 .. Len(s) : s[i] = b
         /\ Range(s) \subseteq Blocks
BY DEF Range

LEMMA Joined ==
  ASSUME NEW s \in Seq(Blocks), NEW t \in Seq(Blocks)
  PROVE  /\ s \o t \in Seq(Blocks)
         /\ Range(s \o t) = Range(s) \cup Range(t)
         /\ IsInjective(s) /\ IsInjective(t) /\ Disjoint(s, t) => IsInjective(s \o t)
<1>1. /\ s \o t \in Seq(Blocks) /\ Len(s \o t) = Len(s) + Len(t)
      /\ \A i \in 1 .. Len(s) + Len(t) : (s \o t)[i] = IF i <= Len(s) THEN s[i] ELSE t[i - Len(s)]
    BY ConcatProperties
<1>2. Len(s) \in Nat /\ Len(t) \in Nat /\ DOMAIN s = 1 .. Len(s) /\ DOMAIN t = 1 .. Len(t)
      /\ DOMAIN (s \o t) = 1 .. Len(s) + Len(t)
    BY <1>1
<1>3. ASSUME NEW b \in Range(s \o t)
      PROVE  b \in Range(s) \cup Range(t)
  <2>1. PICK i \in 1 .. Len(s) + Len(t) : (s \o t)[i] = b
    BY <1>1, <1>2, <1>3 DEF Range
  <2>2. CASE i <= Len(s)
    BY <1>1, <1>2, <2>1, <2>2 DEF Range
  <2>3. CASE i > Len(s)
    <3>1. i - Len(s) \in 1 .. Len(t) /\ t[i - Len(s)] = b
      BY <1>1, <1>2, <2>1, <2>3
    <3> QED
      BY <1>2, <3>1 DEF Range
  <2> QED
    BY <1>2, <2>2, <2>3
<1>4. ASSUME NEW b \in Range(s) \cup Range(t)
      PROVE  b \in Range(s \o t)
  <2>1. CASE b \in Range(s)
    <3>1. PICK i \in 1 .. Len(s) : s[i] = b
      BY <1>2, <2>1 DEF Range
    <3>2. i \in 1 .. Len(s) + Len(t) /\ (s \o t)[i] = b
      BY <1>1, <1>2, <3>1
    <3> QED
      BY <1>2, <3>2 DEF Range
  <2>2. CASE b \in Range(t)
    <3>1. PICK i \in 1 .. Len(t) : t[i] = b
      BY <1>2, <2>2 DEF Range
    <3>2. i + Len(s) \in 1 .. Len(s) + Len(t) /\ (s \o t)[i + Len(s)] = b
      BY <1>1, <1>2, <3>1
    <3> QED
      BY <1>2, <3>2 DEF Range
  <2> QED
    BY <2>1, <2>2
<1>5. ASSUME IsInjective(s), IsInjective(t), Disjoint(s, t),
             NEW i \in 1 .. Len(s) + Len(t), NEW j \in 1 .. Len(s) + Len(t), (s \o t)[i] = (s \o t)[j]
      PROVE  i = j
  <2>1. \A k \in 1 .. Len(s) + Len(t) :
          IF k <= Len(s) THEN k \in DOMAIN s /\ (s \o t)[k] = s[k] /\ s[k] \in Range(s)
          ELSE k - Len(s) \in DOMAIN t /\ (s \o t)[k] = t[k - Len(s)] /\ t[k - Len(s)] \in Range(t)
    BY SMTT(30), <1>1, <1>2 DEF Range
  <2>2. CASE i <= Len(s) /\ j <= Len(s)
    BY <1>5, <2>1, <2>2 DEF IsInjective
  <2>3. CASE i > Len(s) /\ j > Len(s)
    <3>1. i - Len(s) = j - Len(s)
      BY SMTT(30), <1>2, <1>5, <2>1, <2>3 DEF IsInjective
    <3> QED
      BY <1>2, <3>1
  <2>4. CASE i <= Len(s) /\ j > Len(s)
    BY <1>2, <1>5, <2>1, <2>4 DEF Disjoint
  <2>5. CASE i > Len(s) /\ j <= Len(s)
    BY <1>2, <1>5, <2>1, <2>5 DEF Disjoint
  <2> QED
    BY <1>2, <2>2, <2>3, <2>4, <2>5
<1> QED
    BY <1>1, <1>2, <1>3, <1>4, <1>5 DEF IsInjective

\* A list is cut into two lists.
LEMMA Cut ==
  ASSUME NEW s \in Seq(Blocks), NEW k \in 0 .. Len(s)
  PROVE  /\ SubSeq(s, 1, k) \in Seq(Blocks) /\ SubSeq(s, k + 1, Len(s)) \in Seq(Blocks)
         /\ Len(SubSeq(s, 1, k)) = k
         /\ Range(SubSeq(s, 1, k)) \cup Range(SubSeq(s, k + 1, Len(s))) = Range(s)
         /\ IsInjective(s) => /\ IsInjective(SubSeq(s, 1, k)) /\ IsInjective(SubSeq(s, k + 1, Len(s)))
                              /\ Disjoint(SubSeq(s, 1, k), SubSeq(s, k + 1, Len(s)))
<1> DEFINE a == SubSeq(s, 1, k)
           b == SubSeq(s, k + 1, Len(s))
<1>0. Len(s) \in Nat /\ DOMAIN s = 1 .. Len(s) /\ k \in Nat /\ k <= Len(s)
    OBVIOUS
<1>1. a \in Seq(Blocks) /\ Len(a) = k /\ \A i \in 1 .. k : a[i] = s[i]
    BY <1>0, SubSeqProperties, \A i \in 1 .. k : s[i] \in Blocks
<1>2. b \in Seq(Blocks) /\ Len(b) = Len(s) - k /\ \A i \in 1 .. Len(s) - k : b[i] = s[k + i]
  <2>1. \A i \in k + 1 .. Len(s) : s[i] \in Blocks
    BY <1>0
  <2>2. k + 1 \in Int /\ Len(s) \in Int
    BY <1>0
  <2>3. b \in Seq(Blocks) /\ Len(b) = IF k + 1 <= Len(s) THEN Len(s) - (k + 1) + 1 ELSE 0
    BY <2>1, <2>2, SubSeqProperties
  <2>4. \A i \in 1 .. Len(s) - (k + 1) + 1 : b[i] = s[(k + 1) + i - 1]
    BY <2>1, <2>2, SubSeqProperties
  <2>5. Len(s) - (k + 1) + 1 = Len(s) - k /\ \A i \in 1 .. Len(s) - k : (k + 1) + i - 1 = k + i
    BY <1>0
  <2> HIDE DEF b
  <2>6. Len(b) = Len(s) - k
    <3>1. \A n \in Nat : \A m \in 0 .. n : n - m = IF m + 1 <= n THEN n - (m + 1) + 1 ELSE 0
      OBVIOUS
    <3> QED
      BY ZenonT(30), <1>0, <2>3, <3>1
  <2> QED
    BY ZenonT(30), <2>3, <2>4, <2>5, <2>6
<1> HIDE DEF a, b
<1>3. DOMAIN a = 1 .. k /\ DOMAIN b = 1 .. Len(s) - k
    BY <1>1, <1>2
<1>4. Range(a) \cup Range(b) \subseteq Range(s)
  <2>1. \A i \in 1 .. k : a[i] \in Range(s)
    BY <1>0, <1>1, InSet
  <2>2. \A i \in 1 .. Len(s) - k : k + i \in 1 .. Len(s) /\ b[i] \in Range(s)
    BY <1>0, <1>2, InSet
  <2> QED
    BY <1>3, <2>1, <2>2, ZenonT(30) DEF Range
<1>5. ASSUME NEW x \in Range(s)
      PROVE  x \in Range(a) \cup Range(b)
  <2>1. PICK i \in 1 .. Len(s) : s[i] = x
    BY InSet
  <2>2. CASE i <= k
    BY <1>0, <1>1, <1>3, <2>1, <2>2 DEF Range
  <2>3. CASE i > k
    <3>1. i - k \in 1 .. Len(s) - k /\ b[i - k] = x
      BY <1>0, <1>2, <2>1, <2>3
    <3> QED
      BY <1>3, <3>1 DEF Range
  <2> QED
    BY <1>0, <2>2, <2>3
<1>6. ASSUME IsInjective(s)
      PROVE  IsInjective(a) /\ IsInjective(b) /\ Disjoint(a, b)
  <2>1. IsInjective(a)
    BY <1>0, <1>1, <1>3, <1>6 DEF IsInjective
  <2>2. ASSUME NEW i \in 1 .. Len(s) - k, NEW j \in 1 .. Len(s) - k, b[i] = b[j]
        PROVE  i = j
    <3>1. k + i \in 1 .. Len(s) /\ k + j \in 1 .. Len(s) /\ s[k + i] = s[k + j]
      BY <1>0, <1>2, <2>2
    <3>2. k + i = k + j
      BY <1>0, <1>6, <3>1 DEF IsInjective
    <3> QED
      BY <1>0, <3>2
  <2>3. ASSUME NEW i \in 1 .. k, NEW j \in 1 .. Len(s) - k, a[i] = b[j]
        PROVE  FALSE
    <3>1. i \in 1 .. Len(s) /\ k + j \in 1 .. Len(s) /\ s[i] = s[k + j]
      BY <1>0, <1>1, <1>2, <2>3
    <3>2. i = k + j
      BY <1>0, <1>6, <3>1 DEF IsInjective
    <3> QED
      BY <1>0, <3>2
  <2> QED
    BY <1>3, <2>1, <2>2, <2>3 DEF IsInjective, Disjoint, Range
<1> QED
    BY <1>1, <1>2, <1>4, <1>5, <1>6 DEF a, b

\* The free blocks at the start.
LEMMA Listed ==
  ASSUME NEW s, s = CHOOSE t \in Injection(1..Cardinality(Blocks), Blocks) : TRUE
  PROVE  s \in Seq(Blocks) /\ IsInjective(s) /\ Range(s) = Blocks
<1> DEFINE n == Cardinality(Blocks)
<1>1. IsFiniteSet(Blocks) /\ n \in Nat
    BY FileDataAssumption, FS_CardinalityType
<1>2. \E g \in Injection(1 .. n, Blocks) : TRUE
    BY <1>1, FS_CardinalityType DEF ExistsBijection, Bijection
<1>3. s \in [1 .. n -> Blocks] /\ IsInjective(s)
    BY <1>2 DEF Injection
<1>4. IsFiniteSet(1 .. n) /\ Cardinality(1 .. n) = n
    BY <1>1, FS_Interval
<1>5. s \in Surjection(1 .. n, Blocks)
    BY <1>1, <1>3, <1>4, FS_Injection DEF Injection
<1>6. Range(s) = Blocks
    BY ZenonT(30), <1>3, <1>5 DEF Surjection, Range
<1> QED
    BY <1>1, <1>3, <1>6

-----------------------------------------------------------------------------
(* What the operations on a file do with blocks.                           *)

Own(fl) == Range(fl.blocks) \cup Range(fl.orphans)

\* No block is in two places of the free list and one file.
Well(fr, fl) ==
  /\ IsInjective(fr) /\ IsInjective(fl.blocks) /\ IsInjective(fl.orphans)
  /\ Disjoint(fr, fl.blocks) /\ Disjoint(fr, fl.orphans) /\ Disjoint(fl.blocks, fl.orphans)

\* Blocks are only exchanged between the free list and the file.
Exchanged(fr, fl, r) ==
  /\ r.free \in Seq(Blocks) /\ r.file \in FileType
  /\ Well(r.free, r.file)
  /\ Range(r.free) \cup Own(r.file) = Range(fr) \cup Own(fl)

\* The file keeps what it has.
Kept(fl, r) ==
  /\ Own(fl) \subseteq Own(r.file)
  /\ r.file.live = fl.live /\ r.file.named = fl.named

LEMMA BlocksForNat ==
  ASSUME NEW n \in Nat
  PROVE  BlocksFor(n) \in Nat
BY FileDataAssumption DEF BlocksFor

LEMMA BlocksForZero == BlocksFor(0) = 0
BY FileDataAssumption DEF BlocksFor

LEMMA EmptyList == <<>> \in Seq(Blocks) /\ Range(<<>>) = {} /\ IsInjective(<<>>)
BY DEF Range, IsInjective

LEMMA Same ==
  ASSUME NEW fr \in Seq(Blocks), NEW fl \in FileType, Well(fr, fl), NEW n \in Nat, NEW ret
  PROVE  /\ Exchanged(fr, fl, Result(fr, fl, ret)) /\ Kept(fl, Result(fr, fl, ret))
         /\ Exchanged(fr, fl, Result(fr, [fl EXCEPT !.size = n], ret))
         /\ Kept(fl, Result(fr, [fl EXCEPT !.size = n], ret))
BY ZenonT(30) DEF Exchanged, Kept, Result, FileType, Well, Own

LEMMA GrowExchanges ==
  ASSUME NEW fr \in Seq(Blocks), NEW fl \in FileType, Well(fr, fl), NEW n \in Nat
  PROVE  Exchanged(fr, fl, Grow(fr, fl, n)) /\ Kept(fl, Grow(fr, fl, n))
<1> DEFINE more == BlocksFor(n) - Len(fl.blocks)
<1>1. more \in Int /\ Len(fr) \in Nat
  <2>1. BlocksFor(n) \in Nat /\ fl.blocks \in Seq(Blocks)
    BY ZenonT(30), BlocksForNat DEF FileType
  <2> QED
    BY <2>1
<1> HIDE DEF more
<1>2. CASE more <= 0 \/ more > Len(fr)
  <2>1. \E ret : Grow(fr, fl, n) = Result(fr, fl, ret)
    <3>1. Grow(fr, fl, n) = IF more = 0 THEN Result(fr, fl, "OK")
                            ELSE IF more < 0 \/ more > Len(fr) THEN Result(fr, fl, "ENOSPC")
                            ELSE Result(SubSeq(fr, more + 1, Len(fr)),
                                        [fl EXCEPT !.blocks = @ \o SubSeq(fr, 1, more)], "OK")
      BY DEF Grow, more
    <3> QED
      BY <1>1, <1>2, <3>1
  <2> QED
    BY ZenonT(30), <2>1, Same
<1>3. CASE more > 0 /\ more <= Len(fr)
  <2> DEFINE a == SubSeq(fr, 1, more)
             b == SubSeq(fr, more + 1, Len(fr))
             g == [fl EXCEPT !.blocks = @ \o a]
  <2>1. Grow(fr, fl, n) = Result(b, g, "OK")
    BY SMTT(30), <1>1, <1>3 DEF Grow, more
  <2>2. more \in 0 .. Len(fr)
    BY <1>1, <1>3
  <2>3. /\ a \in Seq(Blocks) /\ b \in Seq(Blocks) /\ Range(a) \cup Range(b) = Range(fr)
        /\ IsInjective(a) /\ IsInjective(b) /\ Disjoint(a, b)
    BY <2>2, Cut DEF Well
  <2> HIDE DEF a, b
  <2>4. fl.blocks \in Seq(Blocks) /\ fl.orphans \in Seq(Blocks)
    BY DEF FileType
  <2>5. /\ fl.blocks \o a \in Seq(Blocks) /\ IsInjective(fl.blocks \o a)
        /\ Range(fl.blocks \o a) = Range(fl.blocks) \cup Range(a)
    <3>1. Disjoint(fl.blocks, a)
      BY <2>3 DEF Well, Disjoint
    <3> QED
      BY <2>3, <2>4, <3>1, Joined DEF Well
  <2>6. g \in FileType /\ g.blocks = fl.blocks \o a /\ g.orphans = fl.orphans
        /\ g.live = fl.live /\ g.named = fl.named
    BY ZenonT(30), <2>5 DEF FileType
  <2> HIDE DEF g
  <2>7. Well(b, g)
    BY <2>3, <2>5, <2>6 DEF Well, Disjoint
  <2>8. Range(b) \cup Own(g) = Range(fr) \cup Own(fl) /\ Own(fl) \subseteq Own(g)
    BY <2>3, <2>5, <2>6 DEF Own
  <2> QED
    BY <2>1, <2>3, <2>6, <2>7, <2>8 DEF Exchanged, Kept, Result
<1> QED
    BY <1>1, <1>2, <1>3

LEMMA ShrinkExchanges ==
  ASSUME NEW fr \in Seq(Blocks), NEW fl \in FileType, Well(fr, fl), NEW n \in Nat,
         BlocksFor(n) <= Len(fl.blocks), NEW ret
  PROVE  LET r == Result(fr, [Shrink(fl, n) EXCEPT !.size = n], ret)
         IN Exchanged(fr, fl, r) /\ Kept(fl, r)
<1> DEFINE k == BlocksFor(n)
           a == SubSeq(fl.blocks, 1, k)
           b == SubSeq(fl.blocks, k + 1, Len(fl.blocks))
           g == [Shrink(fl, n) EXCEPT !.size = n]
<1>1. fl.blocks \in Seq(Blocks) /\ fl.orphans \in Seq(Blocks)
    BY DEF FileType
<1>2. k \in 0 .. Len(fl.blocks)
    BY SMTT(30), <1>1, BlocksForNat
<1>3. /\ a \in Seq(Blocks) /\ b \in Seq(Blocks) /\ Range(a) \cup Range(b) = Range(fl.blocks)
      /\ IsInjective(a) /\ IsInjective(b) /\ Disjoint(a, b)
    BY ZenonT(30), <1>1, <1>2, Cut DEF Well
<1>4. g = [fl EXCEPT !.blocks = a, !.orphans = fl.orphans \o b, !.size = n]
    BY DEF Shrink, FileType
<1> HIDE DEF a, b, g
<1>5. /\ fl.orphans \o b \in Seq(Blocks) /\ IsInjective(fl.orphans \o b)
      /\ Range(fl.orphans \o b) = Range(fl.orphans) \cup Range(b)
  <2>1. Disjoint(fl.orphans, b)
    BY <1>3 DEF Well, Disjoint
  <2> QED
    BY <1>1, <1>3, <2>1, Joined DEF Well
<1>6. g \in FileType /\ g.blocks = a /\ g.orphans = fl.orphans \o b
      /\ g.live = fl.live /\ g.named = fl.named
    BY ZenonT(30), <1>3, <1>4, <1>5 DEF FileType
<1>7. Well(fr, g)
    BY <1>3, <1>5, <1>6 DEF Well, Disjoint
<1>8. Own(g) = Own(fl)
    BY <1>3, <1>5, <1>6 DEF Own
<1> QED
    BY ZenonT(30), <1>6, <1>7, <1>8 DEF Exchanged, Kept, Result, g

LEMMA TruncateExchanges ==
  ASSUME NEW fr \in Seq(Blocks), NEW fl \in FileType, Well(fr, fl), NEW n \in Nat,
         ~Underflows(fl, n)
  PROVE  Exchanged(fr, fl, TruncateFile(fr, fl, n)) /\ Kept(fl, TruncateFile(fr, fl, n))
<1> DEFINE grown == Grow(fr, fl, n)
<1>0. fl.size \in Nat /\ Len(fl.blocks) \in Nat /\ BlocksFor(n) \in Nat
    BY BlocksForNat DEF FileType
<1>1. Exchanged(fr, fl, grown) /\ Kept(fl, grown)
    BY GrowExchanges
<1>2. CASE fl.size < n /\ grown.ret = "OK"
  <2>1. TruncateFile(fr, fl, n) = [grown EXCEPT !.file.size = n]
    BY <1>2 DEF TruncateFile
  <2>2. \E ret : grown = Result(grown.free, grown.file, ret)
    BY ZenonT(30) DEF Grow, Result
  <2> HIDE DEF grown
  <2>3. \E ret : TruncateFile(fr, fl, n) = Result(grown.free, [grown.file EXCEPT !.size = n], ret)
    BY ZenonT(30), <2>1, <2>2 DEF Result
  <2>4. PICK ret : TruncateFile(fr, fl, n) = Result(grown.free, [grown.file EXCEPT !.size = n], ret)
    BY <2>3
  <2>5. LET r == Result(grown.free, [grown.file EXCEPT !.size = n], ret)
        IN Exchanged(grown.free, grown.file, r) /\ Kept(grown.file, r)
    BY <1>1, Same DEF Exchanged
  <2> QED
    BY ZenonT(30), <1>1, <2>4, <2>5 DEF Exchanged, Kept
<1>3. CASE fl.size < n /\ grown.ret # "OK"
    BY <1>1, <1>3 DEF TruncateFile
<1>4. CASE fl.size > n
  <2>1. TruncateFile(fr, fl, n) = Result(fr, [Shrink(fl, n) EXCEPT !.size = n], "OK")
    BY <1>0, <1>4 DEF TruncateFile
  <2>2. BlocksFor(n) <= Len(fl.blocks)
    BY <1>0, <1>4 DEF Underflows
  <2> QED
    BY <2>1, <2>2, ShrinkExchanges
<1>5. CASE fl.size = n
  <2>1. TruncateFile(fr, fl, n) = Result(fr, fl, "OK")
    BY <1>0, <1>5 DEF TruncateFile
  <2> QED
    BY ZenonT(30), <2>1, Same
<1> QED
    BY <1>0, <1>2, <1>3, <1>4, <1>5

LEMMA DeletedExchanges ==
  ASSUME NEW fr \in Seq(Blocks), NEW fl \in FileType, Well(fr, fl), NEW ret
  PROVE  Exchanged(fr, fl, Result(Deleted(fr, fl), None, ret))
<1>1. fl.blocks \in Seq(Blocks) /\ fl.orphans \in Seq(Blocks)
    BY DEF FileType
<1>2. /\ fl.orphans \o fl.blocks \in Seq(Blocks) /\ IsInjective(fl.orphans \o fl.blocks)
      /\ Range(fl.orphans \o fl.blocks) = Own(fl)
    BY <1>1, Joined DEF Well, Disjoint, Own
<1>3. Disjoint(fl.orphans \o fl.blocks, fr)
    BY <1>2 DEF Well, Disjoint, Own
<1>4. Deleted(fr, fl) \in Seq(Blocks) /\ IsInjective(Deleted(fr, fl))
      /\ Range(Deleted(fr, fl)) = Own(fl) \cup Range(fr)
    BY ZenonT(30), <1>1, <1>2, <1>3, Joined DEF Well, Deleted
<1>5. None \in FileType /\ None.blocks = <<>> /\ None.orphans = <<>>
    BY EmptyList DEF None, FileType
<1> QED
    BY <1>4, <1>5, EmptyList DEF Exchanged, Result, Well, Disjoint, Own

\* A part of a list, and the lists that File::blocks returns.
LEMMA Part ==
  ASSUME NEW s \in Seq(Blocks), NEW m \in Nat \ {0}, NEW n \in 0 .. Len(s)
  PROVE  SubSeq(s, m, n) \in Seq(Blocks) /\ Range(SubSeq(s, m, n)) \subseteq Range(s)
<1> DEFINE p == SubSeq(s, m, n)
<1>0. m \in Int /\ n \in Int /\ Len(s) \in Nat
    OBVIOUS
<1>1. \A i \in m .. n : s[i] \in Blocks /\ s[i] \in Range(s)
    BY InSet
<1>2. p \in Seq(Blocks) /\ p \in Seq(Range(s))
    BY <1>0, <1>1, SubSeqProperties
<1> QED
    BY <1>2 DEF Range

LEMMA BlockListOwned ==
  ASSUME NEW fl \in FileType, NEW from \in Nat, NEW n \in Nat
  PROVE  BlockList(fl, from, n) \in Seq(Blocks) /\ Range(BlockList(fl, from, n)) \subseteq Own(fl)
<1> DEFINE all == fl.blocks \o fl.orphans
<1>1. fl.blocks \in Seq(Blocks) /\ fl.orphans \in Seq(Blocks)
    BY DEF FileType
<1>2. all \in Seq(Blocks) /\ Len(all) = Len(fl.blocks) + Len(fl.orphans) /\ Range(all) = Own(fl)
    BY <1>1, Joined, ConcatProperties DEF Own
<1>3. Len(fl.blocks) \in Nat /\ Len(fl.orphans) \in Nat
    BY <1>1
<1> HIDE DEF all
<1>4. CASE from + n <= Len(fl.blocks) \/ (from = Len(fl.blocks) /\ from + n <= Len(all))
  <2>1. BlockList(fl, from, n) = SubSeq(all, from + 1, from + n)
    BY ZenonT(30), <1>4 DEF BlockList, all
  <2>2. \A x, y, l \in Nat : (from + n <= x \/ from + n <= l) /\ l = x + y => from + n \in 0 .. l
    OBVIOUS
  <2>3. from + n \in 0 .. Len(all)
    <3>1. Len(all) \in Nat
      BY ZenonT(30), <1>2, <1>3, LenProperties
    <3> QED
      BY ZenonT(30), <1>2, <1>3, <1>4, <2>2, <3>1
  <2>4. LET p == SubSeq(all, from + 1, from + n) IN p \in Seq(Blocks) /\ Range(p) \subseteq Range(all)
    <3>1. from + 1 \in Nat \ {0}
      OBVIOUS
    <3> QED
      BY ZenonT(30), <1>2, <2>3, <3>1, Part
  <2> QED
    BY ZenonT(30), <1>2, <2>1, <2>4
<1>5. CASE ~(from + n <= Len(fl.blocks) \/ (from = Len(fl.blocks) /\ from + n <= Len(all)))
  <2>1. BlockList(fl, from, n) = <<>>
    BY <1>5 DEF BlockList, all
  <2> QED
    BY <2>1, EmptyList
<1> QED
    BY <1>4, <1>5

-----------------------------------------------------------------------------
(* The inductive invariant.                                                *)

PCs == {"closed", "caching", "open", "growing", "reading", "writing", "closing"}
ClientType ==
  [pc : PCs, f : Files \cup {"none"}, offset : Nat, state : {"INVALID", "SHARED", "EXCLUSIVE"},
   size : Nat, pos : Nat, blocks : Seq(Blocks), n : Nat, v : Values \cup {Zero}, from : Nat,
   more : Nat, wrote : BOOLEAN]
MemType == [Blocks -> [Units -> Values \cup {Zero}]]

Opened(c) == cl[c].pc # "closed"

Types ==
  /\ setup \in SetupType /\ free \in Seq(Blocks) /\ file \in [Files -> FileType] /\ mem \in MemType
  /\ cl \in [Clients -> ClientType]
  /\ \A c \in Clients : Opened(c) => cl[c].f \in Files

\* A block is at one place: free, or in one file.
Memory ==
  /\ IsInjective(free)
  /\ \A f \in Files : Well(free, file[f]) /\ (file[f].live \/ file[f] = None)
  /\ \A f, g \in Files : f # g => Own(file[f]) \cap Own(file[g]) = {}
  /\ \A b \in Blocks : b \in Range(free) \/ \E f \in Files : b \in Own(file[f])

\* No file that clients cache is unlinked while more than one client may have it
\* open: the server deletes it when the first of them closes it.
Alone == setup.cached /\ setup.unlinks => setup.openers = 1

Attached ==
  Alone /\ setup.cached =>
    \A c \in Clients : Opened(c) =>
      file[cl[c].f].live /\ Range(cl[c].blocks) \subseteq Own(file[cl[c].f])

Sole ==
  /\ Alone /\ setup.cached /\ setup.unlinks =>
       \A c, d \in Clients : Opened(c) /\ Opened(d) /\ cl[c].f = cl[d].f => c = d
  /\ \A f \in Files : file[f].live /\ ~file[f].named => setup.unlinks

IInv == Types /\ Memory /\ Attached /\ Sole

-----------------------------------------------------------------------------
(* What a client does with a file it has open.                             *)

Works(c) ==
  /\ Opened(c) /\ mem' \in MemType
  /\ file[cl[c].f].live \/ UNCHANGED <<free, file>>
  /\ \E r \in ClientType :
       /\ Become(c, r) /\ r.f = cl[c].f /\ r.pc # "closed"
       /\ Range(r.blocks) \subseteq Range(cl[c].blocks) \cup Own(file[cl[c].f])
  /\ \E q : Exchanged(free, file[cl[c].f], q) /\ Kept(file[cl[c].f], q) /\ Serve(cl[c].f, q)

LEMMA Rests ==
  ASSUME Types, Memory, NEW c \in Clients, Opened(c), UNCHANGED <<free, file>>
  PROVE  \E q : Exchanged(free, file[cl[c].f], q) /\ Kept(file[cl[c].f], q) /\ Serve(cl[c].f, q)
<1> DEFINE f == cl[c].f
           q == Result(free, file[f], "OK")
<1>1. f \in Files /\ file[f] \in FileType /\ Well(free, file[f]) /\ free \in Seq(Blocks)
    BY DEF Types, Memory
<1>2. Exchanged(free, file[f], q) /\ Kept(file[f], q)
    BY ZenonT(30), <1>1, Same
<1>3. Serve(f, q)
    BY <1>1 DEF Serve, Result, Types
<1> QED
    BY <1>2, <1>3

LEMMA FailsWorks ==
  ASSUME Types, Memory, NEW c \in Clients, Opened(c), NEW what, Fails(what)
  PROVE  Works(c)
<1>1. UNCHANGED <<free, file, mem, cl>>
    BY DEF Fails
<1>2. Become(c, cl[c]) /\ cl[c] \in ClientType
    BY <1>1 DEF Types, Become
<1>3. cl[c].pc # "closed"
    BY DEF Opened
<1> QED
    BY <1>1, <1>2, <1>3, Rests DEF Works, Types

LEMMA LocalWorks ==
  ASSUME Types, Memory, NEW c \in Clients, Opened(c), NEW r \in ClientType, Become(c, r),
         r.f = cl[c].f, r.pc # "closed", Range(r.blocks) \subseteq Range(cl[c].blocks) \cup Own(file[cl[c].f]),
         UNCHANGED <<free, file>>, mem' \in MemType
  PROVE  Works(c)
BY Rests DEF Works

LEMMA CopiedType ==
  ASSUME NEW m \in MemType, NEW list, NEW p, NEW n, NEW v \in Values \cup {Zero}
  PROVE  Copied(m, list, p, n, v) \in MemType
BY DEF Copied, MemType

LEMMA CopyInWorks ==
  ASSUME Types, Memory, NEW c \in Clients, Opened(c), NEW m \in MemType, NEW bs \in Seq(Blocks),
         Range(bs) \subseteq Range(cl[c].blocks) \cup Own(file[cl[c].f]),
         NEW n \in Nat, NEW v \in Values \cup {Zero}, CopyIn(c, m, bs, n, v)
  PROVE  Works(c)
<1> DEFINE end == cl[c].pos + n
           r == [cl[c] EXCEPT !.pc = "open", !.blocks = bs, !.pos = end, !.state = "EXCLUSIVE",
                              !.size = IF end > @ THEN end ELSE @, !.n = 0, !.more = 0, !.from = 0,
                              !.v = Zero, !.wrote = TRUE]
<1>1. CASE ~HasBlocks(bs, end)
    BY ZenonT(30), <1>1, FailsWorks DEF CopyIn
<1>2. CASE HasBlocks(bs, end)
  <2>1. mem' = Copied(m, bs, cl[c].pos, n, v) /\ Become(c, r) /\ UNCHANGED <<free, file>>
    BY <1>2 DEF CopyIn
  <2>2. mem' \in MemType
    BY <2>1, CopiedType
  <2>3. cl[c] \in ClientType /\ end \in Nat
    BY SMTT(30) DEF Types, ClientType
  <2>4. r \in ClientType /\ r.f = cl[c].f /\ r.pc # "closed" /\ r.blocks = bs
    BY ZenonT(30), <2>3 DEF ClientType, PCs
  <2> HIDE DEF r
  <2> QED
    BY ZenonT(30), <2>1, <2>2, <2>4, LocalWorks
<1> QED
    BY <1>1, <1>2

LEMMA CacheBlocksWorks ==
  ASSUME Types, Memory, NEW c \in Clients, CacheBlocks(c)
  PROVE  Works(c)
<1> DEFINE f == cl[c].f
           list == BlockList(file[f], 0, BlocksFor(cl[c].size))
           r == [cl[c] EXCEPT !.pc = "open", !.blocks = list]
<1>1. Opened(c) /\ cl[c] \in ClientType /\ file[f] \in FileType
    BY ZenonT(30) DEF CacheBlocks, At, Opened, Types
<1>2. list \in Seq(Blocks) /\ Range(list) \subseteq Own(file[f])
    BY ZenonT(30), <1>1, BlocksForNat, BlockListOwned DEF ClientType
<1>3. CASE ~file[f].live \/ list = <<>>
    BY <1>1, <1>3, FailsWorks DEF CacheBlocks
<1>4. CASE ~(~file[f].live \/ list = <<>>)
  <2>1. Become(c, r) /\ UNCHANGED <<free, file, mem>>
    BY <1>4 DEF CacheBlocks
  <2> HIDE DEF list
  <2>2. r \in ClientType /\ r.f = cl[c].f /\ r.pc # "closed" /\ r.blocks = list
    BY ZenonT(30), <1>1, <1>2 DEF ClientType, PCs
  <2>3. mem' \in MemType
    BY <2>1 DEF Types
  <2> HIDE DEF r
  <2> QED
    BY <1>1, <1>2, <2>1, <2>2, <2>3, LocalWorks
<1> QED
    BY <1>3, <1>4

LEMMA WriteWorks ==
  ASSUME Types, Memory, NEW c \in Clients, NEW n \in Nat, NEW v \in Values, Write(c, n, v)
  PROVE  Works(c)
<1> DEFINE f == cl[c].f
           end == cl[c].pos + n
           room == BlocksFor(cl[c].size) * BLOCK
           more == IF end > room THEN BlocksFor(end - room) ELSE 0
           r == [cl[c] EXCEPT !.pc = "growing", !.state = "EXCLUSIVE", !.size = end,
                              !.from = BlocksFor(cl[c].size), !.more = more, !.n = n, !.v = v,
                              !.wrote = TRUE]
<1>1. Opened(c) /\ cl[c] \in ClientType /\ f \in Files /\ file[f] \in FileType /\ Well(free, file[f])
    BY ZenonT(30) DEF Write, At, Opened, Types, Memory
<1>2. end \in Nat /\ cl[c].size \in Nat /\ BlocksFor(cl[c].size) \in Nat
  <2>1. cl[c].size \in Nat /\ cl[c].pos \in Nat
    BY ZenonT(30), <1>1 DEF ClientType
  <2> QED
    BY <2>1, BlocksForNat
<1>3. more \in Nat
  <2>1. room \in Nat
    BY <1>2, FileDataAssumption
  <2>2. end > room => end - room \in Nat
    BY <1>2, <2>1
  <2> QED
    BY <2>2, BlocksForNat
<1>4. CASE more = 0
  <2>1. CopyIn(c, mem, cl[c].blocks, n, v)
    BY ZenonT(30), <1>4 DEF Write
  <2>2. cl[c].blocks \in Seq(Blocks) /\ mem \in MemType
    BY <1>1 DEF ClientType, Types
  <2> QED
    BY ZenonT(30), <1>1, <2>1, <2>2, CopyInWorks
<1>5. CASE more # 0 /\ file[f].live /\ Underflows(file[f], end)
    BY <1>1, <1>5, FailsWorks DEF Write
<1>6. CASE more # 0 /\ ~(file[f].live /\ Underflows(file[f], end))
  <2>1. /\ IF file[f].live THEN Serve(f, TruncateFile(free, file[f], end)) ELSE UNCHANGED <<free, file>>
        /\ Become(c, r) /\ UNCHANGED mem
    BY <1>6 DEF Write
  <2> HIDE DEF more
  <2>2. r \in ClientType /\ r.f = cl[c].f /\ r.pc # "closed" /\ r.blocks = cl[c].blocks
    BY ZenonT(30), <1>1, <1>2, <1>3 DEF ClientType, PCs
  <2> HIDE DEF r
  <2>3. mem' \in MemType
    BY <2>1 DEF Types
  <2>4. CASE ~file[f].live
    BY ZenonT(30), <1>1, <2>1, <2>2, <2>3, <2>4, LocalWorks
  <2>5. CASE file[f].live
    <3> DEFINE q == TruncateFile(free, file[f], end)
    <3>1. free \in Seq(Blocks)
      BY ZenonT(30) DEF Types
    <3>2. Exchanged(free, file[f], q) /\ Kept(file[f], q)
      BY ZenonT(30), <1>1, <1>2, <1>6, <2>5, <3>1, TruncateExchanges
    <3>3. Serve(f, q)
      BY ZenonT(30), <2>1, <2>5
    <3> HIDE DEF q
    <3> QED
      BY ZenonT(30), <1>1, <2>1, <2>2, <2>3, <2>5, <3>2, <3>3 DEF Works
  <2> QED
    BY <2>4, <2>5
<1> QED
    BY <1>4, <1>5, <1>6

LEMMA GetBlocksWorks ==
  ASSUME Types, Memory, NEW c \in Clients, GetBlocks(c)
  PROVE  Works(c)
<1> DEFINE f == cl[c].f
           old == cl[c].blocks
           from == cl[c].from
           list == BlockList(file[f], from, cl[c].more)
           bs == IF from > Len(old) THEN old \o list
                 ELSE SubSeq(old, 1, from) \o list \o SubSeq(old, from + Len(list) + 1, Len(old))
           cleared == [b \in Blocks |-> IF b \in Range(list) THEN [u \in Units |-> Zero] ELSE mem[b]]
<1>1. Opened(c) /\ cl[c] \in ClientType /\ f \in Files /\ file[f] \in FileType
    BY ZenonT(30) DEF GetBlocks, At, Opened, Types
<1>2. old \in Seq(Blocks) /\ from \in Nat /\ cl[c].more \in Nat /\ cl[c].n \in Nat /\ cl[c].v \in Values \cup {Zero}
    BY <1>1 DEF ClientType
<1>3. list \in Seq(Blocks) /\ Range(list) \subseteq Own(file[f])
    BY ZenonT(30), <1>1, <1>2, BlockListOwned
<1>4. CASE ~file[f].live \/ list = <<>>
    BY ZenonT(30), <1>1, <1>4, FailsWorks DEF GetBlocks
<1>5. CASE ~(~file[f].live \/ list = <<>>)
  <2>1. CopyIn(c, cleared, bs, cl[c].n, cl[c].v)
    BY ZenonT(30), <1>5 DEF GetBlocks
  <2> HIDE DEF list
  <2>2. cleared \in MemType
    BY DEF Types, MemType
  <2> HIDE DEF cleared
  <2>3. bs \in Seq(Blocks) /\ Range(bs) \subseteq Range(old) \cup Range(list)
    <3>1. CASE from > Len(old)
      BY ZenonT(30), <1>2, <1>3, <3>1, Joined
    <3>2. CASE ~(from > Len(old))
      <4> DEFINE x == SubSeq(old, 1, from)
                 y == SubSeq(old, from + Len(list) + 1, Len(old))
      <4>0. Len(old) \in Nat /\ Len(list) \in Nat
        BY ZenonT(30), <1>2, <1>3, LenProperties
      <4>1. x \in Seq(Blocks) /\ Range(x) \subseteq Range(old)
        BY SMTT(30), <1>2, <3>2, <4>0, Part, from \in 0 .. Len(old), 1 \in Nat \ {0}
      <4>2. y \in Seq(Blocks) /\ Range(y) \subseteq Range(old)
        BY <1>2, <4>0, Part, from + Len(list) + 1 \in Nat \ {0}, Len(old) \in 0 .. Len(old)
      <4>3. bs = (x \o list) \o y
        BY ZenonT(30), <3>2
      <4> HIDE DEF x, y, bs
      <4>4. x \o list \in Seq(Blocks) /\ Range(x \o list) = Range(x) \cup Range(list)
        BY <1>3, <4>1, Joined
      <4>5. (x \o list) \o y \in Seq(Blocks) /\ Range((x \o list) \o y) = Range(x \o list) \cup Range(y)
        BY ZenonT(30), <4>2, <4>4, Joined
      <4> QED
        BY <4>1, <4>2, <4>3, <4>4, <4>5
    <3> QED
      BY ZenonT(30), <3>1, <3>2
  <2> HIDE DEF bs
  <2>4. Range(bs) \subseteq Range(old) \cup Own(file[f])
    BY <1>3, <2>3
  <2> QED
    BY ZenonT(30), <1>1, <1>2, <2>1, <2>2, <2>3, <2>4, CopyInWorks
<1> QED
    BY <1>4, <1>5

LEMMA ReadWorks ==
  ASSUME Types, Memory, NEW c \in Clients, NEW n \in Nat, Read(c, n)
  PROVE  Works(c)
<1> DEFINE got == IF cl[c].pos >= cl[c].size THEN 0
                  ELSE IF cl[c].pos + n > cl[c].size THEN cl[c].size - cl[c].pos ELSE n
           r == [cl[c] EXCEPT !.pos = @ + got, !.state = "EXCLUSIVE"]
<1>1. Opened(c) /\ cl[c] \in ClientType /\ cl[c].pc = "open"
    BY ZenonT(30) DEF Read, At, Opened, Types
<1>2. cl[c].pos + got \in Nat
  <2>1. cl[c].pos \in Nat /\ cl[c].size \in Nat
    BY <1>1 DEF ClientType
  <2> QED
    BY <2>1
<1>3. CASE got > 0 /\ ~HasBlocks(cl[c].blocks, cl[c].pos + got)
    BY ZenonT(30), <1>1, <1>3, FailsWorks DEF Read
<1>4. CASE ~(got > 0 /\ ~HasBlocks(cl[c].blocks, cl[c].pos + got))
  <2>1. Become(c, r) /\ UNCHANGED <<free, file, mem>>
    BY ZenonT(30), <1>4 DEF Read
  <2> HIDE DEF got
  <2>2. r \in ClientType /\ r.f = cl[c].f /\ r.pc # "closed" /\ r.blocks = cl[c].blocks
    BY ZenonT(30), <1>1, <1>2 DEF ClientType
  <2>3. mem' \in MemType
    BY <2>1 DEF Types
  <2> HIDE DEF r
  <2> QED
    BY ZenonT(30), <1>1, <2>1, <2>2, <2>3, LocalWorks
<1> QED
    BY <1>3, <1>4

LEMMA StartTransferWorks ==
  ASSUME Types, Memory, NEW c \in Clients, NEW pc \in {"reading", "writing"}, NEW n \in Nat,
         NEW v \in Values \cup {Zero}, StartTransfer(c, pc, n, v)
  PROVE  Works(c)
<1> DEFINE r == [cl[c] EXCEPT !.pc = pc, !.n = n, !.v = v]
<1>1. Opened(c) /\ cl[c] \in ClientType /\ Become(c, r) /\ UNCHANGED <<free, file, mem>>
    BY ZenonT(30) DEF StartTransfer, At, Opened, Types
<1>2. r \in ClientType /\ r.f = cl[c].f /\ r.pc # "closed" /\ r.blocks = cl[c].blocks
    BY ZenonT(30), <1>1 DEF ClientType, PCs
<1>3. mem' \in MemType
    BY <1>1 DEF Types
<1> HIDE DEF r
<1> QED
    BY <1>1, <1>2, <1>3, LocalWorks

LEMMA RestType ==
  ASSUME NEW c \in Clients, cl[c] \in ClientType, NEW k \in 0 .. cl[c].n, cl[c].pc # "closed"
  PROVE  /\ Rest(c, k) \in ClientType /\ Rest(c, k).f = cl[c].f /\ Rest(c, k).pc # "closed"
         /\ Rest(c, k).blocks = cl[c].blocks
<1>1. cl[c].n \in Nat /\ cl[c].offset \in Nat
    BY DEF ClientType
<1>2. cl[c].n - k \in Nat /\ cl[c].offset + k \in Nat
    BY <1>1
<1> QED
    BY ZenonT(30), <1>2 DEF Rest, ClientType, PCs

LEMMA ReadChunkWorks ==
  ASSUME Types, Memory, NEW c \in Clients, ReadChunk(c)
  PROVE  Works(c)
<1> DEFINE fl == file[cl[c].f]
           k == IF ~fl.live \/ cl[c].offset >= fl.size THEN 0
                ELSE Least(Least(cl[c].n, CHUNK), fl.size - cl[c].offset)
<1>1. Opened(c) /\ cl[c] \in ClientType /\ fl \in FileType
    BY ZenonT(30) DEF ReadChunk, At, Opened, Types
<1>2. k \in 0 .. cl[c].n
  <2>1. cl[c].n \in Nat /\ cl[c].offset \in Nat /\ fl.size \in Nat /\ CHUNK \in Nat
    BY ZenonT(30), <1>1, FileDataAssumption DEF ClientType, FileType
  <2> QED
    BY SMTT(30), <2>1 DEF Least
<1>3. CASE k > 0 /\ ~HasBlocks(fl.blocks, cl[c].offset + k)
    BY ZenonT(30), <1>1, <1>3, FailsWorks DEF ReadChunk
<1>4. CASE ~(k > 0 /\ ~HasBlocks(fl.blocks, cl[c].offset + k))
  <2>1. Become(c, Rest(c, k)) /\ UNCHANGED <<free, file, mem>>
    BY ZenonT(30), <1>4 DEF ReadChunk
  <2>2. mem' \in MemType
    BY <2>1 DEF Types
  <2> HIDE DEF k
  <2>3. cl[c].pc # "closed"
    BY <1>1 DEF Opened
  <2> QED
    BY ZenonT(30), <1>1, <1>2, <2>1, <2>2, <2>3, RestType, LocalWorks
<1> QED
    BY ZenonT(30), <1>3, <1>4

LEMMA WriteChunkWorks ==
  ASSUME Types, Memory, NEW c \in Clients, WriteChunk(c)
  PROVE  Works(c)
<1> DEFINE f == cl[c].f
           fl == file[f]
           from == cl[c].offset
           k == Least(cl[c].n, CHUNK)
           r == IF fl.size < from + k THEN Grow(free, fl, from + k) ELSE Result(free, fl, "OK")
           grown == [r.file EXCEPT !.size = IF @ < from + k THEN from + k ELSE @]
           q == Result(r.free, grown, r.ret)
<1>1. Opened(c) /\ cl[c] \in ClientType /\ f \in Files /\ fl \in FileType /\ cl[c].pc # "closed"
      /\ Well(free, fl) /\ free \in Seq(Blocks) /\ mem \in MemType
    BY ZenonT(30) DEF WriteChunk, At, Opened, Types, Memory
<1>2. cl[c].n \in Nat /\ from \in Nat /\ k \in Nat /\ k \in 0 .. cl[c].n /\ from + k \in Nat /\ cl[c].v \in Values \cup {Zero}
  <2>1. cl[c].n \in Nat /\ from \in Nat /\ CHUNK \in Nat /\ cl[c].v \in Values \cup {Zero}
    BY ZenonT(30), <1>1, FileDataAssumption DEF ClientType
  <2>2. k \in Nat /\ k \in 0 .. cl[c].n
    BY <2>1 DEF Least
  <2> QED
    BY <2>1, <2>2
<1> HIDE DEF k
<1>3. Exchanged(free, fl, r) /\ Kept(fl, r)
    BY ZenonT(30), <1>1, <1>2, GrowExchanges, Same
<1> HIDE DEF r
<1>4. Exchanged(free, fl, q) /\ Kept(fl, q)
  <2>1. r.free \in Seq(Blocks) /\ r.file \in FileType /\ Well(r.free, r.file)
    BY ZenonT(30), <1>3 DEF Exchanged
  <2>2. PICK m \in Nat : grown = [r.file EXCEPT !.size = m]
    BY ZenonT(30), <1>2, <2>1 DEF FileType
  <2>3. q = Result(r.free, [r.file EXCEPT !.size = m], r.ret)
    BY <2>2
  <2>4. Exchanged(r.free, r.file, q) /\ Kept(r.file, q)
    BY <2>1, <2>3, Same
  <2> HIDE DEF q
  <2> QED
    BY ZenonT(30), <1>3, <2>4 DEF Exchanged, Kept
<1>5. Rest(c, k) \in ClientType /\ Rest(c, 0) \in ClientType
      /\ Rest(c, k).f = f /\ Rest(c, k).pc # "closed" /\ Rest(c, k).blocks = cl[c].blocks
      /\ Rest(c, 0).f = f /\ Rest(c, 0).pc # "closed" /\ Rest(c, 0).blocks = cl[c].blocks
    BY SMTT(30), <1>1, <1>2, RestType, 0 \in 0 .. cl[c].n
<1>6. CASE ~fl.live
  <2> DEFINE e == [Rest(c, 0) EXCEPT !.offset = @ + k]
  <2>1. Become(c, e) /\ UNCHANGED <<free, file, mem>>
    BY ZenonT(30), <1>6 DEF WriteChunk, k
  <2>2. Rest(c, 0).offset + k \in Nat
    <3>1. Rest(c, 0).offset \in Nat
      BY ZenonT(30), <1>5 DEF ClientType
    <3> QED
      BY <1>2, <3>1
  <2>3. e \in ClientType /\ e.f = f /\ e.pc # "closed" /\ e.blocks = cl[c].blocks
    BY ZenonT(30), <1>5, <2>2 DEF ClientType
  <2> HIDE DEF e
  <2> QED
    BY ZenonT(30), <1>1, <2>1, <2>3, LocalWorks
<1>7. CASE fl.live /\ r.ret # "OK"
  <2>1. Serve(f, q) /\ Become(c, Rest(c, 0)) /\ UNCHANGED mem
    BY ZenonT(30), <1>7 DEF WriteChunk, r, k
  <2> HIDE DEF q
  <2> QED
    BY ZenonT(30), <1>1, <1>4, <1>5, <1>7, <2>1 DEF Works
<1>8. CASE fl.live /\ r.ret = "OK" /\ ~HasBlocks(grown.blocks, from + k)
  <2>1. Fails("write: m_memory_blocks")
    BY ZenonT(30), <1>8 DEF WriteChunk, r, k
  <2> QED
    BY ZenonT(30), <1>1, <2>1, FailsWorks
<1>9. CASE fl.live /\ r.ret = "OK" /\ HasBlocks(grown.blocks, from + k)
  <2> DEFINE e == [Rest(c, k) EXCEPT !.wrote = TRUE]
  <2>1. Serve(f, q) /\ Become(c, e) /\ mem' = Copied(mem, grown.blocks, from, k, cl[c].v)
    BY ZenonT(30), <1>9 DEF WriteChunk, r, k
  <2>2. e \in ClientType /\ e.f = f /\ e.pc # "closed" /\ e.blocks = cl[c].blocks
    BY ZenonT(30), <1>5 DEF ClientType
  <2>3. mem' \in MemType
    BY <1>1, <1>2, <2>1, CopiedType
  <2> HIDE DEF e, q
  <2> QED
    BY <1>1, <1>4, <1>9, <2>1, <2>2, <2>3 DEF Works
<1> QED
    BY <1>6, <1>7, <1>8, <1>9

LEMMA SeekWorks ==
  ASSUME Types, Memory, NEW c \in Clients, NEW p \in Nat, Seek(c, p)
  PROVE  Works(c)
<1>1. Opened(c) /\ cl[c] \in ClientType /\ cl[c].pc = "open"
    BY ZenonT(30) DEF Seek, At, Opened, Types
<1>2. CASE Fails("lseek")
    BY <1>1, <1>2, FailsWorks
<1>3. CASE ~Fails("lseek")
  <2>1. PICK r \in {[cl[c] EXCEPT !.pos = p], [cl[c] EXCEPT !.offset = p]} :
          Become(c, r) /\ UNCHANGED <<free, file, mem>>
    BY ZenonT(30), <1>3 DEF Seek
  <2>2. r \in ClientType /\ r.f = cl[c].f /\ r.pc # "closed" /\ r.blocks = cl[c].blocks
    BY ZenonT(30), <1>1, <2>1 DEF ClientType
  <2>3. mem' \in MemType
    BY <2>1 DEF Types
  <2> QED
    BY <1>1, <2>1, <2>2, <2>3, LocalWorks
<1> QED
    BY <1>2, <1>3

LEMMA TruncateWorks ==
  ASSUME Types, Memory, NEW c \in Clients, NEW n \in Nat, Truncate(c, n)
  PROVE  Works(c)
<1> DEFINE f == cl[c].f
           q == TruncateFile(free, file[f], n)
           r == IF setup.cached THEN [cl[c] EXCEPT !.size = n, !.pos = Least(@, n), !.wrote = TRUE]
                ELSE [cl[c] EXCEPT !.wrote = TRUE]
<1>1. Opened(c) /\ cl[c] \in ClientType /\ cl[c].pc = "open" /\ f \in Files /\ file[f] \in FileType
      /\ Well(free, file[f]) /\ free \in Seq(Blocks)
    BY ZenonT(30) DEF Truncate, At, Opened, Types, Memory
<1>2. CASE file[f].live /\ Underflows(file[f], n)
    BY <1>1, <1>2, FailsWorks DEF Truncate
<1>3. CASE ~(file[f].live /\ Underflows(file[f], n))
  <2>1. Become(c, r) /\ UNCHANGED mem /\ IF file[f].live THEN Serve(f, q) ELSE UNCHANGED <<free, file>>
    BY ZenonT(30), <1>3 DEF Truncate
  <2>2. Least(cl[c].pos, n) \in Nat
    BY <1>1 DEF ClientType, Least
  <2>3. r \in ClientType /\ r.f = cl[c].f /\ r.pc # "closed" /\ r.blocks = cl[c].blocks
    BY ZenonT(30), <1>1, <2>2 DEF ClientType
  <2>4. mem' \in MemType
    BY <2>1 DEF Types
  <2> HIDE DEF r
  <2>5. CASE ~file[f].live
    BY ZenonT(30), <1>1, <2>1, <2>3, <2>4, <2>5, LocalWorks
  <2>6. CASE file[f].live
    <3>1. Exchanged(free, file[f], q) /\ Kept(file[f], q)
      BY ZenonT(30), <1>1, <1>3, <2>6, TruncateExchanges
    <3> HIDE DEF q
    <3> QED
      BY ZenonT(30), <1>1, <2>1, <2>3, <2>4, <2>6, <3>1 DEF Works
  <2> QED
    BY <2>5, <2>6
<1> QED
    BY <1>2, <1>3

LEMMA FlushWorks ==
  ASSUME Types, Memory, NEW c \in Clients, NEW pc \in {"open", "closing"}, At(c, "open"), Flush(c, pc)
  PROVE  Works(c)
<1> DEFINE f == cl[c].f
           flushed == [cl[c] EXCEPT !.pc = pc, !.state = "INVALID"]
<1>1. Opened(c) /\ cl[c] \in ClientType /\ f \in Files /\ file[f] \in FileType
      /\ Well(free, file[f]) /\ free \in Seq(Blocks) /\ mem \in MemType
    BY ZenonT(30) DEF At, Opened, Types, Memory
<1>2. CASE ~setup.cached \/ cl[c].state # "EXCLUSIVE"
  <2>1. Become(c, flushed) /\ UNCHANGED <<free, file, mem>>
    BY <1>2 DEF Flush
  <2>2. flushed \in ClientType /\ flushed.f = f /\ flushed.pc # "closed" /\ flushed.blocks = cl[c].blocks
    BY ZenonT(30), <1>1 DEF ClientType, PCs
  <2> HIDE DEF flushed
  <2> QED
    BY ZenonT(30), <1>1, <2>1, <2>2, LocalWorks
<1>3. CASE ~(~setup.cached \/ cl[c].state # "EXCLUSIVE") /\ ~file[f].live
    BY <1>1, <1>3, FailsWorks DEF Flush
<1>4. CASE ~(~setup.cached \/ cl[c].state # "EXCLUSIVE") /\ file[f].live
  <2> DEFINE q == Result(free, [file[f] EXCEPT !.size = cl[c].size], "OK")
             r == [flushed EXCEPT !.offset = cl[c].pos]
  <2>1. file' = [file EXCEPT ![f].size = cl[c].size] /\ Become(c, r) /\ UNCHANGED <<free, mem>>
    BY ZenonT(30), <1>4 DEF Flush
  <2>2. r \in ClientType /\ r.f = f /\ r.pc # "closed" /\ r.blocks = cl[c].blocks /\ cl[c].size \in Nat
    BY ZenonT(30), <1>1 DEF ClientType, PCs
  <2>3. Exchanged(free, file[f], q) /\ Kept(file[f], q)
    BY <1>1, <2>2, Same
  <2>4. Serve(f, q)
    BY <1>1, <2>1 DEF Serve, Result, Types
  <2> HIDE DEF q, r
  <2> QED
    BY ZenonT(30), <1>1, <1>4, <2>1, <2>2, <2>3, <2>4 DEF Works
<1> QED
    BY ZenonT(30), <1>2, <1>3, <1>4

-----------------------------------------------------------------------------
(* The invariant is preserved.                                             *)

LEMMA ServeMemory ==
  ASSUME Types, Memory, NEW f \in Files, NEW q, Exchanged(free, file[f], q), Serve(f, q),
         q.file.live \/ q.file = None
  PROVE  free' \in Seq(Blocks) /\ file' \in [Files -> FileType] /\ Memory'
<1>1. /\ free' = q.free /\ free' \in Seq(Blocks) /\ file' \in [Files -> FileType]
      /\ file'[f] = q.file /\ \A g \in Files \ {f} : file'[g] = file[g]
    BY ZenonT(30) DEF Serve, Exchanged, Types
<1>2. /\ Well(free', file'[f])
      /\ Range(free') \cup Own(file'[f]) = Range(free) \cup Own(file[f])
    BY <1>1 DEF Exchanged
<1>3. \A g \in Files \ {f} : Own(file[g]) \cap (Range(free) \cup Own(file[f])) = {}
    BY ZenonT(30) DEF Memory, Well, Disjoint, Own
<1>4. ASSUME NEW g \in Files
      PROVE  Well(free', file'[g]) /\ (file'[g].live \/ file'[g] = None)
  <2>1. CASE g = f
    BY ZenonT(30), <1>1, <1>2, <2>1
  <2>2. CASE g # f
    <3>1. file'[g] = file[g] /\ Own(file[g]) \cap Range(free') = {} /\ IsInjective(free')
      BY ZenonT(30), <1>1, <1>2, <1>3, <2>2 DEF Well
    <3> QED
      BY ZenonT(30), <3>1 DEF Memory, Well, Disjoint, Own
  <2> QED
    BY ZenonT(30), <2>1, <2>2
<1>5. ASSUME NEW g \in Files, NEW h \in Files, g # h
      PROVE  Own(file'[g]) \cap Own(file'[h]) = {}
  <2>1. CASE g # f /\ h # f
    BY ZenonT(30), <1>1, <1>5, <2>1 DEF Memory
  <2>2. CASE g = f
    BY ZenonT(30), <1>1, <1>2, <1>3, <1>5, <2>2
  <2>3. CASE h = f
    BY ZenonT(30), <1>1, <1>2, <1>3, <1>5, <2>3
  <2> QED
    BY ZenonT(30), <2>1, <2>2, <2>3
<1>6. ASSUME NEW b \in Blocks
      PROVE  b \in Range(free') \/ \E g \in Files : b \in Own(file'[g])
    BY ZenonT(30), <1>1, <1>2 DEF Memory
<1> QED
    BY ZenonT(30), <1>1, <1>2, <1>4, <1>5, <1>6 DEF Memory, Well

LEMMA WorksInv ==
  ASSUME IInv, NEW c \in Clients, Works(c), UNCHANGED setup
  PROVE  IInv'
<1>1. Types /\ Memory /\ Attached /\ Sole
    BY ZenonT(30) DEF IInv
<1> DEFINE f == cl[c].f
<1>2. PICK r \in ClientType :
        /\ Become(c, r) /\ r.f = f /\ r.pc # "closed"
        /\ Range(r.blocks) \subseteq Range(cl[c].blocks) \cup Own(file[f])
    BY ZenonT(30) DEF Works
<1>3. PICK q : Exchanged(free, file[f], q) /\ Kept(file[f], q) /\ Serve(f, q)
    BY ZenonT(30) DEF Works
<1>4. Opened(c) /\ f \in Files /\ mem' \in MemType
    BY ZenonT(30), <1>1 DEF Works, Types
<1>5. cl' \in [Clients -> ClientType] /\ cl'[c] = r /\ \A d \in Clients \ {c} : cl'[d] = cl[d]
    BY <1>1, <1>2 DEF Types, Become
<1>6. \A d \in Clients : (Opened(d)' <=> Opened(d)) /\ (Opened(d) => cl'[d].f = cl[d].f)
    BY ZenonT(30), <1>2, <1>4, <1>5 DEF Opened
<1>7. free' \in Seq(Blocks) /\ file' \in [Files -> FileType] /\ Memory'
  <2>1. CASE file[f].live
    BY ZenonT(30), <1>1, <1>3, <1>4, <2>1, ServeMemory DEF Kept
  <2>2. CASE UNCHANGED <<free, file>>
    BY ZenonT(30), <1>1, <2>2 DEF Memory, Types
  <2> QED
    BY ZenonT(30), <2>1, <2>2 DEF Works
<1>8. Types'
    BY ZenonT(30), <1>1, <1>4, <1>5, <1>6, <1>7 DEF Types
<1>9. \A g \in Files : /\ Own(file[g]) \subseteq Own(file'[g])
                       /\ file'[g].live = file[g].live /\ file'[g].named = file[g].named
  <2>1. file'[f] = q.file /\ \A g \in Files \ {f} : file'[g] = file[g]
    BY ZenonT(30), <1>1, <1>3, <1>4 DEF Serve, Types
  <2> QED
    BY ZenonT(30), <1>3, <2>1 DEF Kept
<1>10. Attached'
  <2> SUFFICES ASSUME Alone', setup'.cached, NEW d \in Clients, Opened(d)'
               PROVE  file'[cl'[d].f].live /\ Range(cl'[d].blocks) \subseteq Own(file'[cl'[d].f])
    BY ZenonT(30) DEF Attached
  <2>1. Opened(d) /\ cl'[d].f = cl[d].f /\ cl[d].f \in Files
    BY ZenonT(30), <1>1, <1>6 DEF Types
  <2>2. file[cl[d].f].live /\ Range(cl[d].blocks) \subseteq Own(file[cl[d].f])
    BY ZenonT(30), <1>1, <2>1 DEF Attached, Alone
  <2>3. Range(cl'[d].blocks) \subseteq Own(file[cl[d].f])
    <3>1. CASE d = c
      BY ZenonT(30), <1>2, <1>5, <2>2, <3>1
    <3>2. CASE d # c
      BY ZenonT(30), <1>5, <2>2, <3>2
    <3> QED
      BY ZenonT(30), <3>1, <3>2
  <2> QED
    BY ZenonT(30), <1>9, <2>1, <2>2, <2>3
<1>11. Sole'
    BY ZenonT(30), <1>1, <1>6, <1>9 DEF Sole, Alone
<1> QED
    BY ZenonT(30), <1>7, <1>8, <1>10, <1>11 DEF IInv

LEMMA CreateInv ==
  ASSUME IInv, NEW f \in Files, Create(f), UNCHANGED setup
  PROVE  IInv'
<1>1. Types /\ Memory /\ Attached /\ Sole
    BY ZenonT(30) DEF IInv
<1> DEFINE fl == [None EXCEPT !.named = TRUE, !.live = TRUE]
           q == Result(free, fl, "OK")
<1>2. ~file[f].live /\ file[f] = None /\ Serve(f, q) /\ UNCHANGED <<mem, cl>>
    BY ZenonT(30), <1>1 DEF Create, Memory, Serve, Result
<1>3. fl \in FileType /\ fl.live /\ fl.named /\ fl.blocks = None.blocks /\ fl.orphans = None.orphans
    BY ZenonT(30), EmptyList DEF None, FileType
<1>4. Exchanged(free, file[f], q)
  <2>1. Well(free, file[f]) /\ free \in Seq(Blocks)
    BY ZenonT(30), <1>1 DEF Memory, Types
  <2> QED
    BY ZenonT(30), <1>2, <1>3, <2>1 DEF Exchanged, Result, Well, Own
<1>5. free' \in Seq(Blocks) /\ file' \in [Files -> FileType] /\ Memory'
    BY ZenonT(30), <1>1, <1>2, <1>3, <1>4, ServeMemory DEF Result
<1>6. file'[f] = fl /\ \A g \in Files \ {f} : file'[g] = file[g]
    BY ZenonT(30), <1>1, <1>2 DEF Serve, Result, Types
<1> HIDE DEF fl, q
<1>7. Types'
    BY ZenonT(30), <1>1, <1>2, <1>5 DEF Types, Opened
<1>8. Attached'
    BY ZenonT(30), <1>1, <1>2, <1>6 DEF Attached, Alone, Opened, Types
<1>9. Sole'
    BY ZenonT(30), <1>1, <1>2, <1>3, <1>6 DEF Sole, Alone, Opened
<1> QED
    BY ZenonT(30), <1>5, <1>7, <1>8, <1>9 DEF IInv

LEMMA OpenFileInv ==
  ASSUME IInv, NEW c \in Clients, NEW f \in Files, NEW trunc \in BOOLEAN, NEW append \in BOOLEAN,
         OpenFile(c, f, trunc, append), UNCHANGED setup
  PROVE  IInv'
<1>1. Types /\ Memory /\ Attached /\ Sole
    BY ZenonT(30) DEF IInv
<1> DEFINE q == IF trunc THEN TruncateFile(free, file[f], 0) ELSE Result(free, file[f], "OK")
           start == IF append THEN q.file.size ELSE 0
           r == [Closed EXCEPT !.pc = IF setup.cached /\ q.file.size > 0 THEN "caching" ELSE "open",
                               !.f = f, !.offset = start, !.pos = start, !.size = q.file.size,
                               !.state = "SHARED", !.wrote = trunc]
<1>2. /\ ~Opened(c) /\ file[f].named /\ Cardinality(Openers(f)) < setup.openers
      /\ Serve(f, q) /\ Become(c, r) /\ UNCHANGED mem
    BY ZenonT(30) DEF OpenFile, At, Opened
<1>3. file[f].live /\ file[f] \in FileType /\ Well(free, file[f]) /\ free \in Seq(Blocks)
    BY <1>1, <1>2 DEF Memory, Types, None
<1>4. Exchanged(free, file[f], q) /\ Kept(file[f], q)
  <2>1. ~Underflows(file[f], 0)
    BY SMTT(30), <1>3, BlocksForZero DEF Underflows, FileType
  <2> QED
    BY ZenonT(30), <1>3, <2>1, TruncateExchanges, Same
<1> HIDE DEF q
<1>5. q.file.size \in Nat /\ start \in Nat
    BY ZenonT(30), <1>4 DEF Exchanged, FileType
<1> HIDE DEF start
<1>6. r \in ClientType /\ r.pc # "closed" /\ r.f = f /\ r.blocks = <<>>
    BY ZenonT(30), <1>5, EmptyList DEF Closed, ClientType, PCs
<1> HIDE DEF r
<1>7. cl' \in [Clients -> ClientType] /\ cl'[c] = r /\ \A d \in Clients \ {c} : cl'[d] = cl[d]
    BY ZenonT(30), <1>1, <1>2, <1>6 DEF Types, Become
<1>8. free' \in Seq(Blocks) /\ file' \in [Files -> FileType] /\ Memory'
    BY ZenonT(30), <1>1, <1>2, <1>3, <1>4, ServeMemory DEF Kept
<1>9. \A d \in Clients : Opened(d)' => (d = c /\ cl'[d] = r) \/ (d # c /\ Opened(d) /\ cl'[d] = cl[d])
    BY ZenonT(30), <1>7 DEF Opened
<1>10. Types'
    BY ZenonT(30), <1>1, <1>2, <1>6, <1>7, <1>8, <1>9 DEF Types
<1>11. \A g \in Files : /\ Own(file[g]) \subseteq Own(file'[g])
                        /\ file'[g].live = file[g].live /\ file'[g].named = file[g].named
  <2>1. file'[f] = q.file /\ \A g \in Files \ {f} : file'[g] = file[g]
    BY ZenonT(30), <1>1, <1>2 DEF Serve, Types
  <2> QED
    BY ZenonT(30), <1>4, <2>1 DEF Kept
<1>12. Attached'
  <2> SUFFICES ASSUME Alone', setup'.cached, NEW d \in Clients, Opened(d)'
               PROVE  file'[cl'[d].f].live /\ Range(cl'[d].blocks) \subseteq Own(file'[cl'[d].f])
    BY ZenonT(30) DEF Attached
  <2>1. CASE d = c
    BY ZenonT(30), <1>3, <1>6, <1>9, <1>11, <2>1, EmptyList
  <2>2. CASE d # c
    <3>1. Opened(d) /\ cl'[d] = cl[d] /\ cl[d].f \in Files
      BY ZenonT(30), <1>1, <1>9, <2>2 DEF Types
    <3>2. file[cl[d].f].live /\ Range(cl[d].blocks) \subseteq Own(file[cl[d].f])
      BY ZenonT(30), <1>1, <3>1 DEF Attached, Alone
    <3> QED
      BY ZenonT(30), <1>11, <3>1, <3>2
  <2> QED
    BY ZenonT(30), <2>1, <2>2
<1>13. Sole'
  <2>1. Alone /\ setup.cached /\ setup.unlinks => Openers(f) = {}
    <3>1. IsFiniteSet(Openers(f))
      BY ZenonT(30), FileDataAssumption, FS_Subset DEF Openers
    <3>2. Alone /\ setup.cached /\ setup.unlinks => setup.openers = 1
      BY ZenonT(30) DEF Alone
    <3> QED
      BY SMTT(30), <1>2, <3>1, <3>2, FS_CardinalityType, FS_EmptySet
  <2>2. \A d \in Clients : Opened(d) /\ cl[d].f = f => d \in Openers(f)
    BY DEF Opened, Openers
  <2>3. ASSUME Alone', setup'.cached, setup'.unlinks, NEW d \in Clients, NEW e \in Clients,
               Opened(d)', Opened(e)', cl'[d].f = cl'[e].f
        PROVE  d = e
    BY SMTT(30), <1>1, <1>6, <1>9, <2>1, <2>2, <2>3 DEF Sole, Alone
  <2> QED
    BY ZenonT(30), <1>1, <1>11, <2>3 DEF Sole
<1> QED
    BY ZenonT(30), <1>8, <1>10, <1>12, <1>13 DEF IInv

\* A file is deleted that no client but c has open.
LEMMA DeleteInv ==
  ASSUME IInv, NEW f \in Files, Serve(f, Result(Deleted(free, file[f]), None, "OK")), UNCHANGED <<mem, setup>>,
         cl' \in [Clients -> ClientType],
         \A d \in Clients : Opened(d)' => Opened(d) /\ cl'[d] = cl[d],
         \A d \in Clients : Alone /\ setup.cached /\ Opened(d)' => cl[d].f # f
  PROVE  IInv'
<1>1. Types /\ Memory /\ Attached /\ Sole
    BY ZenonT(30) DEF IInv
<1> DEFINE q == Result(Deleted(free, file[f]), None, "OK")
<1>2. Exchanged(free, file[f], q)
    BY ZenonT(30), <1>1, DeletedExchanges DEF Types, Memory
<1>3. free' \in Seq(Blocks) /\ file' \in [Files -> FileType] /\ Memory'
    BY ZenonT(30), <1>1, <1>2, ServeMemory DEF Result
<1>4. file'[f] = None /\ \A g \in Files \ {f} : file'[g] = file[g]
    BY ZenonT(30), <1>1 DEF Serve, Result, Types
<1>5. Types'
    BY ZenonT(30), <1>1, <1>3 DEF Types
<1>6. Attached'
    BY ZenonT(30), <1>1, <1>4 DEF Attached, Alone, Types
<1>7. Sole'
    BY SMTT(30), <1>1, <1>4 DEF Sole, Alone, None
<1> QED
    BY ZenonT(30), <1>3, <1>5, <1>6, <1>7 DEF IInv

LEMMA ClosedType == Closed \in ClientType /\ Closed.pc = "closed"
BY ZenonT(30), EmptyList DEF Closed, ClientType, PCs

LEMMA CloseFileInv ==
  ASSUME IInv, NEW c \in Clients, CloseFile(c), UNCHANGED setup
  PROVE  IInv'
<1>1. Types /\ Memory /\ Attached /\ Sole
    BY DEF IInv
<1> DEFINE f == cl[c].f
<1>2. Opened(c) /\ f \in Files
    BY ZenonT(30), <1>1 DEF CloseFile, At, Opened, Types
<1>3. CASE ~file[f].live
    BY ZenonT(30), <1>1, <1>2, <1>3, FailsWorks, WorksInv DEF CloseFile
<1>4. CASE file[f].live
  <2>1. /\ IF file[f].named THEN UNCHANGED <<free, file>>
           ELSE Serve(f, Result(Deleted(free, file[f]), None, "OK"))
        /\ Become(c, Closed) /\ UNCHANGED mem
    BY ZenonT(30), <1>4 DEF CloseFile
  <2>2. /\ cl' \in [Clients -> ClientType] /\ cl'[c] = Closed
        /\ \A d \in Clients \ {c} : cl'[d] = cl[d]
    BY <1>1, <2>1, ClosedType DEF Types, Become
  <2>3. \A d \in Clients : Opened(d)' => d # c /\ Opened(d) /\ cl'[d] = cl[d]
    BY ZenonT(30), <2>2, ClosedType DEF Opened
  <2>4. CASE file[f].named
    <3>1. UNCHANGED <<free, file>>
      BY ZenonT(30), <2>1, <2>4
    <3>2. Types'
      BY ZenonT(30), <1>1, <2>1, <2>2, <2>3, <3>1 DEF Types
    <3>3. Memory'
      BY ZenonT(30), <1>1, <3>1 DEF Memory
    <3>4. Attached'
      BY ZenonT(30), <1>1, <2>3, <3>1 DEF Attached, Alone
    <3>5. Sole'
      BY SMTT(30), <1>1, <2>3, <3>1 DEF Sole, Alone
    <3> QED
      BY <3>2, <3>3, <3>4, <3>5 DEF IInv
  <2>5. CASE ~file[f].named
    <3>1. \A d \in Clients : Alone /\ setup.cached /\ Opened(d)' => cl[d].f # f
      BY ZenonT(30), <1>1, <1>2, <1>4, <2>3, <2>5 DEF Sole
    <3> QED
      BY ZenonT(30), <1>2, <2>1, <2>2, <2>3, <2>5, <3>1, DeleteInv
  <2> QED
    BY ZenonT(30), <2>4, <2>5
<1> QED
    BY ZenonT(30), <1>3, <1>4

LEMMA UnlinkInv ==
  ASSUME IInv, NEW f \in Files, Unlink(f), UNCHANGED setup
  PROVE  IInv'
<1>1. Types /\ Memory /\ Attached /\ Sole
    BY DEF IInv
<1>2. setup.unlinks /\ file[f].named /\ UNCHANGED <<mem, cl>>
    BY ZenonT(30) DEF Unlink
<1>3. CASE Openers(f) # {}
  <2> DEFINE fl == [file[f] EXCEPT !.named = FALSE]
             q == Result(free, fl, "OK")
  <2>1. file' = [file EXCEPT ![f].named = FALSE] /\ UNCHANGED free
    BY ZenonT(30), <1>3 DEF Unlink
  <2>2. file[f] \in FileType /\ Well(free, file[f]) /\ free \in Seq(Blocks) /\ file[f].live
    BY <1>1, <1>2 DEF Types, Memory, None
  <2>3. fl \in FileType /\ fl.blocks = file[f].blocks /\ fl.orphans = file[f].orphans /\ fl.live
    BY ZenonT(30), <2>2 DEF FileType
  <2>4. Exchanged(free, file[f], q) /\ Serve(f, q)
    BY ZenonT(30), <1>1, <2>1, <2>2, <2>3 DEF Exchanged, Result, Well, Own, Serve, Types
  <2>5. free' \in Seq(Blocks) /\ file' \in [Files -> FileType] /\ Memory'
    BY ZenonT(30), <1>1, <2>3, <2>4, ServeMemory DEF Result
  <2>6. file'[f] = fl /\ \A g \in Files \ {f} : file'[g] = file[g]
    BY <1>1, <2>1 DEF Types
  <2> HIDE DEF fl, q
  <2>7. Types'
    BY ZenonT(30), <1>1, <1>2, <2>5 DEF Types, Opened
  <2>8. Attached'
    BY ZenonT(30), <1>1, <1>2, <2>2, <2>3, <2>6 DEF Attached, Alone, Opened, Own, Types
  <2>9. Sole'
    BY ZenonT(30), <1>1, <1>2, <2>6 DEF Sole, Alone, Opened
  <2> QED
    BY <2>5, <2>7, <2>8, <2>9 DEF IInv
<1>4. CASE Openers(f) = {}
  <2>1. Serve(f, Result(Deleted(free, file[f]), None, "OK"))
    BY ZenonT(30), <1>4 DEF Unlink
  <2>2. cl' \in [Clients -> ClientType] /\ \A d \in Clients : (Opened(d)' <=> Opened(d)) /\ cl'[d] = cl[d]
    BY <1>1, <1>2 DEF Types, Opened
  <2>3. \A d \in Clients : Opened(d) => cl[d].f # f
    BY ZenonT(30), <1>4 DEF Openers, Opened
  <2> QED
    BY ZenonT(30), <1>2, <2>1, <2>2, <2>3, DeleteInv
<1> QED
    BY ZenonT(30), <1>3, <1>4

LEMMA InvInit == Init => IInv
<1> SUFFICES ASSUME Init
             PROVE  IInv
    OBVIOUS
<1>1. free \in Seq(Blocks) /\ IsInjective(free) /\ Range(free) = Blocks
    BY ZenonT(30), Listed DEF Init
<1>2. None \in FileType /\ None.blocks = <<>> /\ None.orphans = <<>> /\ ~None.live
    BY ZenonT(30), EmptyList DEF None, FileType
<1>3. Types
    BY ZenonT(30), <1>1, <1>2, ClosedType, FileDataAssumption DEF Init, Types, MemType, Opened
<1>4. Memory
    BY ZenonT(30), <1>1, <1>2, EmptyList DEF Init, Memory, Well, Disjoint, Own
<1>5. Attached /\ Sole
    BY ZenonT(30), <1>2, ClosedType DEF Init, Attached, Sole, Opened
<1> QED
    BY <1>3, <1>4, <1>5 DEF IInv

LEMMA InvStep == IInv /\ [Next]_vars => IInv'
<1> SUFFICES ASSUME IInv, [Next]_vars
             PROVE  IInv'
    BY ZenonT(30)
<1>0. Types /\ Memory
    BY DEF IInv
<1>1. CASE UNCHANGED vars
    BY ZenonT(30), <1>1 DEF vars, IInv, Types, Memory, Attached, Sole, Alone, Opened
<1>2. ASSUME UNCHANGED setup, NEW f \in Files, Create(f) \/ Unlink(f)
      PROVE  IInv'
    BY <1>2, CreateInv, UnlinkInv
<1>3. ASSUME UNCHANGED setup, NEW c \in Clients, Call(c)
      PROVE  IInv'
  <2>0. MaxSize \in Nat
    BY ZenonT(30), FileDataAssumption
  <2>1. ASSUME NEW f \in Files, NEW trunc \in BOOLEAN, NEW append \in BOOLEAN, OpenFile(c, f, trunc, append)
        PROVE  IInv'
    BY <1>3, <2>1, OpenFileInv
  <2>2. ASSUME NEW n \in 1 .. MaxSize, NEW v \in Values, Write(c, n, v) \/ StartTransfer(c, "writing", n, v)
        PROVE  IInv'
    <3>1. n \in Nat
      BY SMTT(30), <2>0
    <3> QED
      BY ZenonT(30), <1>0, <1>3, <2>2, <3>1, WriteWorks, StartTransferWorks, WorksInv
  <2>3. ASSUME NEW n \in 1 .. MaxSize, Read(c, n) \/ StartTransfer(c, "reading", n, Zero)
        PROVE  IInv'
    <3>1. n \in Nat
      BY SMTT(30), <2>0
    <3> QED
      BY <1>0, <1>3, <2>3, <3>1, ReadWorks, StartTransferWorks, WorksInv
  <2>4. ASSUME NEW p \in Offsets, Seek(c, p) \/ Truncate(c, p)
        PROVE  IInv'
    <3>1. p \in Nat
      BY SMTT(30), <2>0 DEF Offsets
    <3> QED
      BY <1>0, <1>3, <2>4, <3>1, SeekWorks, TruncateWorks, WorksInv
  <2>5. ASSUME Share(c)
        PROVE  IInv'
    BY <1>0, <1>3, <2>5, FlushWorks, WorksInv DEF Share
  <2> QED
    BY <1>3, <2>1, <2>2, <2>3, <2>4, <2>5, ZenonT(30) DEF Call
<1>4. ASSUME UNCHANGED setup, NEW c \in Clients, Continue(c)
      PROVE  IInv'
  <2>1. CASE CacheBlocks(c) \/ GetBlocks(c) \/ ReadChunk(c) \/ WriteChunk(c)
    BY ZenonT(30), <1>0, <1>4, <2>1, CacheBlocksWorks, GetBlocksWorks, ReadChunkWorks, WriteChunkWorks, WorksInv
  <2>2. CASE StartClose(c)
    BY ZenonT(30), <1>0, <1>4, <2>2, FlushWorks, WorksInv DEF StartClose
  <2>3. CASE CloseFile(c)
    BY ZenonT(30), <1>4, <2>3, CloseFileInv
  <2> QED
    BY ZenonT(30), <1>4, <2>1, <2>2, <2>3 DEF Continue
<1> QED
    BY <1>1, <1>2, <1>3, <1>4, ZenonT(30) DEF Next

LEMMA Invariant == Spec => []IInv
BY InvInit, InvStep, PTL DEF Spec

-----------------------------------------------------------------------------
(* Results.                                                                *)

\* The server's files, the free list and the memory keep their types, and a client
\* that has a file open has one of the files and blocks of the server.
THEOREM TypeCorrect == Spec => []TypeOK
<1>1. Spec => [](setup \in Setups)
  <2>1. Init => setup \in Setups
    BY ZenonT(30) DEF Init
  <2>2. setup \in Setups /\ [Next]_vars => (setup \in Setups)'
    BY DEF Next, vars
  <2> QED
    BY <2>1, <2>2, PTL DEF Spec
<1>2. IInv /\ setup \in Setups => TypeOK
    BY DEF IInv, Types, TypeOK, Opened, ClientType, MemType
<1> QED
    BY <1>1, <1>2, Invariant, PTL

\* No block is lost or given out twice (file.cpp, buffer_cache.cpp): however clients
\* open, write, truncate, cache, flush, close and unlink files, each block is in the
\* free list or in one file, once.
THEOREM BlocksPlacedOnce == Spec => []BlocksOnce
<1>1. ASSUME IInv, NEW b \in Blocks
      PROVE  Cardinality(Places(b)) = 1
  <2>1. Types /\ Memory
    BY <1>1 DEF IInv
  <2> DEFINE All(f) == file[f].blocks \o file[f].orphans
  <2>2. \A f \in Files : /\ All(f) \in Seq(Blocks) /\ Range(All(f)) = Own(file[f])
                         /\ IsInjective(All(f))
    <3> SUFFICES ASSUME NEW f \in Files
                 PROVE  All(f) \in Seq(Blocks) /\ Range(All(f)) = Own(file[f]) /\ IsInjective(All(f))
      OBVIOUS
    <3>1. file[f].blocks \in Seq(Blocks) /\ file[f].orphans \in Seq(Blocks) /\ Well(free, file[f])
      BY <2>1 DEF Types, Memory, FileType
    <3> QED
      BY ZenonT(30), <3>1, Joined DEF Well, Own
  <2>3. Places(b) = {<<"free", i>> : i \in {j \in DOMAIN free : free[j] = b}}
                      \cup UNION {{<<f, i>> : i \in {j \in DOMAIN All(f) : All(f)[j] = b}} : f \in Files}
    BY DEF Places
  <2> HIDE DEF All
  <2>4. free \in Seq(Blocks)
    BY <2>1 DEF Types
  <2>5. \E x : Places(b) = {x}
    <3>1. CASE b \in Range(free)
      <4>1. PICK i \in DOMAIN free : free[i] = b
        BY <3>1 DEF Range
      <4>2. IsInjective(free) /\ \A f \in Files : b \notin Own(file[f])
        BY ZenonT(30), <2>1, <3>1 DEF Memory, Well, Disjoint, Own
      <4>3. \A f \in Files : {j \in DOMAIN All(f) : All(f)[j] = b} = {}
        BY ZenonT(30), <2>2, <4>2 DEF Range
      <4>4. {j \in DOMAIN free : free[j] = b} = {i}
        BY ZenonT(30), <4>1, <4>2 DEF IsInjective
      <4>5. Places(b) = {<<"free", i>>}
        BY <2>3, <4>3, <4>4, ZenonT(30)
      <4> QED
        BY ZenonT(30), <4>5
    <3>2. CASE b \notin Range(free)
      <4>1. PICK g \in Files : b \in Own(file[g])
        BY <2>1, <3>2 DEF Memory
      <4>2. PICK i \in DOMAIN All(g) : All(g)[i] = b
        BY ZenonT(30), <2>2, <4>1 DEF Range
      <4>3. \A f \in Files \ {g} : b \notin Own(file[f])
        BY ZenonT(30), <2>1, <4>1 DEF Memory
      <4>4. \A f \in Files \ {g} : {j \in DOMAIN All(f) : All(f)[j] = b} = {}
        BY ZenonT(30), <2>2, <4>3 DEF Range
      <4>5. {j \in DOMAIN All(g) : All(g)[j] = b} = {i}
        BY ZenonT(30), <2>2, <4>2 DEF IsInjective
      <4>6. {j \in DOMAIN free : free[j] = b} = {}
        BY ZenonT(30), <3>2 DEF Range
      <4>7. Places(b) = {<<g, i>>}
        <5> DEFINE Spots(f) == {j \in DOMAIN All(f) : All(f)[j] = b}
        <5>1. Places(b) = UNION {{<<f, j>> : j \in Spots(f)} : f \in Files}
          BY ZenonT(30), <2>3, <4>6
        <5>2. Spots(g) = {i} /\ \A f \in Files \ {g} : Spots(f) = {}
          BY ZenonT(30), <4>4, <4>5
        <5> HIDE DEF Spots
        <5>3. <<g, i>> \in Places(b)
          BY SMTT(30), <5>1, <5>2
        <5>4. \A x \in Places(b) : \E f \in Files : \E j \in Spots(f) : x = <<f, j>>
          BY ZenonT(30), <5>1
        <5> QED
          BY <5>2, <5>3, <5>4
      <4> QED
        BY ZenonT(30), <4>7
    <3> QED
      BY <3>1, <3>2
  <2> QED
    BY ZenonT(30), <2>5, FS_Singleton
<1>2. IInv => BlocksOnce
    BY <1>1 DEF BlocksOnce
<1> QED
    BY <1>2, Invariant, PTL

\* A client that caches a file uses blocks of that file only, whatever other clients
\* do to the file meanwhile (File::shrink keeps the blocks it takes off), unless
\* the file can be unlinked while several clients have it open.
THEOREM CachedBlocksOwned == Spec => [](Alone => CachedOwned)
<1>1. ASSUME IInv, Alone, NEW c \in Clients, cl[c].pc = "open", Caches(c)
      PROVE  Range(cl[c].blocks) \subseteq Range(file[cl[c].f].blocks \o file[cl[c].f].orphans)
  <2>1. cl[c].f \in Files /\ Range(cl[c].blocks) \subseteq Own(file[cl[c].f])
    BY ZenonT(30), <1>1 DEF IInv, Types, Attached, Opened, Caches
  <2>2. file[cl[c].f].blocks \in Seq(Blocks) /\ file[cl[c].f].orphans \in Seq(Blocks)
    BY <1>1, <2>1 DEF IInv, Types, FileType
  <2> QED
    BY ZenonT(30), <2>1, <2>2, Joined DEF Own
<1>2. IInv => (Alone => CachedOwned)
    BY ZenonT(30), <1>1 DEF CachedOwned
<1> QED
    BY <1>2, Invariant, PTL
==============================================================================
