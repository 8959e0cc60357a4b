--------------------------- MODULE GluePbufProofs ---------------------------
(***************************************************************************)
(* Proofs about GluePbuf, for any number of packets, wrappers, blob pbufs  *)
(* and descriptors: its invariants, and that it implements PbufLoan.       *)
(***************************************************************************)
EXTENDS GluePbuf, FiniteSetTheorems, SequenceTheorems, TLAPS

\* There are finitely many wrappers, so what the blobs hold is countable.
LEMMA WrappersFinite == IsFiniteSet(Wrappers)
<1>1. BlockSize * MaxBlocks \in Int
  BY BlockAssumption
<1>2. QED
  BY <1>1, FS_Interval DEF Wrappers

\* The wrappers through which a packet is lent: a finite set.
LEMMA LentFinite ==
  ASSUME phy \subseteq Wrappers, NEW p
  PROVE  IsFiniteSet(LentAs(p)) /\ Cardinality(LentAs(p)) \in Nat
<1>1. LentAs(p) \subseteq Wrappers
  BY DEF LentAs
<1>2. IsFiniteSet(LentAs(p))
  BY <1>1, WrappersFinite, FS_Subset
<1>3. QED
  BY <1>2, FS_CardinalityType

\* A lent packet is counted at least once.
LEMMA LentCounted ==
  ASSUME phy \subseteq Wrappers, NEW w \in phy
  PROVE  Cardinality(LentAs(save[w])) >= 1
<1>1. IsFiniteSet(LentAs(save[w])) /\ Cardinality(LentAs(save[w])) \in Nat
  BY LentFinite
<1>2. w \in LentAs(save[w])
  BY DEF LentAs
<1>3. Cardinality(LentAs(save[w])) # 0
  BY <1>1, <1>2, FS_EmptySet
<1>4. QED
  BY <1>1, <1>3

\* pbuf_wrapper_get extends the pool with wrappers of its own.
LEMMA BlockType ==
  ASSUME NEW n \in 0 .. MaxBlocks, n < MaxBlocks
  PROVE  /\ Block(n) \in Seq(Wrappers)
         /\ Len(Block(n)) = BlockSize
         /\ \A i \in 1 .. BlockSize : Block(n)[i] = n * BlockSize + i
         /\ (n + 1) * BlockSize = n * BlockSize + BlockSize
         /\ (n + 1) * BlockSize <= MaxBlocks * BlockSize
         /\ n * BlockSize \in Nat
<1>1. (n + 1) * BlockSize = n * BlockSize + BlockSize
  BY BlockAssumption
<1>2. n * BlockSize \in Nat /\ MaxBlocks * BlockSize \in Nat
  BY BlockAssumption
<1>3. PICK k \in Nat : MaxBlocks = n + 1 + k
  <2>1. MaxBlocks - (n + 1) \in Nat
    BY BlockAssumption
  <2>2. QED
    BY <2>1, BlockAssumption
<1>4. k * BlockSize \in Nat
  BY <1>3, BlockAssumption
<1>5. MaxBlocks * BlockSize = (n + 1) * BlockSize + k * BlockSize
  BY <1>3, BlockAssumption
<1>6. (n + 1) * BlockSize <= MaxBlocks * BlockSize
  BY <1>1, <1>2, <1>4, <1>5, BlockAssumption
<1>7. \A i \in 1 .. BlockSize : n * BlockSize + i \in Wrappers
  BY <1>1, <1>2, <1>6, BlockAssumption DEF Wrappers
<1>8. Block(n) \in [1 .. BlockSize -> Wrappers]
  BY <1>7 DEF Block
<1>9. Block(n) \in Seq(Wrappers) /\ Len(Block(n)) = BlockSize
  BY <1>8, BlockAssumption
<1>10. QED
  BY <1>1, <1>2, <1>6, <1>9 DEF Block

\* A list of distinct wrappers, and whether a wrapper is in it.
Distinct(s) == \A i, j \in 1 .. Len(s) : s[i] = s[j] => i = j
In(s, v) == \E i \in 1 .. Len(s) : s[i] = v

\* pbuf_wrapper_release adds exactly the wrapper it is given.
LEMMA PushFacts ==
  ASSUME NEW s \in Seq(Wrappers), NEW w \in Wrappers, Distinct(s), ~In(s, w)
  PROVE  /\ Append(s, w) \in Seq(Wrappers)
         /\ Distinct(Append(s, w))
         /\ \A v : In(Append(s, w), v) <=> In(s, v) \/ v = w
<1>1. /\ Append(s, w) \in Seq(Wrappers)
      /\ Len(Append(s, w)) = Len(s) + 1
      /\ \A i \in 1 .. Len(s) : Append(s, w)[i] = s[i]
      /\ Append(s, w)[Len(s) + 1] = w
      /\ Len(s) \in Nat
  OBVIOUS
<1>2. Distinct(Append(s, w))
  BY <1>1 DEF Distinct, In
<1>3. ASSUME NEW v PROVE In(Append(s, w), v) <=> In(s, v) \/ v = w
  BY <1>1 DEF In
<1>4. QED
  BY <1>1, <1>2, <1>3

\* pbuf_wrapper_get removes exactly the wrapper it returns.
LEMMA PopFacts ==
  ASSUME NEW s \in Seq(Wrappers), s # <<>>, Distinct(s)
  PROVE  /\ Pop(s) \in Seq(Wrappers)
         /\ Top(s) \in Wrappers
         /\ Distinct(Pop(s))
         /\ In(s, Top(s))
         /\ \A v : In(Pop(s), v) <=> In(s, v) /\ v # Top(s)
<1>1. Len(s) \in Nat \ {0}
  OBVIOUS
<1>2. /\ Pop(s) \in Seq(Wrappers)
      /\ Len(Pop(s)) = Len(s) - 1
      /\ \A i \in 1 .. Len(s) - 1 : Pop(s)[i] = s[i]
  <2>1. \A i \in 1 .. Len(s) - 1 : s[i] \in Wrappers
    BY <1>1
  <2>2. 1 \in Int /\ Len(s) - 1 \in Int
    BY <1>1
  <2>3. /\ SubSeq(s, 1, Len(s) - 1) \in Seq(Wrappers)
        /\ Len(SubSeq(s, 1, Len(s) - 1)) = IF 1 <= Len(s) - 1 THEN Len(s) - 1 - 1 + 1 ELSE 0
        /\ \A i \in 1 .. Len(s) - 1 - 1 + 1 : SubSeq(s, 1, Len(s) - 1)[i] = s[1 + i - 1]
    BY <2>1, <2>2, SubSeqProperties
  <2>4. /\ Pop(s) \in Seq(Wrappers)
        /\ Len(Pop(s)) = IF 1 <= Len(s) - 1 THEN Len(s) - 1 - 1 + 1 ELSE 0
        /\ \A i \in 1 .. Len(s) - 1 - 1 + 1 : Pop(s)[i] = s[1 + i - 1]
    BY <2>3, Zenon DEF Pop
  <2>5. \A i \in 1 .. Len(s) - 1 : i \in 1 .. Len(s) - 1 - 1 + 1 /\ 1 + i - 1 = i
    BY <1>1
  <2>6. Len(Pop(s)) = Len(s) - 1
    <3>1. \A n \in Nat \ {0} : n - 1 = IF 1 <= n - 1 THEN n - 1 - 1 + 1 ELSE 0
      OBVIOUS
    <3>2. QED
      BY <1>1, <2>4, <3>1, Zenon
  <2>7. QED
    BY <2>4, <2>5, <2>6
<1>3. Top(s) = s[Len(s)] /\ Top(s) \in Wrappers
  BY <1>1 DEF Top
<1>4. Distinct(Pop(s))
  BY <1>1, <1>2 DEF Distinct
<1>5. In(s, Top(s))
  BY <1>1, <1>3 DEF In
<1>6. ASSUME NEW v PROVE In(Pop(s), v) <=> In(s, v) /\ v # Top(s)
  <2>1. ASSUME In(Pop(s), v) PROVE In(s, v) /\ v # Top(s)
    BY <1>1, <1>2, <1>3, <2>1 DEF In, Distinct
  <2>2. ASSUME In(s, v), v # Top(s) PROVE In(Pop(s), v)
    BY <1>1, <1>2, <1>3, <2>2 DEF In
  <2>3. QED
    BY <2>1, <2>2
<1>7. QED
  BY <1>2, <1>3, <1>4, <1>5, <1>6

\* The initial states satisfy the invariant.
LEMMA InitIInv == Init => IInv
<1> SUFFICES ASSUME Init PROVE IInv
  OBVIOUS
<1> USE DEF Init
<1>1. TypeOK
  BY NullAssumption, BlockAssumption DEF TypeOK, Frames, Idle, NoBlobPbuf, PCs, BlobErrs, EspErrs
<1>2. RefsExact
  <2>1. \A p \in Pbufs : LentAs(p) = {}
    BY DEF LentAs
  <2>2. \A p \in Pbufs : ~FgHolds(p)
    BY DEF FgHolds, Idle
  <2>3. Cardinality({}) = 0
    BY FS_EmptySet
  <2>4. ASSUME NEW p \in Pbufs
        PROVE  ref[p] = 0 /\ p \notin core /\ Cardinality(LentAs(p)) = 0 /\ ~FgHolds(p)
    BY <2>1, <2>2, <2>3
  <2>5. QED
    BY ONLY <2>4 DEF RefsExact, One
<1>3. WrappersPartitioned
  <2>1. Len(pool) = 0
    OBVIOUS
  <2>2. \A w \in Wrappers : ~InPool(w) /\ ~FgOwns(w) /\ w >= 1
    BY <2>1 DEF InPool, FgOwns, Idle, Wrappers
  <2>3. \A w \in Wrappers : ~(w <= nblk * BlockSize)
    BY <2>2, BlockAssumption DEF Wrappers
  <2>4. QED
    BY <2>1, <2>2, <2>3 DEF WrappersPartitioned, One
<1>4. LentValid
  BY DEF LentValid
<1>5. FgConsistent
  BY DEF FgConsistent, Idle, FgOwns, NoWrapper
<1>6. DescriptorsConserved /\ FreeBlobPbufsClean
  BY NullAssumption DEF DescriptorsConserved, FreeBlobPbufsClean, NoBlobPbuf
<1>7. QED
  BY <1>1, <1>2, <1>3, <1>4, <1>5, <1>6 DEF IInv

\* Steps that leave the lent wrappers alone leave the loans alone.
LEMMA LoansSame ==
  ASSUME UNCHANGED <<phy, save>>
  PROVE  \A p \in Pbufs : Cardinality(LentAs(p))' = Cardinality(LentAs(p))
BY DEF LentAs

\* lwIP 2 allocates a packet.
LEMMA CoreAllocIInv ==
  ASSUME IInv, NEW q \in Pbufs, NEW k \in {"plain", "chained"}, CoreAlloc(q, k)
  PROVE  IInv'
<1> USE DEF IInv, CoreAlloc, txvars, rxvars
<1>1. \A p \in Pbufs : Cardinality(LentAs(p)) \in Nat
  BY LentFinite DEF TypeOK
<1>2. TypeOK'
  BY DEF TypeOK
<1>3. /\ q \notin core /\ ~FgHolds(q) /\ Cardinality(LentAs(q)) = 0
  BY <1>1 DEF RefsExact, One
<1>4. RefsExact'
  <2>1. \A p \in Pbufs : Cardinality(LentAs(p))' = Cardinality(LentAs(p))
    BY LoansSame
  <2>2. \A p \in Pbufs : FgHolds(p)' <=> FgHolds(p)
    BY DEF FgHolds
  <2>3. ASSUME NEW p \in Pbufs
        PROVE  ref'[p] = One(p \in core') + One(FgHolds(p)') + Cardinality(LentAs(p))'
    <3>1. CASE p = q
      BY <1>1, <1>3, <2>1, <2>2, <3>1 DEF One, TypeOK
    <3>2. CASE p # q
      BY <1>1, <2>1, <2>2, <3>2 DEF RefsExact, One, TypeOK
    <3>3. QED
      BY <3>1, <3>2
  <2>4. QED
    BY <2>3 DEF RefsExact
<1>5. WrappersPartitioned'
  BY DEF WrappersPartitioned, InPool, FgOwns, One
<1>6. LentValid'
  BY DEF LentValid, TypeOK
<1>7. FgConsistent'
  BY DEF FgConsistent, FgOwns, TypeOK, Idle
<1>8. (DescriptorsConserved /\ FreeBlobPbufsClean)'
  BY DEF DescriptorsConserved, FreeBlobPbufsClean
<1>9. QED
  BY <1>2, <1>4, <1>5, <1>6, <1>7, <1>8

\* lwIP 2 drops a packet.
LEMMA CoreFreeIInv ==
  ASSUME IInv, NEW q \in Pbufs, CoreFree(q)
  PROVE  IInv'
<1> USE DEF IInv, CoreFree, txvars, rxvars, Unref
<1>1. \A p \in Pbufs : Cardinality(LentAs(p)) \in Nat
  BY LentFinite DEF TypeOK
<1>2. ref[q] = 1 + Cardinality(LentAs(q)) /\ ~FgHolds(q)
  BY <1>1 DEF RefsExact, One, FgHolds
<1>3. TypeOK'
  BY <1>1, <1>2 DEF TypeOK
<1>4. RefsExact'
  <2>1. \A p \in Pbufs : Cardinality(LentAs(p))' = Cardinality(LentAs(p))
    BY LoansSame
  <2>2. \A p \in Pbufs : FgHolds(p)' <=> FgHolds(p)
    BY DEF FgHolds
  <2>3. ASSUME NEW p \in Pbufs
        PROVE  ref'[p] = One(p \in core') + One(FgHolds(p)') + Cardinality(LentAs(p))'
    <3>1. CASE p = q
      BY <1>1, <1>2, <2>1, <2>2, <3>1 DEF One, TypeOK
    <3>2. CASE p # q
      BY <1>1, <2>1, <2>2, <3>2 DEF RefsExact, One, TypeOK
    <3>3. QED
      BY <3>1, <3>2
  <2>4. QED
    BY <2>3 DEF RefsExact
<1>5. WrappersPartitioned'
  BY DEF WrappersPartitioned, InPool, FgOwns, One
<1>6. LentValid'
  <2>1. \A w \in phy : Cardinality(LentAs(save[w])) >= 1
    BY LentCounted DEF TypeOK
  <2>2. \A w \in phy : save[w] = q => ref[q] >= 2
    BY <1>1, <1>2, <2>1
  <2>3. QED
    BY <2>2 DEF LentValid, TypeOK
<1>7. FgConsistent'
  BY DEF FgConsistent, FgOwns, TypeOK, Idle
<1>8. (DescriptorsConserved /\ FreeBlobPbufsClean)'
  BY DEF DescriptorsConserved, FreeBlobPbufsClean
<1>9. QED
  BY <1>3, <1>4, <1>5, <1>6, <1>7, <1>8

\* The frame of new_linkoutput when it calls glue2esp_linkoutput.
StartTx(p) == [Idle EXCEPT !.pc = "linkout", !.p = p]

\* That frame is a frame, and what it holds.
LEMMA StartTxType ==
  ASSUME NEW p \in Pbufs
  PROVE  /\ StartTx(p) \in Frames
         /\ StartTx(p).pc = "linkout" /\ StartTx(p).p = p
         /\ StartTx(p).w = NoWrapper /\ StartTx(p).b = NULL
BY DEF StartTx, Idle, Frames, PCs, BlobErrs, EspErrs

\* lwIP 2 sends a packet: a reference more, or a copy.
LEMMA NewLinkoutputIInv ==
  ASSUME IInv, NEW q \in Pbufs, new_linkoutput(q)
  PROVE  IInv'
<1> USE DEF IInv, new_linkoutput, txvars, rxvars
<1>1. \A p \in Pbufs : Cardinality(LentAs(p)) \in Nat
  BY LentFinite DEF TypeOK
<1>2. \A p \in Pbufs : Cardinality(LentAs(p))' = Cardinality(LentAs(p))
  BY LoansSame
<1>3. \A p \in Pbufs : ~FgHolds(p)
  BY DEF FgHolds
<1>4. WrappersPartitioned'
  BY DEF WrappersPartitioned, InPool, FgOwns, One, Share, Clone, Idle
<1>5. (DescriptorsConserved /\ FreeBlobPbufsClean)'
  BY DEF DescriptorsConserved, FreeBlobPbufsClean
<1>6. CASE Share(q)
  <2>1. /\ kind[q] = "plain"
        /\ ref' = [ref EXCEPT ![q] = @ + 1] /\ kind' = kind
        /\ fg' = StartTx(q)
    BY <1>6 DEF Share, Ref, MustClone, TypeOK, StartTx
  <2>2. TypeOK'
    BY <2>1, StartTxType DEF TypeOK
  <2>3. \A p \in Pbufs : FgHolds(p)' <=> p = q
    BY <2>1, StartTxType DEF FgHolds
  <2>4. ASSUME NEW p \in Pbufs
        PROVE  ref'[p] = One(p \in core') + One(FgHolds(p)') + Cardinality(LentAs(p))'
    <3>1. CASE p = q
      BY <1>1, <1>2, <1>3, <2>1, <2>3, <3>1 DEF One, TypeOK, RefsExact
    <3>2. CASE p # q
      BY <1>1, <1>2, <1>3, <2>1, <2>3, <3>2 DEF RefsExact, One, TypeOK
    <3>3. QED
      BY <3>1, <3>2
  <2>5. RefsExact'
    BY <2>4 DEF RefsExact
  <2>6. LentValid'
    BY <2>1 DEF LentValid, TypeOK
  <2>7. FgConsistent'
    BY <2>1, StartTxType DEF FgConsistent, FgOwns, TypeOK, Wrappers
  <2>8. QED
    BY <1>4, <1>5, <2>2, <2>5, <2>6, <2>7
<1>7. CASE \E c \in Pbufs : Clone(q, c)
  <2>0. PICK c \in Pbufs : Clone(q, c)
    BY <1>7
  <2>1. /\ ref[c] = 0
        /\ ref' = [ref EXCEPT ![c] = 1] /\ kind' = [kind EXCEPT ![c] = "plain"]
        /\ fg' = StartTx(c)
    BY <2>0 DEF Clone, StartTx
  <2>2. TypeOK'
    BY <2>1, StartTxType DEF TypeOK
  <2>3. \A p \in Pbufs : FgHolds(p)' <=> p = c
    BY <2>1, StartTxType DEF FgHolds
  <2>4. c \notin core /\ Cardinality(LentAs(c)) = 0
    BY <1>1, <2>1 DEF RefsExact, One
  <2>5. ASSUME NEW p \in Pbufs
        PROVE  ref'[p] = One(p \in core') + One(FgHolds(p)') + Cardinality(LentAs(p))'
    <3>1. CASE p = c
      BY <1>1, <1>2, <2>1, <2>3, <2>4, <3>1 DEF One, TypeOK
    <3>2. CASE p # c
      BY <1>1, <1>2, <1>3, <2>1, <2>3, <3>2 DEF RefsExact, One, TypeOK
    <3>3. QED
      BY <3>1, <3>2
  <2>6. RefsExact'
    BY <2>5 DEF RefsExact
  <2>7. LentValid'
    BY <2>1 DEF LentValid, TypeOK
  <2>8. FgConsistent'
    BY <2>1, StartTxType DEF FgConsistent, FgOwns, TypeOK, Wrappers
  <2>9. QED
    BY <1>4, <1>5, <2>2, <2>6, <2>7, <2>8
<1>8. QED
  BY <1>6, <1>7

\* glue2esp_linkoutput gives up before it has a wrapper.
LEMMA LinkoutputFailsIInv ==
  ASSUME IInv, NEW e \in {"IF", "MEM"}, linkoutput_fails(e)
  PROVE  IInv'
<1> USE DEF IInv
<1>1. /\ fg.pc = "linkout" /\ fg' = [fg EXCEPT !.pc = "ret", !.err = e]
      /\ UNCHANGED <<ref, kind, core, pool, nblk, save, wref, phy, rel, bp, ebs, link>>
  BY DEF linkoutput_fails, txvars, rxvars
<1>2. TypeOK'
  BY <1>1 DEF TypeOK, Frames, PCs, BlobErrs, EspErrs
<1>3. /\ fg'.pc = "ret" /\ fg'.err = e /\ fg'.p = fg.p /\ fg'.w = fg.w /\ fg'.b = fg.b
  BY <1>1 DEF TypeOK, Frames
<1>4. RefsExact'
  <2>1. \A p \in Pbufs : Cardinality(LentAs(p))' = Cardinality(LentAs(p))
    BY <1>1, LoansSame
  <2>2. \A p \in Pbufs : FgHolds(p)' <=> FgHolds(p)
    BY <1>1, <1>3 DEF FgHolds
  <2>3. QED
    BY <1>1, <2>1, <2>2 DEF RefsExact, One
<1>5. WrappersPartitioned'
  BY <1>1, <1>3 DEF WrappersPartitioned, InPool, FgOwns, One
<1>6. (LentValid /\ DescriptorsConserved /\ FreeBlobPbufsClean)'
  BY <1>1 DEF LentValid, DescriptorsConserved, FreeBlobPbufsClean
<1>7. FgConsistent'
  BY <1>1, <1>3 DEF FgConsistent, FgOwns
<1>8. QED
  BY <1>2, <1>4, <1>5, <1>6, <1>7

\* The blobs refuse a packet, phy_capture reads it: only the frame moves on.
LEMMA FrameStepIInv ==
  ASSUME IInv, (\E e \in BlobErrs : BlobRefuse(e)) \/ Capture
  PROVE  IInv'
<1> USE DEF IInv
<1>1. /\ UNCHANGED <<ref, kind, core, pool, nblk, save, wref, phy, rel, bp, ebs, link>>
      /\ \/ /\ fg.pc = "blob"
            /\ \E e \in BlobErrs \ {"OK"} : fg' = [fg EXCEPT !.pc = "capture", !.err = e]
         \/ fg.pc = "capture" /\ fg' = [fg EXCEPT !.pc = "done"]
  BY DEF BlobRefuse, Capture, txvars, rxvars
<1>2. TypeOK'
  BY <1>1 DEF TypeOK, Frames, PCs
<1>3. /\ fg'.p = fg.p /\ fg'.w = fg.w /\ fg'.b = fg.b
      /\ \/ fg.pc = "blob" /\ fg'.pc = "capture" /\ fg'.err # "OK"
         \/ fg.pc = "capture" /\ fg'.pc = "done" /\ fg'.err = fg.err
  BY <1>1 DEF TypeOK, Frames
<1>4. RefsExact'
  <2>1. \A p \in Pbufs : Cardinality(LentAs(p))' = Cardinality(LentAs(p))
    BY <1>1, LoansSame
  <2>2. \A p \in Pbufs : FgHolds(p)' <=> FgHolds(p)
    BY <1>3 DEF FgHolds
  <2>3. QED
    BY <1>1, <2>1, <2>2 DEF RefsExact, One
<1>5. \A w \in Wrappers : FgOwns(w)' <=> FgOwns(w)
  BY <1>3 DEF FgOwns
<1>6. WrappersPartitioned'
  BY <1>1, <1>5 DEF WrappersPartitioned, InPool, One
<1>7. (LentValid /\ DescriptorsConserved /\ FreeBlobPbufsClean)'
  BY <1>1 DEF LentValid, DescriptorsConserved, FreeBlobPbufsClean
<1>8. FgConsistent'
  BY <1>1, <1>3, <1>5 DEF FgConsistent
<1>9. QED
  BY <1>2, <1>4, <1>6, <1>7, <1>8

\* new_linkoutput returns: on error it drops the reference it took.
LEMMA NewLinkoutputReturnIInv ==
  ASSUME IInv, new_linkoutput_return
  PROVE  IInv'
<1> USE DEF IInv
<1>1. /\ fg.pc = "ret" /\ fg' = Idle
      /\ ref' = IF fg.err # "OK" THEN [ref EXCEPT ![fg.p] = @ - 1] ELSE ref
      /\ UNCHANGED <<kind, core, pool, nblk, save, wref, phy, rel, bp, ebs, link>>
  BY DEF new_linkoutput_return, txvars, rxvars, Unref
<1>2. \A p \in Pbufs : Cardinality(LentAs(p)) \in Nat
  BY LentFinite DEF TypeOK
<1>3. \A p \in Pbufs : Cardinality(LentAs(p))' = Cardinality(LentAs(p))
  BY <1>1, LoansSame
<1>4. fg.p \in Pbufs /\ fg.w = NoWrapper
  BY <1>1 DEF FgConsistent
<1>5. \A p \in Pbufs : FgHolds(p) <=> p = fg.p /\ fg.err # "OK"
  BY <1>1 DEF FgHolds
<1>6. \A p \in Pbufs : ~FgHolds(p)'
  BY <1>1 DEF FgHolds, Idle
<1>7. \A p \in Pbufs : ref'[p] = One(p \in core) + Cardinality(LentAs(p))
  <2>1. ASSUME NEW p \in Pbufs
        PROVE  ref'[p] = One(p \in core) + Cardinality(LentAs(p))
    <3>1. CASE FgHolds(p)
      BY <1>1, <1>2, <1>5, <3>1 DEF RefsExact, One, TypeOK
    <3>2. CASE ~FgHolds(p)
      BY <1>1, <1>2, <1>4, <1>5, <3>2 DEF RefsExact, One, TypeOK
    <3>3. QED
      BY <3>1, <3>2
  <2>2. QED
    BY <2>1
<1>8. TypeOK'
  <2>1. ref' \in [Pbufs -> Nat]
    <3>1. \A p \in Pbufs : ref'[p] \in Nat
      BY <1>2, <1>7 DEF One
    <3>2. ref' \in [Pbufs -> Int]
      BY <1>1, <1>4 DEF TypeOK
    <3>3. QED
      BY <3>1, <3>2
  <2>2. Idle \in Frames
    BY DEF Idle, Frames, PCs, BlobErrs, EspErrs
  <2>3. QED
    BY <1>1, <2>1, <2>2 DEF TypeOK
<1>9. RefsExact'
  BY <1>1, <1>2, <1>3, <1>6, <1>7 DEF RefsExact, One
<1>10. WrappersPartitioned'
  BY <1>1 DEF WrappersPartitioned, InPool, FgOwns, One, Idle
<1>11. LentValid'
  <2>1. \A w \in phy : Cardinality(LentAs(save[w])) >= 1
    BY LentCounted DEF TypeOK
  <2>2. \A w \in phy : ref'[save[w]] > 0
    BY <1>2, <1>7, <2>1 DEF LentValid, One
  <2>3. QED
    BY <1>1, <2>2 DEF LentValid
<1>12. FgConsistent'
  BY <1>1 DEF FgConsistent, FgOwns, Idle, NoWrapper
<1>13. (DescriptorsConserved /\ FreeBlobPbufsClean)'
  BY <1>1 DEF DescriptorsConserved, FreeBlobPbufsClean
<1>14. QED
  BY <1>8, <1>9, <1>10, <1>11, <1>12, <1>13

\* A wrapper taken from the pool: the pool loses it and nobody else had it.
LEMMA GetFacts ==
  ASSUME TypeOK, WrappersPartitioned, ~\E v \in Wrappers : FgOwns(v),
         NEW w \in Wrappers, pbuf_wrapper_get(w), UNCHANGED <<phy, rel>>
  PROVE  /\ pool' \in Seq(Wrappers) /\ nblk' \in 0 .. MaxBlocks
         /\ w \notin phy /\ w \notin rel
         /\ Distinct(pool')
         /\ \A v \in Wrappers :
              One(In(pool', v)) + One(v = w) + One(v \in phy) + One(v \in rel)
                  = One(v <= nblk' * BlockSize)
<1>1. /\ pool \in Seq(Wrappers) /\ nblk \in 0 .. MaxBlocks /\ Distinct(pool)
      /\ \A v \in Wrappers : ~FgOwns(v)
      /\ \A v \in Wrappers : One(In(pool, v)) + One(v \in phy) + One(v \in rel)
                                 = One(v <= nblk * BlockSize)
  <2>1. \A v \in Wrappers : One(FgOwns(v)) = 0
    BY DEF One
  <2>2. \A v \in Wrappers : InPool(v) <=> In(pool, v)
    BY DEF InPool, In
  <2>3. ASSUME NEW v \in Wrappers
        PROVE  One(In(pool, v)) + One(v \in phy) + One(v \in rel) = One(v <= nblk * BlockSize)
    <3>1. One(InPool(v)) + One(FgOwns(v)) + One(v \in phy) + One(v \in rel)
              = One(v <= nblk * BlockSize)
      BY DEF WrappersPartitioned
    <3>2. QED
      BY <2>1, <2>2, <3>1 DEF One
  <2>4. QED
    BY <2>3 DEF TypeOK, WrappersPartitioned, Distinct
<1>2. CASE pool # <<>> /\ w = Top(pool) /\ pool' = Pop(pool) /\ nblk' = nblk
  <2>1. /\ Pop(pool) \in Seq(Wrappers) /\ Distinct(Pop(pool)) /\ In(pool, w)
        /\ \A v : In(Pop(pool), v) <=> In(pool, v) /\ v # w
    BY <1>1, <1>2, PopFacts
  <2>2. w \notin phy /\ w \notin rel
    BY <1>1, <2>1 DEF One
  <2>3. ASSUME NEW v \in Wrappers
        PROVE  One(In(pool', v)) + One(v = w) + One(v \in phy) + One(v \in rel)
                   = One(v <= nblk' * BlockSize)
    BY <1>1, <1>2, <2>1, <2>2 DEF One
  <2>4. QED
    BY <1>1, <1>2, <2>1, <2>2, <2>3
<1>3. CASE /\ pool = <<>> /\ nblk < MaxBlocks
           /\ w = Top(Block(nblk)) /\ pool' = Pop(Block(nblk)) /\ nblk' = nblk + 1
  <2>1. /\ Block(nblk) \in Seq(Wrappers) /\ Len(Block(nblk)) = BlockSize
        /\ \A i \in 1 .. BlockSize : Block(nblk)[i] = nblk * BlockSize + i
        /\ (nblk + 1) * BlockSize = nblk * BlockSize + BlockSize
        /\ nblk * BlockSize \in Nat
    BY <1>1, <1>3, BlockType
  <2>2. Distinct(Block(nblk)) /\ Block(nblk) # <<>>
    BY <2>1, BlockAssumption DEF Distinct
  <2>3. /\ Pop(Block(nblk)) \in Seq(Wrappers) /\ Distinct(Pop(Block(nblk)))
        /\ In(Block(nblk), w)
        /\ \A v : In(Pop(Block(nblk)), v) <=> In(Block(nblk), v) /\ v # w
    BY <1>3, <2>1, <2>2, PopFacts
  <2>4. \A v \in Wrappers : In(Block(nblk), v) <=>
            v > nblk * BlockSize /\ v <= (nblk + 1) * BlockSize
    <3>1. ASSUME NEW v \in Wrappers, In(Block(nblk), v)
          PROVE  v > nblk * BlockSize /\ v <= (nblk + 1) * BlockSize
      BY <2>1, <3>1, BlockAssumption DEF In
    <3>2. ASSUME NEW v \in Wrappers, v > nblk * BlockSize, v <= (nblk + 1) * BlockSize
          PROVE  In(Block(nblk), v)
      <4>1. v - nblk * BlockSize \in 1 .. BlockSize
        BY <2>1, <3>2, BlockAssumption DEF Wrappers
      <4>2. Block(nblk)[v - nblk * BlockSize] = v
        BY <2>1, <4>1 DEF Wrappers
      <4>3. QED
        BY <2>1, <4>1, <4>2 DEF In
    <3>3. QED
      BY <3>1, <3>2
  <2>5. \A v : ~In(pool, v)
    BY <1>3 DEF In
  <2>6. w \notin phy /\ w \notin rel
    BY <1>1, <2>1, <2>3, <2>4, <2>5 DEF One, Wrappers
  <2>7. ASSUME NEW v \in Wrappers
        PROVE  One(In(pool', v)) + One(v = w) + One(v \in phy) + One(v \in rel)
                   = One(v <= nblk' * BlockSize)
    <3>1. In(pool', v) \/ v = w <=> v > nblk * BlockSize /\ v <= (nblk + 1) * BlockSize
      BY <1>3, <2>3, <2>4
    <3>2. ~(In(pool', v) /\ v = w)
      BY <1>3, <2>3
    <3>3. One(v \in phy) + One(v \in rel) = One(v <= nblk * BlockSize)
      BY <1>1, <2>5 DEF One
    <3>4. v <= nblk * BlockSize => v <= (nblk + 1) * BlockSize
      BY <2>1, BlockAssumption DEF Wrappers
    <3>5. v > nblk * BlockSize <=> ~(v <= nblk * BlockSize)
      BY <2>1 DEF Wrappers
    <3>6. QED
      BY <1>3, <3>1, <3>2, <3>3, <3>4, <3>5 DEF One
  <2>8. nblk' \in 0 .. MaxBlocks
    BY <1>1, <1>3, BlockAssumption
  <2>9. QED
    BY <1>3, <2>3, <2>6, <2>7, <2>8
<1>4. QED
  BY <1>2, <1>3 DEF pbuf_wrapper_get

\* glue2esp_linkoutput fills in a wrapper.
LEMMA Glue2EspLinkoutputIInv ==
  ASSUME IInv, NEW w \in Wrappers, glue2esp_linkoutput(w)
  PROVE  IInv'
<1> USE DEF IInv
<1>1. /\ fg.pc = "linkout" /\ fg.p \in Pbufs /\ fg' = [fg EXCEPT !.pc = "blob", !.w = w]
      /\ pbuf_wrapper_get(w)
      /\ save' = [save EXCEPT ![w] = fg.p] /\ wref' = [wref EXCEPT ![w] = 0]
      /\ UNCHANGED <<ref, kind, core, phy, rel, bp, ebs, link>>
  BY DEF glue2esp_linkoutput, rxvars, FgConsistent
<1>2. /\ fg'.pc = "blob" /\ fg'.w = w /\ fg'.p = fg.p /\ fg'.b = fg.b
  BY <1>1 DEF TypeOK, Frames
<1>3. ~\E v \in Wrappers : FgOwns(v)
  BY <1>1 DEF FgOwns
<1>4. /\ pool' \in Seq(Wrappers) /\ nblk' \in 0 .. MaxBlocks
      /\ w \notin phy /\ w \notin rel
      /\ Distinct(pool')
      /\ \A v \in Wrappers :
           One(In(pool', v)) + One(v = w) + One(v \in phy) + One(v \in rel)
               = One(v <= nblk' * BlockSize)
  BY <1>1, <1>3, GetFacts
<1>5. TypeOK'
  <2>1. fg' \in Frames
    BY <1>1 DEF TypeOK, Frames, PCs
  <2>2. QED
    BY <1>1, <1>4, <2>1 DEF TypeOK
<1>6. RefsExact'
  <2>1. \A p \in Pbufs : LentAs(p)' = LentAs(p)
    BY <1>1, <1>4 DEF LentAs, TypeOK
  <2>2. \A p \in Pbufs : FgHolds(p)' <=> FgHolds(p)
    BY <1>1, <1>2 DEF FgHolds
  <2>3. QED
    BY <1>1, <2>1, <2>2 DEF RefsExact, One
<1>7. WrappersPartitioned'
  <2>1. \A v \in Wrappers : FgOwns(v)' <=> v = w
    BY <1>2 DEF FgOwns
  <2>2. \A v \in Wrappers : InPool(v)' <=> In(pool', v)
    BY DEF InPool, In
  <2>3. ASSUME NEW v \in Wrappers
        PROVE  One(InPool(v)') + One(FgOwns(v)') + One(v \in phy') + One(v \in rel')
                   = One(v <= nblk' * BlockSize)
    <3>1. One(In(pool', v)) + One(v = w) + One(v \in phy) + One(v \in rel)
              = One(v <= nblk' * BlockSize)
      BY <1>4
    <3>2. QED
      BY <1>1, <2>1, <2>2, <3>1 DEF One
  <2>4. QED
    BY <1>4, <2>3 DEF WrappersPartitioned, Distinct
<1>8. LentValid'
  BY <1>1, <1>4 DEF LentValid, TypeOK
<1>9. FgConsistent'
  BY <1>1, <1>2 DEF FgConsistent, FgOwns, TypeOK, Wrappers, NoWrapper
<1>10. (DescriptorsConserved /\ FreeBlobPbufsClean)'
  BY <1>1 DEF DescriptorsConserved, FreeBlobPbufsClean
<1>11. QED
  BY <1>5, <1>6, <1>7, <1>8, <1>9, <1>10

\* The blobs accept a packet: the running call's reference becomes a loan.
LEMMA BlobAcceptIInv ==
  ASSUME IInv, BlobAccept
  PROVE  IInv'
<1> USE DEF IInv
<1>1. /\ fg.pc = "blob" /\ fg' = [fg EXCEPT !.pc = "capture", !.err = "OK"]
      /\ wref' = [wref EXCEPT ![fg.w] = @ + 1] /\ phy' = phy \union {fg.w}
      /\ UNCHANGED <<ref, kind, core, pool, nblk, save, rel, bp, ebs, link>>
  BY DEF BlobAccept, rxvars
<1>2. /\ fg'.pc = "capture" /\ fg'.err = "OK" /\ fg'.w = fg.w /\ fg'.p = fg.p /\ fg'.b = fg.b
  BY <1>1 DEF TypeOK, Frames
<1>3. /\ fg.w \in Wrappers /\ fg.p \in Pbufs /\ save[fg.w] = fg.p /\ wref[fg.w] = 0
      /\ kind[fg.p] = "plain" /\ FgOwns(fg.w)
  BY <1>1 DEF FgConsistent, FgOwns, TypeOK, Frames
<1>4. fg.w \notin phy /\ fg.w \notin rel /\ ~InPool(fg.w)
  <2>1. One(InPool(fg.w)) + One(FgOwns(fg.w)) + One(fg.w \in phy) + One(fg.w \in rel)
            = One(fg.w <= nblk * BlockSize)
    BY <1>3 DEF WrappersPartitioned
  <2>2. QED
    BY <1>3, <2>1 DEF One
<1>5. TypeOK'
  <2>1. fg' \in Frames
    BY <1>1 DEF TypeOK, Frames, PCs, BlobErrs, EspErrs
  <2>2. wref' \in [Wrappers -> Nat]
    BY <1>1, <1>3 DEF TypeOK
  <2>3. QED
    BY <1>1, <1>3, <2>1, <2>2 DEF TypeOK
<1>6. \A p \in Pbufs : Cardinality(LentAs(p)) \in Nat /\ IsFiniteSet(LentAs(p))
  BY LentFinite DEF TypeOK
<1>7. RefsExact'
  <2>1. LentAs(fg.p)' = LentAs(fg.p) \union {fg.w} /\ fg.w \notin LentAs(fg.p)
    BY <1>1, <1>2, <1>3, <1>4 DEF LentAs
  <2>2. Cardinality(LentAs(fg.p) \union {fg.w}) = Cardinality(LentAs(fg.p)) + 1
    BY <1>3, <1>6, <2>1, FS_AddElement
  <2>3. \A p \in Pbufs : p # fg.p => LentAs(p)' = LentAs(p)
    BY <1>1, <1>3 DEF LentAs
  <2>4. \A p \in Pbufs : FgHolds(p) <=> p = fg.p
    BY <1>1 DEF FgHolds
  <2>5. \A p \in Pbufs : ~FgHolds(p)'
    BY <1>2 DEF FgHolds
  <2>6. ASSUME NEW p \in Pbufs
        PROVE  ref'[p] = One(p \in core') + One(FgHolds(p)') + Cardinality(LentAs(p)')
    <3>0. ref[p] = One(p \in core) + One(FgHolds(p)) + Cardinality(LentAs(p))
      BY DEF RefsExact
    <3>1. CASE p = fg.p
      <4>1. LentAs(p)' = LentAs(p) \union {fg.w}
        BY <1>1, <1>2, <1>3, <1>4, <3>1 DEF LentAs
      <4>2. Cardinality(LentAs(p)') = Cardinality(LentAs(p)) + 1
        BY <2>2, <3>1, <4>1
      <4>3. QED
        BY <1>1, <1>6, <2>4, <2>5, <3>0, <3>1, <4>2 DEF One
    <3>2. CASE p # fg.p
      BY <1>1, <1>6, <2>3, <2>4, <2>5, <3>0, <3>2 DEF One
    <3>3. QED
      BY <3>1, <3>2
  <2>7. QED
    BY <2>6 DEF RefsExact
<1>8. WrappersPartitioned'
  <2>1. \A v \in Wrappers : FgOwns(v) <=> v = fg.w
    BY <1>1, <1>3 DEF FgOwns
  <2>2. \A v \in Wrappers : ~FgOwns(v)'
    BY <1>2 DEF FgOwns
  <2>3. \A v \in Wrappers : InPool(v)' <=> InPool(v)
    BY <1>1 DEF InPool
  <2>4. ASSUME NEW v \in Wrappers
        PROVE  One(InPool(v)') + One(FgOwns(v)') + One(v \in phy') + One(v \in rel')
                   = One(v <= nblk' * BlockSize)
    <3>1. One(InPool(v)) + One(FgOwns(v)) + One(v \in phy) + One(v \in rel)
              = One(v <= nblk * BlockSize)
      BY DEF WrappersPartitioned
    <3>2. QED
      BY <1>1, <1>4, <2>1, <2>2, <2>3, <3>1 DEF One
  <2>5. QED
    BY <1>1, <2>4 DEF WrappersPartitioned
<1>9. LentValid'
  <2>1. ref[fg.p] > 0
    <3>1. FgHolds(fg.p)
      BY <1>1 DEF FgHolds
    <3>2. QED
      BY <1>3, <1>6, <3>1 DEF RefsExact, One
  <2>2. QED
    BY <1>1, <1>3, <2>1 DEF LentValid, TypeOK
<1>10. FgConsistent'
  BY <1>1, <1>2, <1>3 DEF FgConsistent, FgOwns
<1>11. (DescriptorsConserved /\ FreeBlobPbufsClean)'
  BY <1>1 DEF DescriptorsConserved, FreeBlobPbufsClean
<1>12. QED
  BY <1>5, <1>7, <1>8, <1>9, <1>10, <1>11

\* glue2esp_linkoutput returns; the wrapper of a refused packet goes back.
LEMMA LinkoutputReturnIInv ==
  ASSUME IInv, LinkoutputReturn
  PROVE  IInv'
<1> USE DEF IInv
<1>1. /\ fg.pc = "done"
      /\ fg' = [fg EXCEPT !.pc = "ret", !.w = NoWrapper, !.err = esp2glue_err(@)]
      /\ pool' = IF fg.err # "OK" THEN Append(pool, fg.w) ELSE pool
      /\ UNCHANGED <<ref, kind, core, nblk, save, wref, phy, rel, bp, ebs, link>>
  BY DEF LinkoutputReturn, rxvars, pbuf_wrapper_release
<1>2. /\ fg'.pc = "ret" /\ fg'.w = NoWrapper /\ fg'.p = fg.p /\ fg'.b = fg.b
      /\ fg'.err \in BlobErrs /\ (fg'.err = "OK" <=> fg.err = "OK")
  BY <1>1 DEF TypeOK, Frames, esp2glue_err, BlobErrs, EspErrs
<1>3. fg.w \in Wrappers /\ fg.p \in Pbufs
  BY <1>1 DEF FgConsistent, TypeOK, Frames
<1>4. \A v \in Wrappers : FgOwns(v) <=> v = fg.w /\ fg.err # "OK"
  BY <1>1 DEF FgOwns
<1>5. \A v \in Wrappers : ~FgOwns(v)'
  BY <1>2 DEF FgOwns
<1>6. /\ pool \in Seq(Wrappers) /\ Distinct(pool)
      /\ \A v \in Wrappers : InPool(v) <=> In(pool, v)
      /\ \A v \in Wrappers : InPool(v)' <=> In(pool', v)
  BY DEF TypeOK, WrappersPartitioned, Distinct, InPool, In
<1>7. fg.err # "OK" => ~In(pool, fg.w)
  <2>1. One(InPool(fg.w)) + One(FgOwns(fg.w)) + One(fg.w \in phy) + One(fg.w \in rel)
            = One(fg.w <= nblk * BlockSize)
    BY <1>3 DEF WrappersPartitioned
  <2>2. QED
    BY <1>3, <1>4, <1>6, <2>1 DEF One
<1>8. /\ pool' \in Seq(Wrappers) /\ Distinct(pool')
      /\ \A v : In(pool', v) <=> In(pool, v) \/ (v = fg.w /\ fg.err # "OK")
  <2>1. CASE fg.err # "OK"
    BY <1>1, <1>3, <1>6, <1>7, <2>1, PushFacts
  <2>2. CASE fg.err = "OK"
    BY <1>1, <1>6, <2>2
  <2>3. QED
    BY <2>1, <2>2
<1>9. TypeOK'
  <2>1. fg' \in Frames
    BY <1>1, <1>2 DEF TypeOK, Frames, PCs
  <2>2. QED
    BY <1>1, <1>8, <2>1 DEF TypeOK
<1>10. RefsExact'
  <2>1. \A p \in Pbufs : Cardinality(LentAs(p))' = Cardinality(LentAs(p))
    BY <1>1, LoansSame
  <2>2. \A p \in Pbufs : FgHolds(p)' <=> FgHolds(p)
    BY <1>1, <1>2 DEF FgHolds
  <2>3. QED
    BY <1>1, <2>1, <2>2 DEF RefsExact, One
<1>11. WrappersPartitioned'
  <2>1. ASSUME NEW v \in Wrappers
        PROVE  One(InPool(v)') + One(FgOwns(v)') + One(v \in phy') + One(v \in rel')
                   = One(v <= nblk' * BlockSize)
    <3>1. One(InPool(v)) + One(FgOwns(v)) + One(v \in phy) + One(v \in rel)
              = One(v <= nblk * BlockSize)
      BY DEF WrappersPartitioned
    <3>2. ~(InPool(v) /\ FgOwns(v))
      BY <1>4, <1>6, <1>7
    <3>3. InPool(v)' <=> InPool(v) \/ FgOwns(v)
      BY <1>4, <1>6, <1>8
    <3>4. QED
      BY <1>1, <1>5, <3>1, <3>2, <3>3 DEF One
  <2>2. QED
    BY <1>8, <2>1 DEF WrappersPartitioned, Distinct
<1>12. (LentValid /\ DescriptorsConserved /\ FreeBlobPbufsClean)'
  BY <1>1 DEF LentValid, DescriptorsConserved, FreeBlobPbufsClean
<1>13. FgConsistent'
  BY <1>1, <1>2, <1>3, <1>5 DEF FgConsistent
<1>14. QED
  BY <1>9, <1>10, <1>11, <1>12, <1>13

\* The blobs give a packet back.
LEMMA PbufFreeTxIInv ==
  ASSUME IInv, NEW w \in Wrappers, pbuf_free_tx(w)
  PROVE  IInv'
<1> USE DEF IInv
<1>1. /\ w \in phy /\ (EarlyFree \/ fg.w # w)
      /\ ref' = [ref EXCEPT ![save[w]] = @ - 1]
      /\ phy' = phy \ {w} /\ rel' = rel \union {w}
      /\ UNCHANGED <<kind, core, pool, nblk, save, wref, bp, ebs, link, fg>>
  BY DEF pbuf_free_tx, rxvars, Unref, Returned
<1>2. save[w] \in Pbufs
  BY <1>1 DEF LentValid
<1>3. \A p \in Pbufs : Cardinality(LentAs(p)) \in Nat /\ IsFiniteSet(LentAs(p))
  BY LentFinite DEF TypeOK
<1>4. Cardinality(LentAs(save[w])) >= 1
  BY <1>1, LentCounted DEF TypeOK
<1>5. \A p \in Pbufs : FgHolds(p)' <=> FgHolds(p)
  BY <1>1 DEF FgHolds
<1>6. ASSUME NEW p \in Pbufs
      PROVE  /\ ref'[p] = One(p \in core') + One(FgHolds(p)') + Cardinality(LentAs(p)')
             /\ Cardinality(LentAs(p)') \in Nat
  <2>1. ref[p] = One(p \in core) + One(FgHolds(p)) + Cardinality(LentAs(p))
    BY DEF RefsExact
  <2>2. CASE p = save[w]
    <3>1. LentAs(p)' = LentAs(p) \ {w} /\ w \in LentAs(p)
      BY <1>1, <2>2 DEF LentAs
    <3>2. Cardinality(LentAs(p) \ {w}) = Cardinality(LentAs(p)) - 1
      BY <1>3, <3>1, FS_RemoveElement
    <3>3. Cardinality(LentAs(p)') = Cardinality(LentAs(p)) - 1
      BY <3>1, <3>2
    <3>4. ref'[p] = ref[p] - 1
      BY <1>1, <1>2, <2>2 DEF TypeOK
    <3>5. QED
      BY <1>1, <1>3, <1>4, <1>5, <2>1, <2>2, <3>3, <3>4 DEF One
  <2>3. CASE p # save[w]
    <3>1. LentAs(p)' = LentAs(p)
      BY <1>1, <2>3 DEF LentAs
    <3>2. ref'[p] = ref[p]
      BY <1>1, <2>3 DEF TypeOK
    <3>3. QED
      BY <1>1, <1>3, <1>5, <2>1, <3>1, <3>2 DEF One
  <2>4. QED
    BY <2>2, <2>3
<1>7. RefsExact'
  BY <1>6 DEF RefsExact
<1>8. TypeOK'
  <2>1. \A p \in Pbufs : ref'[p] \in Nat
    BY <1>6 DEF One
  <2>2. ref' \in [Pbufs -> Int]
    BY <1>1, <1>2 DEF TypeOK
  <2>3. ref' \in [Pbufs -> Nat]
    BY <2>1, <2>2
  <2>4. QED
    BY <1>1, <2>3 DEF TypeOK
<1>9. WrappersPartitioned'
  <2>1. ASSUME NEW v \in Wrappers
        PROVE  One(InPool(v)') + One(FgOwns(v)') + One(v \in phy') + One(v \in rel')
                   = One(v <= nblk' * BlockSize)
    <3>1. One(InPool(v)) + One(FgOwns(v)) + One(v \in phy) + One(v \in rel)
              = One(v <= nblk * BlockSize)
      BY DEF WrappersPartitioned
    <3>2. (InPool(v)' <=> InPool(v)) /\ (FgOwns(v)' <=> FgOwns(v))
      BY <1>1 DEF InPool, FgOwns
    <3>3. QED
      BY <1>1, <3>1, <3>2 DEF One
  <2>2. QED
    BY <1>1, <2>1 DEF WrappersPartitioned
<1>10. LentValid'
  <2>1. phy' \subseteq Wrappers
    BY <1>1 DEF TypeOK
  <2>2. \A v \in phy' : save[v] \in Pbufs /\ Cardinality(LentAs(save[v])') # 0
    <3>1. ASSUME NEW v \in phy' PROVE save[v] \in Pbufs /\ Cardinality(LentAs(save[v])') # 0
      <4>1. save[v] \in Pbufs
        BY <1>1, <3>1 DEF LentValid
      <4>2. v \in {u \in phy' : save'[u] = save[v]}
        BY <1>1, <3>1
      <4>3. IsFiniteSet({u \in phy' : save'[u] = save[v]})
        BY <2>1, WrappersFinite, FS_Subset
      <4>4. Cardinality({u \in phy' : save'[u] = save[v]}) # 0
        BY <4>2, <4>3, FS_EmptySet
      <4>5. QED
        BY <4>1, <4>4, <1>1 DEF LentAs
    <3>2. QED
      BY <3>1
  <2>3. \A p \in Pbufs : Cardinality(LentAs(p)') # 0 => ref'[p] > 0
    BY <1>6 DEF One
  <2>4. QED
    BY <1>1, <2>2, <2>3 DEF LentValid
<1>11. FgConsistent'
  BY <1>1, EarlyFreeAssumption DEF FgConsistent, FgOwns
<1>12. (DescriptorsConserved /\ FreeBlobPbufsClean)'
  BY <1>1 DEF DescriptorsConserved, FreeBlobPbufsClean
<1>13. QED
  BY <1>7, <1>8, <1>9, <1>10, <1>11, <1>12

\* pbuf_free ends: the wrapper goes back to the pool.
LEMMA PbufFreeReleaseIInv ==
  ASSUME IInv, NEW w \in Wrappers, pbuf_free_release(w)
  PROVE  IInv'
<1> USE DEF IInv
<1>1. /\ w \in rel /\ pool' = Append(pool, w) /\ rel' = rel \ {w}
      /\ UNCHANGED <<ref, kind, core, nblk, save, wref, phy, bp, ebs, link, fg>>
  BY DEF pbuf_free_release, rxvars, pbuf_wrapper_release
<1>2. /\ pool \in Seq(Wrappers) /\ Distinct(pool)
      /\ \A v \in Wrappers : InPool(v) <=> In(pool, v)
      /\ \A v \in Wrappers : InPool(v)' <=> In(pool', v)
  BY DEF TypeOK, WrappersPartitioned, Distinct, InPool, In
<1>3. ~In(pool, w)
  <2>1. One(InPool(w)) + One(FgOwns(w)) + One(w \in phy) + One(w \in rel)
            = One(w <= nblk * BlockSize)
    BY DEF WrappersPartitioned
  <2>2. QED
    BY <1>1, <1>2, <2>1 DEF One
<1>4. /\ pool' \in Seq(Wrappers) /\ Distinct(pool')
      /\ \A v : In(pool', v) <=> In(pool, v) \/ v = w
  BY <1>1, <1>2, <1>3, PushFacts
<1>5. TypeOK'
  BY <1>1, <1>4 DEF TypeOK
<1>6. RefsExact'
  <2>1. \A p \in Pbufs : Cardinality(LentAs(p))' = Cardinality(LentAs(p))
    BY <1>1, LoansSame
  <2>2. \A p \in Pbufs : FgHolds(p)' <=> FgHolds(p)
    BY <1>1 DEF FgHolds
  <2>3. QED
    BY <1>1, <2>1, <2>2 DEF RefsExact, One
<1>7. WrappersPartitioned'
  <2>1. ASSUME NEW v \in Wrappers
        PROVE  One(InPool(v)') + One(FgOwns(v)') + One(v \in phy') + One(v \in rel')
                   = One(v <= nblk' * BlockSize)
    <3>1. One(InPool(v)) + One(FgOwns(v)) + One(v \in phy) + One(v \in rel)
              = One(v <= nblk * BlockSize)
      BY DEF WrappersPartitioned
    <3>2. (FgOwns(v)' <=> FgOwns(v)) /\ (InPool(v)' <=> InPool(v) \/ v = w)
      BY <1>1, <1>2, <1>4 DEF FgOwns
    <3>3. v = w => ~InPool(v)
      BY <1>2, <1>3
    <3>4. QED
      BY <1>1, <3>1, <3>2, <3>3 DEF One
  <2>2. QED
    BY <1>4, <2>1 DEF WrappersPartitioned, Distinct
<1>8. (LentValid /\ FgConsistent /\ DescriptorsConserved /\ FreeBlobPbufsClean)'
  BY <1>1 DEF LentValid, FgConsistent, FgOwns, DescriptorsConserved, FreeBlobPbufsClean
<1>9. QED
  BY <1>5, <1>6, <1>7, <1>8

\* What the transmit path keeps when only the receive path moves.
LEMMA RxOnly ==
  ASSUME IInv, UNCHANGED <<ref, kind, core, pool, nblk, save, wref, phy, rel>>,
         \A p \in Pbufs : FgHolds(p)' <=> FgHolds(p),
         \A w \in Wrappers : FgOwns(w)' <=> FgOwns(w)
  PROVE  (RefsExact /\ WrappersPartitioned /\ LentValid)'
<1> USE DEF IInv
<1>1. \A p \in Pbufs : Cardinality(LentAs(p))' = Cardinality(LentAs(p))
  BY LoansSame
<1>2. RefsExact'
  BY <1>1 DEF RefsExact, One
<1>3. WrappersPartitioned'
  BY DEF WrappersPartitioned, InPool, One
<1>4. LentValid'
  BY DEF LentValid
<1>5. QED
  BY <1>2, <1>3, <1>4

\* The blobs allocate a pbuf, the link changes state.
LEMMA BlobAllocIInv ==
  ASSUME IInv,
         \/ \E b \in BlobPbufs, t \in {"ram", "ref"}, e \in ebs \union {NULL} :
               pbuf_alloc(b, t, e)
         \/ \E l \in {"down", "up"} : SetLink(l)
  PROVE  IInv'
<1> USE DEF IInv
<1>1. UNCHANGED <<ref, kind, core, pool, nblk, save, wref, phy, rel, fg>>
  BY DEF pbuf_alloc, SetLink, txvars, rxvars
<1>2. (RefsExact /\ WrappersPartitioned /\ LentValid)'
  BY <1>1, RxOnly DEF FgHolds, FgOwns
<1>3. ASSUME NEW b \in BlobPbufs, NEW t \in {"ram", "ref"}, NEW e \in ebs \union {NULL},
             pbuf_alloc(b, t, e)
      PROVE  (TypeOK /\ FgConsistent /\ DescriptorsConserved /\ FreeBlobPbufsClean)'
  <2>1. /\ bp[b].st = "none" /\ bp' = [bp EXCEPT ![b] = [st |-> t, eb |-> e]]
        /\ ebs' = ebs \ {e} /\ link' = link
    BY <1>3 DEF pbuf_alloc
  <2>2. TypeOK'
    BY <1>1, <2>1 DEF TypeOK
  <2>3. FgConsistent'
    BY <1>1, <2>1 DEF FgConsistent, FgOwns, TypeOK
  <2>4. bp[b].eb = NULL
    BY <2>1 DEF FreeBlobPbufsClean
  <2>5. bp'[b].eb = e /\ bp'[b].st = t /\ \A c \in BlobPbufs : c # b => bp'[c] = bp[c]
    BY <2>1 DEF TypeOK
  <2>6. DescriptorsConserved'
    <3>1. \A f \in Ebs : f \notin ebs' <=> \E c \in BlobPbufs : bp'[c].eb = f
      BY <2>1, <2>4, <2>5, NullAssumption DEF DescriptorsConserved, TypeOK
    <3>2. \A c, d \in BlobPbufs : bp'[c].eb = bp'[d].eb => c = d \/ bp'[c].eb = NULL
      <4>1. \A c \in BlobPbufs : bp[c].eb = e => e = NULL
        BY NullAssumption DEF DescriptorsConserved, TypeOK
      <4>2. QED
        BY <2>5, <4>1 DEF DescriptorsConserved
    <3>3. QED
      BY <3>1, <3>2 DEF DescriptorsConserved
  <2>7. FreeBlobPbufsClean'
    BY <2>5 DEF FreeBlobPbufsClean
  <2>8. QED
    BY <2>2, <2>3, <2>6, <2>7
<1>4. ASSUME NEW l \in {"down", "up"}, SetLink(l)
      PROVE  (TypeOK /\ FgConsistent /\ DescriptorsConserved /\ FreeBlobPbufsClean)'
  BY <1>4 DEF SetLink, txvars, rxvars, TypeOK, FgConsistent, FgOwns,
              DescriptorsConserved, FreeBlobPbufsClean
<1>5. QED
  BY <1>2, <1>3, <1>4

\* Freeing a blob pbuf gives its descriptor back, and only that one.
LEMMA FreeBlobPbufFacts ==
  ASSUME IInv, NEW b \in BlobPbufs, FreeBlobPbuf(b)
  PROVE  /\ bp' \in [BlobPbufs -> [st : {"none", "ram", "ref"}, eb : Ebs \union {NULL}]]
         /\ ebs' \subseteq Ebs
         /\ \A c \in BlobPbufs : c # b => bp'[c] = bp[c]
         /\ (DescriptorsConserved /\ FreeBlobPbufsClean)'
<1> USE DEF IInv
<1>1. /\ bp' = [bp EXCEPT ![b] = [st |-> "none", eb |-> NULL]]
      /\ ebs' = IF bp[b].eb # NULL THEN ebs \union {bp[b].eb} ELSE ebs
  BY DEF FreeBlobPbuf, NoBlobPbuf
<1>2. /\ bp' \in [BlobPbufs -> [st : {"none", "ram", "ref"}, eb : Ebs \union {NULL}]]
      /\ bp[b].eb \in Ebs \union {NULL}
      /\ ebs' \subseteq Ebs
  BY <1>1 DEF TypeOK
<1>3. bp'[b].eb = NULL /\ bp'[b].st = "none" /\ \A c \in BlobPbufs : c # b => bp'[c] = bp[c]
  BY <1>1 DEF TypeOK
<1>4. \A f \in Ebs : f \notin ebs' <=> \E c \in BlobPbufs : bp'[c].eb = f
  BY <1>1, <1>2, <1>3, NullAssumption DEF DescriptorsConserved
<1>5. \A c, d \in BlobPbufs : bp'[c].eb = bp'[d].eb => c = d \/ bp'[c].eb = NULL
  BY <1>3 DEF DescriptorsConserved
<1>6. FreeBlobPbufsClean'
  BY <1>3 DEF FreeBlobPbufsClean
<1>7. QED
  BY <1>2, <1>3, <1>4, <1>5, <1>6 DEF DescriptorsConserved

\* The blobs free a pbuf of theirs.
LEMMA PbufFreeBlobIInv ==
  ASSUME IInv, NEW b \in BlobPbufs, pbuf_free_blob(b)
  PROVE  IInv'
<1> USE DEF IInv
<1>1. /\ fg.b # b /\ FreeBlobPbuf(b)
      /\ UNCHANGED <<ref, kind, core, pool, nblk, save, wref, phy, rel, link, fg>>
  BY DEF pbuf_free_blob, txvars
<1>2. (RefsExact /\ WrappersPartitioned /\ LentValid)'
  BY <1>1, RxOnly DEF FgHolds, FgOwns
<1>3. /\ bp' \in [BlobPbufs -> [st : {"none", "ram", "ref"}, eb : Ebs \union {NULL}]]
      /\ ebs' \subseteq Ebs
      /\ \A c \in BlobPbufs : c # b => bp'[c] = bp[c]
      /\ (DescriptorsConserved /\ FreeBlobPbufsClean)'
  BY <1>1, FreeBlobPbufFacts
<1>4. TypeOK'
  BY <1>1, <1>3 DEF TypeOK
<1>5. FgConsistent'
  BY <1>1, <1>3 DEF FgConsistent, FgOwns, TypeOK, Frames
<1>6. QED
  BY <1>2, <1>3, <1>4, <1>5

\* ethernet_input frees the blobs' buffer, delivered or lost.
LEMMA EthernetInputFreeIInv ==
  ASSUME IInv, ethernet_input_free
  PROVE  IInv'
<1> USE DEF IInv
<1>1. /\ fg.pc = "rxfree" /\ FreeBlobPbuf(fg.b)
      /\ fg' = IF fg.p = NULL THEN Idle ELSE [fg EXCEPT !.pc = "rxinput", !.b = NULL]
      /\ UNCHANGED <<ref, kind, core, pool, nblk, save, wref, phy, rel, link>>
  BY DEF ethernet_input_free, txvars
<1>2. fg.b \in BlobPbufs /\ fg.w = NoWrapper
  BY <1>1 DEF FgConsistent, TypeOK, Frames
<1>3. /\ bp' \in [BlobPbufs -> [st : {"none", "ram", "ref"}, eb : Ebs \union {NULL}]]
      /\ ebs' \subseteq Ebs
      /\ (DescriptorsConserved /\ FreeBlobPbufsClean)'
  BY <1>1, <1>2, FreeBlobPbufFacts
<1>4. \/ fg.p = NULL /\ fg' = Idle
      \/ /\ fg.p # NULL /\ fg'.pc = "rxinput" /\ fg'.p = fg.p /\ fg'.b = NULL
         /\ fg'.w = NoWrapper /\ fg' \in Frames
  BY <1>1, <1>2 DEF TypeOK, Frames, PCs
<1>5. Idle \in Frames /\ Idle.pc = "idle" /\ Idle.w = NoWrapper /\ Idle.b = NULL
  BY DEF Idle, Frames, PCs, BlobErrs, EspErrs
<1>6. (RefsExact /\ WrappersPartitioned /\ LentValid)'
  <2>1. \A p \in Pbufs : FgHolds(p)' <=> FgHolds(p)
    BY <1>1, <1>4, <1>5, NullAssumption DEF FgHolds
  <2>2. \A w \in Wrappers : FgOwns(w)' <=> FgOwns(w)
    BY <1>1, <1>4, <1>5 DEF FgOwns
  <2>3. QED
    BY <1>1, <2>1, <2>2, RxOnly
<1>7. TypeOK'
  BY <1>1, <1>3, <1>4, <1>5 DEF TypeOK
<1>8. FgConsistent'
  <2>1. fg.p # NULL => fg.p \in Pbufs
    BY DEF TypeOK, Frames
  <2>2. fg.p \notin core
    BY <1>1 DEF FgConsistent
  <2>3. QED
    BY <1>1, <1>4, <1>5, <2>1, <2>2 DEF FgConsistent, FgOwns
<1>9. QED
  BY <1>3, <1>6, <1>7, <1>8

\* The frame of ethernet_input when it calls pbuf_free.
StartRx(b, p) == [Idle EXCEPT !.pc = "rxfree", !.p = p, !.b = b]

\* That frame is a frame, and what it holds.
LEMMA StartRxType ==
  ASSUME NEW b \in BlobPbufs, NEW p \in Pbufs \union {NULL}
  PROVE  /\ StartRx(b, p) \in Frames
         /\ StartRx(b, p).pc = "rxfree" /\ StartRx(b, p).p = p
         /\ StartRx(b, p).w = NoWrapper /\ StartRx(b, p).b = b
BY DEF StartRx, Idle, Frames, PCs, BlobErrs, EspErrs

\* ethernet_input copies a frame, or finds no memory for it.
LEMMA EthernetInputIInv ==
  ASSUME IInv, NEW b \in BlobPbufs, NEW q \in Pbufs \union {NULL}, ethernet_input(b, q)
  PROVE  IInv'
<1> USE DEF IInv
<1>1. /\ fg.pc = "idle" /\ bp[b].st # "none" /\ fg' = StartRx(b, q)
      /\ \/ q = NULL /\ UNCHANGED <<ref, kind>>
         \/ /\ q \in Pbufs /\ ref[q] = 0
            /\ ref' = [ref EXCEPT ![q] = 1] /\ kind' = [kind EXCEPT ![q] = "glued"]
      /\ UNCHANGED <<core, pool, nblk, save, wref, phy, rel, bp, ebs, link>>
  BY DEF ethernet_input, txvars, rxvars, StartRx
<1>2. /\ fg' \in Frames /\ fg'.pc = "rxfree" /\ fg'.p = q /\ fg'.w = NoWrapper /\ fg'.b = b
  BY <1>1, StartRxType
<1>3. TypeOK'
  BY <1>1, <1>2 DEF TypeOK
<1>4. \A p \in Pbufs : Cardinality(LentAs(p)) \in Nat
  BY LentFinite DEF TypeOK
<1>5. \A p \in Pbufs : Cardinality(LentAs(p))' = Cardinality(LentAs(p))
  BY <1>1, LoansSame
<1>6. \A p \in Pbufs : ~FgHolds(p) /\ (FgHolds(p)' <=> p = q)
  BY <1>1, <1>2 DEF FgHolds
<1>7. q \in Pbufs => q \notin core /\ Cardinality(LentAs(q)) = 0
  BY <1>1, <1>4, NullAssumption DEF RefsExact, One
<1>8. RefsExact'
  <2>1. ASSUME NEW p \in Pbufs
        PROVE  ref'[p] = One(p \in core') + One(FgHolds(p)') + Cardinality(LentAs(p))'
    <3>1. CASE p = q
      <4>1. ref'[p] = 1
        BY <1>1, <3>1, NullAssumption DEF TypeOK
      <4>2. QED
        BY <1>1, <1>4, <1>5, <1>6, <1>7, <3>1, <4>1 DEF One
    <3>2. CASE p # q
      <4>1. ref'[p] = ref[p]
        BY <1>1, <3>2 DEF TypeOK
      <4>2. QED
        BY <1>1, <1>4, <1>5, <1>6, <3>2, <4>1 DEF RefsExact, One
    <3>3. QED
      BY <3>1, <3>2
  <2>2. QED
    BY <2>1 DEF RefsExact
<1>9. WrappersPartitioned'
  BY <1>1, <1>2 DEF WrappersPartitioned, InPool, FgOwns, One
<1>10. LentValid'
  <2>1. \A w \in phy : save[w] \in Pbufs /\ save[w] # q
    BY <1>1, NullAssumption DEF LentValid
  <2>2. \A p \in Pbufs : p # q => ref'[p] = ref[p] /\ kind'[p] = kind[p]
    BY <1>1 DEF TypeOK
  <2>3. QED
    BY <1>1, <2>1, <2>2 DEF LentValid
<1>11. FgConsistent'
  <2>1. q \notin core
    BY <1>7, NullAssumption DEF TypeOK
  <2>2. b # NULL
    BY NullAssumption
  <2>3. QED
    BY <1>1, <1>2, <2>1, <2>2 DEF FgConsistent, FgOwns
<1>12. (DescriptorsConserved /\ FreeBlobPbufsClean)'
  BY <1>1 DEF DescriptorsConserved, FreeBlobPbufsClean
<1>13. QED
  BY <1>3, <1>8, <1>9, <1>10, <1>11, <1>12

\* ethernet_input hands the copy to lwIP 2.
LEMMA Esp2GlueInputIInv ==
  ASSUME IInv, esp2glue_ethernet_input
  PROVE  IInv'
<1> USE DEF IInv
<1>1. /\ fg.pc = "rxinput" /\ fg' = Idle /\ core' = core \union {fg.p}
      /\ UNCHANGED <<ref, kind, pool, nblk, save, wref, phy, rel, bp, ebs, link>>
  BY DEF esp2glue_ethernet_input, txvars, rxvars
<1>2. fg.p \in Pbufs /\ fg.p \notin core
  BY <1>1 DEF FgConsistent
<1>3. Idle \in Frames /\ Idle.pc = "idle" /\ Idle.w = NoWrapper /\ Idle.b = NULL
  BY DEF Idle, Frames, PCs, BlobErrs, EspErrs
<1>4. TypeOK'
  BY <1>1, <1>2, <1>3 DEF TypeOK
<1>5. \A p \in Pbufs : Cardinality(LentAs(p)) \in Nat
  BY LentFinite DEF TypeOK
<1>6. \A p \in Pbufs : Cardinality(LentAs(p))' = Cardinality(LentAs(p))
  BY <1>1, LoansSame
<1>7. \A p \in Pbufs : (FgHolds(p) <=> p = fg.p) /\ ~FgHolds(p)'
  BY <1>1, <1>3 DEF FgHolds
<1>8. RefsExact'
  <2>1. ASSUME NEW p \in Pbufs
        PROVE  ref'[p] = One(p \in core') + One(FgHolds(p)') + Cardinality(LentAs(p))'
    <3>1. ref[p] = One(p \in core) + One(FgHolds(p)) + Cardinality(LentAs(p))
      BY DEF RefsExact
    <3>2. QED
      BY <1>1, <1>2, <1>5, <1>6, <1>7, <3>1 DEF One
  <2>2. QED
    BY <2>1 DEF RefsExact
<1>9. WrappersPartitioned'
  BY <1>1, <1>3 DEF WrappersPartitioned, InPool, FgOwns, One
<1>10. (LentValid /\ DescriptorsConserved /\ FreeBlobPbufsClean)'
  BY <1>1 DEF LentValid, DescriptorsConserved, FreeBlobPbufsClean
<1>11. FgConsistent'
  BY <1>1, <1>3 DEF FgConsistent, FgOwns
<1>12. QED
  BY <1>4, <1>8, <1>9, <1>10, <1>11

\* The invariant is inductive: no step of lwIP 2, of the glue or of the blobs
\* breaks it.
LEMMA NextIInv == IInv /\ [Next]_vars => IInv'
<1> SUFFICES ASSUME IInv, [Next]_vars PROVE IInv'
  OBVIOUS
<1>1. CASE Core
  BY <1>1, CoreAllocIInv, CoreFreeIInv, NewLinkoutputIInv DEF Core
<1>2. CASE Foreground
  BY <1>2, LinkoutputFailsIInv, Glue2EspLinkoutputIInv, BlobAcceptIInv, FrameStepIInv,
     LinkoutputReturnIInv, NewLinkoutputReturnIInv, EthernetInputFreeIInv,
     Esp2GlueInputIInv DEF Foreground
<1>3. CASE Blobs
  BY <1>3, PbufFreeTxIInv, PbufFreeReleaseIInv, BlobAllocIInv, PbufFreeBlobIInv,
     EthernetInputIInv DEF Blobs
<1>4. CASE UNCHANGED vars
  <2> USE <1>4 DEF vars, IInv
  <2>1. (RefsExact /\ WrappersPartitioned /\ LentValid)'
    BY RxOnly DEF FgHolds, FgOwns
  <2>2. (TypeOK /\ FgConsistent /\ DescriptorsConserved /\ FreeBlobPbufsClean)'
    BY DEF TypeOK, FgConsistent, FgOwns, DescriptorsConserved, FreeBlobPbufsClean
  <2>3. QED
    BY <2>1, <2>2
<1>5. QED
  BY <1>1, <1>2, <1>3, <1>4 DEF Next

\* The packet path never leaves its inductive invariant.
THEOREM PacketPathInvariant == Spec => []IInv
<1>1. QED
  BY InitIInv, NextIInv, PTL DEF Spec

\* Every variable of the packet path keeps its type: in particular no
\* reference count ever goes below zero.
THEOREM TypeCorrect == Spec => []TypeOK
<1>1. IInv => TypeOK
  BY DEF IInv
<1>2. QED
  BY <1>1, PacketPathInvariant, PTL

\* Reference counts are exact, for any number of packets and wrappers: no
\* packet memory is freed early and none leaks, on any path through
\* new_linkoutput, glue2esp_linkoutput, pbuf_free and ethernet_input.
THEOREM ReferencesExact == Spec => []RefsExact
<1>1. IInv => RefsExact
  BY DEF IInv
<1>2. QED
  BY <1>1, PacketPathInvariant, PTL

\* No wrapper is lost, duplicated or used by two owners.
THEOREM WrappersOwnedOnce == Spec => []WrappersPartitioned
<1>1. IInv => WrappersPartitioned
  BY DEF IInv
<1>2. QED
  BY <1>1, PacketPathInvariant, PTL

\* What the blobs hold is always allocated, referenced once, and never a
\* packet that the glue received.
THEOREM LentAlwaysValid == Spec => []LentValid
<1>1. IInv => LentValid
  BY DEF IInv
<1>2. QED
  BY <1>1, PacketPathInvariant, PTL

\* No receive descriptor is lost or recycled twice.
THEOREM DescriptorsNeverLost == Spec => []DescriptorsConserved
<1>1. IInv => DescriptorsConserved
  BY DEF IInv
<1>2. QED
  BY <1>1, PacketPathInvariant, PTL

\* phy_capture reads the packet being sent, if the blobs do not free it
\* inside linkoutput.
THEOREM CaptureSafe == Spec => []CaptureSeesOwnPacket
<1>1. IInv => CaptureSeesOwnPacket
  <2> SUFFICES ASSUME IInv, ~EarlyFree, fg.pc = "capture"
               PROVE  save[fg.w] = fg.p /\ ~InPool(fg.w) /\ ref[fg.p] > 0
    BY DEF CaptureSeesOwnPacket
  <2> USE DEF IInv
  <2>1. fg.w \in Wrappers /\ fg.p \in Pbufs
    BY DEF FgConsistent, TypeOK, Frames
  <2>2. One(InPool(fg.w)) + One(FgOwns(fg.w)) + One(fg.w \in phy) + One(fg.w \in rel)
            = One(fg.w <= nblk * BlockSize)
    BY <2>1 DEF WrappersPartitioned
  <2>3. CASE fg.err = "OK"
    <3>1. fg.w \in phy /\ save[fg.w] = fg.p
      BY <2>3 DEF FgConsistent
    <3>2. ref[fg.p] > 0
      BY <3>1 DEF LentValid
    <3>3. QED
      BY <2>2, <3>1, <3>2 DEF One
  <2>4. CASE fg.err # "OK"
    <3>1. FgOwns(fg.w) /\ FgHolds(fg.p)
      BY <2>4 DEF FgOwns, FgHolds
    <3>2. save[fg.w] = fg.p
      BY <2>1, <3>1 DEF FgConsistent
    <3>3. Cardinality(LentAs(fg.p)) \in Nat
      BY LentFinite DEF TypeOK
    <3>4. ref[fg.p] > 0
      BY <2>1, <3>1, <3>3 DEF RefsExact, One
    <3>5. QED
      BY <2>2, <3>1, <3>2, <3>4 DEF One
  <2>5. QED
    BY <2>3, <2>4
<1>2. QED
  BY <1>1, PacketPathInvariant, PTL

-----------------------------------------------------------------------------
(* GluePbuf implements PbufLoan: every step of lwIP 2, of the glue and of   *)
(* the blobs is one step of the loan protocol, or leaves it where it is.    *)
(*                                                                          *)
(* The reference counts are exact, so who holds a packet and how many       *)
(* transmissions are outstanding on it tell whether it is live; a step      *)
(* then only has to be followed in those two.                               *)

\* The state of the loan protocol that a state of the packet path stands for.
Live == {p \in Pbufs : ref[p] > 0}
Held == core \union RxHeld
Loans == [p \in Pbufs |-> Cardinality(LentAs(p)) + One(TxHolds(p))]

\* A packet is live exactly while the stack holds it or lends it.
LiveIsUsed ==
    /\ Held \subseteq Pbufs
    /\ Loans \in [Pbufs -> Nat]
    /\ Live = {p \in Pbufs : p \in Held \/ Loans[p] > 0}

\* Exact reference counts say so.
LEMMA UsersExact == IInv => LiveIsUsed
<1> SUFFICES ASSUME IInv PROVE LiveIsUsed
  OBVIOUS
<1> USE DEF IInv
<1>1. \A p \in Pbufs : Cardinality(LentAs(p)) \in Nat
  BY LentFinite DEF TypeOK
<1>2. Held \subseteq Pbufs
  BY DEF Held, RxHeld, TypeOK, Frames
<1>3. Loans \in [Pbufs -> Nat] /\ \A p \in Pbufs : Loans[p] = Cardinality(LentAs(p)) + One(TxHolds(p))
  BY <1>1 DEF Loans, One
<1>4. ASSUME NEW p \in Pbufs
      PROVE  One(p \in core) + One(FgHolds(p)) = One(p \in Held) + One(TxHolds(p))
  <2>1. CASE fg.pc \in {"rxfree", "rxinput"} /\ fg.p = p
    <3>1. p \notin core /\ p \in Held /\ FgHolds(p) /\ ~TxHolds(p)
      BY <2>1, NullAssumption DEF FgConsistent, Held, RxHeld, FgHolds, TxHolds
    <3>2. QED
      BY <3>1 DEF One
  <2>2. CASE ~(fg.pc \in {"rxfree", "rxinput"} /\ fg.p = p)
    <3>1. p \in Held <=> p \in core
      BY <2>2 DEF Held, RxHeld
    <3>2. TxHolds(p) <=> FgHolds(p)
      BY <2>2 DEF TxHolds, FgHolds
    <3>3. QED
      BY <3>1, <3>2 DEF One
  <2>3. QED
    BY <2>1, <2>2
<1>5. \A p \in Pbufs : ref[p] = One(p \in Held) + Loans[p]
  <2>1. ASSUME NEW p \in Pbufs PROVE ref[p] = One(p \in Held) + Loans[p]
    <3>1. ref[p] = One(p \in core) + One(FgHolds(p)) + Cardinality(LentAs(p))
      BY DEF RefsExact
    <3>2. /\ One(p \in core) \in Nat /\ One(FgHolds(p)) \in Nat
          /\ One(p \in Held) \in Nat /\ One(TxHolds(p)) \in Nat
      BY DEF One
    <3>3. QED
      BY <1>1, <1>3, <1>4, <3>1, <3>2
  <2>2. QED
    BY <2>1
<1>6. \A p \in Pbufs : ref[p] > 0 <=> p \in Held \/ Loans[p] > 0
  BY <1>3, <1>5 DEF One
<1>7. QED
  BY <1>2, <1>3, <1>6 DEF LiveIsUsed, Live

\* The same in the next state.
LEMMA UsersExactNext == IInv' => LiveIsUsed'
BY UsersExact, PTL

\* What a step of the packet path does to the loan protocol, told by what it
\* does to the holders and the loans.
Nothing == Held' = Held /\ Loans' = Loans
Allocated(p) == p \notin Live /\ Held' = Held \union {p} /\ Loans' = Loans
LentOut(p) == p \in Held \/ p \notin Live
Lent(p) == LentOut(p) /\ Held' = Held /\ Loans' = [Loans EXCEPT ![p] = @ + 1]
Ended(p) == Loans[p] > 0 /\ Held' = Held /\ Loans' = [Loans EXCEPT ![p] = @ - 1]
Dropped(p) == p \in Held /\ Held' = Held \ {p} /\ Loans' = Loans

Explained == Nothing \/ \E p \in Pbufs : Allocated(p) \/ Lent(p) \/ Ended(p) \/ Dropped(p)

\* Each of these is the step of PbufLoan of that name.
LEMMA ExplainedStep ==
  ASSUME LiveIsUsed, LiveIsUsed', Explained
  PROVE  Loan!Next \/ UNCHANGED Loan!vars
<1> USE DEF LiveIsUsed
<1>1. CASE Nothing
  <2>1. Live' = Live
    BY <1>1 DEF Nothing
  <2>2. QED
    BY <1>1, <2>1 DEF Nothing, Loan!vars, Live, Held, Loans
<1>2. ASSUME NEW p \in Pbufs, Allocated(p) PROVE Loan!Alloc(p)
  <2>1. Live' = Live \union {p}
    BY <1>2 DEF Allocated
  <2>2. QED
    BY <1>2, <2>1 DEF Allocated, Loan!Alloc, Live, Held, Loans
<1>3. ASSUME NEW p \in Pbufs, Lent(p) PROVE Loan!Lend(p) \/ Loan!LendCopy(p)
  <2>1. Live' = Live \union {p}
    BY <1>3 DEF Lent
  <2>2. CASE p \in Held
    <3>1. Live' = Live
      BY <2>1, <2>2
    <3>2. QED
      BY <1>3, <2>2, <3>1 DEF Lent, Loan!Lend, Live, Held, Loans
  <2>3. CASE p \notin Live
    <3>1. Loans[p] = 0
      BY <2>3
    <3>2. Loans' = [Loans EXCEPT ![p] = 1]
      BY <1>3, <3>1 DEF Lent
    <3>3. QED
      BY <1>3, <2>1, <2>3, <3>2 DEF Lent, Loan!LendCopy, Live, Held, Loans
  <2>4. QED
    BY <1>3, <2>2, <2>3 DEF Lent, LentOut
<1>4. ASSUME NEW p \in Pbufs, Ended(p) PROVE Loan!EndLoan(p)
  <2>1. Live' = IF Loans[p] = 1 /\ p \notin Held THEN Live \ {p} ELSE Live
    BY <1>4 DEF Ended
  <2>2. QED
    BY <1>4, <2>1 DEF Ended, Loan!EndLoan, Live, Held, Loans
<1>5. ASSUME NEW p \in Pbufs, Dropped(p) PROVE Loan!Drop(p)
  <2>1. Live' = IF Loans[p] = 0 THEN Live \ {p} ELSE Live
    BY <1>5 DEF Dropped
  <2>2. QED
    BY <1>5, <2>1 DEF Dropped, Loan!Drop, Live, Held, Loans
<1>6. QED
  BY <1>1, <1>2, <1>3, <1>4, <1>5 DEF Explained, Loan!Next

-----------------------------------------------------------------------------
(* What each step does, for a packet path in its invariant. *)

\* The loans after a step, from the loans of each packet.
LEMMA LoansNext ==
  ASSUME Loans \in [Pbufs -> Nat], NEW q, NEW d \in {-1, 0, 1},
         d # 0 => q \in Pbufs,
         \A p \in Pbufs : Cardinality(LentAs(p))' + One(TxHolds(p)') =
             Cardinality(LentAs(p)) + One(TxHolds(p)) + (IF p = q THEN d ELSE 0)
  PROVE  /\ d = 0 => Loans' = Loans
         /\ d = 1 => Loans' = [Loans EXCEPT ![q] = @ + 1]
         /\ d = -1 => Loans' = [Loans EXCEPT ![q] = @ - 1]
<1>1. \A p \in Pbufs : Loans[p] = Cardinality(LentAs(p)) + One(TxHolds(p)) /\ Loans[p] \in Nat
  BY DEF Loans
<1>2. /\ Loans' = [p \in Pbufs |-> Loans'[p]]
      /\ \A p \in Pbufs : Loans'[p] = Cardinality(LentAs(p))' + One(TxHolds(p)')
  BY DEF Loans
<1>3. \A p \in Pbufs : Loans'[p] = Loans[p] + (IF p = q THEN d ELSE 0)
  BY <1>1, <1>2
<1>4. CASE d = 0
  <2>1. \A p \in Pbufs : Loans'[p] = Loans[p]
    BY <1>1, <1>3, <1>4
  <2>2. QED
    BY <1>2, <1>4, <2>1
<1>5. CASE d = 1
  BY <1>1, <1>2, <1>3, <1>5
<1>6. CASE d = -1
  BY <1>1, <1>2, <1>3, <1>6
<1>7. QED
  BY <1>4, <1>5, <1>6

\* A step that lends nothing and takes nothing back.
LEMMA SameLoans ==
  ASSUME Loans \in [Pbufs -> Nat],
         \A p \in Pbufs : Cardinality(LentAs(p))' = Cardinality(LentAs(p)),
         \A p \in Pbufs : TxHolds(p)' <=> TxHolds(p)
  PROVE  Loans' = Loans
BY DEF Loans, One

\* lwIP 2 allocates, drops and sends packets.
LEMMA CoreExplained ==
  ASSUME IInv, Core
  PROVE  Explained
<1>1. Loans \in [Pbufs -> Nat] /\ \A p \in Pbufs : Cardinality(LentAs(p)) \in Nat
  BY UsersExact, LentFinite DEF LiveIsUsed, IInv, TypeOK
<1>2. \A p \in Pbufs : ~TxHolds(p)
  BY DEF Core, CoreAlloc, CoreFree, new_linkoutput, TxHolds, FgHolds
<1>3. UNCHANGED <<phy, save>> /\ fg.pc = "idle"
  BY DEF Core, CoreAlloc, CoreFree, new_linkoutput, txvars
<1>4. \A p \in Pbufs : Cardinality(LentAs(p))' = Cardinality(LentAs(p))
  BY <1>3, LoansSame
<1>5. ASSUME NEW q \in Pbufs, NEW k \in {"plain", "chained"}, CoreAlloc(q, k)
      PROVE  Allocated(q)
  <2>1. Loans' = Loans
    BY <1>1, <1>2, <1>4, <1>5, SameLoans DEF CoreAlloc, TxHolds, FgHolds
  <2>2. QED
    BY <1>5, <2>1 DEF CoreAlloc, Allocated, Live, Held, RxHeld
<1>6. ASSUME NEW q \in Pbufs, CoreFree(q)
      PROVE  Dropped(q)
  <2>1. Loans' = Loans
    BY <1>1, <1>2, <1>4, <1>6, SameLoans DEF CoreFree, TxHolds, FgHolds
  <2>2. QED
    BY <1>6, <2>1 DEF CoreFree, Dropped, Held, RxHeld
<1>7. ASSUME NEW q \in Pbufs, NEW c \in Pbufs, new_linkoutput(q), fg' = StartTx(c),
             c = q \/ ref[c] = 0
      PROVE  Lent(c)
  <2>1. fg'.pc = "linkout" /\ fg'.p = c
    BY <1>7, StartTxType
  <2>2. \A p \in Pbufs : TxHolds(p)' <=> p = c
    BY <2>1 DEF TxHolds, FgHolds
  <2>3. \A p \in Pbufs : Cardinality(LentAs(p))' + One(TxHolds(p)') =
            Cardinality(LentAs(p)) + One(TxHolds(p)) + (IF p = c THEN 1 ELSE 0)
    BY <1>1, <1>2, <1>4, <2>2 DEF One
  <2>4. Loans' = [Loans EXCEPT ![c] = @ + 1]
    BY <1>1, <2>3, LoansNext
  <2>5. Held' = Held
    BY <1>3, <1>7, <2>1 DEF new_linkoutput, Held, RxHeld
  <2>6. LentOut(c)
    BY <1>7 DEF new_linkoutput, LentOut, Held, Live
  <2>7. QED
    BY <2>4, <2>5, <2>6 DEF Lent
<1>8. ASSUME NEW q \in Pbufs, new_linkoutput(q)
      PROVE  \E c \in Pbufs : fg' = StartTx(c) /\ (c = q \/ ref[c] = 0)
  BY <1>8 DEF new_linkoutput, Share, Clone, StartTx
<1>9. QED
  BY <1>5, <1>6, <1>7, <1>8 DEF Core, Explained

\* The transmit path up to the blobs' answer, and after it, only moves on:
\* the transmission of the running call becomes the blobs', or stays its own.
LEMMA TransmitExplained ==
  ASSUME IInv,
         \/ \E e \in {"IF", "MEM"} : linkoutput_fails(e)
         \/ \E w \in Wrappers : glue2esp_linkoutput(w)
         \/ \E e \in BlobErrs : BlobRefuse(e)
         \/ Capture
         \/ LinkoutputReturn
  PROVE  Nothing
<1>1. Loans \in [Pbufs -> Nat]
  BY UsersExact DEF LiveIsUsed
<1>2. fg \in Frames
  BY DEF IInv, TypeOK
<1>3. /\ core' = core
      /\ fg.pc \in {"linkout", "blob", "capture", "done"}
      /\ fg'.pc \in {"blob", "capture", "done", "ret"}
      /\ \A p \in Pbufs : TxHolds(p)' <=> TxHolds(p)
  <2>1. CASE \E e \in {"IF", "MEM"} : linkoutput_fails(e)
    BY <1>2, <2>1 DEF linkoutput_fails, TxHolds, FgHolds, Frames
  <2>2. CASE \E w \in Wrappers : glue2esp_linkoutput(w)
    BY <1>2, <2>2 DEF glue2esp_linkoutput, TxHolds, FgHolds, Frames
  <2>3. CASE \E e \in BlobErrs : BlobRefuse(e)
    BY <1>2, <2>3 DEF BlobRefuse, TxHolds, FgHolds, Frames
  <2>4. CASE Capture
    BY <1>2, <2>4 DEF Capture, TxHolds, FgHolds, Frames
  <2>5. CASE LinkoutputReturn
    BY <1>2, <2>5 DEF LinkoutputReturn, TxHolds, FgHolds, Frames, esp2glue_err, EspErrs
  <2>6. QED
    BY <2>1, <2>2, <2>3, <2>4, <2>5
<1>4. \A p \in Pbufs : LentAs(p)' = LentAs(p)
  <2>1. ASSUME NEW w \in Wrappers, glue2esp_linkoutput(w)
        PROVE  w \notin phy /\ phy' = phy /\ save' = [save EXCEPT ![w] = fg.p]
    <3>1. ~\E v \in Wrappers : FgOwns(v)
      BY <2>1 DEF glue2esp_linkoutput, FgOwns
    <3>2. QED
      BY <2>1, <3>1, GetFacts DEF glue2esp_linkoutput, IInv
  <2>2. ASSUME NEW w \in Wrappers, glue2esp_linkoutput(w)
        PROVE  \A p \in Pbufs : LentAs(p)' = LentAs(p)
    BY <2>1, <2>2 DEF LentAs, IInv, TypeOK
  <2>3. ASSUME UNCHANGED <<phy, save>>
        PROVE  \A p \in Pbufs : LentAs(p)' = LentAs(p)
    BY <2>3 DEF LentAs
  <2>4. QED
    BY <2>2, <2>3 DEF linkoutput_fails, BlobRefuse, Capture, LinkoutputReturn, txvars
<1>5. Loans' = Loans
  BY <1>1, <1>3, <1>4, SameLoans
<1>6. Held' = Held
  BY <1>3 DEF Held, RxHeld
<1>7. QED
  BY <1>5, <1>6 DEF Nothing

\* The blobs accept: the transmission of the running call becomes theirs.
LEMMA AcceptExplained ==
  ASSUME IInv, BlobAccept
  PROVE  Nothing
<1> USE DEF IInv
<1>1. /\ fg.pc = "blob" /\ fg' = [fg EXCEPT !.pc = "capture", !.err = "OK"]
      /\ phy' = phy \union {fg.w} /\ UNCHANGED <<core, save>>
  BY DEF BlobAccept
<1>2. fg'.pc = "capture" /\ fg'.err = "OK"
  BY <1>1 DEF TypeOK, Frames
<1>3. FgOwns(fg.w) /\ fg.w \in Wrappers /\ fg.p \in Pbufs /\ save[fg.w] = fg.p
  BY <1>1 DEF FgConsistent, FgOwns, TypeOK, Frames
<1>4. fg.w \notin phy
  <2>1. One(InPool(fg.w)) + One(FgOwns(fg.w)) + One(fg.w \in phy) + One(fg.w \in rel)
            = One(fg.w <= nblk * BlockSize)
    BY <1>3 DEF WrappersPartitioned
  <2>2. QED
    BY <1>3, <2>1 DEF One
<1>5. \A p \in Pbufs : (TxHolds(p) <=> p = fg.p) /\ ~TxHolds(p)'
  BY <1>1, <1>2 DEF TxHolds, FgHolds
<1>6. ASSUME NEW p \in Pbufs
      PROVE  Cardinality(LentAs(p))' + One(TxHolds(p)') =
                 Cardinality(LentAs(p)) + One(TxHolds(p)) + (IF p = fg.p THEN 0 ELSE 0)
  <2>1. IsFiniteSet(LentAs(p)) /\ Cardinality(LentAs(p)) \in Nat
    BY LentFinite DEF TypeOK
  <2>2. CASE p = fg.p
    <3>1. LentAs(p)' = LentAs(p) \union {fg.w} /\ fg.w \notin LentAs(p)
      BY <1>1, <1>3, <1>4, <2>2 DEF LentAs
    <3>2. Cardinality(LentAs(p) \union {fg.w}) = Cardinality(LentAs(p)) + 1
      BY <2>1, <3>1, FS_AddElement
    <3>3. QED
      BY <1>5, <2>1, <2>2, <3>1, <3>2 DEF One
  <2>3. CASE p # fg.p
    <3>1. LentAs(p)' = LentAs(p)
      BY <1>1, <1>3, <2>3 DEF LentAs
    <3>2. QED
      BY <1>5, <2>1, <2>3, <3>1 DEF One
  <2>4. QED
    BY <2>2, <2>3
<1>7. Loans \in [Pbufs -> Nat]
  BY UsersExact DEF LiveIsUsed
<1>8. Loans' = Loans
  BY <1>6, <1>7, LoansNext
<1>9. Held' = Held
  BY <1>1, <1>2 DEF Held, RxHeld
<1>10. QED
  BY <1>8, <1>9 DEF Nothing

\* new_linkoutput returns: a refused transmission ends, by the stack itself.
LEMMA ReturnExplained ==
  ASSUME IInv, new_linkoutput_return
  PROVE  Nothing \/ \E p \in Pbufs : Ended(p)
<1>1. /\ fg.pc = "ret" /\ fg' = Idle /\ fg.p \in Pbufs
      /\ UNCHANGED <<core, phy, save>>
  BY DEF new_linkoutput_return, txvars, IInv, FgConsistent
<1>2. Loans \in [Pbufs -> Nat] /\ \A p \in Pbufs : Cardinality(LentAs(p)) \in Nat
  BY UsersExact, LentFinite DEF LiveIsUsed, IInv, TypeOK
<1>3. \A p \in Pbufs : Cardinality(LentAs(p))' = Cardinality(LentAs(p))
  BY <1>1, LoansSame
<1>4. Held' = Held
  BY <1>1 DEF Held, RxHeld, Idle
<1>5. \A p \in Pbufs : ~TxHolds(p)'
  BY <1>1 DEF TxHolds, FgHolds, Idle
<1>6. \A p \in Pbufs : TxHolds(p) <=> p = fg.p /\ fg.err # "OK"
  BY <1>1 DEF TxHolds, FgHolds
<1>7. CASE fg.err = "OK"
  <2>1. Loans' = Loans
    BY <1>2, <1>3, <1>5, <1>6, <1>7, SameLoans
  <2>2. QED
    BY <1>4, <2>1 DEF Nothing
<1>8. CASE fg.err # "OK"
  <2>1. \A p \in Pbufs : Cardinality(LentAs(p))' + One(TxHolds(p)') =
            Cardinality(LentAs(p)) + One(TxHolds(p)) + (IF p = fg.p THEN -1 ELSE 0)
    BY <1>2, <1>3, <1>5, <1>6, <1>8 DEF One
  <2>2. Loans' = [Loans EXCEPT ![fg.p] = @ - 1]
    BY <1>1, <1>2, <2>1, LoansNext
  <2>3. Loans[fg.p] > 0
    BY <1>1, <1>2, <1>6, <1>8 DEF Loans, One
  <2>4. QED
    BY <1>1, <1>4, <2>2, <2>3 DEF Ended
<1>9. QED
  BY <1>7, <1>8

\* The blobs give a packet back: one transmission ends.
LEMMA FreeTxExplained ==
  ASSUME IInv, NEW w \in Wrappers, pbuf_free_tx(w)
  PROVE  \E p \in Pbufs : Ended(p)
<1> USE DEF IInv
<1>1. /\ w \in phy /\ phy' = phy \ {w} /\ UNCHANGED <<core, save, fg>>
  BY DEF pbuf_free_tx
<1>2. save[w] \in Pbufs /\ Cardinality(LentAs(save[w])) >= 1
  BY <1>1, LentCounted DEF LentValid, TypeOK
<1>3. \A p \in Pbufs : TxHolds(p)' <=> TxHolds(p)
  BY <1>1 DEF TxHolds, FgHolds
<1>4. ASSUME NEW p \in Pbufs
      PROVE  Cardinality(LentAs(p))' + One(TxHolds(p)') =
                 Cardinality(LentAs(p)) + One(TxHolds(p)) + (IF p = save[w] THEN -1 ELSE 0)
  <2>1. IsFiniteSet(LentAs(p)) /\ Cardinality(LentAs(p)) \in Nat
    BY LentFinite DEF TypeOK
  <2>2. CASE p = save[w]
    <3>1. LentAs(p)' = LentAs(p) \ {w} /\ w \in LentAs(p)
      BY <1>1, <2>2 DEF LentAs
    <3>2. Cardinality(LentAs(p) \ {w}) = Cardinality(LentAs(p)) - 1
      BY <2>1, <3>1, FS_RemoveElement
    <3>3. QED
      BY <1>3, <2>1, <2>2, <3>1, <3>2 DEF One
  <2>3. CASE p # save[w]
    <3>1. LentAs(p)' = LentAs(p)
      BY <1>1, <2>3 DEF LentAs
    <3>2. QED
      BY <1>3, <2>1, <2>3, <3>1 DEF One
  <2>4. QED
    BY <2>2, <2>3
<1>5. Loans \in [Pbufs -> Nat]
  BY UsersExact DEF LiveIsUsed
<1>6. Loans' = [Loans EXCEPT ![save[w]] = @ - 1]
  BY <1>2, <1>4, <1>5, LoansNext
<1>7. Loans[save[w]] > 0
  <2>1. Cardinality(LentAs(save[w])) \in Nat
    BY <1>2, LentFinite DEF TypeOK
  <2>2. QED
    BY <1>2, <2>1 DEF Loans, One
<1>8. Held' = Held
  BY <1>1 DEF Held, RxHeld
<1>9. QED
  BY <1>2, <1>6, <1>7, <1>8 DEF Ended

\* Wrappers, blob pbufs and the link are no part of the loan protocol.
LEMMA BlobsExplained ==
  ASSUME IInv, UNCHANGED <<core, phy, save, fg>>
  PROVE  Nothing
<1>1. Loans \in [Pbufs -> Nat]
  BY UsersExact DEF LiveIsUsed
<1>2. \A p \in Pbufs : Cardinality(LentAs(p))' = Cardinality(LentAs(p))
  BY LoansSame
<1>3. Loans' = Loans
  BY <1>1, <1>2, SameLoans DEF TxHolds, FgHolds
<1>4. QED
  BY <1>3 DEF Nothing, Held, RxHeld

\* The receive path holds its copy for the stack from the start.
LEMMA ReceiveExplained ==
  ASSUME IInv,
         \/ \E b \in BlobPbufs, q \in Pbufs \union {NULL} : ethernet_input(b, q)
         \/ ethernet_input_free
         \/ esp2glue_ethernet_input
  PROVE  Nothing \/ \E p \in Pbufs : Allocated(p)
<1>1. /\ UNCHANGED <<phy, save>> /\ fg \in Frames
      /\ fg.pc \in {"idle", "rxfree", "rxinput"} /\ fg'.pc \in {"idle", "rxfree", "rxinput"}
  <2>1. fg \in Frames
    BY DEF IInv, TypeOK
  <2>2. ASSUME NEW b \in BlobPbufs, NEW q \in Pbufs \union {NULL}, ethernet_input(b, q)
        PROVE  UNCHANGED <<phy, save>> /\ fg.pc = "idle" /\ fg'.pc = "rxfree"
    BY <2>2 DEF ethernet_input, txvars, Idle
  <2>3. CASE ethernet_input_free
    BY <2>1, <2>3 DEF ethernet_input_free, txvars, Idle, Frames
  <2>4. CASE esp2glue_ethernet_input
    BY <2>1, <2>4 DEF esp2glue_ethernet_input, txvars, Idle
  <2>5. QED
    BY <2>1, <2>2, <2>3, <2>4
<1>2. \A p \in Pbufs : ~TxHolds(p) /\ ~TxHolds(p)'
  BY <1>1 DEF TxHolds, FgHolds
<1>3. \A p \in Pbufs : Cardinality(LentAs(p))' = Cardinality(LentAs(p))
  BY <1>1, LoansSame
<1>4. Loans \in [Pbufs -> Nat]
  BY UsersExact DEF LiveIsUsed
<1>5. Loans' = Loans
  BY <1>2, <1>3, <1>4, SameLoans
<1>6. ASSUME NEW b \in BlobPbufs, NEW q \in Pbufs \union {NULL}, ethernet_input(b, q)
      PROVE  Nothing \/ \E p \in Pbufs : Allocated(p)
  <2>1. fg.pc = "idle" /\ fg' = StartRx(b, q) /\ core' = core
    BY <1>6 DEF ethernet_input, StartRx
  <2>2. fg'.pc = "rxfree" /\ fg'.p = q
    BY <2>1, StartRxType
  <2>3. Held' = Held \union {p \in Pbufs : p = q}
    BY <2>1, <2>2, NullAssumption DEF Held, RxHeld
  <2>4. CASE q = NULL
    <3>1. {p \in Pbufs : p = q} = {}
      BY <2>4, NullAssumption
    <3>2. QED
      BY <1>5, <2>3, <3>1 DEF Nothing
  <2>5. CASE q # NULL
    <3>1. q \in Pbufs /\ q \notin Live
      <4>1. ref[q] = 0
        BY <1>6, <2>5 DEF ethernet_input
      <4>2. QED
        BY <2>5, <4>1 DEF Live
    <3>2. {p \in Pbufs : p = q} = {q}
      BY <3>1
    <3>3. Held' = Held \union {q}
      BY <2>3, <3>2
    <3>4. QED
      BY <1>5, <3>1, <3>3 DEF Allocated
  <2>6. QED
    BY <2>4, <2>5
<1>7. CASE ethernet_input_free
  <2>1. Held' = Held
    BY <1>1, <1>7 DEF ethernet_input_free, Held, RxHeld, Idle, Frames
  <2>2. QED
    BY <1>5, <2>1 DEF Nothing
<1>8. CASE esp2glue_ethernet_input
  <2>1. fg.p \in Pbufs
    BY <1>8 DEF esp2glue_ethernet_input, IInv, FgConsistent
  <2>2. Held' = Held
    BY <1>8, <2>1, NullAssumption DEF esp2glue_ethernet_input, Held, RxHeld, Idle
  <2>3. QED
    BY <1>5, <2>2 DEF Nothing
<1>9. QED
  BY <1>6, <1>7, <1>8

\* Every step of the packet path is explained.
LEMMA NextExplained ==
  ASSUME IInv, [Next]_vars
  PROVE  Explained
<1>1. CASE Core
  BY <1>1, CoreExplained
<1>2. CASE Foreground
  BY <1>2, TransmitExplained, AcceptExplained, ReturnExplained, ReceiveExplained
     DEF Foreground, Explained
<1>3. CASE Blobs
  <2>1. CASE \E w \in Wrappers : pbuf_free_tx(w)
    BY <2>1, FreeTxExplained DEF Explained
  <2>2. CASE \E b \in BlobPbufs, p \in Pbufs \union {NULL} : ethernet_input(b, p)
    BY <2>2, ReceiveExplained DEF Explained
  <2>3. CASE UNCHANGED <<core, phy, save, fg>>
    BY <2>3, BlobsExplained DEF Explained
  <2>4. QED
    BY <1>3, <2>1, <2>2, <2>3
       DEF Blobs, pbuf_free_release, pbuf_alloc, pbuf_free_blob, SetLink, txvars
<1>4. CASE UNCHANGED vars
  BY <1>4, BlobsExplained DEF Explained, vars
<1>5. QED
  BY <1>1, <1>2, <1>3, <1>4 DEF Next

-----------------------------------------------------------------------------

\* A packet path that has done nothing is a loan protocol that has not.
LEMMA InitMaps == Init => Loan!Init
<1> SUFFICES ASSUME Init PROVE Loan!Init
  OBVIOUS
<1>1. {p \in Pbufs : ref[p] > 0} = {}
  BY DEF Init
<1>2. core \union RxHeld = {}
  BY DEF Init, RxHeld, Idle
<1>3. \A p \in Pbufs : Cardinality(LentAs(p)) + One(TxHolds(p)) = 0
  <2>1. \A p \in Pbufs : LentAs(p) = {} /\ ~TxHolds(p)
    BY DEF Init, LentAs, TxHolds, FgHolds, Idle
  <2>2. QED
    BY <2>1, FS_EmptySet DEF One
<1>4. QED
  BY <1>1, <1>2, <1>3 DEF Loan!Init

\* The glue keeps the promise of PbufLoan: whatever the blobs answer, and
\* whenever they free what they were lent, memory is never freed under a
\* transmission and every transmission new_linkoutput starts ends once.
THEOREM ImplementsPbufLoan == Spec => RefinesPbufLoan
<1>1. IInv /\ IInv' /\ [Next]_vars => [Loan!Next]_(Loan!vars)
  <2> SUFFICES ASSUME IInv, IInv', [Next]_vars
               PROVE  Loan!Next \/ UNCHANGED Loan!vars
    OBVIOUS
  <2>1. LiveIsUsed /\ LiveIsUsed'
    BY UsersExact, UsersExactNext
  <2>2. Explained
    BY NextExplained
  <2>3. QED
    BY <2>1, <2>2, ExplainedStep
<1>2. QED
  BY <1>1, InitMaps, PacketPathInvariant, PTL DEF Spec, RefinesPbufLoan, Loan!Spec
=============================================================================
