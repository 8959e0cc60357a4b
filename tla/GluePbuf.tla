------------------------------ MODULE GluePbuf ------------------------------
(***************************************************************************)
(* Ownership of packet memory between lwIP 2 and the closed Wi-Fi blobs.   *)
(*                                                                         *)
(* Transmit: new_linkoutput (lwip-git.c) takes a reference on a lwIP 2     *)
(* pbuf (or clones it), glue2esp_linkoutput (lwip-esp.c) hides it behind a *)
(* lwIP 1.4 "wrapper" pbuf taken from a pool and lends it to the blobs.    *)
(* The blobs give it back, at any moment, by calling the lwIP 1.4          *)
(* pbuf_free, which drops the reference and returns the wrapper.           *)
(*                                                                         *)
(* Receive: the blobs pass a lwIP 1.4 pbuf, tied to a hardware receive     *)
(* descriptor (eb), to ethernet_input, which copies it into a lwIP 2 pbuf, *)
(* frees the blobs' pbuf and hands the copy to lwIP 2.                     *)
(*                                                                         *)
(* The lwIP code runs in one foreground context (NO_SYS); fg is its        *)
(* program counter and locals, split where the blobs can run.  The pool    *)
(* and the reference counts are only touched with interrupts masked, so    *)
(* each such access is one step.                                           *)
(***************************************************************************)
EXTENDS Naturals, Sequences, FiniteSets

CONSTANTS
    Pbufs,       \* lwIP 2 pbufs (a chain of pbufs is one element)
    BlobPbufs,   \* lwIP 1.4 pbufs the blobs can obtain from pbuf_alloc
    Ebs,         \* hardware receive descriptors
    NULL,        \* the null pointer
    BlockSize,   \* PBUF_WRAPPER_BLOCK: wrappers added per pool extension
    MaxBlocks,   \* bound: pool extensions the heap can satisfy
    EarlyFree    \* may the blobs free a packet before linkoutput returns?

ASSUME NullAssumption == NULL \notin Pbufs \union BlobPbufs \union Ebs
ASSUME BlockAssumption == BlockSize \in Nat \ {0} /\ MaxBlocks \in Nat
ASSUME EarlyFreeAssumption == EarlyFree \in BOOLEAN

Wrappers == 1 .. BlockSize * MaxBlocks
NoWrapper == 0

\* Error codes of the lwIP 1.4 side; UNKNOWN is any code its switch omits.
EspErrs == {"OK", "MEM", "BUF", "IF", "ABRT"}
BlobErrs == EspErrs \union {"UNKNOWN"}

VARIABLES
    ref,     \* struct pbuf.ref of each lwIP 2 pbuf, 0 when not allocated
    kind,    \* "plain", "chained" (p->next) or "glued" (PBUF_FLAG_GLUED)
    core,    \* pbufs on which the lwIP 2 core holds its own reference
    pool,    \* the pbuf_wrapper_head list, head last
    nblk,    \* blocks of wrappers allocated so far
    save,    \* ref2save of each wrapper
    wref,    \* pbuf.ref of each wrapper
    phy,     \* wrappers accepted by the blobs and not given back
    rel,     \* wrappers inside pbuf_free, after esp2glue_pbuf_freed
    link,    \* netif_esp[idx]: "none" (NULL), or its LINK_UP flag
    bp,      \* what each blob pbuf is: [st, eb]
    ebs,     \* receive descriptors available to the hardware
    fg       \* foreground frame: [pc, p, w, err, b]

txvars == <<pool, nblk, save, wref, phy, rel>>
rxvars == <<bp, ebs>>
vars == <<ref, kind, core, pool, nblk, save, wref, phy, rel, link, bp, ebs, fg>>

Idle == [pc |-> "idle", p |-> NULL, w |-> NoWrapper, err |-> "OK", b |-> NULL]
NoBlobPbuf == [st |-> "none", eb |-> NULL]

Init ==
    /\ ref = [p \in Pbufs |-> 0]
    /\ kind = [p \in Pbufs |-> "plain"]
    /\ core = {}
    /\ pool = <<>>
    /\ nblk = 0
    /\ save = [w \in Wrappers |-> NULL]
    /\ wref = [w \in Wrappers |-> 0]
    /\ phy = {}
    /\ rel = {}
    /\ link = "none"
    /\ bp = [b \in BlobPbufs |-> NoBlobPbuf]
    /\ ebs = Ebs
    /\ fg = Idle

-----------------------------------------------------------------------------
(* Helpers. *)

\* esp2glue_err: an unlisted lwIP 1.4 code becomes GLUE_ERR_ABRT.
esp2glue_err(e) == IF e \in EspErrs THEN e ELSE "ABRT"

\* pbuf_ref of lwIP 2, under SYS_ARCH_PROTECT.
Ref(p) == [ref EXCEPT ![p] = @ + 1]

\* pbuf_free of lwIP 2: drop one reference; the memory is free at zero.
Unref(p) == [ref EXCEPT ![p] = @ - 1]

\* The wrappers a pool extension chains, in the order they will be popped.
Block(n) == [i \in 1 .. BlockSize |-> n * BlockSize + i]

\* pbuf_wrapper_head: the next wrapper to hand out, and the list after it.
Top(s) == s[Len(s)]
Pop(s) == SubSeq(s, 1, Len(s) - 1)

\* A wrapper goes back on top of the list.
pbuf_wrapper_release(w) == pool' = Append(pool, w)

\* The blobs can take back control of w: always once linkoutput has returned.
Returned(w) == EarlyFree \/ fg.w # w

-----------------------------------------------------------------------------
(* The lwIP 2 core, between calls into the glue (external). *)

\* lwIP 2 builds a packet to send, in one piece or as a chain.
CoreAlloc(p, k) ==
    /\ fg.pc = "idle" /\ ref[p] = 0
    /\ ref' = [ref EXCEPT ![p] = 1]
    /\ kind' = [kind EXCEPT ![p] = k]
    /\ core' = core \union {p}
    /\ UNCHANGED <<txvars, rxvars, link, fg>>

\* lwIP 2 is done with a packet (sent, acknowledged, consumed or dropped).
CoreFree(p) ==
    /\ fg.pc = "idle" /\ p \in core
    /\ ref' = Unref(p)
    /\ core' = core \ {p}
    /\ UNCHANGED <<kind, txvars, rxvars, link, fg>>

-----------------------------------------------------------------------------
(* Transmit path. *)

\* Mutant: only chains are copied.
MustClone_chains_only(p) == kind[p] = "chained"

\* A chain, or a packet received by the glue, must be copied to be sent.
MustClone(p) == kind[p] \in {"chained", "glued"}

\* new_linkoutput, copying branch: pbuf_clone gives a fresh packet q.
Clone(p, q) ==
    /\ MustClone(p)
    /\ ref[q] = 0
    /\ ref' = [ref EXCEPT ![q] = 1]
    /\ kind' = [kind EXCEPT ![q] = "plain"]
    /\ fg' = [Idle EXCEPT !.pc = "linkout", !.p = q]

\* Mutant: pbuf_ref is forgotten.
Share_no_ref(p) ==
    /\ ~MustClone(p)
    /\ UNCHANGED <<ref, kind>>
    /\ fg' = [Idle EXCEPT !.pc = "linkout", !.p = p]

\* new_linkoutput, other branch: keep p alive until the blobs are done.
Share(p) ==
    /\ ~MustClone(p)
    /\ ref' = Ref(p)
    /\ kind' = kind
    /\ fg' = [Idle EXCEPT !.pc = "linkout", !.p = p]

\* new_linkoutput up to its call of glue2esp_linkoutput.  When pbuf_clone
\* fails it returns ERR_MEM having changed nothing.
new_linkoutput(p) ==
    /\ fg.pc = "idle" /\ p \in core
    /\ Share(p) \/ \E q \in Pbufs : Clone(p, q)
    /\ UNCHANGED <<core, txvars, rxvars, link>>

\* glue2esp_linkoutput before it has a wrapper: the interface is unknown,
\* its link is down, or the pool is empty and the heap exhausted.
linkoutput_fails(e) ==
    /\ fg.pc = "linkout"
    /\ \/ e = "IF" /\ link # "up"
       \/ e = "MEM" /\ link = "up" /\ pool = <<>>
    /\ fg' = [fg EXCEPT !.pc = "ret", !.err = e]
    /\ UNCHANGED <<ref, kind, core, txvars, rxvars, link>>

\* pbuf_wrapper_get: take the head, first extending an empty pool.
pbuf_wrapper_get(w) ==
    \/ /\ pool # <<>>
       /\ w = Top(pool) /\ pool' = Pop(pool)
       /\ nblk' = nblk
    \/ /\ pool = <<>> /\ nblk < MaxBlocks
       /\ w = Top(Block(nblk)) /\ pool' = Pop(Block(nblk))
       /\ nblk' = nblk + 1

\* Mutant: ref2save keeps its value from the wrapper's previous use.
glue2esp_linkoutput_stale(w) ==
    /\ fg.pc = "linkout" /\ link = "up"
    /\ pbuf_wrapper_get(w)
    /\ wref' = [wref EXCEPT ![w] = 0]
    /\ fg' = [fg EXCEPT !.pc = "blob", !.w = w]
    /\ UNCHANGED <<ref, kind, core, save, phy, rel, rxvars, link>>

\* glue2esp_linkoutput up to its call of the blobs: fill in a wrapper.
glue2esp_linkoutput(w) ==
    /\ fg.pc = "linkout" /\ link = "up"
    /\ pbuf_wrapper_get(w)
    /\ save' = [save EXCEPT ![w] = fg.p]
    /\ wref' = [wref EXCEPT ![w] = 0]
    /\ fg' = [fg EXCEPT !.pc = "blob", !.w = w]
    /\ UNCHANGED <<ref, kind, core, phy, rel, rxvars, link>>

\* netif->linkoutput of the blobs (external): accept the packet, taking a
\* reference on the wrapper with pbuf_ref, or refuse it with any error.
BlobAccept ==
    /\ fg.pc = "blob"
    /\ wref' = [wref EXCEPT ![fg.w] = @ + 1]
    /\ phy' = phy \union {fg.w}
    /\ fg' = [fg EXCEPT !.pc = "capture", !.err = "OK"]
    /\ UNCHANGED <<ref, kind, core, pool, nblk, save, rel, rxvars, link>>

BlobRefuse(e) ==
    /\ fg.pc = "blob" /\ e # "OK"
    /\ fg' = [fg EXCEPT !.pc = "capture", !.err = e]
    /\ UNCHANGED <<ref, kind, core, txvars, rxvars, link>>

\* phy_capture reads the wrapper's payload after the blobs' linkoutput.
Capture ==
    /\ fg.pc = "capture"
    /\ fg' = [fg EXCEPT !.pc = "done"]
    /\ UNCHANGED <<ref, kind, core, txvars, rxvars, link>>

\* Mutant: the wrapper is released whatever the blobs answered.
LinkoutputReturn_always_releases ==
    /\ fg.pc = "done"
    /\ pbuf_wrapper_release(fg.w)
    /\ fg' = [fg EXCEPT !.pc = "ret", !.w = NoWrapper, !.err = esp2glue_err(@)]
    /\ UNCHANGED <<ref, kind, core, nblk, save, wref, phy, rel, rxvars, link>>

\* The rest of glue2esp_linkoutput: a refused wrapper is released.
LinkoutputReturn ==
    /\ fg.pc = "done"
    /\ IF fg.err # "OK" THEN pbuf_wrapper_release(fg.w) ELSE pool' = pool
    /\ fg' = [fg EXCEPT !.pc = "ret", !.w = NoWrapper, !.err = esp2glue_err(@)]
    /\ UNCHANGED <<ref, kind, core, nblk, save, wref, phy, rel, rxvars, link>>

\* Mutant: the error path forgets pbuf_free.
new_linkoutput_return_leaks ==
    /\ fg.pc = "ret"
    /\ fg' = Idle
    /\ UNCHANGED <<ref, kind, core, txvars, rxvars, link>>

\* The rest of new_linkoutput: on error, drop the reference or the clone.
new_linkoutput_return ==
    /\ fg.pc = "ret"
    /\ ref' = IF fg.err # "OK" THEN Unref(fg.p) ELSE ref
    /\ fg' = Idle
    /\ UNCHANGED <<kind, core, txvars, rxvars, link>>

\* Mutant: the wrapper is recycled without esp2glue_pbuf_freed.
pbuf_free_tx_keeps(w) ==
    /\ w \in phy /\ Returned(w)
    /\ phy' = phy \ {w}
    /\ rel' = rel \union {w}
    /\ UNCHANGED <<ref, kind, core, pool, nblk, save, wref, rxvars, link, fg>>

\* pbuf_free (lwIP 1.4) of a lent wrapper: the packet goes back to lwIP 2 ...
pbuf_free_tx(w) ==
    /\ w \in phy /\ Returned(w)
    /\ ref' = Unref(save[w])
    /\ phy' = phy \ {w}
    /\ rel' = rel \union {w}
    /\ UNCHANGED <<kind, core, pool, nblk, save, wref, rxvars, link, fg>>

\* Mutant: the wrapper is not chained back.
pbuf_free_release_drops(w) ==
    /\ w \in rel
    /\ rel' = rel \ {w}
    /\ UNCHANGED <<ref, kind, core, pool, nblk, save, wref, phy, rxvars, link, fg>>

\* ... and then the wrapper to the pool.
pbuf_free_release(w) ==
    /\ w \in rel
    /\ pbuf_wrapper_release(w)
    /\ rel' = rel \ {w}
    /\ UNCHANGED <<ref, kind, core, nblk, save, wref, phy, rxvars, link, fg>>

-----------------------------------------------------------------------------
(* Receive path. *)

\* pbuf_alloc (lwIP 1.4) from the blobs, PBUF_RAM or PBUF_REF; the blobs tie
\* a received frame to its hardware descriptor (external).
pbuf_alloc(b, t, e) ==
    /\ bp[b].st = "none"
    /\ t = "ram" => e = NULL
    /\ bp' = [bp EXCEPT ![b] = [st |-> t, eb |-> e]]
    /\ ebs' = ebs \ {e}
    /\ UNCHANGED <<ref, kind, core, txvars, link, fg>>

\* Mutant: the descriptor is not recycled.
FreeBlobPbuf_no_recycle(b) ==
    /\ bp' = [bp EXCEPT ![b] = NoBlobPbuf]
    /\ ebs' = ebs

\* pbuf_free (lwIP 1.4) of a blob pbuf: recycle its descriptor, free it.
FreeBlobPbuf(b) ==
    /\ bp' = [bp EXCEPT ![b] = NoBlobPbuf]
    /\ ebs' = IF bp[b].eb # NULL THEN ebs \union {bp[b].eb} ELSE ebs

\* The blobs free a pbuf they did not pass to ethernet_input.
pbuf_free_blob(b) ==
    /\ bp[b].st # "none" /\ fg.b # b
    /\ FreeBlobPbuf(b)
    /\ UNCHANGED <<ref, kind, core, txvars, link, fg>>

\* ethernet_input, first part: esp2glue_alloc_for_recv and the copy.  The
\* copy carries PBUF_FLAG_GLUED.  p = NULL: no memory, the packet is lost.
ethernet_input(b, p) ==
    /\ fg.pc = "idle" /\ bp[b].st # "none"
    /\ IF p = NULL
       THEN UNCHANGED <<ref, kind>>
       ELSE /\ ref[p] = 0
            /\ ref' = [ref EXCEPT ![p] = 1]
            /\ kind' = [kind EXCEPT ![p] = "glued"]
    /\ fg' = [Idle EXCEPT !.pc = "rxfree", !.p = p, !.b = b]
    /\ UNCHANGED <<core, txvars, rxvars, link>>

\* Mutant: a lost packet returns ERR_MEM before pbuf_free.
ethernet_input_free_late ==
    /\ fg.pc = "rxfree"
    /\ IF fg.p = NULL
       THEN fg' = Idle /\ UNCHANGED rxvars
       ELSE fg' = [fg EXCEPT !.pc = "rxinput", !.b = NULL] /\ FreeBlobPbuf(fg.b)
    /\ UNCHANGED <<ref, kind, core, txvars, link>>

\* ethernet_input, second part: pbuf_free of the blobs' buffer; then return
\* ERR_MEM, or go on to lwIP 2.
ethernet_input_free ==
    /\ fg.pc = "rxfree"
    /\ FreeBlobPbuf(fg.b)
    /\ fg' = IF fg.p = NULL THEN Idle ELSE [fg EXCEPT !.pc = "rxinput", !.b = NULL]
    /\ UNCHANGED <<ref, kind, core, txvars, link>>

\* ethernet_input, last part: esp2glue_ethernet_input; lwIP 2 owns the copy.
esp2glue_ethernet_input ==
    /\ fg.pc = "rxinput"
    /\ core' = core \union {fg.p}
    /\ fg' = Idle
    /\ UNCHANGED <<ref, kind, txvars, rxvars, link>>

-----------------------------------------------------------------------------
\* The blobs register the interface and change its link state (GlueNetif has
\* the details); packets already lent are not affected.
SetLink(l) ==
    /\ link # l
    /\ link' = l
    /\ UNCHANGED <<ref, kind, core, txvars, rxvars, fg>>

Core ==
    \/ \E p \in Pbufs, k \in {"plain", "chained"} : CoreAlloc(p, k)
    \/ \E p \in Pbufs : CoreFree(p)
    \/ \E p \in Pbufs : new_linkoutput(p)

Foreground ==
    \/ \E e \in {"IF", "MEM"} : linkoutput_fails(e)
    \/ \E w \in Wrappers : glue2esp_linkoutput(w)
    \/ BlobAccept
    \/ \E e \in BlobErrs : BlobRefuse(e)
    \/ Capture
    \/ LinkoutputReturn
    \/ new_linkoutput_return
    \/ ethernet_input_free
    \/ esp2glue_ethernet_input

Blobs ==
    \/ \E w \in Wrappers : pbuf_free_tx(w) \/ pbuf_free_release(w)
    \/ \E b \in BlobPbufs, t \in {"ram", "ref"}, e \in ebs \union {NULL} :
          pbuf_alloc(b, t, e)
    \/ \E b \in BlobPbufs : pbuf_free_blob(b)
    \/ \E b \in BlobPbufs, p \in Pbufs \union {NULL} : ethernet_input(b, p)
    \/ \E l \in {"down", "up"} : SetLink(l)

Next == Core \/ Foreground \/ Blobs

Spec == Init /\ [][Next]_vars

\* The foreground runs every call it starts to its end; the blobs finish
\* each transmission they accepted ("blobs will call pbuf_free() back later",
\* lwip-esp.c:297) and pbuf_free runs to its end.
Fairness ==
    /\ WF_vars(Foreground)
    /\ \A w \in Wrappers : WF_vars(pbuf_free_tx(w)) /\ WF_vars(pbuf_free_release(w))

FairSpec == Spec /\ Fairness

-----------------------------------------------------------------------------
(* Properties. *)

PCs == {"idle", "linkout", "blob", "capture", "done", "ret", "rxfree", "rxinput"}

Frames == [pc : PCs, p : Pbufs \union {NULL}, w : Wrappers \union {NoWrapper},
           err : BlobErrs, b : BlobPbufs \union {NULL}]

\* Every variable has its type; in particular the error a call carries is one
\* esp2glue_err knows, and no count goes below zero.
TypeOK ==
    /\ ref \in [Pbufs -> Nat]
    /\ kind \in [Pbufs -> {"plain", "chained", "glued"}]
    /\ core \subseteq Pbufs
    /\ pool \in Seq(Wrappers)
    /\ nblk \in 0 .. MaxBlocks
    /\ save \in [Wrappers -> Pbufs \union {NULL}]
    /\ wref \in [Wrappers -> Nat]
    /\ phy \subseteq Wrappers
    /\ rel \subseteq Wrappers
    /\ link \in {"none", "down", "up"}
    /\ bp \in [BlobPbufs -> [st : {"none", "ram", "ref"}, eb : Ebs \union {NULL}]]
    /\ ebs \subseteq Ebs
    /\ fg \in Frames

\* The reference the running call of new_linkoutput or ethernet_input owns.
FgHolds(p) ==
    /\ fg.p = p
    /\ \/ fg.pc \in {"linkout", "blob", "rxfree", "rxinput"}
       \/ fg.pc \in {"capture", "done", "ret"} /\ fg.err # "OK"

\* The wrappers through which the blobs hold p.
LentAs(p) == {w \in phy : save[w] = p}

One(b) == IF b THEN 1 ELSE 0

\* The reference count of every lwIP 2 pbuf is exactly the number of its
\* users: the stack, the running call, and each wrapper lent to the blobs
\* (new_linkoutput's pbuf_ref/pbuf_clone against the pbuf_free of its error
\* path and of esp2glue_pbuf_freed).  Too low is memory reused while the radio
\* still reads it; too high is a leak.
RefsExact ==
    \A p \in Pbufs :
        ref[p] = One(p \in core) + One(FgHolds(p)) + Cardinality(LentAs(p))

\* The wrapper the running call of glue2esp_linkoutput owns.
FgOwns(w) ==
    /\ fg.w = w
    /\ \/ fg.pc = "blob"
       \/ fg.pc \in {"capture", "done"} /\ fg.err # "OK"

InPool(w) == \E i \in 1 .. Len(pool) : pool[i] = w

\* Every wrapper ever allocated is in exactly one place: free in the pool
\* (once), owned by the running call, lent to the blobs, or inside pbuf_free.
\* A wrapper released twice (blob callback and error path) or never breaks it.
WrappersPartitioned ==
    /\ \A i, j \in 1 .. Len(pool) : pool[i] = pool[j] => i = j
    /\ \A w \in Wrappers :
          One(InPool(w)) + One(FgOwns(w)) + One(w \in phy) + One(w \in rel)
              = One(w <= nblk * BlockSize)

\* What the blobs transmit from is valid: a lent wrapper carries the one
\* reference pbuf_free asserts (lwip-esp.c:693), a packet to give back
\* (lwip-esp.c:703) whose memory is still allocated, and never a packet that
\* the glue received itself (the blobs overwrite what they send, so a
\* forwarded packet must have been copied, lwip-git.c:241-243).
LentValid ==
    \A w \in phy :
        /\ wref[w] = 1
        /\ save[w] \in Pbufs
        /\ ref[save[w]] > 0
        /\ kind[save[w]] = "plain"

\* If the blobs never free a packet inside their linkoutput, phy_capture
\* (lwip-esp.c:303) reads the wrapper of the very packet being sent, not a
\* recycled one, whatever linkoutput answered.
CaptureSeesOwnPacket ==
    ~EarlyFree /\ fg.pc = "capture" =>
        /\ save[fg.w] = fg.p
        /\ ~InPool(fg.w)
        /\ ref[fg.p] > 0

\* No receive descriptor is lost or recycled twice, also when lwIP 2 has no
\* memory for the copy: each is with the hardware or on one blob pbuf.
DescriptorsConserved ==
    /\ \A e \in Ebs : e \notin ebs <=> \E b \in BlobPbufs : bp[b].eb = e
    /\ \A b, c \in BlobPbufs : bp[b].eb = bp[c].eb => b = c \/ bp[b].eb = NULL

\* Each frame given to ethernet_input gets its descriptor back to the
\* hardware, whether the frame was delivered or lost.
DescriptorRecycled ==
    \A e \in Ebs : (fg.pc = "rxfree" /\ bp[fg.b].eb = e) ~> (e \in ebs)

\* A packet the stack has dropped is eventually freed, even if it was being
\* transmitted, refused, or queued by the blobs at that moment.
DroppedIsFreed ==
    \A p \in Pbufs : (p \notin core /\ ref[p] > 0) ~> (ref[p] = 0 \/ p \in core)

\* A lent wrapper returns to the pool, so the pool does not need to grow
\* for ever.
WrapperReturns ==
    \A w \in Wrappers : (w \in phy) ~> InPool(w)

-----------------------------------------------------------------------------
(* The inductive invariant. *)

\* Where the running call has got to, what it owns and what it has filled in.
FgConsistent ==
    /\ fg.pc = "idle" => fg = Idle
    /\ fg.pc \in {"linkout", "blob", "capture", "done", "ret", "rxinput"} => fg.p \in Pbufs
    /\ fg.pc \in {"blob", "capture", "done"} <=> fg.w # NoWrapper
    /\ fg.pc = "rxfree" <=> fg.b # NULL
    /\ fg.pc = "rxfree" => bp[fg.b].st # "none"
    /\ fg.pc \in {"linkout", "blob"} => kind[fg.p] = "plain"
    /\ fg.pc \in {"rxfree", "rxinput"} => fg.p \notin core
    /\ \A w \in Wrappers : FgOwns(w) => save[w] = fg.p
    /\ fg.pc = "blob" => wref[fg.w] = 0
    /\ ~EarlyFree /\ fg.pc \in {"capture", "done"} /\ fg.err = "OK" =>
           fg.w \in phy /\ save[fg.w] = fg.p

\* A free blob pbuf carries no descriptor.
FreeBlobPbufsClean == \A b \in BlobPbufs : bp[b].st = "none" => bp[b].eb = NULL

IInv ==
    /\ TypeOK
    /\ RefsExact
    /\ WrappersPartitioned
    /\ LentValid
    /\ FgConsistent
    /\ DescriptorsConserved
    /\ FreeBlobPbufsClean

-----------------------------------------------------------------------------
(* The glue keeps the promise of PbufLoan. *)

RxHeld == IF fg.pc \in {"rxfree", "rxinput"} /\ fg.p # NULL THEN {fg.p} ELSE {}

TxHolds(p) == FgHolds(p) /\ fg.pc \notin {"rxfree", "rxinput"}

Loan == INSTANCE PbufLoan WITH
    live  <- {p \in Pbufs : ref[p] > 0},
    held  <- core \union RxHeld,
    loans <- [p \in Pbufs |-> Cardinality(LentAs(p)) + One(TxHolds(p))]

\* Every behaviour of the packet path is one PbufLoan allows: memory is never
\* freed under a transmission and every transmission ends exactly once.
RefinesPbufLoan == Loan!Spec
=============================================================================
