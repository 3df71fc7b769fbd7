------------------------------ MODULE Thumbnails ------------------------------
(***************************************************************************)
(* Thumbnails of cached originals: a worker claims a thumbnail under a     *)
(* lease token, renders it into a staging file of the token, links it to   *)
(* its final name inside the ledger transaction, settles the staging file  *)
(* and completes; a lease that expires is recovered by another worker.     *)
(* The ledger is the one of MediaCache and so is its advisory lock, but a  *)
(* thumbnail leases its own row, not its plan.                             *)
(*                                                                         *)
(* Thumbnails may be rendered as the same bytes, and then share a content. *)
(*                                                                         *)
(* Abstracted: one eviction at a time has the claim, besides those that    *)
(* outlived theirs; thumbnails of a tombstoned or edited message are not   *)
(* generated, which is the original not being there.                       *)
(***************************************************************************)
EXTENDS Integers, FiniteSets, FiniteSetsExt

CONSTANTS
  Thumbs,        \* thumbnail objects
  RenderedAs,    \* the content each is rendered as
  RenderedSize,  \* its length
  ThumbnailMaxBytes, OriginalSize, CacheMaxBytes,
  MakerTokens,   \* lease tokens, each of one attempt of a worker
  NoToken, NoRendering,
  MaxThumbAttempts \* attempts before a thumbnail is blocked

ASSUME ThumbnailAssumption ==
  /\ IsFiniteSet(Thumbs) /\ NoToken \notin MakerTokens
  /\ \A o \in Thumbs : RenderedAs[o] # NoRendering /\ RenderedSize[RenderedAs[o]] \in 1 .. ThumbnailMaxBytes
  /\ ThumbnailMaxBytes \in Nat /\ OriginalSize \in Nat /\ CacheMaxBytes \in Nat
  /\ MaxThumbAttempts \in Nat \ {0}

VARIABLES
  thumb,        \* media_cache_objects: [state, token, reserved, attempts, content]
  rendering,    \* media_cache_blobs: content |-> state
  originals,    \* thumbnails whose original and its plan are ready
  cacheReady, cacheReserved,   \* media_cache_runtime
  stagedThumb,  \* token |-> content of its staging file
  finalThumbs,  \* contents under their final name
  linkedBy,     \* tokens whose staging file is that same file
  ledgerHeldBy, \* the advisory lock, when held across work on files
  maker,        \* token |-> [pc, job]
  liveTokens,   \* tokens whose lease has not expired
  evicting,     \* the content an evictor has claimed
  outlived      \* contents an evictor whose claim has expired may yet unlink
thumbRows == <<thumb, rendering, originals, cacheReady, cacheReserved>>
thumbFiles == <<stagedThumb, finalThumbs, linkedBy>>
evictors == <<evicting, outlived>>
thumbVars == <<thumbRows, thumbFiles, ledgerHeldBy, maker, liveTokens, evictors>>

Renderings == {RenderedAs[o] : o \in Thumbs}
AtRest == [pc |-> "idle", job |-> NoRendering]
Goes(t, step) == maker' = [maker EXCEPT ![t].pc = step]
Rests(t) == maker' = [maker EXCEPT ![t] = AtRest]
LedgerFree == ledgerHeldBy = NoToken

FreshToken(t) ==
  maker[t] = AtRest /\ stagedThumb[t] = NoRendering /\ \A o \in Thumbs : thumb[o].token # t

\* lockedObject: the row is in the state, under the token, and the lease has not expired.
Holding(t, state) == LET o == maker[t].job IN
  thumb[o].state = state /\ thumb[o].token = t /\ t \in liveTokens

-----------------------------------------------------------------------------
\* Rows are made for the originals that are there, and claimed while the cache has room.

DiscoverThumbnail(o) ==
  /\ thumb[o].state = "none" /\ o \in originals
  /\ thumb' = [thumb EXCEPT ![o].state = "discovered"]
  /\ UNCHANGED <<rendering, originals, cacheReady, cacheReserved, thumbFiles, ledgerHeldBy, maker,
                 liveTokens, evictors>>

HasRoom == cacheReady + cacheReserved + ThumbnailMaxBytes <= CacheMaxBytes

ClaimThumbnail(t, o) ==
  /\ LedgerFree /\ FreshToken(t)
  /\ thumb[o].state \in {"discovered", "retry_wait"} /\ o \in originals /\ HasRoom
  /\ thumb' = [thumb EXCEPT ![o].state = "downloading", ![o].token = t, ![o].reserved = ThumbnailMaxBytes]
  /\ cacheReserved' = cacheReserved + ThumbnailMaxBytes
  /\ liveTokens' = liveTokens \union {t}
  /\ maker' = [maker EXCEPT ![t] = [pc |-> "rendering", job |-> o]]
  /\ UNCHANGED <<rendering, originals, cacheReady, thumbFiles, ledgerHeldBy, evictors>>

StageThumbnail(t) ==
  /\ maker[t].pc = "rendering"
  /\ stagedThumb' = [stagedThumb EXCEPT ![t] = RenderedAs[maker[t].job]]
  /\ Goes(t, "staged")
  /\ UNCHANGED <<thumbRows, finalThumbs, linkedBy, ledgerHeldBy, liveTokens, evictors>>

\* No image, too large, too slow, or its original cannot be read: before or after staging.
RenderingFails(t) ==
  /\ maker[t].pc \in {"rendering", "staged"}
  /\ Goes(t, "failing")
  /\ UNCHANGED <<thumbRows, thumbFiles, ledgerHeldBy, liveTokens, evictors>>

-----------------------------------------------------------------------------
\* Publication: the file is linked inside the transaction that counts it.

AddedBytes(c) == IF rendering[c] = "ready" THEN 0 ELSE RenderedSize[c]

MayPublish(t) == LET c == stagedThumb[t] IN
  /\ Holding(t, "downloading")
  /\ thumb[maker[t].job].content \in {NoRendering, c}
  /\ rendering[c] # "deleting"
  /\ cacheReady + AddedBytes(c) <= CacheMaxBytes

BeginPublishing(t) ==
  /\ LedgerFree /\ maker[t].pc = "staged" /\ MayPublish(t)
  /\ ledgerHeldBy' = t /\ Goes(t, "linking")
  /\ UNCHANGED <<thumbRows, thumbFiles, liveTokens, evictors>>

PublishingRefused(t) ==
  /\ LedgerFree /\ maker[t].pc = "staged" /\ ~MayPublish(t)
  /\ Goes(t, "failing")
  /\ UNCHANGED <<thumbRows, thumbFiles, ledgerHeldBy, liveTokens, evictors>>

LinkThumbnail(t) ==
  /\ maker[t].pc = "linking"
  /\ finalThumbs' = finalThumbs \union {stagedThumb[t]}
  /\ linkedBy' = IF stagedThumb[t] \in finalThumbs THEN linkedBy ELSE linkedBy \union {t}
  /\ Goes(t, "linked")
  /\ UNCHANGED <<thumbRows, stagedThumb, ledgerHeldBy, liveTokens, evictors>>

\* The lease is looked at again: linking may have taken long.
CommitPublishing(t) ==
  /\ maker[t].pc = "linked" /\ t \in liveTokens
  /\ LET c == stagedThumb[t]
         o == maker[t].job IN
       /\ rendering' = [rendering EXCEPT ![c] = "ready"]
       /\ cacheReady' = cacheReady + AddedBytes(c)
       /\ thumb' = [thumb EXCEPT ![o].state = "staging", ![o].content = c]
  /\ ledgerHeldBy' = NoToken /\ Goes(t, "settling")
  /\ UNCHANGED <<originals, cacheReserved, thumbFiles, liveTokens, evictors>>

\* A file or the lease fails: the transaction rolls back, the link stays.
PublishingRollsBack(t) ==
  /\ maker[t].pc \in {"linking", "linked"}
  /\ ledgerHeldBy' = NoToken /\ Goes(t, "failing")
  /\ UNCHANGED <<thumbRows, thumbFiles, liveTokens, evictors>>

-----------------------------------------------------------------------------
\* settle(): the staging name goes; rolled back, the final name of the same file goes first.

DropStaging(h) ==
  stagedThumb' = [stagedThumb EXCEPT ![h] = NoRendering] /\ linkedBy' = linkedBy \ {h} /\ UNCHANGED finalThumbs
DropFinal(h) ==
  finalThumbs' = finalThumbs \ {stagedThumb[h]} /\ linkedBy' = linkedBy \ {h} /\ UNCHANGED stagedThumb

\* Mutant: only the staging name is taken back.
StagingOnly(h) == FALSE
SameFile(h) == h \in linkedBy

\* After the commit and outside any transaction; it throws when the final file is gone.
SettleThumbnail(t) ==
  /\ maker[t].pc = "settling"
  /\ IF stagedThumb[t] \in finalThumbs
     THEN DropStaging(t) /\ Goes(t, "completing")
     ELSE Rests(t) /\ UNCHANGED thumbFiles
  /\ UNCHANGED <<thumbRows, ledgerHeldBy, liveTokens, evictors>>

CompleteThumbnail(t) ==
  /\ LedgerFree /\ maker[t].pc = "completing"
  /\ LET o == maker[t].job IN
       IF Holding(t, "staging") /\ rendering[thumb[o].content] = "ready"
       THEN /\ thumb' = [thumb EXCEPT ![o].state = "ready", ![o].token = NoToken, ![o].reserved = 0]
            /\ cacheReserved' = cacheReserved - thumb[o].reserved
            /\ liveTokens' = liveTokens \ {t}
       ELSE UNCHANGED <<thumb, cacheReserved, liveTokens>>
  /\ Rests(t)
  /\ UNCHANGED <<rendering, originals, cacheReady, thumbFiles, ledgerHeldBy, evictors>>

-----------------------------------------------------------------------------
\* A thumbnail that fails is skipped, its files taken back inside the transaction.

BeginSkip(t) ==
  /\ LedgerFree /\ maker[t].pc = "failing" /\ Holding(t, "downloading")
  /\ ledgerHeldBy' = t /\ Goes(t, "cleaning")
  /\ UNCHANGED <<thumbRows, thumbFiles, liveTokens, evictors>>

\* A stale run leaves everything to the recovery.
SkipRefused(t) ==
  /\ LedgerFree /\ maker[t].pc = "failing" /\ ~Holding(t, "downloading")
  /\ Rests(t)
  /\ UNCHANGED <<thumbRows, thumbFiles, ledgerHeldBy, liveTokens, evictors>>

CleanFinalName(t) ==
  /\ maker[t].pc = "cleaning" /\ SameFile(t)
  /\ DropFinal(t)
  /\ UNCHANGED <<thumbRows, ledgerHeldBy, maker, liveTokens, evictors>>

CleanThumbnail(t) ==
  /\ maker[t].pc = "cleaning" /\ ~SameFile(t)
  /\ DropStaging(t) /\ Goes(t, "cleaned")
  /\ UNCHANGED <<thumbRows, ledgerHeldBy, liveTokens, evictors>>

\* A row gives up its lease and what it has reserved.
GiveUpLease(o, state) ==
  /\ thumb' = [thumb EXCEPT ![o].state = state, ![o].token = NoToken, ![o].reserved = 0,
                            ![o].attempts = IF state = "skipped" THEN @ ELSE @ + 1]
  /\ cacheReserved' = cacheReserved - thumb[o].reserved
  /\ UNCHANGED <<rendering, originals, cacheReady>>

CommitSkip(t) ==
  /\ maker[t].pc = "cleaned" /\ t \in liveTokens
  /\ GiveUpLease(maker[t].job, "skipped")
  /\ ledgerHeldBy' = NoToken /\ Rests(t) /\ liveTokens' = liveTokens \ {t}
  /\ UNCHANGED <<thumbFiles, evictors>>

SkipRollsBack(t) ==
  /\ maker[t].pc \in {"cleaning", "cleaned"}
  /\ ledgerHeldBy' = NoToken /\ Rests(t)
  /\ UNCHANGED <<thumbRows, thumbFiles, liveTokens, evictors>>

-----------------------------------------------------------------------------
\* Recovery of a lease that expired: what was not committed is taken back, what was is
\* adopted under a fresh lease.

Leaseholder(t) == thumb[maker[t].job].token
Committed(t) == thumb[maker[t].job].state = "staging"

BeginRecovery(t, o) ==
  /\ LedgerFree /\ FreshToken(t)
  /\ thumb[o].state \in {"downloading", "staging"} /\ thumb[o].token \notin liveTokens
  /\ ledgerHeldBy' = t /\ liveTokens' = liveTokens \union {t}
  /\ maker' = [maker EXCEPT ![t] = [pc |-> "recovering", job |-> o]]
  /\ UNCHANGED <<thumbRows, thumbFiles, evictors>>

\* The file of a committed thumbnail must be there, whether or not it has been settled.
Recoverable(t) ==
  Committed(t) => /\ stagedThumb[Leaseholder(t)] \in {NoRendering, thumb[maker[t].job].content}
                  /\ thumb[maker[t].job].content \in finalThumbs

RecoverFinalName(t) ==
  /\ maker[t].pc = "recovering" /\ ~Committed(t) /\ SameFile(Leaseholder(t))
  /\ DropFinal(Leaseholder(t))
  /\ UNCHANGED <<thumbRows, ledgerHeldBy, maker, liveTokens, evictors>>

RecoverThumbnailFilesystem(t) ==
  /\ maker[t].pc = "recovering" /\ Recoverable(t)
  /\ Committed(t) \/ ~SameFile(Leaseholder(t))
  /\ DropStaging(Leaseholder(t)) /\ Goes(t, "recovered")
  /\ UNCHANGED <<thumbRows, ledgerHeldBy, liveTokens, evictors>>

CommitRecovery(t) ==
  /\ maker[t].pc = "recovered" /\ t \in liveTokens
  /\ LET o == maker[t].job IN
       IF Committed(t)
       THEN /\ thumb' = [thumb EXCEPT ![o].token = t]
            /\ Goes(t, "completing")
            /\ UNCHANGED <<rendering, originals, cacheReady, cacheReserved, liveTokens>>
       ELSE /\ GiveUpLease(o, IF thumb[o].attempts + 1 >= MaxThumbAttempts THEN "blocked" ELSE "retry_wait")
            /\ Rests(t) /\ liveTokens' = liveTokens \ {t}
  /\ ledgerHeldBy' = NoToken
  /\ UNCHANGED <<thumbFiles, evictors>>

RecoveryBreaks(t) ==
  /\ maker[t].pc \in {"recovering", "recovered"}
  /\ ledgerHeldBy' = NoToken /\ Rests(t) /\ liveTokens' = liveTokens \ {t}
  /\ UNCHANGED <<thumbRows, thumbFiles, evictors>>

-----------------------------------------------------------------------------
\* The rest of the cache.

\* An original is cached, with the room its post reserved, or evicted.
CacheOriginal(o) ==
  /\ LedgerFree /\ o \notin originals
  /\ cacheReady + cacheReserved + OriginalSize <= CacheMaxBytes
  /\ originals' = originals \union {o} /\ cacheReady' = cacheReady + OriginalSize
  /\ UNCHANGED <<thumb, rendering, cacheReserved, thumbFiles, ledgerHeldBy, maker, liveTokens, evictors>>

EvictOriginal(o) ==
  /\ LedgerFree /\ o \in originals
  /\ originals' = originals \ {o} /\ cacheReady' = cacheReady - OriginalSize
  /\ UNCHANGED <<thumb, rendering, cacheReserved, thumbFiles, ledgerHeldBy, maker, liveTokens, evictors>>

\* Blobs of settling plans are spared; a thumbnail that settles is on nobody's list.
BeginEviction(c) ==
  /\ LedgerFree /\ evicting = NoRendering /\ rendering[c] \in {"ready", "deleting"}
  /\ rendering' = [rendering EXCEPT ![c] = "deleting"] /\ evicting' = c
  /\ UNCHANGED <<thumb, originals, cacheReady, cacheReserved, thumbFiles, ledgerHeldBy, maker,
                 liveTokens, outlived>>

\* The file goes, by the evictor that has the claim or by one that outlived its own.
UnlinkEvicted(c) ==
  /\ c \in finalThumbs
  /\ \/ evicting = c /\ UNCHANGED outlived
     \/ c \in outlived /\ outlived' = outlived \ {c}
  /\ finalThumbs' = finalThumbs \ {c}
  /\ linkedBy' = {t \in linkedBy : stagedThumb[t] # c}
  /\ UNCHANGED <<thumbRows, stagedThumb, ledgerHeldBy, maker, liveTokens, evicting>>

EndEviction(c) ==
  /\ LedgerFree /\ evicting = c /\ rendering[c] = "deleting" /\ c \notin finalThumbs
  /\ rendering' = [rendering EXCEPT ![c] = "evicted"] /\ evicting' = NoRendering
  /\ cacheReady' = cacheReady - RenderedSize[c]
  /\ thumb' = [o \in Thumbs |-> IF thumb[o].content = c /\ thumb[o].state = "ready"
                                THEN [thumb[o] EXCEPT !.state = "evicted"] ELSE thumb[o]]
  /\ UNCHANGED <<originals, cacheReserved, thumbFiles, ledgerHeldBy, maker, liveTokens, outlived>>

\* The unlink fails, or the sync of its directory after it: the content is ready as before,
\* with its file or without.
UndoEviction(c) ==
  /\ LedgerFree /\ evicting = c /\ rendering[c] = "deleting"
  /\ rendering' = [rendering EXCEPT ![c] = "ready"] /\ evicting' = NoRendering
  /\ UNCHANGED <<thumb, originals, cacheReady, cacheReserved, thumbFiles, ledgerHeldBy, maker,
                 liveTokens, outlived>>

\* The evictor dies, or goes on after its claim has expired; another takes the claim up.
LoseThumbEvictor ==
  /\ evicting # NoRendering /\ evicting' = NoRendering
  /\ UNCHANGED outlived \/ outlived' = outlived \union {evicting}
  /\ UNCHANGED <<thumbRows, thumbFiles, ledgerHeldBy, maker, liveTokens>>

\* The owner asks for a thumbnail again.
RetryThumbnail(o) ==
  /\ LedgerFree
  /\ thumb[o].state \in {"blocked", "evicted", "integrity_conflict", "skipped"}
  /\ thumb[o].token = NoToken /\ thumb[o].reserved = 0
  /\ thumb' = [thumb EXCEPT ![o].state = "retry_wait", ![o].attempts = 0]
  /\ UNCHANGED <<rendering, originals, cacheReady, cacheReserved, thumbFiles, ledgerHeldBy, maker,
                 liveTokens, evictors>>

ThumbLeaseExpires(t) ==
  /\ t \in liveTokens
  /\ liveTokens' = liveTokens \ {t}
  /\ UNCHANGED <<thumbRows, thumbFiles, ledgerHeldBy, maker, evictors>>

\* The process dies: the database undoes its transaction.
CrashMaker(t) ==
  /\ maker[t] # AtRest
  /\ Rests(t)
  /\ ledgerHeldBy' = IF ledgerHeldBy = t THEN NoToken ELSE ledgerHeldBy
  /\ UNCHANGED <<thumbRows, thumbFiles, liveTokens, evictors>>

-----------------------------------------------------------------------------
NoThumb == [state |-> "none", token |-> NoToken, reserved |-> 0, attempts |-> 0, content |-> NoRendering]

ThumbnailInit ==
  /\ thumb = [o \in Thumbs |-> NoThumb] /\ rendering = [c \in Renderings |-> "none"]
  /\ originals = {} /\ cacheReady = 0 /\ cacheReserved = 0
  /\ stagedThumb = [t \in MakerTokens |-> NoRendering] /\ finalThumbs = {} /\ linkedBy = {}
  /\ ledgerHeldBy = NoToken /\ maker = [t \in MakerTokens |-> AtRest] /\ liveTokens = {}
  /\ evicting = NoRendering /\ outlived = {}

MakerStep(t) ==
  \/ \E o \in Thumbs : ClaimThumbnail(t, o) \/ BeginRecovery(t, o)
  \/ StageThumbnail(t) \/ RenderingFails(t)
  \/ BeginPublishing(t) \/ PublishingRefused(t) \/ LinkThumbnail(t)
  \/ CommitPublishing(t) \/ PublishingRollsBack(t)
  \/ SettleThumbnail(t) \/ CompleteThumbnail(t)
  \/ BeginSkip(t) \/ SkipRefused(t) \/ CleanFinalName(t) \/ CleanThumbnail(t) \/ CommitSkip(t) \/ SkipRollsBack(t)
  \/ RecoverFinalName(t) \/ RecoverThumbnailFilesystem(t) \/ CommitRecovery(t) \/ RecoveryBreaks(t)

ThumbnailNext ==
  \/ \E t \in MakerTokens : MakerStep(t) \/ ThumbLeaseExpires(t) \/ CrashMaker(t)
  \/ \E o \in Thumbs : DiscoverThumbnail(o) \/ CacheOriginal(o) \/ EvictOriginal(o) \/ RetryThumbnail(o)
  \/ \E c \in Renderings : BeginEviction(c) \/ UnlinkEvicted(c) \/ EndEviction(c) \/ UndoEviction(c)
  \/ LoseThumbEvictor

ThumbnailSpec == ThumbnailInit /\ [][ThumbnailNext]_thumbVars

-----------------------------------------------------------------------------
Counted == {c \in Renderings : rendering[c] \in {"ready", "deleting"}}
Reserved == [o \in Thumbs |-> thumb[o].reserved]

\* The two counters are the sums they stand for, and what the leases may yet publish fits
\* with what is there.
RoomIsKept ==
  /\ cacheReady = SumFunctionOnSet(RenderedSize, Counted) + OriginalSize * Cardinality(originals)
  /\ cacheReserved = SumFunctionOnSet(Reserved, Thumbs)
  /\ cacheReady + SumFunctionOnSet(Reserved, {o \in Thumbs : thumb[o].state = "downloading"}) <= CacheMaxBytes

\* A thumbnail reserves as long as it is leased.
LeasesReserve ==
  \A o \in Thumbs : LET leased == thumb[o].state \in {"downloading", "staging"} IN
    leased <=> thumb[o].token # NoToken /\ thumb[o].reserved = ThumbnailMaxBytes

\* A file that is not counted is the staging file of somebody, who takes it back.
UncountedAreStaged == \A c \in finalThumbs \ Counted : \E t \in linkedBy : stagedThumb[t] = c

\* A thumbnail that is shown is counted.
ShownAreCounted == \A o \in Thumbs : thumb[o].state = "ready" => thumb[o].content \in Counted

\* The counters and the disk agree with what the rows of thumbnails say, whichever of
\* publication, cleanup, recovery, eviction and crash comes first, whichever contents are
\* shared and whatever late evictors unlink
\* (PostgresMediaCacheThumbnailLedgerRepository, generateThumbnail, recoverThumbnailFilesystem).
ThumbnailsAddUp == RoomIsKept /\ LeasesReserve /\ UncountedAreStaged /\ ShownAreCounted
===============================================================================
