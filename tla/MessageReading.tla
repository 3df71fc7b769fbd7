---------------------------- MODULE MessageReading ----------------------------
(***************************************************************************)
(* Reading the archive page by page while it is being written: the         *)
(* listings of a channel, of the latest messages, of a search and of the   *)
(* owner, the feed, and the way from a message to its neighbours.  The     *)
(* server keeps nothing between two pages; all a reader holds is the       *)
(* cursor of the last page, which names a place in an order and the        *)
(* listing it was made for.                                                *)
(***************************************************************************)
EXTENDS Integers, FiniteSets

CONSTANTS
  Posts,       \* messages, numbered in the order of their random ids
  ChannelOf,   \* the channel of each message
  PublishedAt, \* when it was published; several may share a second
  Score,       \* Score[m][r]: how well revision r matches the query, 0 for not at all
  Listings,    \* what readers ask for
  PageLimits,  \* page sizes they ask for
  FeedLimit,   \* items of a feed: 50
  ShortWindow, ShortLimit, \* what a search of one or two characters may span and return
  NoCursor, NoListing, NoIngest, NoMedia

CONSTANTS
  TicksPerMs,  \* PostgreSQL's clock is finer than the millisecond of a cursor
  MaxTick,     \* bound of the clock
  MaxRevision, \* bound of the revisions of a message
  MaxWrites    \* bound of the transactions that store, edit, hide or show a message

VARIABLES
  rows,    \* message |-> [revision, createdAt, updatedAt, tombstoned]; revision 0: no row yet
  ingest,  \* the open transaction that stores a message or an edit
  tick,    \* clock_timestamp()
  writes,  \* those transactions
  walk     \* the reader
readingVars == <<rows, ingest, tick, writes, walk>>

\* Dates hold milliseconds: what JavaScript makes of a timestamp of the database.
Truncated(t) == (t \div TicksPerMs) * TicksPerMs

Kinds == {"channel", "latest", "newest", "relevance", "admin", "feed", "older", "newer"}
\* Listings that read as of the moment of their first page.
AsOfKinds == {"latest", "newest", "relevance"}

-----------------------------------------------------------------------------
\* What a listing selects, and in which order.

Stored == {m \in Posts : rows[m].revision > 0}
Visible == {m \in Stored : ~rows[m].tombstoned}
InChannels(l, S) == {m \in S : l.channels = {} \/ ChannelOf[m] \in l.channels}

ChannelRows(l) == InChannels(l, Visible)
LatestRows(l, at) ==
  {m \in InChannels(l, Visible) : rows[m].createdAt <= at /\ rows[m].updatedAt <= at}
SearchRows(l, at) ==
  {m \in LatestRows(l, at) : /\ Score[m][rows[m].revision] > 0
                             /\ l.from <= PublishedAt[m] /\ PublishedAt[m] < l.to}
AdminRows(l) ==
  {m \in InChannels(l, Stored) : /\ l.visibility = "hidden" => rows[m].tombstoned
                                 /\ l.visibility = "visible" => ~rows[m].tombstoned}
FeedRows(l) == InChannels(l, Visible)

RowsOf(l, at) ==
  CASE l.kind = "latest"                   -> LatestRows(l, at)
    [] l.kind \in {"newest", "relevance"}  -> SearchRows(l, at)
    [] l.kind = "admin"                    -> AdminRows(l)
    [] l.kind = "feed"                     -> FeedRows(l)
    [] OTHER                               -> ChannelRows(l)

\* The place of a message in the order of a listing.
KeyOf(l, m) ==
  [score |-> IF l.kind = "relevance" THEN Score[m][rows[m].revision] ELSE 0,
   published |-> PublishedAt[m], id |-> m]

NewerTail(a, b) ==
  a.published > b.published \/ (a.published = b.published /\ a.id > b.id)
Precedes(a, b) == a.score > b.score \/ (a.score = b.score /\ NewerTail(a, b))

\* Towards newer messages the order is read backwards.
Ahead(l, a, b) == IF l.kind = "newer" THEN Precedes(b, a) ELSE Precedes(a, b)

\* ORDER BY .. LIMIT n
FirstRows(l, S, n) ==
  {m \in S : Cardinality({x \in S : Ahead(l, KeyOf(l, x), KeyOf(l, m))}) < n}
LastOf(l, S) == CHOOSE m \in S : \A x \in S \ {m} : Ahead(l, KeyOf(l, x), KeyOf(l, m))

-----------------------------------------------------------------------------
\* A search of one or two characters is admitted in a bounded scope only.
Admitted(l, limit) ==
  l.short => /\ l.kind = "newest"
             /\ Cardinality(l.channels) = 1
             /\ l.to - l.from <= ShortWindow
             /\ limit <= ShortLimit

\* Cursors.  A hash of a filter stands for the filter.

Shape(l) ==
  CASE l.kind \in {"newest", "relevance"} -> "search"
    [] l.kind \in {"older", "newer"}      -> "context"
    [] OTHER                              -> l.kind

ChannelFilterHash(l) == l.channels
MessageSearchQueryHash(l) == <<l.channels, l.from, l.to, l.kind>>
CursorFilter(l) ==
  CASE Shape(l) = "latest"  -> ChannelFilterHash(l)
    [] Shape(l) = "search"  -> MessageSearchQueryHash(l)
    [] Shape(l) = "admin"   -> <<l.channels, l.visibility>>
    [] Shape(l) = "context" -> l.kind
    [] OTHER                -> l.channels

NextCursor(l, key, at) ==
  [shape |-> Shape(l), key |-> key, at |-> at, filter |-> CursorFilter(l)]

\* Where a listing can be, and what a cursor says.
Places == [score : Nat, published : Nat, id : Posts]
Cursors ==
  [shape : {Shape(l) : l \in Listings}, key : Places, at : Nat, filter : {CursorFilter(l) : l \in Listings}]

ASSUME ReadingAssumption ==
  /\ IsFiniteSet(Posts) /\ Posts \subseteq Nat
  /\ PublishedAt \in [Posts -> Nat]
  /\ MaxRevision \in Nat \ {0}
  /\ Score \in [Posts -> [0 .. MaxRevision -> Nat]]
  /\ \A l \in Listings : l.kind \in Kinds
  /\ PageLimits \subseteq Nat \ {0} /\ FeedLimit \in Nat \ {0}
  /\ TicksPerMs \in Nat \ {0} /\ MaxTick \in Nat /\ MaxWrites \in Nat
  /\ ShortWindow \in Nat /\ ShortLimit \in Nat \ {0}
  /\ NoMedia \notin Nat /\ NoCursor \notin Cursors

DecodeMessageCursor(c, l) == c.shape = "channel" /\ c.filter = l.channels
DecodeLatestMessageCursor(c, l) == c.shape = "latest" /\ c.filter = ChannelFilterHash(l)
DecodeMessageSearchCursor(c, l) == c.shape = "search" /\ c.filter = MessageSearchQueryHash(l)
DecodeAdminMessageCursor(c, l) == c.shape = "admin" /\ c.filter = <<l.channels, l.visibility>>

Accepts(c, l) ==
  c # NoCursor =>
    CASE Shape(l) = "channel"  -> DecodeMessageCursor(c, l)
      [] Shape(l) = "latest"   -> DecodeLatestMessageCursor(c, l)
      [] Shape(l) = "search"   -> DecodeMessageSearchCursor(c, l)
      [] Shape(l) = "admin"    -> DecodeAdminMessageCursor(c, l)
      [] OTHER                 -> FALSE

\* Mutant: the row a cursor names comes once more.
FromCursor(l, c, S) == {m \in S : c # NoCursor => ~Ahead(l, KeyOf(l, m), c.key)}
\* What follows the place a cursor names.
AfterCursor(l, c, S) == {m \in S : c # NoCursor => Ahead(l, c.key, KeyOf(l, m))}

-----------------------------------------------------------------------------
\* The archive is written meanwhile.

NotStored == [revision |-> 0, createdAt |-> 0, updatedAt |-> 0, tombstoned |-> FALSE]

\* A message or an edit is stamped when its transaction starts, not when it commits:
\* a new row by the database, an edit by the process, in milliseconds.
BeginIngest(m) ==
  /\ ingest = NoIngest
  /\ rows[m].revision < MaxRevision
  /\ writes < MaxWrites /\ writes' = writes + 1
  /\ ingest' = [post |-> m, at |-> tick]
  /\ UNCHANGED <<rows, tick, walk>>

Ingested(row, at) ==
  IF row.revision = 0
  THEN [revision |-> 1, createdAt |-> at, updatedAt |-> at, tombstoned |-> FALSE]
  ELSE [row EXCEPT !.revision = @ + 1, !.updatedAt = Truncated(at)]

CommitIngest ==
  /\ ingest # NoIngest
  /\ rows' = [rows EXCEPT ![ingest.post] = Ingested(@, ingest.at)]
  /\ walk' = [walk EXCEPT !.steady = @ \ {ingest.post}]
  /\ ingest' = NoIngest
  /\ UNCHANGED <<tick, writes>>

AbortIngest ==
  /\ ingest # NoIngest
  /\ ingest' = NoIngest
  /\ UNCHANGED <<rows, tick, writes, walk>>

\* The owner hides or shows a message, whatever anyone is reading. The row must bear the
\* millisecond the owner knows it by; any other is a conflict, and nothing changes.
SetVisibility(m, hidden) ==
  /\ m \in Stored
  /\ writes < MaxWrites
  /\ rows[m].tombstoned # hidden
  /\ rows' = [rows EXCEPT ![m].tombstoned = hidden, ![m].updatedAt = tick]
  /\ walk' = [walk EXCEPT !.steady = @ \ {m}]
  /\ writes' = writes + 1
  /\ UNCHANGED <<ingest, tick>>

Tick == tick < MaxTick /\ tick' = tick + 1 /\ UNCHANGED <<rows, ingest, writes, walk>>

-----------------------------------------------------------------------------
\* A reader asks for one page after another, with the cursor of the page before.

\* The moment a listing is read as of: the first page asks the database.
DatabaseSnapshotAt(l) == IF l.kind \in AsOfKinds THEN Truncated(tick) ELSE 0

\* Rows that stay as they are until the reader is done; a listing that reads as of a
\* millisecond owes nothing that was written in that millisecond.
SteadyRows(l) ==
  {m \in Stored : l.kind \in AsOfKinds => /\ Truncated(rows[m].createdAt) < Truncated(tick)
                                          /\ Truncated(rows[m].updatedAt) < Truncated(tick)}

Asking(l, cursor) ==
  [phase |-> "asking", listing |-> l, at |-> DatabaseSnapshotAt(l), steady |-> SteadyRows(l),
   start |-> cursor, cursor |-> cursor, shown |-> {}, again |-> {}, page |-> {}, next |-> NoCursor]

NotReading ==
  [phase |-> "idle", listing |-> NoListing, at |-> 0, steady |-> {},
   start |-> NoCursor, cursor |-> NoCursor, shown |-> {}, again |-> {}, page |-> {}, next |-> NoCursor]

AskList(l) ==
  /\ walk.phase \in {"idle", "done"}
  /\ Shape(l) # "context"
  /\ walk' = Asking(l, NoCursor)
  /\ UNCHANGED <<rows, ingest, tick, writes>>

\* Reading may also start at a message, and go on to its neighbours.
AskContext(l, m) ==
  /\ walk.phase \in {"idle", "done"}
  /\ Shape(l) = "context" /\ l.channels = {ChannelOf[m]}
  /\ walk' = Asking(l, NextCursor(l, KeyOf(l, m), 0))
  /\ UNCHANGED <<rows, ingest, tick, writes>>

PageEntry(l, m) ==
  [id |-> m, revision |-> rows[m].revision, media |-> NoMedia, key |-> KeyOf(l, m),
   updated |-> Truncated(rows[m].updatedAt)]

\* The page is shown; a message the reader has been shown in that place before comes again.
Show(page) ==
  [walk EXCEPT !.shown = @ \union page, !.page = {},
               !.again = @ \union {e.id : e \in {d \in page : \E f \in walk.shown : f.id = d.id /\ f.key = d.key}}]

AsOf == IF walk.cursor = NoCursor THEN walk.at ELSE walk.cursor.at

\* One row more than the page holds tells whether another page follows.
SelectPage(l, limit) ==
  /\ walk.phase = "asking" /\ Shape(l) \notin {"context", "feed"}
  /\ walk.cursor = NoCursor => l = walk.listing
  /\ Admitted(l, limit) /\ Accepts(walk.cursor, l)
  /\ LET found == AfterCursor(l, walk.cursor, RowsOf(l, AsOf))
         page  == FirstRows(l, found, limit)
     IN walk' = [walk EXCEPT
          !.listing = l, !.phase = "media", !.page = {PageEntry(l, m) : m \in page},
          !.next = IF Cardinality(found) > limit
                   THEN NextCursor(l, KeyOf(l, LastOf(l, page)), AsOf) ELSE NoCursor]
  /\ UNCHANGED <<rows, ingest, tick, writes>>

\* A cursor of another listing is refused; the reader starts over.
RefuseCursor(l) ==
  /\ walk.phase = "asking" /\ Shape(l) \notin {"context", "feed"}
  /\ Shape(walk.listing) # "context"
  /\ ~Accepts(walk.cursor, l)
  /\ walk' = Asking(l, NoCursor)
  /\ UNCHANGED <<rows, ingest, tick, writes>>

\* The message a context is asked of, unless it was hidden in the meantime.
OpenContext ==
  /\ walk.phase = "asking" /\ Shape(walk.listing) = "context"
  /\ LET m == walk.cursor.key.id IN
       walk' = IF m \in Visible
               THEN [walk EXCEPT !.phase = "media", !.page = {PageEntry(walk.listing, m)}]
               ELSE NotReading
  /\ UNCHANGED <<rows, ingest, tick, writes>>

\* The media of the revisions read, in a statement of its own.
AttachMedia ==
  /\ walk.phase = "media"
  /\ LET page == {[e EXCEPT !.media = e.revision] : e \in walk.page} IN
       walk' = IF Shape(walk.listing) = "context"
               THEN [walk EXCEPT !.phase = "neighbours", !.page = page]
               ELSE [Show(page) EXCEPT !.phase = IF walk.next = NoCursor THEN "done" ELSE "asking",
                                       !.cursor = walk.next, !.next = NoCursor]
  /\ UNCHANGED <<rows, ingest, tick, writes>>

\* The message next to the one opened, if there is one.
SelectNeighbour ==
  /\ walk.phase = "neighbours"
  /\ LET l      == walk.listing
         found  == AfterCursor(l, walk.cursor, ChannelRows(l))
         opened == Show(walk.page)
     IN \/ /\ found = {}
           /\ walk' = [opened EXCEPT !.phase = "done", !.cursor = NoCursor]
        \/ \E m \in FirstRows(l, found, 1) :
             walk' = [opened EXCEPT !.phase = "asking", !.cursor = NextCursor(l, KeyOf(l, m), 0)]
  /\ UNCHANGED <<rows, ingest, tick, writes>>

\* The feed has one page; a reader that has it already is told so.
PollFeed ==
  /\ walk.phase = "asking" /\ Shape(walk.listing) = "feed"
  /\ LET l     == walk.listing
         items == FirstRows(l, FeedRows(l), FeedLimit)
     IN walk' = [walk EXCEPT
          !.phase = "done", !.shown = {PageEntry(l, m) : m \in items},
          !.cursor = IF Cardinality(items) = FeedLimit
                     THEN NextCursor(l, KeyOf(l, LastOf(l, items)), 0) ELSE NoCursor]
  /\ UNCHANGED <<rows, ingest, tick, writes>>

\* The answer is lost or late; the reader asks for the same page again.
LosePage ==
  /\ walk.phase \in {"media", "neighbours"}
  /\ walk' = IF walk.cursor = NoCursor
             THEN Asking(walk.listing, NoCursor)
             ELSE [walk EXCEPT !.phase = "asking", !.page = {}, !.next = NoCursor]
  /\ UNCHANGED <<rows, ingest, tick, writes>>

\* The reader turns away.
LeaveWalk ==
  /\ walk.phase # "idle"
  /\ walk' = NotReading
  /\ UNCHANGED <<rows, ingest, tick, writes>>

ReadingInit ==
  /\ rows \in [Posts -> {NotStored, [NotStored EXCEPT !.revision = 1]}]
  /\ ingest = NoIngest /\ tick = 2 * TicksPerMs - 1 /\ writes = 0
  /\ walk = NotReading

ReadingNext ==
  \/ \E m \in Posts : BeginIngest(m)
  \/ CommitIngest \/ AbortIngest \/ Tick
  \/ \E m \in Posts, hidden \in BOOLEAN : SetVisibility(m, hidden)
  \/ \E l \in Listings : AskList(l) \/ RefuseCursor(l)
  \/ \E l \in Listings, m \in Posts : AskContext(l, m)
  \/ \E l \in Listings, limit \in PageLimits : SelectPage(l, limit)
  \/ OpenContext \/ AttachMedia \/ SelectNeighbour \/ PollFeed \/ LosePage \/ LeaveWalk

ReadingSpec == ReadingInit /\ [][ReadingNext]_readingVars

-----------------------------------------------------------------------------
\* How far a reader has come.
Reached(m) ==
  LET l == walk.listing IN
  /\ walk.start # NoCursor => m = walk.start.key.id \/ Ahead(l, walk.start.key, KeyOf(l, m))
  /\ IF walk.cursor = NoCursor THEN walk.phase = "done"
     ELSE IF Shape(l) = "context" THEN Ahead(l, KeyOf(l, m), walk.cursor.key)
     ELSE ~Ahead(l, walk.cursor.key, KeyOf(l, m))

\* A reader who follows the cursors, asks for a page again when it is lost, changes the
\* page size between pages or comes with the cursor of another listing, has been shown
\* every message that matched all the time and lies before the place reached, as it is.
NothingIsPassedOver ==
  walk.phase # "idle" =>
    \A m \in walk.steady \cap RowsOf(walk.listing, walk.at) :
      Reached(m) => \E e \in walk.shown : e.id = m /\ e.revision = rows[m].revision

\* No message comes twice in one place of the order, on one page or on two: only a search by
\* relevance can show one again, when an edit has moved it down.
NothingComesAgain ==
  /\ walk.again = {}
  /\ \A e, f \in walk.shown : e.id = f.id /\ e.key = f.key => e = f

\* A message is shown with the media of the revision it is shown in.
MediaBelong == \A e \in walk.shown : e.media \in {NoMedia, e.revision}

\* No page of a search or of the latest messages shows what began after the first page.
NothingNewer ==
  walk.phase # "idle" /\ walk.listing.kind \in AsOfKinds =>
    \A e \in walk.shown : e.updated <= walk.at

\* What a reader may rely on, page after page, while messages are added, edited and
\* hidden (listMessages, listLatestMessages, searchMessages, getMessageContext, getFeed).
WalksAreSound == NothingIsPassedOver /\ NothingComesAgain /\ NothingNewer /\ MediaBelong
=============================================================================
