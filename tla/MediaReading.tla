----------------------------- MODULE MediaReading -----------------------------
(***************************************************************************)
(* A reader downloads a media object.  The server opens the first copy     *)
(* that will open, in the order of the backends, and streams a range of    *)
(* it; a copy that fails before its first byte is replaced by the next     *)
(* one, a copy that fails later ends the answer.  Meanwhile copies vanish, *)
(* the reader hangs up, and the accesses that were noted are written.      *)
(*                                                                         *)
(* A step is what one event of the process does before it waits again: a   *)
(* file or bucket answering, the reader leaving, a timer.                  *)
(***************************************************************************)
EXTENDS Integers, Sequences

CONSTANTS
  ReadPriority, \* the backends in the order they are read
  ObjectSize,   \* units of the object
  MaxReadFaults, MaxAccessTick, \* bounds: copies spoiled and reads failed; the clock
  CoalesceInterval, \* time between two writes of the access of one copy
  Blank, NoRange, MalformedRange, Unsatisfiable \* of a Range header

VARIABLES
  copyAt,       \* backend |-> what its copy is like: "whole", "short", "gone"
  listedCopies, \* backends whose copy the ledger calls ready and whose backend is on
  download,     \* the exchange with the reader
  held,         \* backends of which a file or a body is open
  sent,         \* the units delivered, each with its backend
  readFaults
downloadVars == <<copyAt, listedCopies, download, held, sent, readFaults>>

VARIABLES
  pendingAccess, \* backend |-> time of the access to be written, 0 if none
  lastWritten,   \* backend |-> time of the flush that wrote it, 0 if none
  flushing,      \* the flush at work
  accessedAt,    \* backend |-> last_accessed_at of its location
  accessTick,    \* clock
  lastRead       \* history: backend |-> when bytes of it were last sent first
accessVars == <<pendingAccess, lastWritten, flushing, accessedAt, accessTick, lastRead>>
mediaReadingVars == <<downloadVars, accessVars>>

ReadBackends == {ReadPriority[i] : i \in DOMAIN ReadPriority}

ASSUME MediaReadingAssumption ==
  /\ ReadPriority \in Seq({"local", "s3-default"})
  /\ \A i, j \in DOMAIN ReadPriority : ReadPriority[i] = ReadPriority[j] => i = j
  /\ ObjectSize \in Nat \ {0}
  /\ MaxReadFaults \in Nat /\ MaxAccessTick \in Nat \ {0} /\ CoalesceInterval \in Nat \ {0}
  /\ Blank \notin [value : Nat, tooLong : BOOLEAN] /\ MalformedRange # NoRange /\ Unsatisfiable # NoRange
  /\ {NoRange, Unsatisfiable} \cap [first : Nat, last : Nat] = {}

-----------------------------------------------------------------------------
\* The part of the object that is asked for.  A bound is blank or a number; one of more than
\* sixteen digits is not read, however small the number may be.

ClippedRange(start, end) ==
  [first |-> start, last |-> IF end >= ObjectSize THEN ObjectSize - 1 ELSE end]

BoundedRange(start, end) ==
  IF start >= ObjectSize \/ end < start THEN Unsatisfiable ELSE ClippedRange(start, end)

SuffixRange(n) ==
  IF n = 0 THEN Unsatisfiable
  ELSE ClippedRange(IF n >= ObjectSize THEN 0 ELSE ObjectSize - n, ObjectSize - 1)

TooLong(bound) == bound # Blank /\ bound.tooLong
Overlong(h) == h \notin {NoRange, MalformedRange} /\ (TooLong(h.first) \/ TooLong(h.last))

ResolveMediaByteRange(h) ==
  IF h = NoRange THEN NoRange
  ELSE IF h = MalformedRange \/ (h.first = Blank /\ h.last = Blank) \/ Overlong(h) THEN Unsatisfiable
  ELSE IF h.first = Blank THEN SuffixRange(h.last.value)
  ELSE BoundedRange(h.first.value, IF h.last = Blank THEN ObjectSize - 1 ELSE h.last.value)

WholeObject == [first |-> 0, last |-> ObjectSize - 1]

\* The reference: the units of the object a header names.
Asked(h) ==
  {u \in 0 .. ObjectSize - 1 :
     h # NoRange =>
       /\ h # MalformedRange /\ (h.first # Blank \/ h.last # Blank)
       /\ h.first # Blank => h.first.value <= u
       /\ h.last # Blank =>
            IF h.first = Blank THEN u >= ObjectSize - h.last.value ELSE u <= h.last.value}

-----------------------------------------------------------------------------
\* The exchange.

NoDownload ==
  [phase |-> "over", status |-> "none", candidates |-> {}, at |-> 1,
   range |-> WholeObject, asked |-> {}, overlong |-> FALSE, closed |-> FALSE]

\* The backends that had a readable copy are tried in the order of ReadPriority.
Candidate == ReadPriority[download.at]
PlacesOf(S) == {i \in DOMAIN ReadPriority : ReadPriority[i] \in S}
Untried == {i \in PlacesOf(download.candidates) : i > download.at}
FirstOfAll(i, S) == i \in S /\ \A j \in S : i <= j

\* The object is ready and its message shown; its copies are tried in order.
RequestMedia ==
  /\ download.phase = "over"
  /\ sent' = <<>>
  /\ \/ /\ listedCopies = {}
        /\ download' = [NoDownload EXCEPT !.status = "not_found"]
     \/ \E i \in DOMAIN ReadPriority :
          /\ FirstOfAll(i, PlacesOf(listedCopies))
          /\ download' = [NoDownload EXCEPT !.phase = "opening", !.candidates = listedCopies,
                                            !.at = i, !.status = "pending"]
  /\ UNCHANGED <<copyAt, listedCopies, held, readFaults, accessVars>>

\* A file is open once its size is right; of a bucket only the head has been read.
HeldByOpening(b) == IF b = "local" THEN {b} ELSE {}

\* Whether an open succeeds: a copy that is not whole is found out, a good one may fail.
OpenGoes == copyAt[Candidate] = "whole" /\ UNCHANGED readFaults
OpenFails ==
  \/ copyAt[Candidate] # "whole" /\ UNCHANGED readFaults
  \/ copyAt[Candidate] = "whole" /\ readFaults < MaxReadFaults /\ readFaults' = readFaults + 1

NextCandidate(whenNone) ==
  \/ \E i \in DOMAIN ReadPriority : FirstOfAll(i, Untried) /\ download' = [download EXCEPT !.at = i]
  \/ Untried = {} /\ download' = [download EXCEPT !.phase = "over", !.status = whenNone]

OpenFirst ==
  /\ download.phase = "opening" /\ OpenGoes
  /\ held' = held \union HeldByOpening(Candidate)
  /\ download' = [download EXCEPT !.phase = "opened"]
  /\ UNCHANGED <<copyAt, listedCopies, sent, accessVars>>

OpenFirstFails ==
  /\ download.phase = "opening" /\ OpenFails
  /\ NextCandidate("not_found")
  /\ UNCHANGED <<copyAt, listedCopies, held, sent, accessVars>>

CloseOpened(status) ==
  /\ held' = held \ {Candidate}
  /\ download' = [download EXCEPT !.phase = "over", !.status = status]

\* Without a body: the reader has the object already, or asks for its head.
AnswerWithoutBody ==
  /\ download.phase = "opened"
  /\ \E status \in {"not_modified", "head"} : CloseOpened(status)
  /\ UNCHANGED <<copyAt, listedCopies, sent, readFaults, accessVars>>

\* A thumbnail has no ranges, nor has an object that changed (If-Range): h is NoRange.
AnswerMedia(h) ==
  /\ download.phase = "opened"
  /\ LET range == ResolveMediaByteRange(h) IN
       IF range = Unsatisfiable
       THEN /\ held' = held \ {Candidate}
            /\ download' = [download EXCEPT !.phase = "over", !.status = "unsatisfiable",
                                            !.asked = Asked(h), !.overlong = Overlong(h)]
       ELSE /\ download' = [download EXCEPT
                 !.phase = "streaming", !.asked = Asked(h),
                 !.range = IF range = NoRange THEN WholeObject ELSE range]
            /\ UNCHANGED held
  /\ UNCHANGED <<copyAt, listedCopies, sent, readFaults, accessVars>>

Length == download.range.last - download.range.first + 1
NextUnit == download.range.first + Len(sent)

\* The first bytes of an answer note the access of the copy they come from.
Observe(b) ==
  /\ lastRead' = [lastRead EXCEPT ![b] = accessTick]
  /\ pendingAccess' = [pendingAccess EXCEPT ![b] = IF @ < accessTick THEN accessTick ELSE @]
  /\ UNCHANGED <<lastWritten, flushing, accessedAt, accessTick>>

\* An open file outlives its name; the body of a bucket starts with a request of its own.
CanRead(b) == b \in held \/ copyAt[b] = "whole"

ReadUnit ==
  /\ download.phase = "streaming" /\ Len(sent) < Length
  /\ CanRead(Candidate)
  /\ held' = held \union {Candidate}
  /\ sent' = Append(sent, [unit |-> NextUnit, from |-> Candidate])
  /\ IF sent = <<>> THEN Observe(Candidate) ELSE UNCHANGED accessVars
  /\ UNCHANGED <<copyAt, listedCopies, download, readFaults>>

\* An error, a body that ends early or late, a deadline: the copy is given up.
ReadFails ==
  /\ download.phase = "streaming"
  /\ \/ ~CanRead(Candidate) /\ UNCHANGED readFaults
     \/ CanRead(Candidate) /\ readFaults < MaxReadFaults /\ readFaults' = readFaults + 1
  /\ download' = [download EXCEPT !.phase = "dropping"]
  /\ UNCHANGED <<copyAt, listedCopies, held, sent, accessVars>>

EndOfBody ==
  /\ download.phase = "streaming" /\ Len(sent) = Length
  /\ CloseOpened("complete")
  /\ UNCHANGED <<copyAt, listedCopies, sent, readFaults, accessVars>>

\* Mutant: another copy takes over in the middle of the answer.
FallsBackAnytime == ~download.closed /\ Untried # {}
FallsBack == ~download.closed /\ sent = <<>> /\ Untried # {}

\* The copy that failed is closed; the next one is opened if no byte was sent.
DropCopy ==
  /\ download.phase = "dropping"
  /\ held' = held \ {Candidate}
  /\ \/ \E i \in DOMAIN ReadPriority :
          /\ FallsBack /\ FirstOfAll(i, Untried)
          /\ download' = [download EXCEPT !.phase = "reopening", !.at = i]
     \/ ~FallsBack /\ download' = [download EXCEPT !.phase = "over", !.status = "broken"]
  /\ UNCHANGED <<copyAt, listedCopies, sent, readFaults, accessVars>>

\* A copy that opens for a reader who has left is closed at once.
OpenNext ==
  /\ download.phase = "reopening" /\ OpenGoes
  /\ IF download.closed
     THEN CloseOpened("broken")
     ELSE /\ held' = held \union HeldByOpening(Candidate)
          /\ download' = [download EXCEPT !.phase = "streaming"]
  /\ UNCHANGED <<copyAt, listedCopies, sent, accessVars>>

OpenNextFails ==
  /\ download.phase = "reopening" /\ OpenFails
  /\ IF download.closed
     THEN download' = [download EXCEPT !.phase = "over", !.status = "broken"]
     ELSE NextCandidate("broken")
  /\ UNCHANGED <<copyAt, listedCopies, held, sent, accessVars>>

\* The reader hangs up.  What is open is closed; an open that is under way cannot be.
Cancel ==
  /\ download.phase \in {"streaming", "dropping", "reopening"} /\ ~download.closed
  /\ IF download.phase = "streaming"
     THEN CloseOpened("broken")
     ELSE download' = [download EXCEPT !.closed = TRUE] /\ UNCHANGED held
  /\ UNCHANGED <<copyAt, listedCopies, sent, readFaults, accessVars>>

-----------------------------------------------------------------------------
\* What happens to the copies.

SpoilCopy(b) ==
  /\ copyAt[b] = "whole" /\ readFaults < MaxReadFaults
  /\ readFaults' = readFaults + 1
  /\ \E c \in {"short", "gone"} : copyAt' = [copyAt EXCEPT ![b] = c]
  /\ UNCHANGED <<listedCopies, download, held, sent, accessVars>>

\* Evicted, pruned or switched off: it is not read any more, and its bytes go.
DelistCopy(b) ==
  /\ b \in listedCopies
  /\ listedCopies' = listedCopies \ {b}
  /\ \E c \in {copyAt[b], "gone"} : copyAt' = [copyAt EXCEPT ![b] = c]
  /\ UNCHANGED <<download, held, sent, readFaults, accessVars>>

-----------------------------------------------------------------------------
\* The accesses noted are written from time to time.

NoFlush == [at |-> 0, batch |-> [b \in {} |-> 0]]

Due(b) == pendingAccess[b] # 0 /\ (lastWritten[b] = 0 \/ accessTick - lastWritten[b] >= CoalesceInterval)

BeginFlush ==
  /\ flushing = NoFlush
  /\ \E b \in ReadBackends : Due(b)
  /\ flushing' = [at |-> accessTick, batch |-> [b \in {c \in ReadBackends : Due(c)} |-> pendingAccess[b]]]
  /\ UNCHANGED <<downloadVars, pendingAccess, lastWritten, accessedAt, accessTick, lastRead>>

\* writeAccesses: a location that is ready keeps the greater of the two times.
Written ==
  [b \in ReadBackends |->
     IF b \in DOMAIN flushing.batch \cap listedCopies /\ flushing.batch[b] > accessedAt[b]
     THEN flushing.batch[b] ELSE accessedAt[b]]

StillPending(b) == IF pendingAccess[b] = flushing.batch[b] THEN 0 ELSE pendingAccess[b]

EndFlush ==
  /\ flushing # NoFlush
  /\ accessedAt' = Written
  /\ pendingAccess' = [b \in ReadBackends |->
                         IF b \in DOMAIN flushing.batch THEN StillPending(b) ELSE pendingAccess[b]]
  /\ lastWritten' = [b \in ReadBackends |->
                       IF b \in DOMAIN flushing.batch THEN flushing.at ELSE lastWritten[b]]
  /\ flushing' = NoFlush
  /\ UNCHANGED <<downloadVars, accessTick, lastRead>>

\* The transaction fails, or its answer is lost: all of it stays pending.
FlushFails ==
  /\ flushing # NoFlush
  /\ accessedAt' \in {accessedAt, Written}
  /\ flushing' = NoFlush
  /\ UNCHANGED <<downloadVars, pendingAccess, lastWritten, accessTick, lastRead>>

AccessTick ==
  /\ accessTick < MaxAccessTick /\ accessTick' = accessTick + 1
  /\ UNCHANGED <<downloadVars, pendingAccess, lastWritten, flushing, accessedAt, lastRead>>

-----------------------------------------------------------------------------
MediaReadingInit ==
  /\ copyAt = [b \in ReadBackends |-> "whole"] /\ listedCopies = ReadBackends
  /\ download = NoDownload /\ held = {} /\ sent = <<>> /\ readFaults = 0
  /\ pendingAccess = [b \in ReadBackends |-> 0] /\ lastWritten = pendingAccess
  /\ accessedAt = pendingAccess /\ lastRead = pendingAccess
  /\ flushing = NoFlush /\ accessTick = 1

RangeHeaders ==
  LET bounds == [value : 0 .. ObjectSize, tooLong : BOOLEAN] \union {Blank} IN
  {NoRange, MalformedRange} \union [first : bounds, last : bounds]

MediaReadingNext ==
  \/ RequestMedia \/ OpenFirst \/ OpenFirstFails \/ AnswerWithoutBody
  \/ \E h \in RangeHeaders : AnswerMedia(h)
  \/ ReadUnit \/ ReadFails \/ EndOfBody \/ DropCopy \/ OpenNext \/ OpenNextFails \/ Cancel
  \/ \E b \in ReadBackends : SpoilCopy(b) \/ DelistCopy(b)
  \/ BeginFlush \/ EndFlush \/ FlushFails \/ AccessTick

MediaReadingSpec == MediaReadingInit /\ [][MediaReadingNext]_mediaReadingVars

-----------------------------------------------------------------------------
\* What arrives is what was asked for, from its start, out of one copy; an answer that
\* ends well holds all of it, and one is refused only where nothing was asked for or a bound
\* takes more than sixteen digits, even if it asks for no more than there is.
BytesAreTheObjects ==
  /\ \A i \in 1 .. Len(sent) : /\ sent[i].unit = download.range.first + i - 1
                               /\ sent[i].unit \in download.asked
                               /\ sent[i].from = sent[1].from
  /\ download.status = "complete" => \A u \in download.asked : \E i \in 1 .. Len(sent) : sent[i].unit = u
  /\ download.status = "unsatisfiable" => download.asked = {} \/ download.overlong

\* One copy is open at a time, and none once the exchange is over.
HandlesAreClosed ==
  /\ download.phase = "over" => held = {}
  /\ \A b, c \in held : b = c

\* The last access of a copy that is still listed is written or waiting to be.
AccessesAreKept ==
  \A b \in listedCopies : lastRead[b] <= accessedAt[b] \/ lastRead[b] <= pendingAccess[b]

\* What the media endpoint promises while copies fail and readers leave
\* (BackendAwareCommittedBlobReader, LocalPublicMediaReader, MediaCacheAccessCoalescer).
DownloadsAreSound == BytesAreTheObjects /\ HandlesAreClosed /\ AccessesAreKept
=============================================================================
