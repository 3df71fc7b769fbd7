----------------------------- MODULE ReadSideProofs -----------------------------
(***************************************************************************)
(* DownloadsAreSound for objects of any size, any order of the backends    *)
(* and any number of faults; ThumbnailsAddUp for any thumbnails, workers   *)
(* and number of faults.                                                   *)
(***************************************************************************)
EXTENDS MediaReading, Thumbnails, Sums, TLAPS

-----------------------------------------------------------------------------
(* The download of a media object.                                         *)

Phases == {"over", "opening", "opened", "streaming", "dropping", "reopening"}
Statuses == {"none", "pending", "not_found", "not_modified", "head", "unsatisfiable", "complete", "broken"}

Downloads ==
  [phase : Phases, status : Statuses, candidates : SUBSET ReadBackends, at : Nat,
   range : [first : Nat, last : Nat], asked : SUBSET Int, overlong : BOOLEAN,
   closed : BOOLEAN]

DownloadType ==
  /\ download \in Downloads
  /\ download.phase # "over" => download.at \in DOMAIN ReadPriority
  /\ sent \in Seq([unit : Nat, from : ReadBackends])

\* Nothing is open before an open has succeeded, and later only the copy being read.
HeldIsRead ==
  /\ held \subseteq {Candidate}
  /\ download.phase \in {"over", "opening", "reopening"} => held = {}

\* Only a copy of which nothing was sent is replaced.
OneSource ==
  /\ download.phase \in {"opening", "opened", "reopening"} => sent = <<>>
  /\ download.phase \in {"streaming", "dropping"} =>
       \A i \in 1 .. Len(sent) : sent[i].from = Candidate
  /\ \A i \in 1 .. Len(sent) : sent[i].from = sent[1].from

\* Once an answer with a body has begun, its range is what was asked for, and as much of it
\* has been sent as there are bytes sent.
Answering ==
  download.phase \in {"streaming", "dropping", "reopening"} \/ download.status = "complete"
SentIsRange ==
  /\ Answering \/ sent # <<>> =>
       /\ download.asked = download.range.first .. download.range.last
       /\ Len(sent) <= Length
  /\ \A i \in 1 .. Len(sent) : sent[i].unit = download.range.first + i - 1

Outcome ==
  /\ download.phase # "over" => download.status = "pending"
  /\ download.status = "complete" => Len(sent) = Length
  /\ download.status = "unsatisfiable" => (download.asked = {} \/ download.overlong) /\ sent = <<>>

AccessType ==
  /\ listedCopies \subseteq ReadBackends
  /\ pendingAccess \in [ReadBackends -> Nat]
  /\ accessedAt \in [ReadBackends -> Nat]
  /\ lastRead \in [ReadBackends -> Nat]
  /\ accessTick \in Nat
  /\ lastWritten \in [ReadBackends -> Nat]
  /\ DOMAIN flushing.batch \subseteq ReadBackends
  /\ \A b \in DOMAIN flushing.batch : flushing.batch[b] \in Nat
  /\ flushing.at \in Nat

ExchangeInv == DownloadType /\ HeldIsRead /\ OneSource /\ SentIsRange /\ Outcome
AccessInv == AccessType /\ AccessesAreKept

-----------------------------------------------------------------------------
\* http-range.ts: a header is resolved to exactly the units it names, whatever the size, unless a
\* bound is longer than sixteen digits.
LEMMA RangesResolve ==
  ASSUME NEW h \in RangeHeaders
  PROVE  LET r == ResolveMediaByteRange(h) IN
         /\ r = Unsatisfiable => Asked(h) = {} \/ Overlong(h)
         /\ r # Unsatisfiable =>
              LET range == IF r = NoRange THEN WholeObject ELSE r IN
              range \in [first : Nat, last : Nat] /\ Asked(h) = range.first .. range.last
                /\ range.first <= range.last
<1> USE MediaReadingAssumption
<1> DEFINE E == [value : 0 .. ObjectSize, tooLong : BOOLEAN] \union {Blank}
<1>1. CASE h = NoRange
  BY <1>1 DEF ResolveMediaByteRange, Asked, WholeObject
<1>2. CASE h = MalformedRange
  BY <1>2 DEF ResolveMediaByteRange, Asked
<1>3. ASSUME h # NoRange, h # MalformedRange
      PROVE  h.first \in E /\ h.last \in E
  BY <1>3 DEF RangeHeaders
<1>4. CASE h # NoRange /\ h # MalformedRange /\ ((h.first = Blank /\ h.last = Blank) \/ Overlong(h))
  BY <1>4 DEF ResolveMediaByteRange, Asked
<1>5. CASE h # NoRange /\ h # MalformedRange /\ h.first = Blank /\ h.last # Blank /\ ~Overlong(h)
  <2>1. h.last.value \in 0 .. ObjectSize
    BY <1>3, <1>5
  <2>2. Asked(h) = {u \in 0 .. ObjectSize - 1 : u >= ObjectSize - h.last.value}
    BY <1>5 DEF Asked
  <2>3. ResolveMediaByteRange(h) = SuffixRange(h.last.value)
    BY <1>5 DEF ResolveMediaByteRange
  <2> QED BY <2>1, <2>2, <2>3 DEF SuffixRange, ClippedRange
<1>6. CASE h # NoRange /\ h # MalformedRange /\ h.first # Blank /\ ~Overlong(h)
  <2> DEFINE end == IF h.last = Blank THEN ObjectSize - 1 ELSE h.last.value
  <2>1. h.first.value \in 0 .. ObjectSize /\ end \in 0 .. ObjectSize
    BY <1>3, <1>6
  <2>2. Asked(h) = {u \in 0 .. ObjectSize - 1 : h.first.value <= u /\ u <= end}
    BY <1>3, <1>6 DEF Asked
  <2>3. ResolveMediaByteRange(h) = BoundedRange(h.first.value, end)
    BY <1>6 DEF ResolveMediaByteRange
  <2> QED BY <2>1, <2>2, <2>3 DEF BoundedRange, ClippedRange
<1> QED BY <1>1, <1>2, <1>4, <1>5, <1>6

ExchangeSteps ==
  \/ RequestMedia \/ OpenFirst \/ OpenFirstFails \/ AnswerWithoutBody
  \/ \E h \in RangeHeaders : AnswerMedia(h)
  \/ ReadUnit \/ ReadFails \/ EndOfBody \/ DropCopy \/ OpenNext \/ OpenNextFails \/ Cancel

\* The copies and the flushes of accesses leave the exchange alone.
LEMMA OtherSteps ==
  ASSUME MediaReadingNext \/ UNCHANGED mediaReadingVars
  PROVE  ExchangeSteps \/ UNCHANGED <<download, held, sent>>
BY DEF MediaReadingNext, ExchangeSteps, mediaReadingVars, downloadVars, SpoilCopy, DelistCopy,
       BeginFlush, EndFlush, FlushFails, AccessTick

LEMMA ExchangeStarts == MediaReadingInit => ExchangeInv
<1> USE MediaReadingAssumption
<1> SUFFICES ASSUME MediaReadingInit PROVE ExchangeInv
  OBVIOUS
<1>1. download = NoDownload /\ held = {} /\ sent = <<>>
  BY DEF MediaReadingInit
<1>2. DownloadType
  BY <1>1 DEF DownloadType, Downloads, NoDownload, WholeObject, Phases, Statuses
<1>3. HeldIsRead /\ OneSource /\ SentIsRange /\ Outcome
  BY <1>1 DEF HeldIsRead, OneSource, SentIsRange, Outcome, Answering, NoDownload
<1> QED BY <1>2, <1>3 DEF ExchangeInv

LEMMA PlacesAreBackends ==
  ASSUME NEW i \in DOMAIN ReadPriority
  PROVE  i \in Nat /\ ReadPriority[i] \in ReadBackends
BY MediaReadingAssumption DEF ReadBackends

\* A step that ends with nothing sent.
LEMMA NothingSent ==
  ASSUME DownloadType', sent' = <<>>, held' \subseteq {Candidate'},
         download'.phase \in {"over", "opening", "opened"},
         download'.phase \in {"over", "opening"} => held' = {},
         download'.phase = "over" => download'.status \in {"not_found", "not_modified", "head"},
         download'.phase # "over" => download'.status = "pending"
  PROVE  ExchangeInv'
BY DEF ExchangeInv, HeldIsRead, OneSource, SentIsRange, Outcome, Answering

\* A step of an answer that sends nothing.
LEMMA NothingMoreSent ==
  ASSUME ExchangeInv, DownloadType', sent' = sent, held' \subseteq {Candidate'},
         download'.range = download.range, download'.asked = download.asked,
         download.phase \in {"streaming", "dropping", "reopening"},
         download'.phase \in {"streaming", "dropping", "reopening", "over"},
         download'.phase \in {"over", "reopening"} => held' = {},
         download'.phase = "reopening" => sent = <<>>,
         Candidate' = Candidate \/ sent = <<>>,
         download'.phase = "over" => download'.status \in {"broken", "complete"},
         download'.status = "complete" => Len(sent) = Length,
         download'.phase # "over" => download'.status = "pending"
  PROVE  ExchangeInv'
<1>1. HeldIsRead'
  BY DEF HeldIsRead
<1>2. OneSource'
  BY DEF ExchangeInv, OneSource
<1>3. SentIsRange'
  BY DEF ExchangeInv, SentIsRange, Answering, Length, NextUnit
<1>4. Outcome'
  BY DEF Outcome, Length
<1> QED BY <1>1, <1>2, <1>3, <1>4 DEF ExchangeInv

LEMMA ExchangeGoesOn ==
  ASSUME ExchangeInv, AccessInv, ExchangeSteps
  PROVE  ExchangeInv'
<1> USE DEF ExchangeInv
<1>1. CASE RequestMedia
  <2>1. NoDownload \in Downloads
    BY MediaReadingAssumption DEF NoDownload, WholeObject, Phases, Statuses, Downloads
  <2>0. NoDownload.phase = "over"
    BY DEF NoDownload
  <2>4. sent' = <<>>
    BY <1>1 DEF RequestMedia
  <2>5. sent' \in Seq([unit : Nat, from : ReadBackends])
    BY <2>4
  <2>2. CASE download' = [NoDownload EXCEPT !.status = "not_found"]
    <3>1. DownloadType' /\ download'.phase = "over" /\ download'.status = "not_found"
      BY <2>0, <2>1, <2>2, <2>5 DEF DownloadType, Downloads, Statuses
    <3> QED BY <1>1, <3>1, NothingSent DEF RequestMedia, HeldIsRead
  <2>3. ASSUME NEW i \in DOMAIN ReadPriority,
               download' = [NoDownload EXCEPT !.phase = "opening", !.candidates = listedCopies,
                                              !.at = i, !.status = "pending"]
        PROVE  ExchangeInv'
    <3>1. DownloadType' /\ download'.phase = "opening" /\ download'.status = "pending"
      <4>1. listedCopies \in SUBSET ReadBackends /\ i \in Nat
        BY PlacesAreBackends DEF AccessInv, AccessType
      <4>2. /\ download'.phase = "opening" /\ download'.status = "pending" /\ download'.at = i
            /\ download' \in Downloads
        BY <2>1, <2>3, <4>1 DEF Statuses, Phases, Downloads
      <4> QED BY <2>5, <4>2 DEF DownloadType, Downloads
    <3> QED BY <1>1, <3>1, NothingSent DEF RequestMedia, HeldIsRead
  <2> QED BY <1>1, <2>2, <2>3 DEF RequestMedia
<1>2. CASE OpenFirst
  <2>1. DownloadType' /\ download'.phase = "opened" /\ download'.status = "pending"
          /\ sent' = <<>> /\ held' \subseteq {Candidate'}
    BY <1>2 DEF OpenFirst, HeldByOpening, DownloadType, Downloads, OneSource, HeldIsRead, Outcome, Candidate, Phases
  <2> QED BY <2>1, NothingSent
<1>3. CASE OpenFirstFails
  <2>1. download.phase = "opening" /\ download.status = "pending" /\ sent' = <<>> /\ held' = {}
    BY <1>3 DEF OpenFirstFails, OneSource, HeldIsRead, Outcome
  <2>2. ASSUME NEW i \in DOMAIN ReadPriority, download' = [download EXCEPT !.at = i]
        PROVE  ExchangeInv'
    <3>1. DownloadType' /\ download'.phase = "opening" /\ download'.status = "pending"
      <4>1. download \in Downloads /\ i \in Nat
        BY PlacesAreBackends DEF DownloadType
      <4>2. /\ download'.phase = "opening" /\ download'.status = "pending" /\ download'.at = i
            /\ download' \in Downloads
        BY <2>1, <2>2, <4>1 DEF Downloads
      <4> QED BY <2>1, <4>2 DEF DownloadType
    <3> QED BY <2>1, <3>1, NothingSent
  <2>3. CASE download' = [download EXCEPT !.phase = "over", !.status = "not_found"]
    <3>1. DownloadType' /\ download'.phase = "over" /\ download'.status = "not_found"
      <4>1. download \in Downloads
        BY DEF DownloadType, Downloads
      <4>2. /\ download'.phase = "over" /\ download'.status = "not_found"
            /\ download' \in Downloads
        BY <2>3, <4>1 DEF Phases, Statuses, Downloads
      <4>3. sent' \in Seq([unit : Nat, from : ReadBackends])
        BY <2>1
      <4> QED BY <4>2, <4>3 DEF DownloadType, Downloads
    <3> QED BY <2>1, <3>1, NothingSent
  <2> QED BY <1>3, <2>2, <2>3 DEF OpenFirstFails, NextCandidate
<1>4. CASE AnswerWithoutBody
  <2>1. sent' = <<>> /\ held' = {}
    BY <1>4 DEF AnswerWithoutBody, CloseOpened, OneSource, HeldIsRead
  <2>2. DownloadType' /\ download'.phase = "over" /\ download'.status \in {"not_modified", "head"}
    BY <1>4, <2>1 DEF AnswerWithoutBody, CloseOpened, DownloadType, Downloads, Phases, Statuses
  <2> QED BY <2>1, <2>2, NothingSent
<1>5. ASSUME NEW h \in RangeHeaders, AnswerMedia(h)
      PROVE  ExchangeInv'
  <2> DEFINE r == ResolveMediaByteRange(h)
             range == IF r = NoRange THEN WholeObject ELSE r
  <2>1. sent' = <<>> /\ download.phase = "opened" /\ download.status = "pending" /\ Asked(h) \subseteq Int
    BY <1>5 DEF AnswerMedia, OneSource, Outcome, Asked
  <2>2. CASE r = Unsatisfiable
    <3>1. (Asked(h) = {} \/ Overlong(h)) /\ held' = {} /\ Overlong(h) \in BOOLEAN
      BY <1>5, <2>2, RangesResolve DEF AnswerMedia, HeldIsRead, Overlong
    <3>2. DownloadType' /\ download'.phase = "over" /\ download'.status = "unsatisfiable"
            /\ (download'.asked = {} \/ download'.overlong)
      BY <1>5, <2>1, <2>2, <3>1, ZenonT(60) DEF AnswerMedia, DownloadType, Downloads, Phases, Statuses
    <3> QED BY <2>1, <3>1, <3>2 DEF HeldIsRead, OneSource, SentIsRange, Outcome, Answering
  <2>3. CASE r # Unsatisfiable
    <3>1. range \in [first : Nat, last : Nat] /\ Asked(h) = range.first .. range.last
            /\ range.first <= range.last
      BY <2>3, RangesResolve
    <3>2. DownloadType' /\ download'.phase = "streaming" /\ download'.status = "pending"
            /\ download'.asked = Asked(h) /\ download'.range = range /\ download'.at = download.at
      BY <1>5, <2>1, <2>3, <3>1, ZenonT(60) DEF AnswerMedia, DownloadType, Downloads, Phases
    <3>3. held' = held
      BY <1>5, <2>3 DEF AnswerMedia
    <3>4. HeldIsRead' /\ OneSource' /\ Outcome'
      BY <2>1, <3>2, <3>3 DEF HeldIsRead, OneSource, Outcome, Candidate
    <3>5. SentIsRange'
      BY <2>1, <3>1, <3>2 DEF SentIsRange, Answering, Length
    <3> QED BY <3>2, <3>4, <3>5
  <2> QED BY <2>2, <2>3
<1>6. CASE ReadUnit
  <2> DEFINE u == [unit |-> NextUnit, from |-> Candidate]
  <2>1. /\ download' = download /\ sent' = Append(sent, u) /\ held' = held \union {Candidate}
        /\ download.phase = "streaming" /\ Len(sent) < Length
    BY <1>6 DEF ReadUnit
  <2>2. NextUnit = download.range.first + Len(sent) /\ download.range.first \in Nat
          /\ download.range.last \in Nat /\ Len(sent) \in Nat /\ Candidate \in ReadBackends
    BY <2>1, PlacesAreBackends DEF NextUnit, DownloadType, Downloads, Candidate
  <2>3. sent \in Seq([unit : Nat, from : ReadBackends]) /\ u \in [unit : Nat, from : ReadBackends]
    BY <2>2 DEF DownloadType, Downloads
  <2>4. /\ sent' \in Seq([unit : Nat, from : ReadBackends]) /\ Len(sent') = Len(sent) + 1
        /\ \A i \in 1 .. Len(sent) : sent'[i] = sent[i]
        /\ sent'[Len(sent) + 1] = u
    BY <2>1, <2>3
  <2>5. DownloadType' /\ HeldIsRead' /\ Candidate' = Candidate /\ NextUnit' = NextUnit + 1 /\ Length' = Length
    BY <2>1, <2>2, <2>4 DEF DownloadType, Downloads, HeldIsRead, Candidate, NextUnit, Length
  <2>6. OneSource'
    <3>1. \A i \in 1 .. Len(sent') : sent'[i].from = Candidate
      BY <2>1, <2>2, <2>4 DEF OneSource
    <3>2. 1 \in 1 .. Len(sent')
      BY <2>2, <2>4
    <3> QED BY <2>1, <2>5, <3>1, <3>2 DEF OneSource
  <2>7. SentIsRange'
    <3>1. \A i \in 1 .. Len(sent') : sent'[i].unit = download.range.first + i - 1
      <4>1. ASSUME NEW i \in 1 .. Len(sent), i # Len(sent) + 1 PROVE sent'[i].unit = download.range.first + i - 1
        BY <4>1, <2>4 DEF SentIsRange
      <4>2. sent'[Len(sent) + 1].unit = download.range.first + (Len(sent) + 1) - 1
        BY <2>2, <2>4
      <4>3. ASSUME NEW i \in 1 .. Len(sent') PROVE sent'[i].unit = download.range.first + i - 1
        <5>1. CASE i = Len(sent) + 1
          BY <4>2, <5>1
        <5>2. CASE i # Len(sent) + 1
          BY <2>2, <2>4, <4>1, <4>3, <5>2, SMTT(30)
        <5> QED BY <5>1, <5>2
      <4> QED BY <4>3
    <3>2. Length \in Int
      BY <2>2 DEF Length
    <3> QED BY <2>1, <2>2, <2>4, <2>5, <3>1, <3>2 DEF SentIsRange, Answering
  <2>8. Outcome'
    BY <2>1 DEF Outcome
  <2> QED BY <2>5, <2>6, <2>7, <2>8
<1>7. CASE ReadFails
  <2>1. DownloadType' /\ download'.phase = "dropping" /\ download'.status = "pending"
          /\ download'.range = download.range /\ download'.asked = download.asked
          /\ Candidate' = Candidate /\ sent' = sent /\ held' = held
    BY <1>7 DEF ReadFails, DownloadType, Downloads, Phases, Candidate, Outcome
  <2> QED BY <1>7, <2>1, NothingMoreSent DEF ReadFails, HeldIsRead
<1>8. CASE EndOfBody
  <2>1. DownloadType' /\ download'.phase = "over" /\ download'.status = "complete"
          /\ download'.range = download.range /\ download'.asked = download.asked
          /\ Candidate' = Candidate /\ sent' = sent /\ held' = {} /\ Len(sent) = Length
    BY <1>8 DEF EndOfBody, CloseOpened, DownloadType, Downloads, Phases, Statuses, Candidate, HeldIsRead
  <2> QED BY <1>8, <2>1, NothingMoreSent DEF EndOfBody
<1>9. CASE DropCopy
  <2>1. download.phase = "dropping" /\ download.status = "pending" /\ sent' = sent /\ held' = {}
    BY <1>9 DEF DropCopy, HeldIsRead, Outcome
  <2>2. ASSUME NEW i \in DOMAIN ReadPriority, FallsBack,
               download' = [download EXCEPT !.phase = "reopening", !.at = i]
        PROVE  ExchangeInv'
    <3>1. DownloadType' /\ download'.phase = "reopening" /\ download'.status = "pending"
            /\ download'.range = download.range /\ download'.asked = download.asked /\ sent = <<>>
      BY <2>1, <2>2, PlacesAreBackends DEF DownloadType, Downloads, Phases, FallsBack
    <3> QED BY <2>1, <3>1, NothingMoreSent
  <2>3. CASE download' = [download EXCEPT !.phase = "over", !.status = "broken"]
    <3>1. DownloadType' /\ download'.phase = "over" /\ download'.status = "broken"
            /\ download'.range = download.range /\ download'.asked = download.asked
            /\ Candidate' = Candidate
      BY <2>1, <2>3 DEF DownloadType, Downloads, Phases, Statuses, Candidate
    <3> QED BY <2>1, <3>1, NothingMoreSent
  <2> QED BY <1>9, <2>2, <2>3 DEF DropCopy
<1>10. CASE OpenNext
  <2>1. download.phase = "reopening" /\ download.status = "pending" /\ sent = <<>> /\ sent' = sent /\ held = {}
    BY <1>10 DEF OpenNext, OneSource, HeldIsRead, Outcome
  <2>2. CASE CloseOpened("broken")
    <3>1. DownloadType' /\ download'.phase = "over" /\ download'.status = "broken"
            /\ download'.range = download.range /\ download'.asked = download.asked /\ held' = {}
      BY <2>1, <2>2 DEF CloseOpened, DownloadType, Downloads, Phases, Statuses
    <3> QED BY <2>1, <3>1, NothingMoreSent
  <2>3. CASE /\ held' = held \union HeldByOpening(Candidate)
             /\ download' = [download EXCEPT !.phase = "streaming"]
    <3>1. DownloadType' /\ download'.phase = "streaming" /\ download'.status = "pending"
            /\ download'.range = download.range /\ download'.asked = download.asked
            /\ Candidate' = Candidate
      BY <2>1, <2>3 DEF DownloadType, Downloads, Phases, Candidate
    <3>2. held' \subseteq {Candidate'}
      BY <2>1, <2>3, <3>1 DEF HeldByOpening
    <3> QED BY <2>1, <3>1, <3>2, NothingMoreSent
  <2> QED BY <1>10, <2>2, <2>3 DEF OpenNext
<1>11. CASE OpenNextFails
  <2>1. download.phase = "reopening" /\ download.status = "pending" /\ sent = <<>> /\ sent' = sent /\ held' = {}
    BY <1>11 DEF OpenNextFails, OneSource, HeldIsRead, Outcome
  <2>2. ASSUME NEW i \in DOMAIN ReadPriority, download' = [download EXCEPT !.at = i]
        PROVE  ExchangeInv'
    <3>1. DownloadType' /\ download'.phase = "reopening" /\ download'.status = "pending"
            /\ download'.range = download.range /\ download'.asked = download.asked
      BY <2>1, <2>2, PlacesAreBackends DEF DownloadType, Downloads
    <3> QED BY <2>1, <3>1, NothingMoreSent
  <2>3. CASE download' = [download EXCEPT !.phase = "over", !.status = "broken"]
    <3>1. DownloadType' /\ download'.phase = "over" /\ download'.status = "broken"
            /\ download'.range = download.range /\ download'.asked = download.asked
      BY <2>1, <2>3 DEF DownloadType, Downloads, Phases, Statuses
    <3> QED BY <2>1, <3>1, NothingMoreSent
  <2> QED BY <1>11, <2>2, <2>3 DEF OpenNextFails, NextCandidate
<1>12. CASE Cancel
  <2>1. download.phase \in {"streaming", "dropping", "reopening"} /\ download.status = "pending" /\ sent' = sent
    BY <1>12 DEF Cancel, Outcome
  <2>2. CASE download.phase = "streaming"
    <3>1. DownloadType' /\ download'.phase = "over" /\ download'.status = "broken"
            /\ download'.range = download.range /\ download'.asked = download.asked
            /\ Candidate' = Candidate /\ held' = {}
      BY <1>12, <2>1, <2>2, ZenonT(60) DEF Cancel, CloseOpened, DownloadType, Downloads, Phases, Statuses, Candidate, HeldIsRead
    <3> QED BY <2>1, <3>1, NothingMoreSent
  <2>3. CASE download.phase # "streaming"
    <3>1. DownloadType' /\ download'.phase = download.phase /\ download'.status = "pending"
            /\ download'.range = download.range /\ download'.asked = download.asked
            /\ Candidate' = Candidate /\ held' = held
      BY <1>12, <2>1, <2>3, ZenonT(60) DEF Cancel, DownloadType, Downloads, Phases, Statuses, Candidate
    <3> QED BY <2>1, <2>3, <3>1, NothingMoreSent DEF HeldIsRead, OneSource
  <2> QED BY <2>2, <2>3
<1> QED BY <1>1, <1>2, <1>3, <1>4, <1>5, <1>6, <1>7, <1>8, <1>9, <1>10, <1>11, <1>12 DEF ExchangeSteps

-----------------------------------------------------------------------------
LEMMA AccessStarts == MediaReadingInit => AccessInv
BY MediaReadingAssumption DEF MediaReadingInit, AccessInv, AccessType, AccessesAreKept, NoFlush

AccessUnchanged == UNCHANGED <<listedCopies, accessVars>>

LEMMA AccessGoesOn ==
  ASSUME ExchangeInv, AccessInv, MediaReadingNext \/ UNCHANGED mediaReadingVars
  PROVE  AccessInv'
<1> USE MediaReadingAssumption DEF AccessInv, AccessType, AccessesAreKept
<1>1. CASE AccessUnchanged
  BY <1>1 DEF AccessUnchanged, accessVars
<1>2. CASE ReadUnit
  <2>1. Candidate \in ReadBackends
    BY <1>2, PlacesAreBackends DEF ReadUnit, Candidate, ExchangeInv, DownloadType, Downloads
  <2>2. CASE UNCHANGED accessVars
    BY <1>2, <2>2 DEF ReadUnit, accessVars
  <2>3. CASE Observe(Candidate)
    BY <1>2, <2>1, <2>3 DEF ReadUnit, Observe
  <2> QED BY <1>2, <2>2, <2>3 DEF ReadUnit
<1>3. ASSUME NEW b \in ReadBackends, DelistCopy(b)
      PROVE  AccessInv'
  BY <1>3 DEF DelistCopy, accessVars
<1>4. CASE BeginFlush
  BY <1>4 DEF BeginFlush, downloadVars
<1>5. ASSUME flushing # NoFlush
      PROVE  Written \in [ReadBackends -> Nat] /\ \A b \in ReadBackends : accessedAt[b] <= Written[b]
               /\ (b \in DOMAIN flushing.batch \cap listedCopies => flushing.batch[b] <= Written[b])
  BY DEF Written
<1>0. NoFlush.at = 0 /\ DOMAIN NoFlush.batch = {}
  BY DEF NoFlush
<1>6. CASE EndFlush
  <2>1. AccessType'
    <3>1. pendingAccess' \in [ReadBackends -> Nat] /\ lastWritten' \in [ReadBackends -> Nat]
      BY <1>6 DEF EndFlush, StillPending
    <3>2. accessedAt' \in [ReadBackends -> Nat]
      BY <1>5, <1>6 DEF EndFlush
    <3> QED BY <1>0, <1>6, <3>1, <3>2 DEF EndFlush, downloadVars
  <2>2. ASSUME NEW b \in listedCopies
        PROVE  lastRead[b] <= accessedAt'[b] \/ lastRead[b] <= pendingAccess'[b]
    <3>1. b \in ReadBackends /\ accessedAt[b] <= accessedAt'[b] /\ accessedAt'[b] \in Nat
      BY <1>5, <1>6 DEF EndFlush
    <3>2. CASE b \notin DOMAIN flushing.batch
      BY <1>6, <3>1, <3>2 DEF EndFlush
    <3>3. CASE b \in DOMAIN flushing.batch
      <4>1. flushing.batch[b] <= accessedAt'[b]
        BY <1>5, <1>6, <3>3 DEF EndFlush
      <4>2. pendingAccess'[b] = StillPending(b)
        BY <1>6, <3>1, <3>3 DEF EndFlush
      <4> QED BY <3>1, <3>3, <4>1, <4>2 DEF StillPending
    <3> QED BY <3>2, <3>3
  <2> QED BY <1>6, <2>1, <2>2 DEF EndFlush, downloadVars
<1>7. CASE FlushFails
  <2>1. accessedAt' \in [ReadBackends -> Nat] /\ \A b \in ReadBackends : accessedAt[b] <= accessedAt'[b]
    BY <1>5, <1>7 DEF FlushFails
  <2> QED BY <1>0, <1>7, <2>1 DEF FlushFails, downloadVars
<1>8. CASE AccessTick
  BY <1>8 DEF AccessTick, downloadVars
<1>9. AccessUnchanged \/ ReadUnit \/ (\E b \in ReadBackends : DelistCopy(b))
        \/ BeginFlush \/ EndFlush \/ FlushFails \/ AccessTick
  BY DEF AccessUnchanged, MediaReadingNext, mediaReadingVars, downloadVars, RequestMedia, OpenFirst,
         OpenFirstFails, AnswerWithoutBody, AnswerMedia, ReadFails, EndOfBody, DropCopy, OpenNext,
         OpenNextFails, Cancel, SpoilCopy
<1> QED BY <1>1, <1>2, <1>3, <1>4, <1>6, <1>7, <1>8, <1>9

-----------------------------------------------------------------------------
LEMMA InvariantIsEnough ==
  ASSUME ExchangeInv, AccessInv
  PROVE  DownloadsAreSound
<1>1. HandlesAreClosed
  BY DEF ExchangeInv, HeldIsRead, HandlesAreClosed
<1>2. BytesAreTheObjects
  <2> USE DEF ExchangeInv, DownloadType, Downloads
  <2> DEFINE first == download.range.first
             last == download.range.last
  <2>1. first \in Nat /\ last \in Nat /\ Len(sent) \in Nat /\ Length = last - first + 1
    BY DEF Length
  <2>2. ASSUME NEW i \in 1 .. Len(sent)
        PROVE  /\ sent[i].unit = first + i - 1
               /\ sent[i].unit \in download.asked
               /\ sent[i].from = sent[1].from
    <3>1. sent # <<>>
      BY <2>1, <2>2
    <3>2. download.asked = first .. last /\ Len(sent) <= last - first + 1
      BY <2>1, <3>1 DEF SentIsRange
    <3>3. sent[i].unit = first + i - 1 /\ sent[i].from = sent[1].from
      BY DEF SentIsRange, OneSource
    <3> HIDE DEF ExchangeInv, DownloadType, Downloads, first, last
    <3>4. first + i - 1 \in first .. last
      BY <2>1, <3>2
    <3> QED BY <3>2, <3>3, <3>4
  <2>3. ASSUME download.status = "complete", NEW u \in download.asked
        PROVE  \E i \in 1 .. Len(sent) : sent[i].unit = u
    <3>1. u \in first .. last /\ Len(sent) = last - first + 1
      BY <2>1, <2>3 DEF SentIsRange, Outcome, Answering
    <3>2. u - first + 1 \in 1 .. Len(sent)
      BY <2>1, <3>1
    <3>3. sent[u - first + 1].unit = first + (u - first + 1) - 1
      BY <3>2 DEF SentIsRange
    <3> QED BY <2>1, <3>1, <3>2, <3>3, SMTT(30)
  <2>4. download.status = "unsatisfiable" => download.asked = {} \/ download.overlong
    BY DEF Outcome
  <2> QED BY <2>2, <2>3, <2>4 DEF BytesAreTheObjects
<1> QED BY <1>1, <1>2 DEF AccessInv, DownloadsAreSound

\* The media endpoint sends exactly what was asked for out of one copy, leaves nothing open
\* and forgets no access, for an object of any size and any copies that fail
\* (BackendAwareCommittedBlobReader, resolveMediaByteRange, MediaCacheAccessCoalescer).
THEOREM DownloadsSound == MediaReadingSpec => []DownloadsAreSound
<1> DEFINE Inv == ExchangeInv /\ AccessInv
<1>1. MediaReadingInit => Inv
  BY ExchangeStarts, AccessStarts
<1>2. Inv /\ [MediaReadingNext]_mediaReadingVars => Inv'
  <2> SUFFICES ASSUME Inv, [MediaReadingNext]_mediaReadingVars PROVE Inv'
    OBVIOUS
  <2>1. AccessInv'
    BY AccessGoesOn
  <2>2. CASE ExchangeSteps
    BY <2>1, <2>2, ExchangeGoesOn
  <2>3. CASE UNCHANGED <<download, held, sent>>
    BY <2>1, <2>3 DEF ExchangeInv, DownloadType, Downloads, HeldIsRead, OneSource, SentIsRange, Outcome, Answering,
                      Candidate, Length, NextUnit
  <2> QED BY <2>2, <2>3, OtherSteps
<1>3. Inv => DownloadsAreSound
  BY InvariantIsEnough
<1> QED BY <1>1, <1>2, <1>3, PTL DEF MediaReadingSpec

-----------------------------------------------------------------------------
(* The thumbnails.                                                         *)

ThumbStates == {"none", "discovered", "downloading", "staging", "ready", "skipped", "blocked", "retry_wait", "evicted"}
ThumbRecords == [state : ThumbStates, token : MakerTokens \union {NoToken}, reserved : Nat, attempts : Nat,
         content : Renderings \union {NoRendering}]
MakerSteps == {"idle", "rendering", "staged", "failing", "linking", "linked", "settling", "completing",
               "cleaning", "cleaned", "recovering", "recovered"}

ThumbTypes ==
  /\ thumb \in [Thumbs -> ThumbRecords] /\ rendering \in [Renderings -> {"none", "ready", "deleting", "evicted"}]
  /\ originals \subseteq Thumbs /\ cacheReady \in Int /\ cacheReserved \in Int
  /\ stagedThumb \in [MakerTokens -> Renderings \union {NoRendering}]
  /\ finalThumbs \subseteq Renderings /\ linkedBy \subseteq MakerTokens
  /\ ledgerHeldBy \in MakerTokens \union {NoToken}
  /\ maker \in [MakerTokens -> [pc : MakerSteps, job : Thumbs \union {NoRendering}]]
  /\ liveTokens \subseteq MakerTokens

\* A row is leased in two states, reserves then what a thumbnail may take, and has settled on the
\* one content it is rendered as; that is counted when the row is shown, and while the file
\* the row was committed with still has its staging name.
ThumbLeased(o) == thumb[o].state \in {"downloading", "staging"}
ThumbOK(o) ==
  /\ ThumbLeased(o) <=> thumb[o].token # NoToken
  /\ thumb[o].reserved = IF ThumbLeased(o) THEN ThumbnailMaxBytes ELSE 0
  /\ thumb[o].content \in {NoRendering, RenderedAs[o]}
  /\ thumb[o].state \in {"staging", "ready"} => thumb[o].content = RenderedAs[o]
  /\ thumb[o].state = "ready" => RenderedAs[o] \in Counted
  /\ thumb[o].state = "staging" /\ thumb[o].token \in linkedBy => RenderedAs[o] \in Counted

\* The token of a row has that row's file or none, and its maker is at work on the row or gone.
TokenOK(t, o) ==
  thumb[o].token = t =>
    /\ stagedThumb[t] \in {NoRendering, RenderedAs[o]}
    /\ maker[t].pc # "idle" => maker[t].job = o
    /\ thumb[o].state = "staging" => maker[t].pc \in {"idle", "settling", "completing"}
    /\ thumb[o].state = "downloading" /\ maker[t].pc = "staged" /\ t \in liveTokens => stagedThumb[t] = RenderedAs[o]

MakerOK(t) == LET o == maker[t].job IN
  /\ maker[t].pc = "idle" => maker[t] = AtRest
  /\ maker[t].pc # "idle" => o \in Thumbs
  /\ maker[t].pc \in {"linking", "linked", "cleaning", "cleaned", "recovering", "recovered"} => ledgerHeldBy = t
  /\ maker[t].pc \in {"linking", "linked", "cleaning", "cleaned"} =>
       thumb[o].state = "downloading" /\ thumb[o].token = t
  /\ maker[t].pc \in {"linking", "linked"} => stagedThumb[t] = RenderedAs[o]
  /\ maker[t].pc \in {"linking", "linked"} => rendering[stagedThumb[t]] # "deleting"
  /\ maker[t].pc = "rendering" => stagedThumb[t] = NoRendering
  /\ maker[t].pc = "settling" /\ stagedThumb[t] # NoRendering => thumb[o].state = "staging" /\ thumb[o].token = t
  /\ maker[t].pc \in {"recovering", "recovered"} =>
       /\ ThumbLeased(o) /\ thumb[o].token \notin liveTokens
       /\ stagedThumb[t] = NoRendering /\ \A p \in Thumbs : thumb[p].token # t
  /\ maker[t].pc = "recovered" /\ Committed(t) => stagedThumb[Leaseholder(t)] = NoRendering
  /\ t \in linkedBy => stagedThumb[t] # NoRendering

\* The file a token linked has its final name, and no two tokens made one file.
LinksOK ==
  /\ \A t \in linkedBy : stagedThumb[t] \in finalThumbs
  /\ \A s, t \in linkedBy : stagedThumb[s] = stagedThumb[t] => s = t

EvictingOK == evicting # NoRendering => evicting \in Renderings /\ rendering[evicting] = "deleting"

ThumbInv ==
  /\ ThumbTypes /\ RoomIsKept /\ EvictingOK /\ LinksOK /\ UncountedAreStaged
  /\ \A o \in Thumbs : ThumbOK(o)
  /\ \A t \in MakerTokens : MakerOK(t) /\ \A o \in Thumbs : TokenOK(t, o)

-----------------------------------------------------------------------------
LEMMA ThumbFields ==
  ASSUME ThumbTypes, NEW o \in Thumbs
  PROVE  /\ thumb[o] \in ThumbRecords /\ RenderedAs[o] \in Renderings /\ RenderedAs[o] # NoRendering
         /\ thumb[o].reserved \in Nat /\ thumb[o].attempts \in Nat /\ thumb[o].state \in ThumbStates
         /\ thumb[o].token \in MakerTokens \union {NoToken} /\ thumb[o].content \in Renderings \union {NoRendering}
<1>1. thumb[o] \in ThumbRecords
  BY DEF ThumbTypes
<1> QED BY <1>1, ThumbnailAssumption DEF ThumbRecords, Renderings

LEMMA MakerFields ==
  ASSUME ThumbTypes, NEW t \in MakerTokens
  PROVE  maker[t].pc \in MakerSteps /\ maker[t].job \in Thumbs \union {NoRendering}
BY DEF ThumbTypes

LEMMA NoRenderingIsNone == NoRendering \notin Renderings
BY ThumbnailAssumption DEF Renderings

LEMMA AtRestFields == AtRest.pc = "idle" /\ AtRest.job = NoRendering
                      /\ AtRest \in [pc : MakerSteps, job : Thumbs \union {NoRendering}]
BY DEF AtRest, MakerSteps

\* A maker that goes on, and one that ends.
LEMMA MakerGoes ==
  ASSUME ThumbTypes, NEW t \in MakerTokens, NEW pc \in MakerSteps, maker' = [maker EXCEPT ![t].pc = pc]
  PROVE  /\ maker' \in [MakerTokens -> [pc : MakerSteps, job : Thumbs \union {NoRendering}]]
         /\ maker'[t].pc = pc /\ maker'[t].job = maker[t].job
         /\ \A s \in MakerTokens : s # t => maker'[s] = maker[s]
<1>1. maker[t] \in [pc : MakerSteps, job : Thumbs \union {NoRendering}]
  BY DEF ThumbTypes
<1>2. maker'[t] = [maker[t] EXCEPT !.pc = pc]
  BY DEF ThumbTypes
<1> QED BY <1>1, <1>2 DEF ThumbTypes

LEMMA MakerRests ==
  ASSUME ThumbTypes, NEW t \in MakerTokens, Rests(t)
  PROVE  /\ maker' \in [MakerTokens -> [pc : MakerSteps, job : Thumbs \union {NoRendering}]]
         /\ maker'[t] = AtRest /\ maker'[t].pc = "idle"
         /\ \A s \in MakerTokens : s # t => maker'[s] = maker[s]
BY AtRestFields DEF ThumbTypes, Rests

\* What a change of one row leaves of the rows.
LEMMA OneRow ==
  ASSUME ThumbTypes, NEW o \in Thumbs, NEW new \in ThumbRecords, thumb' = [thumb EXCEPT ![o] = new]
  PROVE  /\ thumb' \in [Thumbs -> ThumbRecords] /\ thumb'[o] = new
         /\ \A p \in Thumbs : p # o => thumb'[p] = thumb[p]
BY DEF ThumbTypes

-----------------------------------------------------------------------------
(* Types.                                                                  *)

RowTypes == thumb \in [Thumbs -> ThumbRecords]
                  /\ rendering \in [Renderings -> {"none", "ready", "deleting", "evicted"}]
                  /\ originals \subseteq Thumbs /\ cacheReady \in Int /\ cacheReserved \in Int
FileTypes == stagedThumb \in [MakerTokens -> Renderings \union {NoRendering}]
                  /\ finalThumbs \subseteq Renderings /\ linkedBy \subseteq MakerTokens
MakerTypes == maker \in [MakerTokens -> [pc : MakerSteps, job : Thumbs \union {NoRendering}]]
                  /\ ledgerHeldBy \in MakerTokens \union {NoToken} /\ liveTokens \subseteq MakerTokens

\* A token at work has a row, and the file it stages is that row's.
LEMMA AtWork ==
  ASSUME ThumbInv, NEW t \in MakerTokens, maker[t].pc # "idle"
  PROVE  maker[t].job \in Thumbs /\ RenderedAs[maker[t].job] \in Renderings
BY ThumbFields DEF ThumbInv, MakerOK

\* Who has the lock to publish has its lease, and the file of its row.
LEMMA Publishing ==
  ASSUME ThumbInv, NEW t \in MakerTokens, maker[t].pc \in {"linking", "linked"}
  PROVE  /\ thumb[maker[t].job].state = "downloading" /\ thumb[maker[t].job].token = t /\ ledgerHeldBy = t
         /\ stagedThumb[t] = RenderedAs[maker[t].job] /\ stagedThumb[t] \in Renderings
<1>1. MakerOK(t)
  BY DEF ThumbInv
<1>2. RenderedAs[maker[t].job] \in Renderings
  BY AtWork
<1> QED BY <1>1, <1>2 DEF MakerOK

LEMMA RowTypesStay ==
  ASSUME ThumbInv, [ThumbnailNext]_thumbVars
  PROVE  RowTypes'
<1> ThumbTypes
  BY DEF ThumbInv
<1>n. OriginalSize \in Nat /\ ThumbnailMaxBytes \in Nat /\ \A c \in Renderings : RenderedSize[c] \in Nat
  BY ThumbnailAssumption DEF Renderings
<1>1. CASE UNCHANGED thumbRows
  BY <1>1 DEF thumbRows, ThumbTypes, RowTypes
<1>2. ASSUME NEW o \in Thumbs, DiscoverThumbnail(o) PROVE RowTypes'
  <2>1. [thumb[o] EXCEPT !.state = "discovered"] \in ThumbRecords
    BY ThumbFields DEF ThumbRecords, ThumbStates
  <2>2. thumb' = [thumb EXCEPT ![o] = [thumb[o] EXCEPT !.state = "discovered"]]
    BY <1>2 DEF DiscoverThumbnail, ThumbTypes
  <2> QED BY <1>2, <2>1, <2>2, OneRow DEF DiscoverThumbnail, ThumbTypes, RowTypes
<1>3. ASSUME NEW t \in MakerTokens, NEW o \in Thumbs, ClaimThumbnail(t, o) PROVE RowTypes'
  <2>1. [thumb[o] EXCEPT !.state = "downloading", !.token = t, !.reserved = ThumbnailMaxBytes] \in ThumbRecords
    BY <1>n, ThumbFields DEF ThumbRecords, ThumbStates
  <2>2. thumb' = [thumb EXCEPT ![o] = [thumb[o] EXCEPT !.state = "downloading", !.token = t, !.reserved = ThumbnailMaxBytes]]
    BY <1>3 DEF ClaimThumbnail, ThumbTypes
  <2> QED BY <1>3, <1>n, <2>1, <2>2, OneRow DEF ClaimThumbnail, ThumbTypes, RowTypes
<1>4. ASSUME NEW t \in MakerTokens, CommitPublishing(t) PROVE RowTypes'
  <2> PICK o \in Thumbs : o = maker[t].job
    BY <1>4, AtWork DEF CommitPublishing
  <2>1. stagedThumb[t] \in Renderings
    BY <1>4, Publishing DEF CommitPublishing
  <2>2. [thumb[o] EXCEPT !.state = "staging", !.content = stagedThumb[t]] \in ThumbRecords
    BY <2>1, ThumbFields DEF ThumbRecords, ThumbStates
  <2>3. thumb' = [thumb EXCEPT ![o] = [thumb[o] EXCEPT !.state = "staging", !.content = stagedThumb[t]]]
    BY <1>4 DEF CommitPublishing, ThumbTypes
  <2>4. cacheReady' \in Int
    BY <1>4, <1>n, <2>1 DEF CommitPublishing, AddedBytes, ThumbTypes
  <2> QED BY <1>4, <2>1, <2>2, <2>3, <2>4, OneRow DEF CommitPublishing, ThumbTypes, RowTypes
<1>5. ASSUME NEW t \in MakerTokens, CompleteThumbnail(t) PROVE RowTypes'
  <2> PICK o \in Thumbs : o = maker[t].job
    BY <1>5, AtWork DEF CompleteThumbnail
  <2>1. [thumb[o] EXCEPT !.state = "ready", !.token = NoToken, !.reserved = 0] \in ThumbRecords
    BY ThumbFields DEF ThumbRecords, ThumbStates
  <2>2. [thumb EXCEPT ![o] = [thumb[o] EXCEPT !.state = "ready", !.token = NoToken, !.reserved = 0]]
        \in [Thumbs -> ThumbRecords]
    BY <2>1 DEF ThumbTypes
  <2>3. thumb' \in [Thumbs -> ThumbRecords]
    BY <1>5, <2>2 DEF CompleteThumbnail, ThumbTypes
  <2>4. cacheReserved' \in Int
    BY <1>5, ThumbFields DEF CompleteThumbnail, ThumbTypes
  <2> QED BY <1>5, <2>3, <2>4 DEF CompleteThumbnail, ThumbTypes, RowTypes
<1>6. ASSUME NEW o \in Thumbs, NEW state \in ThumbStates, GiveUpLease(o, state) PROVE RowTypes'
  <2> PICK n \in Nat : n = IF state = "skipped" THEN thumb[o].attempts ELSE thumb[o].attempts + 1
    BY ThumbFields
  <2> DEFINE new == [thumb[o] EXCEPT !.state = state, !.token = NoToken, !.reserved = 0, !.attempts = n]
  <2>1. new \in ThumbRecords
    BY ThumbFields DEF ThumbRecords
  <2>2. thumb' = [thumb EXCEPT ![o] = new]
    BY <1>6 DEF GiveUpLease, ThumbTypes
  <2>3. cacheReserved' \in Int
    BY <1>6, ThumbFields DEF GiveUpLease, ThumbTypes
  <2> HIDE DEF new
  <2> QED BY <1>6, <2>1, <2>2, <2>3, OneRow DEF GiveUpLease, ThumbTypes, RowTypes
<1>7. ASSUME NEW t \in MakerTokens, CommitSkip(t) \/ CommitRecovery(t) PROVE RowTypes'
  <2> PICK o \in Thumbs : o = maker[t].job
    BY <1>7, AtWork DEF CommitSkip, CommitRecovery
  <2>1. CASE \E state \in ThumbStates : GiveUpLease(o, state)
    BY <1>6, <2>1
  <2>2. CASE thumb' = [thumb EXCEPT ![o].token = t] /\ UNCHANGED <<rendering, originals, cacheReady, cacheReserved>>
    <3>1. [thumb[o] EXCEPT !.token = t] \in ThumbRecords
      BY ThumbFields DEF ThumbRecords
    <3>2. thumb' = [thumb EXCEPT ![o] = [thumb[o] EXCEPT !.token = t]]
      BY <2>2 DEF ThumbTypes
    <3> QED BY <2>2, <3>1, <3>2, OneRow DEF ThumbTypes, RowTypes
  <2> QED BY <1>7, <2>1, <2>2 DEF CommitSkip, CommitRecovery, ThumbStates
<1>8. ASSUME NEW o \in Thumbs, CacheOriginal(o) \/ EvictOriginal(o) PROVE RowTypes'
  BY <1>8, <1>n DEF CacheOriginal, EvictOriginal, ThumbTypes, RowTypes
<1>9. ASSUME NEW c \in Renderings, BeginEviction(c) \/ UndoEviction(c) PROVE RowTypes'
  BY <1>9 DEF BeginEviction, UndoEviction, ThumbTypes, RowTypes
<1>10. ASSUME NEW c \in Renderings, EndEviction(c) PROVE RowTypes'
  <2>1. \A o \in Thumbs : [thumb[o] EXCEPT !.state = "evicted"] \in ThumbRecords
    BY ThumbFields DEF ThumbRecords, ThumbStates
  <2> QED BY <1>10, <1>n, <2>1 DEF EndEviction, ThumbTypes, RowTypes
<1>11. ASSUME NEW o \in Thumbs, RetryThumbnail(o) PROVE RowTypes'
  <2>1. [thumb[o] EXCEPT !.state = "retry_wait", !.attempts = 0] \in ThumbRecords
    BY ThumbFields DEF ThumbRecords, ThumbStates
  <2>2. thumb' = [thumb EXCEPT ![o] = [thumb[o] EXCEPT !.state = "retry_wait", !.attempts = 0]]
    BY <1>11 DEF RetryThumbnail, ThumbTypes
  <2> QED BY <1>11, <2>1, <2>2, OneRow DEF RetryThumbnail, ThumbTypes, RowTypes
<1>12. ASSUME NEW t \in MakerTokens, CrashMaker(t) \/ ThumbLeaseExpires(t) PROVE UNCHANGED thumbRows
  BY <1>12 DEF CrashMaker, ThumbLeaseExpires
<1>13. ASSUME NEW t \in MakerTokens, MakerStep(t) PROVE RowTypes'
  <2>1. CASE \/ StageThumbnail(t) \/ RenderingFails(t) \/ BeginPublishing(t) \/ PublishingRefused(t)
             \/ LinkThumbnail(t) \/ PublishingRollsBack(t) \/ SettleThumbnail(t) \/ BeginSkip(t)
             \/ SkipRefused(t) \/ CleanFinalName(t) \/ CleanThumbnail(t) \/ SkipRollsBack(t)
             \/ RecoverFinalName(t) \/ RecoverThumbnailFilesystem(t) \/ RecoveryBreaks(t) \/ \E o \in Thumbs : BeginRecovery(t, o)
    BY <1>1, <2>1 DEF StageThumbnail, RenderingFails, BeginPublishing, PublishingRefused, LinkThumbnail,
       PublishingRollsBack, SettleThumbnail, BeginSkip, SkipRefused, CleanFinalName, CleanThumbnail, SkipRollsBack,
       RecoverFinalName, RecoverThumbnailFilesystem, RecoveryBreaks, BeginRecovery
  <2> QED BY <1>3, <1>4, <1>5, <1>7, <1>13, <2>1 DEF MakerStep
<1>14. CASE LoseThumbEvictor \/ (\E c \in Renderings : UnlinkEvicted(c)) \/ UNCHANGED thumbVars
  BY <1>1, <1>14 DEF LoseThumbEvictor, UnlinkEvicted, thumbVars
<1> QED BY <1>1, <1>2, <1>8, <1>9, <1>10, <1>11, <1>12, <1>13, <1>14 DEF ThumbnailNext

LEMMA DropsFile ==
  ASSUME ThumbTypes, NEW h \in MakerTokens, DropStaging(h)
  PROVE  /\ stagedThumb' \in [MakerTokens -> Renderings \union {NoRendering}]
         /\ stagedThumb'[h] = NoRendering /\ \A s \in MakerTokens : s # h => stagedThumb'[s] = stagedThumb[s]
         /\ linkedBy' = linkedBy \ {h}
BY DEF DropStaging, ThumbTypes

\* A recovery works on the files of the token its row has.
LEMMA Recovering ==
  ASSUME ThumbInv, NEW t \in MakerTokens, maker[t].pc \in {"recovering", "recovered"}
  PROVE  /\ ledgerHeldBy = t /\ ThumbLeased(maker[t].job) /\ Leaseholder(t) \in MakerTokens \ liveTokens
         /\ Leaseholder(t) # t /\ stagedThumb[Leaseholder(t)] \in {NoRendering, RenderedAs[maker[t].job]}
<1>1. MakerOK(t)
  BY DEF ThumbInv
<1> PICK o \in Thumbs : o = maker[t].job
  BY AtWork
<1>2. ThumbOK(o) /\ thumb[o].token \in MakerTokens \union {NoToken}
  BY ThumbFields DEF ThumbInv
<1>3. thumb[o].token \in MakerTokens
  BY <1>1, <1>2 DEF MakerOK, ThumbOK
<1>4. TokenOK(thumb[o].token, o)
  BY <1>3 DEF ThumbInv
<1> QED BY <1>1, <1>3, <1>4 DEF MakerOK, TokenOK, Leaseholder

\* What a step of a maker does to it, unless it takes a row: it goes on or ends.
Proceeds(t) ==
  \/ Rests(t)
  \/ Goes(t, "staged") \/ Goes(t, "failing") \/ Goes(t, "linking") \/ Goes(t, "linked") \/ Goes(t, "settling")
  \/ Goes(t, "completing") \/ Goes(t, "cleaning") \/ Goes(t, "cleaned") \/ Goes(t, "recovered")

\* The steps of a maker by what they touch: none but its row, the files, nothing but itself and the
\* lock, the books; and the final name that goes before a staging name.
Starting(t) == \E o \in Thumbs : ClaimThumbnail(t, o) \/ BeginRecovery(t, o)
Filing(t) ==
  \/ StageThumbnail(t) \/ LinkThumbnail(t) \/ SettleThumbnail(t) \/ CleanThumbnail(t)
  \/ RecoverThumbnailFilesystem(t)
Trimming(t) == CleanFinalName(t) \/ RecoverFinalName(t)
Turning(t) ==
  \/ RenderingFails(t) \/ BeginPublishing(t) \/ PublishingRefused(t) \/ PublishingRollsBack(t)
  \/ BeginSkip(t) \/ SkipRefused(t) \/ SkipRollsBack(t) \/ RecoveryBreaks(t) \/ CrashMaker(t)
Booking(t) == CommitPublishing(t) \/ CompleteThumbnail(t) \/ CommitSkip(t) \/ CommitRecovery(t)
Elsewhere ==
  \/ \E o \in Thumbs : DiscoverThumbnail(o) \/ CacheOriginal(o) \/ EvictOriginal(o) \/ RetryThumbnail(o)
  \/ \E c \in Renderings : BeginEviction(c) \/ UnlinkEvicted(c) \/ EndEviction(c) \/ UndoEviction(c)
  \/ LoseThumbEvictor

LEMMA ThumbStepsAre ==
  ASSUME [ThumbnailNext]_thumbVars
  PROVE  \/ \E t \in MakerTokens : Starting(t) \/ Filing(t) \/ Trimming(t) \/ Turning(t) \/ Booking(t) \/ ThumbLeaseExpires(t)
         \/ Elsewhere \/ UNCHANGED thumbVars
BY DEF ThumbnailNext, MakerStep, Starting, Filing, Trimming, Turning, Booking, Elsewhere

LEMMA FilingLeaves ==
  ASSUME NEW t \in MakerTokens, Filing(t)
  PROVE  UNCHANGED <<thumbRows, ledgerHeldBy, liveTokens, evictors>> /\ Proceeds(t)
BY DEF Filing, StageThumbnail, LinkThumbnail, SettleThumbnail, CleanThumbnail, RecoverThumbnailFilesystem, Proceeds

\* A final name goes of a file that a maker or a row made.
LEMMA TrimmingLeaves ==
  ASSUME ThumbInv, NEW t \in MakerTokens, Trimming(t)
  PROVE  /\ UNCHANGED <<thumbRows, stagedThumb, ledgerHeldBy, maker, liveTokens, evictors>>
         /\ \E h \in linkedBy : finalThumbs' = finalThumbs \ {stagedThumb[h]} /\ linkedBy' = linkedBy \ {h}
BY DEF Trimming, CleanFinalName, RecoverFinalName, SameFile, DropFinal

LEMMA TurningLeaves ==
  ASSUME NEW t \in MakerTokens, Turning(t)
  PROVE  /\ UNCHANGED <<thumbRows, thumbFiles, evictors>> /\ Proceeds(t)
         /\ ledgerHeldBy' \in {ledgerHeldBy, t, NoToken} /\ liveTokens' \in {liveTokens, liveTokens \ {t}}
<1>1. CASE RenderingFails(t) \/ BeginPublishing(t) \/ PublishingRefused(t) \/ PublishingRollsBack(t)
  BY <1>1 DEF RenderingFails, BeginPublishing, PublishingRefused, PublishingRollsBack, Proceeds
<1>2. CASE BeginSkip(t) \/ SkipRefused(t) \/ SkipRollsBack(t)
  BY <1>2 DEF BeginSkip, SkipRefused, SkipRollsBack, Proceeds
<1>3. CASE RecoveryBreaks(t) \/ CrashMaker(t)
  BY <1>3 DEF RecoveryBreaks, CrashMaker, Proceeds
<1> QED BY <1>1, <1>2, <1>3 DEF Turning

LEMMA BookingLeaves ==
  ASSUME NEW t \in MakerTokens, Booking(t)
  PROVE  /\ UNCHANGED <<originals, thumbFiles, evictors>> /\ Proceeds(t)
         /\ ledgerHeldBy' \in {ledgerHeldBy, NoToken} /\ liveTokens' \in {liveTokens, liveTokens \ {t}}
<1>1. CASE CommitPublishing(t) \/ CompleteThumbnail(t)
  BY <1>1 DEF CommitPublishing, CompleteThumbnail, Proceeds
<1>2. CASE CommitSkip(t)
  BY <1>2 DEF CommitSkip, GiveUpLease, Proceeds
<1>3. CASE CommitRecovery(t)
  BY <1>3 DEF CommitRecovery, GiveUpLease, Proceeds
<1> QED BY <1>1, <1>2, <1>3 DEF Booking

LEMMA ElsewhereLeaves ==
  ASSUME Elsewhere
  PROVE  UNCHANGED <<stagedThumb, ledgerHeldBy, maker, liveTokens>>
<1>1. ASSUME NEW o \in Thumbs, DiscoverThumbnail(o) \/ CacheOriginal(o) \/ EvictOriginal(o) \/ RetryThumbnail(o)
      PROVE  UNCHANGED <<stagedThumb, ledgerHeldBy, maker, liveTokens>>
  BY <1>1 DEF DiscoverThumbnail, CacheOriginal, EvictOriginal, RetryThumbnail, thumbFiles
<1>2. ASSUME NEW c \in Renderings, BeginEviction(c) \/ UnlinkEvicted(c) \/ EndEviction(c) \/ UndoEviction(c)
      PROVE  UNCHANGED <<stagedThumb, ledgerHeldBy, maker, liveTokens>>
  BY <1>2 DEF BeginEviction, UnlinkEvicted, EndEviction, UndoEviction, thumbFiles
<1>3. CASE LoseThumbEvictor
  BY <1>3 DEF LoseThumbEvictor, thumbFiles
<1> QED BY <1>1, <1>2, <1>3 DEF Elsewhere

\* Only its own state moves then, and not the thumbnail it is at work on.
LEMMA ProceedsTo ==
  ASSUME ThumbTypes, NEW t \in MakerTokens, Proceeds(t)
  PROVE  /\ maker' \in [MakerTokens -> [pc : MakerSteps, job : Thumbs \union {NoRendering}]]
         /\ \A s \in MakerTokens : s # t => maker'[s] = maker[s]
         /\ maker'[t] = AtRest \/ (maker'[t].pc # "idle" /\ maker'[t].job = maker[t].job)
<1>1. CASE Rests(t)
  BY <1>1, MakerRests
<1>2. CASE ~Rests(t)
  <2>1. PICK pc \in MakerSteps : pc # "idle" /\ Goes(t, pc)
    BY <1>2 DEF Proceeds, MakerSteps
  <2>2. maker' = [maker EXCEPT ![t].pc = pc]
    BY <2>1 DEF Goes
  <2>3. /\ maker' \in [MakerTokens -> [pc : MakerSteps, job : Thumbs \union {NoRendering}]]
        /\ maker'[t].pc = pc /\ maker'[t].job = maker[t].job
        /\ \A s \in MakerTokens : s # t => maker'[s] = maker[s]
    BY <2>2, MakerGoes
  <2> QED BY <2>1, <2>3
<1> QED BY <1>1, <1>2

LEMMA FileTypesStay ==
  ASSUME ThumbInv, [ThumbnailNext]_thumbVars
  PROVE  FileTypes'
<1> ThumbTypes
  BY DEF ThumbInv
<1>1. CASE UNCHANGED thumbFiles
  BY <1>1 DEF thumbFiles, ThumbTypes, FileTypes
<1>2. ASSUME NEW h \in MakerTokens, DropStaging(h) PROVE FileTypes'
  BY <1>2, DropsFile DEF DropStaging, ThumbTypes, FileTypes
<1>3. ASSUME NEW t \in MakerTokens, StageThumbnail(t) PROVE FileTypes'
  <2>1. RenderedAs[maker[t].job] \in Renderings
    BY <1>3, AtWork DEF StageThumbnail
  <2> QED BY <1>3, <2>1 DEF StageThumbnail, ThumbTypes, FileTypes
<1>4. ASSUME NEW t \in MakerTokens, LinkThumbnail(t) PROVE FileTypes'
  BY <1>4, Publishing DEF LinkThumbnail, ThumbTypes, FileTypes
<1>5. ASSUME NEW t \in MakerTokens, SettleThumbnail(t) \/ CleanThumbnail(t) PROVE FileTypes'
  BY <1>1, <1>2, <1>5 DEF SettleThumbnail, CleanThumbnail
<1>6. ASSUME NEW t \in MakerTokens, RecoverThumbnailFilesystem(t) PROVE FileTypes'
  BY <1>2, <1>6, Recovering DEF RecoverThumbnailFilesystem
<1>10. ASSUME NEW t \in MakerTokens, Trimming(t) PROVE FileTypes'
  BY <1>10, TrimmingLeaves DEF ThumbTypes, FileTypes
<1>7. ASSUME NEW c \in Renderings, UnlinkEvicted(c) PROVE FileTypes'
  BY <1>7 DEF UnlinkEvicted, ThumbTypes, FileTypes
<1>8. ASSUME NEW t \in MakerTokens, Starting(t) \/ ThumbLeaseExpires(t) PROVE UNCHANGED thumbFiles
  <2>1. ASSUME NEW o \in Thumbs, ClaimThumbnail(t, o) \/ BeginRecovery(t, o) PROVE UNCHANGED thumbFiles
    BY <2>1 DEF ClaimThumbnail, BeginRecovery
  <2> QED BY <1>8, <2>1 DEF Starting, ThumbLeaseExpires
<1>9. CASE Elsewhere
  <2>1. CASE \E c \in Renderings : UnlinkEvicted(c)
    BY <1>7, <2>1
  <2>2. CASE ~\E c \in Renderings : UnlinkEvicted(c)
    BY <1>1, <1>9, <2>2 DEF Elsewhere, DiscoverThumbnail, CacheOriginal, EvictOriginal, RetryThumbnail, BeginEviction,
       EndEviction, UndoEviction, LoseThumbEvictor
  <2> QED BY <2>1, <2>2
<1> QED
  BY <1>1, <1>3, <1>4, <1>5, <1>6, <1>8, <1>9, <1>10, ThumbStepsAre, TurningLeaves, BookingLeaves DEF Filing, thumbVars

LEMMA MakerTypesStay ==
  ASSUME ThumbInv, [ThumbnailNext]_thumbVars
  PROVE  MakerTypes'
<1> ThumbTypes
  BY DEF ThumbInv
<1>1. CASE UNCHANGED <<ledgerHeldBy, maker, liveTokens>>
  BY <1>1 DEF ThumbTypes, MakerTypes
<1>2. ASSUME NEW t \in MakerTokens, Proceeds(t), ledgerHeldBy' \in {ledgerHeldBy, t, NoToken},
             liveTokens' \in {liveTokens, liveTokens \ {t}}
      PROVE  MakerTypes'
  BY <1>2, ProceedsTo DEF ThumbTypes, MakerTypes
<1>3. ASSUME NEW t \in MakerTokens, NEW o \in Thumbs, ClaimThumbnail(t, o) \/ BeginRecovery(t, o) PROVE MakerTypes'
  BY <1>3 DEF ClaimThumbnail, BeginRecovery, ThumbTypes, MakerTypes, MakerSteps
<1>4. ASSUME NEW t \in MakerTokens, ThumbLeaseExpires(t) PROVE MakerTypes'
  BY <1>4 DEF ThumbLeaseExpires, ThumbTypes, MakerTypes
<1>5. CASE Elsewhere \/ UNCHANGED thumbVars
  BY <1>1, <1>5, ElsewhereLeaves DEF thumbVars
<1>6. ASSUME NEW t \in MakerTokens, Trimming(t) PROVE MakerTypes'
  BY <1>1, <1>6, TrimmingLeaves
<1> QED BY <1>2, <1>3, <1>4, <1>5, <1>6, ThumbStepsAre, FilingLeaves, TurningLeaves, BookingLeaves DEF Starting

LEMMA TypesStay == ASSUME ThumbInv, [ThumbnailNext]_thumbVars PROVE ThumbTypes'
BY RowTypesStay, FileTypesStay, MakerTypesStay DEF ThumbInv, ThumbTypes, RowTypes, FileTypes, MakerTypes

-----------------------------------------------------------------------------
(* Rows.                                                                   *)

\* A row that stays, its content still counted and its token making no file.
LEMMA RowStays ==
  ASSUME NEW o \in Thumbs, ThumbOK(o), thumb'[o] = thumb[o],
         RenderedAs[o] \in Counted => RenderedAs[o] \in Counted',
         thumb[o].token \in linkedBy' => thumb[o].token \in linkedBy
  PROVE  ThumbOK(o)'
BY DEF ThumbOK, ThumbLeased

\* A file that the token of a row has linked is that row's.
LEMMA LinkedToken ==
  ASSUME ThumbInv, NEW t \in linkedBy, NEW o \in Thumbs, thumb[o].token = t
  PROVE  stagedThumb[t] = RenderedAs[o] /\ RenderedAs[o] \in finalThumbs
<1>1. t \in MakerTokens /\ stagedThumb[t] \in finalThumbs /\ stagedThumb[t] # NoRendering
  BY NoRenderingIsNone DEF ThumbInv, ThumbTypes, LinksOK
<1> QED BY <1>1 DEF ThumbInv, TokenOK

LEMMA CountedStays ==
  ASSUME rendering' = rendering PROVE Counted' = Counted
BY DEF Counted

\* A row that gives up its lease is none that is counted.
LEMMA LeaseGivenUp ==
  ASSUME ThumbInv, NEW o \in Thumbs, thumb[o].state = "downloading", NEW state \in {"skipped", "blocked", "retry_wait"},
         GiveUpLease(o, state)
  PROVE  /\ thumb'[o].state = state /\ thumb'[o].token = NoToken /\ thumb'[o].reserved = 0
         /\ thumb'[o].content = thumb[o].content
         /\ \A p \in Thumbs : p # o => thumb'[p] = thumb[p]
<1> ThumbTypes
  BY DEF ThumbInv
<1> PICK n \in Nat : n = IF state = "skipped" THEN thumb[o].attempts ELSE thumb[o].attempts + 1
  BY ThumbFields
<1> DEFINE new == [thumb[o] EXCEPT !.state = state, !.token = NoToken, !.reserved = 0, !.attempts = n]
<1>1. new \in ThumbRecords
  BY ThumbFields DEF ThumbRecords, ThumbStates
<1>2. thumb' = [thumb EXCEPT ![o] = new]
  BY DEF GiveUpLease, ThumbTypes
<1>3. thumb'[o] = new /\ \A p \in Thumbs : p # o => thumb'[p] = thumb[p]
  BY <1>2 DEF ThumbTypes
<1>4. thumb[o] \in ThumbRecords
  BY ThumbFields
<1> QED BY <1>3, <1>4 DEF ThumbRecords

\* What is booked on the row of a maker, and on no other: its content counts, unless another
\* thumbnail's already does.
LEMMA Published ==
  ASSUME ThumbInv, NEW t \in MakerTokens, CommitPublishing(t)
  PROVE  LET o == maker[t].job IN
         /\ o \in Thumbs /\ thumb[o].state = "downloading" /\ thumb[o].token = t
         /\ stagedThumb[t] = RenderedAs[o] /\ rendering[RenderedAs[o]] # "deleting" /\ ledgerHeldBy = t
         /\ thumb'[o].state = "staging" /\ thumb'[o].token = t /\ thumb'[o].reserved = thumb[o].reserved
         /\ thumb'[o].content = RenderedAs[o]
         /\ \A p \in Thumbs : p # o => thumb'[p] = thumb[p]
         /\ Counted' = Counted \union {RenderedAs[o]} /\ rendering'[RenderedAs[o]] = "ready"
         /\ \A c \in Renderings : c # RenderedAs[o] => rendering'[c] = rendering[c]
         /\ cacheReady' = cacheReady + (IF RenderedAs[o] \in Counted THEN 0 ELSE RenderedSize[RenderedAs[o]])
         /\ cacheReserved' = cacheReserved
         /\ maker'[t].pc = "settling" /\ maker'[t].job = o
<1> ThumbTypes
  BY DEF ThumbInv
<1> PICK o \in Thumbs : o = maker[t].job
  BY AtWork DEF CommitPublishing
<1> PICK c \in Renderings : c = RenderedAs[o]
  BY ThumbFields
<1>1. thumb[o].state = "downloading" /\ thumb[o].token = t /\ stagedThumb[t] = c /\ ledgerHeldBy = t
  BY Publishing DEF CommitPublishing
<1>2. rendering[c] # "deleting"
  BY <1>1 DEF CommitPublishing, ThumbInv, MakerOK
<1>4. thumb[o] \in ThumbRecords
  BY ThumbFields
<1>5. thumb'[o] = [thumb[o] EXCEPT !.state = "staging", !.content = c]
      /\ \A p \in Thumbs : p # o => thumb'[p] = thumb[p]
  BY <1>1 DEF CommitPublishing, ThumbTypes
<1>6. thumb'[o].state = "staging" /\ thumb'[o].token = t /\ thumb'[o].reserved = thumb[o].reserved
      /\ thumb'[o].content = c
  BY <1>1, <1>4, <1>5 DEF ThumbRecords
<1>7. rendering'[c] = "ready" /\ \A d \in Renderings : d # c => rendering'[d] = rendering[d]
  BY <1>1 DEF CommitPublishing, ThumbTypes
<1>8. Counted' = Counted \union {c}
  BY <1>7 DEF Counted
<1>9. cacheReady' = cacheReady + (IF c \in Counted THEN 0 ELSE RenderedSize[c]) /\ cacheReserved' = cacheReserved
  BY <1>1, <1>2 DEF CommitPublishing, AddedBytes, Counted
<1>10. maker' = [maker EXCEPT ![t].pc = "settling"]
  BY DEF CommitPublishing, Goes
<1>11. maker'[t].pc = "settling" /\ maker'[t].job = o
  BY <1>10, MakerGoes DEF MakerSteps
<1> QED BY <1>1, <1>2, <1>5, <1>6, <1>7, <1>8, <1>9, <1>11

LEMMA Completed ==
  ASSUME ThumbInv, NEW t \in MakerTokens, CompleteThumbnail(t)
  PROVE  LET o == maker[t].job IN
         /\ o \in Thumbs /\ ledgerHeldBy = NoToken /\ maker'[t] = AtRest
         /\ UNCHANGED <<rendering, cacheReady, ledgerHeldBy>>
         /\ \A p \in Thumbs : p # o => thumb'[p] = thumb[p]
         /\ \/ UNCHANGED <<thumb, cacheReserved>>
            \/ /\ thumb[o].state = "staging" /\ thumb[o].token = t /\ thumb[o].content = RenderedAs[o]
               /\ RenderedAs[o] \in Counted
               /\ thumb'[o].state = "ready" /\ thumb'[o].token = NoToken /\ thumb'[o].reserved = 0
               /\ thumb'[o].content = RenderedAs[o] /\ cacheReserved' = cacheReserved - thumb[o].reserved
<1> ThumbTypes
  BY DEF ThumbInv
<1> PICK o \in Thumbs : o = maker[t].job
  BY AtWork DEF CompleteThumbnail
<1>1. ledgerHeldBy = NoToken /\ maker'[t] = AtRest /\ UNCHANGED <<rendering, cacheReady, ledgerHeldBy>>
  BY MakerRests DEF CompleteThumbnail, LedgerFree
<1>2. CASE UNCHANGED <<thumb, cacheReserved>>
  BY <1>1, <1>2
<1>3. CASE ~UNCHANGED <<thumb, cacheReserved>>
  <2>1. /\ thumb[o].state = "staging" /\ thumb[o].token = t /\ rendering[thumb[o].content] = "ready"
        /\ thumb' = [thumb EXCEPT ![o].state = "ready", ![o].token = NoToken, ![o].reserved = 0]
        /\ cacheReserved' = cacheReserved - thumb[o].reserved
    BY <1>3 DEF CompleteThumbnail, Holding
  <2>2. thumb[o].content = RenderedAs[o] /\ RenderedAs[o] \in Renderings
    BY <2>1, ThumbFields DEF ThumbInv, ThumbOK
  <2>3. RenderedAs[o] \in Counted
    BY <2>1, <2>2 DEF Counted
  <2>4. thumb'[o] = [thumb[o] EXCEPT !.state = "ready", !.token = NoToken, !.reserved = 0]
        /\ \A p \in Thumbs : p # o => thumb'[p] = thumb[p]
    BY <2>1 DEF ThumbTypes
  <2>5. thumb[o] \in ThumbRecords
    BY ThumbFields
  <2>6. thumb'[o].state = "ready" /\ thumb'[o].token = NoToken /\ thumb'[o].reserved = 0
        /\ thumb'[o].content = RenderedAs[o]
    BY <2>2, <2>4, <2>5 DEF ThumbRecords
  <2> QED BY <1>1, <2>1, <2>2, <2>3, <2>4, <2>6
<1> QED BY <1>2, <1>3

\* A skip, and a recovery of what was not committed, give the row up; a recovery of what was
\* puts it under its own token.
GivenUp(o) ==
  /\ thumb[o].state = "downloading"
  /\ thumb'[o].state \in {"skipped", "blocked", "retry_wait"} /\ thumb'[o].token = NoToken /\ thumb'[o].reserved = 0
  /\ thumb'[o].content = thumb[o].content /\ cacheReserved' = cacheReserved - thumb[o].reserved
Adopted(o, t) ==
  /\ thumb[o].state = "staging" /\ thumb' = [thumb EXCEPT ![o].token = t] /\ thumb'[o].token = t
  /\ thumb'[o].state = "staging" /\ thumb'[o].reserved = thumb[o].reserved /\ thumb'[o].content = thumb[o].content
  /\ cacheReserved' = cacheReserved

LEMMA SkipCommitted ==
  ASSUME ThumbInv, NEW t \in MakerTokens, CommitSkip(t)
  PROVE  LET o == maker[t].job IN
         /\ o \in Thumbs /\ ledgerHeldBy = t /\ thumb[o].token = t /\ maker'[t] = AtRest
         /\ UNCHANGED <<rendering, cacheReady>> /\ GivenUp(o)
         /\ \A p \in Thumbs : p # o => thumb'[p] = thumb[p]
<1> ThumbTypes
  BY DEF ThumbInv
<1> PICK o \in Thumbs : o = maker[t].job
  BY AtWork DEF CommitSkip
<1>1. thumb[o].state = "downloading" /\ thumb[o].token = t /\ ledgerHeldBy = t
  BY DEF CommitSkip, ThumbInv, MakerOK
<1>2. GiveUpLease(o, "skipped") /\ Rests(t)
  BY DEF CommitSkip
<1>3. UNCHANGED <<rendering, cacheReady>> /\ cacheReserved' = cacheReserved - thumb[o].reserved
  BY <1>2 DEF GiveUpLease
<1> QED BY <1>1, <1>2, <1>3, LeaseGivenUp, MakerRests DEF GivenUp

LEMMA RecoveryCommitted ==
  ASSUME ThumbInv, NEW t \in MakerTokens, CommitRecovery(t)
  PROVE  LET o == maker[t].job IN
         /\ o \in Thumbs /\ ledgerHeldBy = t /\ thumb[o].token # t /\ stagedThumb[t] = NoRendering
         /\ UNCHANGED <<rendering, cacheReady>>
         /\ \/ GivenUp(o) /\ maker'[t] = AtRest
            \/ Adopted(o, t) /\ maker'[t].pc = "completing" /\ maker'[t].job = o
         /\ \A p \in Thumbs : p # o => thumb'[p] = thumb[p]
<1> ThumbTypes
  BY DEF ThumbInv
<1> PICK o \in Thumbs : o = maker[t].job
  BY AtWork DEF CommitRecovery
<1>1. ledgerHeldBy = t /\ ThumbLeased(o) /\ thumb[o].token # t /\ stagedThumb[t] = NoRendering
  BY Recovering DEF CommitRecovery, Leaseholder, ThumbInv, MakerOK
<1>2. CASE thumb[o].state = "staging"
  <2>1. thumb' = [thumb EXCEPT ![o].token = t] /\ UNCHANGED <<rendering, cacheReady, cacheReserved>>
        /\ maker' = [maker EXCEPT ![t].pc = "completing"]
    BY <1>2 DEF CommitRecovery, Committed, Goes
  <2>2. thumb'[o] = [thumb[o] EXCEPT !.token = t] /\ \A p \in Thumbs : p # o => thumb'[p] = thumb[p]
    BY <2>1 DEF ThumbTypes
  <2>3. thumb[o] \in ThumbRecords
    BY ThumbFields
  <2>4. /\ thumb'[o].token = t /\ thumb'[o].state = thumb[o].state /\ thumb'[o].reserved = thumb[o].reserved
        /\ thumb'[o].content = thumb[o].content
    BY <2>2, <2>3 DEF ThumbRecords
  <2>5. maker'[t].pc = "completing" /\ maker'[t].job = o
    BY <2>1, MakerGoes DEF MakerSteps
  <2> QED BY <1>1, <1>2, <2>1, <2>2, <2>4, <2>5 DEF Adopted
<1>3. CASE thumb[o].state = "downloading"
  <2>1. PICK state \in {"blocked", "retry_wait"} : GiveUpLease(o, state) /\ Rests(t)
    BY <1>3 DEF CommitRecovery, Committed
  <2>2. UNCHANGED <<rendering, cacheReady>> /\ cacheReserved' = cacheReserved - thumb[o].reserved
    BY <2>1 DEF GiveUpLease
  <2>3. /\ thumb'[o].state = state /\ thumb'[o].token = NoToken /\ thumb'[o].reserved = 0
        /\ thumb'[o].content = thumb[o].content
        /\ \A p \in Thumbs : p # o => thumb'[p] = thumb[p]
    BY <1>3, <2>1, LeaseGivenUp
  <2> QED BY <1>1, <1>3, <2>1, <2>2, <2>3, MakerRests DEF GivenUp
<1> QED BY <1>1, <1>2, <1>3 DEF ThumbLeased

LEMMA Claimed ==
  ASSUME ThumbInv, NEW t \in MakerTokens, NEW o \in Thumbs, ClaimThumbnail(t, o)
  PROVE  /\ thumb[o].state \in {"discovered", "retry_wait"}
         /\ thumb'[o].state = "downloading" /\ thumb'[o].token = t /\ thumb'[o].reserved = ThumbnailMaxBytes
         /\ thumb'[o].content = thumb[o].content
         /\ \A p \in Thumbs : p # o => thumb'[p] = thumb[p]
         /\ maker'[t].pc = "rendering" /\ maker'[t].job = o
         /\ \A s \in MakerTokens : s # t => maker'[s] = maker[s]
<1> ThumbTypes
  BY DEF ThumbInv
<1>1. thumb[o].state \in {"discovered", "retry_wait"}
  BY DEF ClaimThumbnail
<1>2. thumb'[o] = [thumb[o] EXCEPT !.state = "downloading", !.token = t, !.reserved = ThumbnailMaxBytes]
      /\ \A p \in Thumbs : p # o => thumb'[p] = thumb[p]
  BY DEF ClaimThumbnail, ThumbTypes
<1>3. thumb[o] \in ThumbRecords
  BY ThumbFields
<1>4. /\ thumb'[o].state = "downloading" /\ thumb'[o].token = t /\ thumb'[o].reserved = ThumbnailMaxBytes
      /\ thumb'[o].content = thumb[o].content
  BY <1>2, <1>3 DEF ThumbRecords
<1>5. maker'[t] = [pc |-> "rendering", job |-> o] /\ \A s \in MakerTokens : s # t => maker'[s] = maker[s]
  BY DEF ClaimThumbnail, ThumbTypes
<1> QED BY <1>1, <1>2, <1>4, <1>5

\* Elsewhere, a row that is leased or shown stays, but for what an eviction ends.
Moves(o, from, to) ==
  /\ thumb[o].state \in from /\ thumb'[o].state = to
  /\ thumb'[o].token = thumb[o].token /\ thumb'[o].reserved = thumb[o].reserved /\ thumb'[o].content = thumb[o].content
  /\ \A p \in Thumbs : p # o => thumb'[p] = thumb[p]
Idle == {"none", "blocked", "evicted", "integrity_conflict", "skipped"}

LEMMA RowOpened ==
  ASSUME ThumbInv, NEW o \in Thumbs, DiscoverThumbnail(o) \/ RetryThumbnail(o)
  PROVE  Moves(o, Idle, "discovered") \/ Moves(o, Idle, "retry_wait")
<1> ThumbTypes
  BY DEF ThumbInv
<1>1. thumb[o] \in ThumbRecords
  BY ThumbFields
<1>2. CASE DiscoverThumbnail(o)
  <2>1. thumb'[o] = [thumb[o] EXCEPT !.state = "discovered"] /\ \A p \in Thumbs : p # o => thumb'[p] = thumb[p]
    BY <1>2 DEF DiscoverThumbnail, ThumbTypes
  <2>2. thumb[o].state \in Idle
    BY <1>2 DEF DiscoverThumbnail, Idle
  <2> QED BY <1>1, <2>1, <2>2 DEF ThumbRecords, Moves
<1>3. CASE RetryThumbnail(o)
  <2>1. thumb'[o] = [thumb[o] EXCEPT !.state = "retry_wait", !.attempts = 0]
        /\ \A p \in Thumbs : p # o => thumb'[p] = thumb[p]
    BY <1>3 DEF RetryThumbnail, ThumbTypes
  <2>2. thumb[o].state \in Idle
    BY <1>3 DEF RetryThumbnail, Idle
  <2> QED BY <1>1, <2>1, <2>2 DEF ThumbRecords, Moves
<1> QED BY <1>2, <1>3

\* The end of an eviction takes its content out of the count, and what it showed.
LEMMA EvictionEnded ==
  ASSUME ThumbInv, NEW c \in Renderings, EndEviction(c)
  PROVE  /\ c \in Counted /\ Counted' = Counted \ {c} /\ c \notin finalThumbs
         /\ \A d \in Renderings : d # c => rendering'[d] = rendering[d]
         /\ rendering'[c] = "evicted" /\ cacheReady' = cacheReady - RenderedSize[c]
         /\ \A o \in Thumbs : IF RenderedAs[o] = c /\ thumb[o].state = "ready"
                              THEN /\ thumb'[o].state = "evicted" /\ thumb'[o].token = thumb[o].token
                                   /\ thumb'[o].reserved = thumb[o].reserved /\ thumb'[o].content = thumb[o].content
                              ELSE thumb'[o] = thumb[o]
<1> ThumbTypes
  BY DEF ThumbInv
<1>1. rendering[c] = "deleting" /\ c \notin finalThumbs /\ cacheReady' = cacheReady - RenderedSize[c]
      /\ rendering' = [rendering EXCEPT ![c] = "evicted"]
  BY DEF EndEviction
<1>2. rendering'[c] = "evicted" /\ \A d \in Renderings : d # c => rendering'[d] = rendering[d]
  BY <1>1 DEF ThumbTypes
<1>3. c \in Counted /\ Counted' = Counted \ {c}
  BY <1>1, <1>2 DEF Counted
<1>4. ASSUME NEW o \in Thumbs
      PROVE  IF RenderedAs[o] = c /\ thumb[o].state = "ready"
             THEN /\ thumb'[o].state = "evicted" /\ thumb'[o].token = thumb[o].token
                  /\ thumb'[o].reserved = thumb[o].reserved /\ thumb'[o].content = thumb[o].content
             ELSE thumb'[o] = thumb[o]
  <2>1. thumb[o] \in ThumbRecords
    BY ThumbFields
  <2>2. thumb'[o] = IF thumb[o].content = c /\ thumb[o].state = "ready"
                    THEN [thumb[o] EXCEPT !.state = "evicted"] ELSE thumb[o]
    BY DEF EndEviction
  <2>3. thumb[o].state = "ready" => thumb[o].content = RenderedAs[o]
    BY DEF ThumbInv, ThumbOK
  <2> QED BY <2>1, <2>2, <2>3 DEF ThumbRecords
<1> QED BY <1>1, <1>2, <1>3, <1>4

LEMMA RowsStay ==
  ASSUME ThumbInv, [ThumbnailNext]_thumbVars
  PROVE  \A o \in Thumbs : ThumbOK(o)'
<1> SUFFICES ASSUME NEW p \in Thumbs PROVE ThumbOK(p)'
  OBVIOUS
<1> ThumbTypes /\ ThumbOK(p)
  BY DEF ThumbInv
<1>n. ThumbnailMaxBytes \in Nat /\ NoToken \notin MakerTokens /\ NoToken \notin linkedBy
  BY ThumbnailAssumption DEF ThumbTypes
<1>1. CASE UNCHANGED <<thumb, rendering>> /\ linkedBy' \subseteq linkedBy
  BY <1>1, CountedStays, RowStays
<1>2. ASSUME NEW t \in MakerTokens, LinkThumbnail(t) PROVE ThumbOK(p)'
  <2> PICK o \in Thumbs : o = maker[t].job
    BY <1>2, AtWork DEF LinkThumbnail
  <2>1. thumb[o].state = "downloading" /\ thumb[o].token = t
    BY <1>2, Publishing DEF LinkThumbnail
  <2>2. UNCHANGED <<thumb, rendering>> /\ linkedBy' \subseteq linkedBy \union {t}
    BY <1>2 DEF LinkThumbnail, thumbRows
  <2>3. CASE p = o
    BY <2>1, <2>2, <2>3, CountedStays DEF ThumbOK, ThumbLeased
  <2>4. CASE p # o
    <3>1. thumb[p].token # t
      BY <1>2, <2>4 DEF LinkThumbnail, ThumbInv, TokenOK
    <3> QED BY <2>2, <3>1, CountedStays, RowStays
  <2> QED BY <2>3, <2>4
<1>3. ASSUME NEW t \in MakerTokens, NEW o \in Thumbs, ClaimThumbnail(t, o) PROVE ThumbOK(p)'
  <2>c. /\ thumb[o].state \in {"discovered", "retry_wait"}
        /\ thumb'[o].state = "downloading" /\ thumb'[o].token = t /\ thumb'[o].reserved = ThumbnailMaxBytes
        /\ thumb'[o].content = thumb[o].content
        /\ \A q \in Thumbs : q # o => thumb'[q] = thumb[q]
    BY <1>3, Claimed
  <2>1. UNCHANGED <<rendering, linkedBy>>
    BY <1>3 DEF ClaimThumbnail, thumbFiles
  <2>2. CASE p = o
    BY <1>n, <2>1, <2>2, <2>c, CountedStays DEF ThumbOK, ThumbLeased
  <2>3. CASE p # o
    BY <2>1, <2>3, <2>c, CountedStays, RowStays
  <2> QED BY <2>2, <2>3
<1>4. ASSUME NEW t \in MakerTokens, CommitPublishing(t) PROVE ThumbOK(p)'
  <2> PICK o \in Thumbs : o = maker[t].job
    BY <1>4, AtWork DEF CommitPublishing
  <2>1. linkedBy' = linkedBy
    BY <1>4 DEF CommitPublishing, thumbFiles
  <2>2. CASE p = o
    BY <1>n, <1>4, <2>1, <2>2, Published DEF ThumbOK, ThumbLeased
  <2>3. CASE p # o
    <3>1. thumb'[p] = thumb[p] /\ Counted' = Counted \union {RenderedAs[o]}
      BY <1>4, <2>3, Published
    <3> QED BY <2>1, <3>1, RowStays
  <2> QED BY <2>2, <2>3
<1>5. ASSUME NEW t \in MakerTokens, CompleteThumbnail(t) PROVE ThumbOK(p)'
  <2> PICK o \in Thumbs : o = maker[t].job
    BY <1>5, AtWork DEF CompleteThumbnail
  <2>1. UNCHANGED <<rendering, linkedBy>>
    BY <1>5 DEF CompleteThumbnail, thumbFiles
  <2>2. CASE p = o
    BY <1>n, <1>5, <2>1, <2>2, Completed, CountedStays DEF ThumbOK, ThumbLeased
  <2>3. CASE p # o
    BY <1>5, <2>1, <2>3, Completed, CountedStays, RowStays
  <2> QED BY <2>2, <2>3
<1>6. ASSUME NEW t \in MakerTokens, CommitSkip(t) \/ CommitRecovery(t) PROVE ThumbOK(p)'
  <2> PICK o \in Thumbs : o = maker[t].job
    BY <1>6, AtWork DEF CommitSkip, CommitRecovery
  <2>1. UNCHANGED <<rendering, linkedBy>>
    BY <1>6, SkipCommitted, RecoveryCommitted DEF CommitSkip, CommitRecovery, thumbFiles
  <2>2. GivenUp(o) \/ (Adopted(o, t) /\ stagedThumb[t] = NoRendering)
    BY <1>6, SkipCommitted, RecoveryCommitted
  <2>3. CASE p = o /\ GivenUp(o)
    BY <1>n, <2>1, <2>3, CountedStays DEF GivenUp, ThumbOK, ThumbLeased
  <2>4. CASE p = o /\ Adopted(o, t) /\ stagedThumb[t] = NoRendering
    <3>1. t \notin linkedBy
      BY <2>4 DEF ThumbInv, MakerOK
    <3> QED BY <1>n, <2>1, <2>4, <3>1, CountedStays DEF Adopted, ThumbOK, ThumbLeased
  <2>5. CASE p # o
    <3>1. thumb'[p] = thumb[p]
      BY <1>6, <2>5, SkipCommitted, RecoveryCommitted
    <3> QED BY <2>1, <3>1, CountedStays, RowStays
  <2> QED BY <2>2, <2>3, <2>4, <2>5
<1>7. ASSUME NEW o \in Thumbs, DiscoverThumbnail(o) \/ RetryThumbnail(o) PROVE ThumbOK(p)'
  <2>1. UNCHANGED <<rendering, linkedBy>>
    BY <1>7 DEF DiscoverThumbnail, RetryThumbnail, thumbFiles
  <2>2. Moves(o, Idle, "discovered") \/ Moves(o, Idle, "retry_wait")
    BY <1>7, RowOpened
  <2>3. CASE p = o
    BY <2>1, <2>2, <2>3, CountedStays DEF Moves, Idle, ThumbOK, ThumbLeased
  <2>4. CASE p # o
    BY <2>1, <2>2, <2>4, CountedStays, RowStays DEF Moves
  <2> QED BY <2>3, <2>4
<1>8. ASSUME NEW c \in Renderings, BeginEviction(c) \/ UndoEviction(c) PROVE ThumbOK(p)'
  <2>1. UNCHANGED <<thumb, linkedBy>> /\ Counted' = Counted
    BY <1>8 DEF BeginEviction, UndoEviction, Counted, ThumbTypes, thumbFiles
  <2> QED BY <2>1, RowStays
<1>9. ASSUME NEW c \in Renderings, EndEviction(c) PROVE ThumbOK(p)'
  <2>1. linkedBy' = linkedBy
    BY <1>9 DEF EndEviction, thumbFiles
  <2>2. CASE RenderedAs[p] = c
    <3>1. c \notin finalThumbs
      BY <1>9 DEF EndEviction
    <3>2. thumb[p].token \notin linkedBy
      BY <2>2, <3>1, LinkedToken
    <3> QED BY <1>9, <2>1, <2>2, <3>2, EvictionEnded DEF ThumbOK, ThumbLeased
  <2>3. CASE RenderedAs[p] # c
    <3>1. thumb'[p] = thumb[p] /\ Counted' = Counted \ {c}
      BY <1>9, <2>3, EvictionEnded
    <3> QED BY <2>1, <2>3, <3>1, RowStays
  <2> QED BY <2>2, <2>3
<1>10. ASSUME NEW t \in MakerTokens, Filing(t) PROVE ThumbOK(p)'
  <2>1. UNCHANGED <<thumb, rendering>>
    BY <1>10, FilingLeaves DEF thumbRows
  <2>2. CASE LinkThumbnail(t)
    BY <1>2, <2>2
  <2>3. CASE ~LinkThumbnail(t)
    <3>1. linkedBy' \subseteq linkedBy
      BY <1>10, <2>3 DEF Filing, StageThumbnail, SettleThumbnail, CleanThumbnail, RecoverThumbnailFilesystem,
         DropStaging, thumbFiles
    <3> QED BY <1>1, <2>1, <3>1
  <2> QED BY <2>2, <2>3
<1>11. CASE Elsewhere
  <2>1. ASSUME NEW o \in Thumbs, CacheOriginal(o) \/ EvictOriginal(o) PROVE ThumbOK(p)'
    BY <1>1, <2>1 DEF CacheOriginal, EvictOriginal, thumbFiles
  <2>2. ASSUME NEW c \in Renderings, UnlinkEvicted(c) PROVE ThumbOK(p)'
    BY <1>1, <2>2 DEF UnlinkEvicted, thumbRows
  <2>3. CASE LoseThumbEvictor
    BY <1>1, <2>3 DEF LoseThumbEvictor, thumbRows, thumbFiles
  <2> QED BY <1>7, <1>8, <1>9, <1>11, <2>1, <2>2, <2>3 DEF Elsewhere
<1>12. ASSUME NEW t \in MakerTokens, Turning(t) \/ Trimming(t) PROVE ThumbOK(p)'
  BY <1>1, <1>12, TurningLeaves, TrimmingLeaves DEF thumbRows, thumbFiles
<1>13. ASSUME NEW t \in MakerTokens, Starting(t) \/ ThumbLeaseExpires(t) PROVE ThumbOK(p)'
  <2>1. ASSUME NEW o \in Thumbs, BeginRecovery(t, o) PROVE ThumbOK(p)'
    BY <1>1, <2>1 DEF BeginRecovery, thumbRows, thumbFiles
  <2>2. CASE ThumbLeaseExpires(t)
    BY <1>1, <2>2 DEF ThumbLeaseExpires, thumbRows, thumbFiles
  <2> QED BY <1>3, <1>13, <2>1, <2>2 DEF Starting
<1>14. CASE UNCHANGED thumbVars
  BY <1>1, <1>14 DEF thumbVars, thumbRows, thumbFiles
<1> QED BY <1>4, <1>5, <1>6, <1>10, <1>11, <1>12, <1>13, <1>14, ThumbStepsAre DEF Booking

-----------------------------------------------------------------------------
(* Tokens.                                                                 *)

\* What a maker's step on files does to the staging names of the others: at most it drops one,
\* of a token whose lease has expired.
LEMMA FilingOthers ==
  ASSUME ThumbInv, NEW t \in MakerTokens, Filing(t), NEW s \in MakerTokens, s # t
  PROVE  /\ maker'[s] = maker[s]
         /\ \/ stagedThumb'[s] = stagedThumb[s]
            \/ /\ stagedThumb'[s] = NoRendering /\ s \notin liveTokens
               /\ maker[t].pc = "recovering" /\ s = Leaseholder(t)
         /\ s \in linkedBy' => s \in linkedBy /\ stagedThumb'[s] = stagedThumb[s]
<1> ThumbTypes
  BY DEF ThumbInv
<1>1. maker'[s] = maker[s]
  BY FilingLeaves, ProceedsTo
<1>2. CASE StageThumbnail(t) \/ LinkThumbnail(t)
  BY <1>1, <1>2 DEF StageThumbnail, LinkThumbnail, ThumbTypes
<1>3. CASE UNCHANGED thumbFiles
  BY <1>1, <1>3 DEF thumbFiles
<1>4. CASE DropStaging(t)
  BY <1>1, <1>4, DropsFile
<1>5. CASE RecoverThumbnailFilesystem(t)
  <2>1. maker[t].pc = "recovering" /\ Leaseholder(t) \in MakerTokens \ liveTokens
    BY <1>5, Recovering DEF RecoverThumbnailFilesystem
  <2> PICK h \in MakerTokens : h = Leaseholder(t)
    BY <2>1
  <2>2. /\ stagedThumb'[h] = NoRendering /\ \A u \in MakerTokens : u # h => stagedThumb'[u] = stagedThumb[u]
        /\ linkedBy' = linkedBy \ {h}
    BY <1>5, DropsFile DEF RecoverThumbnailFilesystem
  <2> QED BY <1>1, <2>1, <2>2
<1>6. CASE SettleThumbnail(t) \/ CleanThumbnail(t)
  BY <1>3, <1>4, <1>6 DEF SettleThumbnail, CleanThumbnail
<1> QED BY <1>2, <1>5, <1>6 DEF Filing

\* And to its own.
LEMMA FilingOwn ==
  ASSUME ThumbInv, NEW t \in MakerTokens, Filing(t)
  PROVE  \/ /\ StageThumbnail(t) /\ maker[t].pc = "rendering" /\ maker'[t].pc = "staged"
            /\ stagedThumb'[t] = RenderedAs[maker[t].job]
         \/ /\ LinkThumbnail(t) /\ maker[t].pc = "linking" /\ maker'[t].pc = "linked"
            /\ stagedThumb'[t] = stagedThumb[t]
         \/ /\ SettleThumbnail(t) /\ maker[t].pc = "settling"
            /\ \/ maker'[t].pc = "completing" /\ stagedThumb'[t] = NoRendering
               \/ maker'[t] = AtRest /\ stagedThumb'[t] = stagedThumb[t]
         \/ /\ CleanThumbnail(t) /\ maker[t].pc = "cleaning" /\ maker'[t].pc = "cleaned"
            /\ stagedThumb'[t] = NoRendering
         \/ /\ RecoverThumbnailFilesystem(t) /\ maker[t].pc = "recovering" /\ maker'[t].pc = "recovered"
            /\ stagedThumb'[t] = stagedThumb[t] /\ stagedThumb'[Leaseholder(t)] = NoRendering
<1> ThumbTypes
  BY DEF ThumbInv
<1>g. ASSUME NEW pc \in MakerSteps, Goes(t, pc) PROVE maker'[t].pc = pc
  BY <1>g, MakerGoes DEF Goes
<1>1. CASE StageThumbnail(t)
  <2>1. stagedThumb'[t] = RenderedAs[maker[t].job] /\ Goes(t, "staged") /\ maker[t].pc = "rendering"
    BY <1>1 DEF StageThumbnail, ThumbTypes
  <2> QED BY <1>1, <1>g, <2>1 DEF MakerSteps
<1>2. CASE LinkThumbnail(t)
  <2>1. stagedThumb' = stagedThumb /\ Goes(t, "linked") /\ maker[t].pc = "linking"
    BY <1>2 DEF LinkThumbnail
  <2> QED BY <1>2, <1>g, <2>1 DEF MakerSteps
<1>3. CASE SettleThumbnail(t)
  <2>1. CASE Rests(t) /\ UNCHANGED thumbFiles
    BY <1>3, <2>1, MakerRests DEF SettleThumbnail, thumbFiles
  <2>2. CASE DropStaging(t) /\ Goes(t, "completing")
    <3>1. stagedThumb'[t] = NoRendering
      BY <2>2, DropsFile
    <3>2. maker'[t].pc = "completing"
      BY <1>g, <2>2 DEF MakerSteps
    <3> QED BY <1>3, <3>1, <3>2 DEF SettleThumbnail
  <2> QED BY <1>3, <2>1, <2>2 DEF SettleThumbnail
<1>4. CASE CleanThumbnail(t)
  <2>1. maker'[t].pc = "cleaned" /\ maker[t].pc = "cleaning"
    BY <1>4, <1>g DEF CleanThumbnail, MakerSteps
  <2>2. stagedThumb'[t] = NoRendering
    BY <1>4, DropsFile DEF CleanThumbnail
  <2> QED BY <1>4, <2>1, <2>2
<1>5. CASE RecoverThumbnailFilesystem(t)
  <2>1. maker'[t].pc = "recovered" /\ maker[t].pc = "recovering"
    BY <1>5, <1>g DEF RecoverThumbnailFilesystem, MakerSteps
  <2> PICK h \in MakerTokens : h = Leaseholder(t) /\ h # t
    BY <2>1, Recovering
  <2>2. DropStaging(h)
    BY <1>5 DEF RecoverThumbnailFilesystem
  <2> QED BY <1>5, <2>1, <2>2, DropsFile
<1> QED BY <1>1, <1>2, <1>3, <1>4, <1>5 DEF Filing

\* A maker turns from a step before the publication.
LEMMA TurningTo ==
  ASSUME ThumbInv, NEW t \in MakerTokens, Turning(t)
  PROVE  \/ maker'[t] = AtRest
         \/ /\ maker[t].pc \in {"rendering", "staged", "linking", "linked"} /\ maker'[t].pc = "failing"
            /\ maker'[t].job = maker[t].job
         \/ /\ maker[t].pc = "staged" /\ maker'[t].pc = "linking" /\ BeginPublishing(t) /\ ledgerHeldBy' = t
            /\ maker'[t].job = maker[t].job
         \/ /\ maker[t].pc = "failing" /\ maker'[t].pc = "cleaning" /\ BeginSkip(t) /\ ledgerHeldBy' = t
            /\ maker'[t].job = maker[t].job
<1> ThumbTypes
  BY DEF ThumbInv
<1>g. ASSUME NEW pc \in MakerSteps, Goes(t, pc) PROVE maker'[t].pc = pc /\ maker'[t].job = maker[t].job
  BY <1>g, MakerGoes DEF Goes
<1>1. CASE RenderingFails(t) \/ PublishingRefused(t) \/ PublishingRollsBack(t)
  <2>1. Goes(t, "failing") /\ maker[t].pc \in {"rendering", "staged", "linking", "linked"}
    BY <1>1 DEF RenderingFails, PublishingRefused, PublishingRollsBack
  <2> QED BY <1>g, <2>1 DEF MakerSteps
<1>2. CASE BeginPublishing(t)
  <2>1. Goes(t, "linking") /\ maker[t].pc = "staged" /\ ledgerHeldBy' = t
    BY <1>2 DEF BeginPublishing
  <2> QED BY <1>2, <1>g, <2>1 DEF MakerSteps
<1>3. CASE BeginSkip(t)
  <2>1. Goes(t, "cleaning") /\ maker[t].pc = "failing" /\ ledgerHeldBy' = t
    BY <1>3 DEF BeginSkip
  <2> QED BY <1>3, <1>g, <2>1 DEF MakerSteps
<1>4. CASE SkipRefused(t) \/ SkipRollsBack(t) \/ RecoveryBreaks(t) \/ CrashMaker(t)
  BY <1>4, MakerRests DEF SkipRefused, SkipRollsBack, RecoveryBreaks, CrashMaker
<1> QED BY <1>1, <1>2, <1>3, <1>4 DEF Turning

\* Elsewhere a leased row stays, and none is leased.
LEMMA LeasesElsewhere ==
  ASSUME ThumbInv, Elsewhere, NEW p \in Thumbs
  PROVE  /\ thumb'[p].token = thumb[p].token
         /\ ThumbLeased(p) => thumb'[p] = thumb[p]
         /\ thumb'[p].state \in {"downloading", "staging"} => thumb'[p] = thumb[p]
<1>1. ASSUME NEW o \in Thumbs, DiscoverThumbnail(o) \/ RetryThumbnail(o)
      PROVE  /\ thumb'[p].token = thumb[p].token
             /\ ThumbLeased(p) => thumb'[p] = thumb[p]
             /\ thumb'[p].state \in {"downloading", "staging"} => thumb'[p] = thumb[p]
  <2>1. Moves(o, Idle, "discovered") \/ Moves(o, Idle, "retry_wait")
    BY <1>1, RowOpened
  <2>2. CASE p = o
    BY <2>1, <2>2 DEF Moves, Idle, ThumbLeased
  <2>3. CASE p # o
    BY <2>1, <2>3 DEF Moves
  <2> QED BY <2>2, <2>3
<1>2. ASSUME NEW c \in Renderings, EndEviction(c)
      PROVE  /\ thumb'[p].token = thumb[p].token
             /\ ThumbLeased(p) => thumb'[p] = thumb[p]
             /\ thumb'[p].state \in {"downloading", "staging"} => thumb'[p] = thumb[p]
  BY <1>2, EvictionEnded DEF ThumbLeased
<1>3. CASE thumb' = thumb
  BY <1>3
<1>4. ASSUME NEW o \in Thumbs, CacheOriginal(o) \/ EvictOriginal(o) PROVE thumb' = thumb
  BY <1>4 DEF CacheOriginal, EvictOriginal
<1>5. ASSUME NEW c \in Renderings, BeginEviction(c) \/ UnlinkEvicted(c) \/ UndoEviction(c) PROVE thumb' = thumb
  BY <1>5 DEF BeginEviction, UnlinkEvicted, UndoEviction, thumbRows
<1>6. CASE LoseThumbEvictor
  BY <1>6 DEF LoseThumbEvictor, thumbRows
<1> QED BY <1>1, <1>2, <1>3, <1>4, <1>5, <1>6 DEF Elsewhere

\* What is booked changes one row, that of its maker.
LEMMA BookedRow ==
  ASSUME ThumbInv, NEW t \in MakerTokens, Booking(t)
  PROVE  LET o == maker[t].job IN
         /\ o \in Thumbs /\ \A p \in Thumbs : p # o => thumb'[p] = thumb[p]
         /\ \A s \in MakerTokens : s # t => maker'[s] = maker[s]
         /\ ledgerHeldBy \in {t, NoToken}
         /\ \/ maker'[t] = AtRest /\ (thumb'[o] = thumb[o] \/ thumb'[o].token = NoToken)
            \/ /\ maker'[t].job = o /\ maker'[t].pc \in {"settling", "completing"} /\ thumb'[o].token = t
               /\ thumb'[o].state = "staging" /\ stagedThumb[t] \in {NoRendering, RenderedAs[o]}
               /\ thumb[o].token = t \/ (\A p \in Thumbs : thumb[p].token # t)
<1> ThumbTypes
  BY DEF ThumbInv
<1>0. \A s \in MakerTokens : s # t => maker'[s] = maker[s]
  BY BookingLeaves, ProceedsTo
<1>1. CASE CommitPublishing(t)
  BY <1>0, <1>1, Published
<1>2. CASE CompleteThumbnail(t)
  BY <1>0, <1>2, Completed
<1>3. CASE CommitSkip(t)
  BY <1>0, <1>3, SkipCommitted DEF GivenUp
<1>4. CASE CommitRecovery(t)
  <2>1. \A p \in Thumbs : thumb[p].token # t
    BY <1>4 DEF CommitRecovery, ThumbInv, MakerOK
  <2> QED BY <1>0, <1>4, <2>1, RecoveryCommitted DEF GivenUp, Adopted
<1> QED BY <1>1, <1>2, <1>3, <1>4 DEF Booking

LEMMA TokensStay ==
  ASSUME ThumbInv, [ThumbnailNext]_thumbVars
  PROVE  \A t \in MakerTokens : \A o \in Thumbs : TokenOK(t, o)'
<1> SUFFICES ASSUME NEW s \in MakerTokens, NEW p \in Thumbs PROVE TokenOK(s, p)'
  OBVIOUS
<1> ThumbTypes /\ TokenOK(s, p) /\ ThumbOK(p) /\ MakerOK(s)
  BY DEF ThumbInv
<1>n. NoToken \notin MakerTokens
  BY ThumbnailAssumption
<1>r. AtRest.pc = "idle"
  BY AtRestFields
<1>1. CASE /\ thumb'[p] = thumb[p] /\ stagedThumb'[s] = stagedThumb[s] /\ maker'[s] = maker[s]
           /\ s \in liveTokens' => s \in liveTokens
  BY <1>1 DEF TokenOK
<1>2. CASE /\ thumb'[p] = thumb[p] /\ stagedThumb'[s] = NoRendering /\ maker'[s] = maker[s]
           /\ s \notin liveTokens'
  BY <1>2 DEF TokenOK
<1>3. ASSUME NEW t \in MakerTokens, Filing(t) PROVE TokenOK(s, p)'
  <2>1. thumb'[p] = thumb[p] /\ liveTokens' = liveTokens /\ Proceeds(t)
    BY <1>3, FilingLeaves DEF thumbRows
  <2>2. CASE s # t
    BY <1>1, <1>2, <1>3, <2>1, <2>2, FilingOthers
  <2>3. CASE s = t
    <3>1. CASE thumb[p].token # t
      BY <2>1, <2>3, <3>1 DEF TokenOK
    <3>2. CASE thumb[p].token = t
      <4>1. maker'[t] = AtRest \/ (maker'[t].pc # "idle" /\ maker'[t].job = maker[t].job)
        BY <2>1, ProceedsTo
      <4>2. maker[t].pc # "recovering"
        BY <2>3, <3>2 DEF MakerOK
      <4>3. maker[t].pc # "idle" /\ maker[t].job = p
        BY <1>3, <2>3, <3>2, FilingOwn DEF TokenOK
      <4>4. CASE maker'[t].pc = "staged" /\ stagedThumb'[t] = RenderedAs[p] /\ maker[t].pc = "rendering"
        BY <1>r, <2>1, <2>3, <3>2, <4>1, <4>3, <4>4 DEF TokenOK
      <4>5. CASE /\ maker'[t].pc \in {"linked", "cleaned"} /\ maker[t].pc \in {"linking", "cleaning"}
                 /\ stagedThumb'[t] \in {NoRendering, stagedThumb[t]}
        BY <1>r, <2>1, <2>3, <3>2, <4>1, <4>3, <4>5 DEF TokenOK
      <4>6. CASE maker'[t].pc \in {"idle", "completing"} /\ stagedThumb'[t] \in {NoRendering, stagedThumb[t]}
        BY <1>r, <2>1, <2>3, <3>2, <4>1, <4>3, <4>6 DEF TokenOK
      <4> QED BY <1>3, <1>r, <4>2, <4>3, <4>4, <4>5, <4>6, FilingOwn
    <3> QED BY <3>1, <3>2
  <2> QED BY <2>2, <2>3
<1>4. ASSUME NEW t \in MakerTokens, Turning(t) PROVE TokenOK(s, p)'
  <2>1. UNCHANGED <<thumb, stagedThumb>> /\ liveTokens' \subseteq liveTokens /\ Proceeds(t)
    BY <1>4, TurningLeaves DEF thumbRows, thumbFiles
  <2>2. CASE s # t
    BY <1>1, <2>1, <2>2, ProceedsTo
  <2>3. CASE s = t
    BY <1>4, <1>r, <2>1, <2>3, TurningTo DEF TokenOK
  <2> QED BY <2>2, <2>3
<1>5. ASSUME NEW t \in MakerTokens, Booking(t) PROVE TokenOK(s, p)'
  <2> PICK o \in Thumbs : o = maker[t].job
    BY <1>5, BookedRow
  <2>1. stagedThumb' = stagedThumb /\ liveTokens' \subseteq liveTokens
    BY <1>5, BookingLeaves DEF thumbFiles
  <2>2. CASE s # t /\ p # o
    BY <1>1, <1>5, <2>1, <2>2, BookedRow
  <2>3. CASE s # t /\ p = o
    <3>1. thumb'[o] = thumb[o] \/ thumb'[o].token \in {NoToken, t}
      BY <1>5, BookedRow
    <3>2. CASE thumb'[o].token \in {NoToken, t}
      BY <1>n, <2>3, <3>2 DEF TokenOK
    <3> QED BY <1>1, <1>5, <2>1, <2>3, <3>1, <3>2, BookedRow
  <2>4. CASE s = t /\ p = o
    <3>1. CASE maker'[t] = AtRest
      BY <1>5, <1>n, <1>r, <2>1, <2>4, <3>1, BookedRow DEF TokenOK
    <3>2. CASE maker'[t] # AtRest
      <4>1. /\ maker'[t].job = o /\ maker'[t].pc \in {"settling", "completing"} /\ thumb'[o].token = t
            /\ thumb'[o].state = "staging" /\ stagedThumb[t] \in {NoRendering, RenderedAs[o]}
        BY <1>5, <3>2, BookedRow
      <4> QED BY <2>1, <2>4, <4>1 DEF TokenOK
    <3> QED BY <3>1, <3>2
  <2>5. CASE s = t /\ p # o
    <3>1. thumb'[p] = thumb[p]
      BY <1>5, <2>5, BookedRow
    <3>2. CASE maker'[t] = AtRest
      BY <1>r, <2>1, <2>5, <3>1, <3>2 DEF TokenOK
    <3>3. CASE maker'[t] # AtRest
      <4>1. thumb[o].token = t \/ thumb[p].token # t
        BY <1>5, <3>3, BookedRow
      <4>2. maker[t].pc # "idle"
        BY <1>5 DEF Booking, CommitPublishing, CompleteThumbnail, CommitSkip, CommitRecovery
      <4>3. thumb[p].token # t
        BY <2>5, <4>1, <4>2 DEF TokenOK
      <4> QED BY <2>5, <3>1, <4>3 DEF TokenOK
    <3> QED BY <3>2, <3>3
  <2> QED BY <2>2, <2>3, <2>4, <2>5
<1>6. ASSUME NEW t \in MakerTokens, NEW o \in Thumbs, ClaimThumbnail(t, o) PROVE TokenOK(s, p)'
  <2>c. /\ thumb'[o].state = "downloading" /\ thumb'[o].token = t
        /\ \A q \in Thumbs : q # o => thumb'[q] = thumb[q]
        /\ maker'[t].pc = "rendering" /\ maker'[t].job = o /\ \A u \in MakerTokens : u # t => maker'[u] = maker[u]
    BY <1>6, Claimed
  <2>1. stagedThumb' = stagedThumb /\ liveTokens' = liveTokens \union {t} /\ FreshToken(t)
    BY <1>6 DEF ClaimThumbnail, thumbFiles
  <2>2. CASE p = o
    BY <2>1, <2>2, <2>c DEF FreshToken, TokenOK
  <2>3. CASE p # o /\ s # t
    BY <1>1, <2>1, <2>3, <2>c
  <2>4. CASE p # o /\ s = t
    BY <2>1, <2>4, <2>c DEF FreshToken, TokenOK
  <2> QED BY <2>2, <2>3, <2>4
<1>7. ASSUME NEW t \in MakerTokens, NEW o \in Thumbs, BeginRecovery(t, o) PROVE TokenOK(s, p)'
  <2>1. UNCHANGED <<thumb, stagedThumb>> /\ liveTokens' = liveTokens \union {t} /\ FreshToken(t)
    BY <1>7 DEF BeginRecovery, thumbRows, thumbFiles
  <2>2. CASE s # t
    <3>1. maker'[s] = maker[s]
      BY <1>7, <2>2 DEF BeginRecovery, ThumbTypes
    <3> QED BY <1>1, <2>1, <2>2, <3>1
  <2>3. CASE s = t
    BY <2>1, <2>3 DEF FreshToken, TokenOK
  <2> QED BY <2>2, <2>3
<1>8. ASSUME NEW t \in MakerTokens, ThumbLeaseExpires(t) PROVE TokenOK(s, p)'
  BY <1>1, <1>8 DEF ThumbLeaseExpires, thumbRows, thumbFiles
<1>9. CASE Elsewhere
  <2>1. UNCHANGED <<stagedThumb, maker, liveTokens>>
    BY <1>9, ElsewhereLeaves
  <2>2. CASE thumb'[p] = thumb[p]
    BY <1>1, <2>1, <2>2
  <2>3. CASE thumb'[p] # thumb[p]
    <3>1. ~ThumbLeased(p) /\ thumb'[p].token = thumb[p].token
      BY <1>9, <2>3, LeasesElsewhere
    <3>2. thumb'[p].token # s
      BY <1>n, <3>1 DEF ThumbOK
    <3> QED BY <3>2 DEF TokenOK
  <2> QED BY <2>2, <2>3
<1>10. CASE UNCHANGED thumbVars
  BY <1>1, <1>10 DEF thumbVars, thumbRows, thumbFiles
<1>11. ASSUME NEW t \in MakerTokens, Trimming(t) PROVE TokenOK(s, p)'
  BY <1>1, <1>11, TrimmingLeaves DEF thumbRows
<1> QED BY <1>3, <1>4, <1>5, <1>6, <1>7, <1>8, <1>9, <1>10, <1>11, ThumbStepsAre DEF Starting

-----------------------------------------------------------------------------
(* Makers.                                                                 *)

Locked == {"linking", "linked", "cleaning", "cleaned", "recovering", "recovered"}

\* Who has not the lock is in no step that has it.
LEMMA LocksExclude ==
  ASSUME ThumbInv, NEW s \in MakerTokens, ledgerHeldBy # s
  PROVE  maker[s].pc \notin Locked
BY DEF ThumbInv, MakerOK, Locked

\* What a maker without the lock goes by.
Unlocked(s) ==
  /\ maker[s].pc \notin Locked
  /\ maker[s].pc = "rendering" => stagedThumb[s] = NoRendering
  /\ maker[s].pc = "settling" /\ stagedThumb[s] # NoRendering =>
       thumb[maker[s].job].state = "staging" /\ thumb[maker[s].job].token = s
  /\ s \in linkedBy => stagedThumb[s] # NoRendering

LEMMA UnlockedIsOK ==
  ASSUME NEW s, maker[s].pc = "idle" => maker[s] = AtRest, maker[s].pc # "idle" => maker[s].job \in Thumbs, Unlocked(s)
  PROVE  MakerOK(s)
BY DEF Unlocked, Locked, MakerOK
LEMMA UnlockedStaysOK ==
  ASSUME NEW s, maker'[s].pc = "idle" => maker'[s] = AtRest, maker'[s].pc # "idle" => maker'[s].job \in Thumbs,
         Unlocked(s)'
  PROVE  MakerOK(s)'
BY DEF Unlocked, Locked, MakerOK

\* A maker none of whose state moves, nor the row it is at work on.
LEMMA MakerStays ==
  ASSUME ThumbInv, NEW s \in MakerTokens, maker'[s] = maker[s], thumb' = thumb, stagedThumb' = stagedThumb,
         rendering' = rendering, linkedBy' \subseteq linkedBy, liveTokens' \subseteq liveTokens,
         ledgerHeldBy = s => ledgerHeldBy' = s
  PROVE  MakerOK(s)'
BY DEF ThumbInv, MakerOK, Committed, Leaseholder, ThumbLeased

\* Only a maker that has it or finds it free takes the lock or gives it away.
LEMMA TurningLock ==
  ASSUME ThumbInv, NEW t \in MakerTokens, Turning(t), NEW s \in MakerTokens, s # t
  PROVE  ledgerHeldBy = s => ledgerHeldBy' = s
<1>1. ledgerHeldBy' = ledgerHeldBy \/ ledgerHeldBy = NoToken \/ maker[t].pc \in Locked
      \/ (CrashMaker(t) /\ ledgerHeldBy = t)
  BY DEF Turning, RenderingFails, BeginPublishing, PublishingRefused, PublishingRollsBack, BeginSkip, SkipRefused,
     SkipRollsBack, RecoveryBreaks, CrashMaker, LedgerFree, Locked
<1>2. maker[t].pc \in Locked => ledgerHeldBy = t
  BY LocksExclude
<1> QED BY <1>1, <1>2, ThumbnailAssumption

LEMMA MakersWhileFiling ==
  ASSUME ThumbInv, NEW t \in MakerTokens, Filing(t), NEW s \in MakerTokens, s # t PROVE MakerOK(s)'
<1> ThumbTypes /\ MakerOK(s)
  BY DEF ThumbInv
<1>1. maker'[s] = maker[s] /\ UNCHANGED <<thumb, rendering, ledgerHeldBy, liveTokens>>
  BY FilingOthers, FilingLeaves DEF thumbRows
<1>2. (stagedThumb'[s] = stagedThumb[s] \/ stagedThumb'[s] = NoRendering)
      /\ (s \in linkedBy' => s \in linkedBy /\ stagedThumb'[s] = stagedThumb[s])
  BY FilingOthers
<1>3. CASE maker[s].pc \notin Locked
  <2>1. Unlocked(s)'
    BY <1>1, <1>2, <1>3 DEF MakerOK, Unlocked
  <2> QED BY <1>1, <2>1, UnlockedStaysOK DEF MakerOK
<1>4. CASE maker[s].pc \in Locked
  <2>1. ledgerHeldBy = s /\ maker[t].pc \notin Locked
    BY <1>4, LocksExclude
  <2>2. stagedThumb'[s] = stagedThumb[s]
    BY <2>1, FilingOthers DEF Locked
  <2>3. StageThumbnail(t) \/ SettleThumbnail(t)
    BY <2>1, FilingOwn DEF Locked
  <2>5. maker[s].pc = "recovered" /\ Committed(s) => stagedThumb'[Leaseholder(s)] = NoRendering
    <3> SUFFICES ASSUME maker[s].pc = "recovered", Committed(s) PROVE stagedThumb'[Leaseholder(s)] = NoRendering
      OBVIOUS
    <3> PICK o \in Thumbs : o = maker[s].job
      BY AtWork
    <3> PICK h \in MakerTokens : h = Leaseholder(s)
      BY Recovering
    <3>1. thumb[o].state = "staging" /\ thumb[o].token = h /\ stagedThumb[h] = NoRendering
      BY DEF Committed, Leaseholder, MakerOK
    <3>2. maker[h].pc \in {"idle", "settling", "completing"}
      BY <3>1 DEF ThumbInv, TokenOK
    <3>3. CASE StageThumbnail(t)
      BY <3>1, <3>2, <3>3 DEF StageThumbnail, ThumbTypes
    <3>4. CASE SettleThumbnail(t)
      BY <3>1, <3>4 DEF SettleThumbnail, DropStaging, ThumbTypes, thumbFiles
    <3> QED BY <2>3, <3>3, <3>4
  <2> QED BY <1>1, <1>2, <2>2, <2>5 DEF MakerOK, Committed, Leaseholder, ThumbLeased
<1> QED BY <1>3, <1>4

LEMMA OwnWhileFiling ==
  ASSUME ThumbInv, NEW t \in MakerTokens, Filing(t) PROVE MakerOK(t)'
<1> ThumbTypes /\ MakerOK(t)
  BY DEF ThumbInv
<1>1. UNCHANGED <<thumb, rendering, ledgerHeldBy, liveTokens>>
      /\ (maker'[t] = AtRest \/ (maker'[t].pc # "idle" /\ maker'[t].job = maker[t].job))
  BY FilingLeaves, ProceedsTo DEF thumbRows
<1>r. AtRest.pc = "idle"
  BY AtRestFields
<1> PICK o \in Thumbs : o = maker[t].job /\ RenderedAs[o] # NoRendering
  BY FilingOwn, AtWork, ThumbFields
<1>2. CASE StageThumbnail(t)
  <2>1. maker'[t].pc = "staged" /\ stagedThumb'[t] = RenderedAs[o]
    BY <1>2 DEF StageThumbnail, Goes, ThumbTypes
  <2>2. Unlocked(t)'
    BY <2>1 DEF Unlocked, Locked
  <2> QED BY <1>1, <1>r, <2>1, <2>2, UnlockedStaysOK
<1>3. CASE LinkThumbnail(t)
  <2>1. thumb[o].state = "downloading" /\ thumb[o].token = t /\ ledgerHeldBy = t /\ stagedThumb[t] = RenderedAs[o]
    BY <1>3, Publishing DEF LinkThumbnail
  <2>2. stagedThumb' = stagedThumb /\ linkedBy' \subseteq linkedBy \union {t}
        /\ maker[t].pc = "linking" /\ maker'[t].pc = "linked"
    BY <1>3 DEF LinkThumbnail, Goes, ThumbTypes
  <2> QED BY <1>1, <1>r, <2>1, <2>2 DEF MakerOK
<1>4. CASE SettleThumbnail(t)
  <2>1. Unlocked(t)' \/ maker'[t] = AtRest
    <3>1. CASE DropStaging(t) /\ Goes(t, "completing")
      <4>1. maker'[t].pc = "completing" /\ linkedBy' = linkedBy \ {t}
        BY <3>1 DEF DropStaging, Goes, ThumbTypes
      <4> QED BY <4>1 DEF Unlocked, Locked
    <3>2. CASE Rests(t)
      BY <3>2, MakerRests
    <3> QED BY <1>4, <3>1, <3>2 DEF SettleThumbnail
  <2>2. maker'[t] = AtRest => Unlocked(t)'
    <3>1. maker'[t] = AtRest => linkedBy' \subseteq linkedBy /\ stagedThumb'[t] = stagedThumb[t]
      BY <1>4, <1>r DEF SettleThumbnail, Goes, ThumbTypes, thumbFiles
    <3> QED BY <1>r, <3>1 DEF Unlocked, Locked, MakerOK
  <2> QED BY <1>1, <1>r, <2>1, <2>2, UnlockedStaysOK
<1>5. CASE CleanThumbnail(t)
  <2>1. maker[t].pc = "cleaning" /\ maker'[t].pc = "cleaned" /\ (t \in linkedBy' => FALSE)
    BY <1>5 DEF CleanThumbnail, DropStaging, Goes, ThumbTypes, thumbFiles, MakerOK
  <2> QED BY <1>1, <1>r, <2>1 DEF MakerOK
<1>6. CASE RecoverThumbnailFilesystem(t)
  <2>1. /\ maker[t].pc = "recovering" /\ maker'[t].pc = "recovered"
        /\ stagedThumb'[t] = stagedThumb[t] /\ stagedThumb'[Leaseholder(t)] = NoRendering
    BY <1>6, FilingOwn DEF RecoverThumbnailFilesystem, StageThumbnail, LinkThumbnail, SettleThumbnail, CleanThumbnail
  <2>2. t \notin linkedBy'
    BY <1>6, <2>1 DEF RecoverThumbnailFilesystem, DropStaging, MakerOK
  <2>3. maker'[t].job = o /\ maker'[t].pc = "recovered"
    BY <1>1, <1>r, <2>1
  <2> QED BY <1>1, <1>r, <2>1, <2>2, <2>3 DEF MakerOK, Committed, Leaseholder, ThumbLeased
<1> QED BY <1>2, <1>3, <1>4, <1>5, <1>6 DEF Filing

LEMMA MakersWhileTurning ==
  ASSUME ThumbInv, NEW t \in MakerTokens, Turning(t), NEW s \in MakerTokens PROVE MakerOK(s)'
<1> ThumbTypes /\ MakerOK(s)
  BY DEF ThumbInv
<1>1. UNCHANGED <<thumb, rendering, stagedThumb, finalThumbs, linkedBy>> /\ liveTokens' \subseteq liveTokens /\ Proceeds(t)
  BY TurningLeaves DEF thumbRows, thumbFiles
<1>2. CASE s # t
  BY <1>1, <1>2, ProceedsTo, TurningLock, MakerStays
<1>3. CASE s = t
  <2>r. AtRest.pc = "idle"
    BY AtRestFields
  <2>1. CASE maker'[t] = AtRest
    <3>1. Unlocked(t)'
      BY <1>1, <1>3, <2>r, <2>1 DEF Unlocked, Locked, MakerOK
    <3> QED BY <1>3, <2>r, <2>1, <3>1, UnlockedStaysOK
  <2>2. CASE maker'[t] # AtRest
    <3>1. maker[t].pc # "idle" /\ maker'[t].job = maker[t].job
      BY <2>2, TurningTo
    <3> PICK o \in Thumbs : o = maker[t].job
      BY <3>1, AtWork
    <3>2. CASE maker'[t].pc = "failing"
      <4>1. Unlocked(t)'
        BY <1>1, <1>3, <3>2 DEF Unlocked, Locked, MakerOK
      <4> QED BY <1>3, <3>1, <3>2, <4>1, UnlockedStaysOK
    <3>3. CASE maker'[t].pc = "linking" /\ maker[t].pc = "staged" /\ BeginPublishing(t) /\ ledgerHeldBy' = t
      <4>1. thumb[o].state = "downloading" /\ thumb[o].token = t /\ t \in liveTokens
        BY <3>3 DEF BeginPublishing, MayPublish, Holding
      <4>2. stagedThumb[t] = RenderedAs[o] /\ rendering[stagedThumb[t]] # "deleting"
        BY <3>3, <4>1 DEF ThumbInv, TokenOK, BeginPublishing, MayPublish
      <4> QED BY <1>1, <1>3, <3>1, <3>3, <4>1, <4>2 DEF MakerOK
    <3>4. CASE maker'[t].pc = "cleaning" /\ BeginSkip(t) /\ ledgerHeldBy' = t
      <4>1. thumb[o].state = "downloading" /\ thumb[o].token = t
        BY <3>4 DEF BeginSkip, Holding
      <4> QED BY <1>1, <1>3, <3>1, <3>4, <4>1 DEF MakerOK
    <3> QED BY <2>2, <3>2, <3>3, <3>4, TurningTo
  <2> QED BY <2>1, <2>2
<1> QED BY <1>2, <1>3

LEMMA MakersWhileBooking ==
  ASSUME ThumbInv, NEW t \in MakerTokens, Booking(t), NEW s \in MakerTokens PROVE MakerOK(s)'
<1> ThumbTypes /\ MakerOK(s)
  BY DEF ThumbInv
<1>1. UNCHANGED <<stagedThumb, linkedBy>>
  BY BookingLeaves DEF thumbFiles
<1> PICK o \in Thumbs : o = maker[t].job
  BY BookedRow
<1>2. CASE s # t
  <2>1. maker'[s] = maker[s] /\ maker[s].pc \notin Locked
    BY <1>2, BookedRow, LocksExclude, ThumbnailAssumption
  <2>2. ASSUME maker[s].pc = "settling", stagedThumb[s] # NoRendering
        PROVE  maker[s].job # o \/ thumb'[o] = thumb[o]
    <3> SUFFICES ASSUME maker[s].job = o PROVE thumb'[o] = thumb[o]
      OBVIOUS
    <3>1. thumb[o].state = "staging" /\ thumb[o].token = s
      BY <2>2 DEF MakerOK
    <3>2. CASE CommitPublishing(t)
      BY <3>1, <3>2, Published
    <3>3. CASE CompleteThumbnail(t)
      BY <1>2, <3>1, <3>3, Completed
    <3>4. CASE CommitSkip(t)
      BY <3>1, <3>4, SkipCommitted DEF GivenUp
    <3>5. CASE CommitRecovery(t)
      BY <2>2, <3>1, <3>5 DEF CommitRecovery, ThumbInv, MakerOK, Committed, Leaseholder
    <3> QED BY <3>2, <3>3, <3>4, <3>5 DEF Booking
  <2>3. maker[s].pc # "idle" => maker[s].job \in Thumbs
    BY AtWork
  <2>4. Unlocked(s)'
    BY <1>1, <2>1, <2>2, <2>3, BookedRow DEF Unlocked, MakerOK
  <2> QED BY <2>1, <2>3, <2>4, UnlockedStaysOK DEF MakerOK
<1>3. CASE s = t
  <2>r. AtRest.pc = "idle"
    BY AtRestFields
  <2>1. CASE maker'[t] = AtRest
    <3>1. Unlocked(t)'
      BY <1>1, <1>3, <2>r, <2>1 DEF Unlocked, Locked, MakerOK
    <3> QED BY <1>3, <2>r, <2>1, <3>1, UnlockedStaysOK
  <2>2. CASE maker'[t] # AtRest
    <3>1. maker'[t].job = o /\ maker'[t].pc \in {"settling", "completing"} /\ thumb'[o].token = t
          /\ thumb'[o].state = "staging"
      BY <2>2, BookedRow
    <3>2. Unlocked(t)'
      BY <1>1, <1>3, <3>1 DEF Unlocked, Locked, MakerOK
    <3> QED BY <1>3, <3>1, <3>2, UnlockedStaysOK
  <2> QED BY <2>1, <2>2
<1> QED BY <1>2, <1>3

LEMMA MakersStay ==
  ASSUME ThumbInv, [ThumbnailNext]_thumbVars
  PROVE  \A t \in MakerTokens : MakerOK(t)'
<1> SUFFICES ASSUME NEW s \in MakerTokens PROVE MakerOK(s)'
  OBVIOUS
<1> ThumbTypes /\ MakerOK(s)
  BY DEF ThumbInv
<1>1. ASSUME NEW t \in MakerTokens, NEW o \in Thumbs, ClaimThumbnail(t, o) PROVE MakerOK(s)'
  <2>1. UNCHANGED <<stagedThumb, linkedBy>> /\ LedgerFree /\ FreshToken(t)
    BY <1>1 DEF ClaimThumbnail, thumbFiles
  <2>2. maker[s].pc \notin Locked
    BY <2>1, LocksExclude, ThumbnailAssumption DEF LedgerFree
  <2>3. CASE s # t
    <3>1. maker'[s] = maker[s] /\ (maker[s].pc # "idle" => maker[s].job \in Thumbs)
      BY <1>1, <2>3, Claimed, AtWork
    <3>2. Unlocked(s)'
      BY <1>1, <2>1, <2>2, <3>1, Claimed DEF Unlocked, MakerOK
    <3> QED BY <3>1, <3>2, UnlockedStaysOK DEF MakerOK
  <2>4. CASE s = t
    <3>1. maker'[t].pc = "rendering" /\ maker'[t].job = o
      BY <1>1, Claimed
    <3>2. Unlocked(t)'
      BY <2>1, <2>4, <3>1 DEF Unlocked, Locked, FreshToken, MakerOK
    <3> QED BY <2>4, <3>1, <3>2, UnlockedStaysOK
  <2> QED BY <2>3, <2>4
<1>2. ASSUME NEW t \in MakerTokens, NEW o \in Thumbs, BeginRecovery(t, o) PROVE MakerOK(s)'
  <2>1. UNCHANGED <<thumb, stagedThumb, linkedBy>> /\ LedgerFree /\ FreshToken(t)
        /\ ledgerHeldBy' = t /\ liveTokens' = liveTokens \union {t}
        /\ thumb[o].state \in {"downloading", "staging"} /\ thumb[o].token \notin liveTokens
    BY <1>2 DEF BeginRecovery, thumbRows, thumbFiles
  <2>2. maker[s].pc \notin Locked
    BY <2>1, LocksExclude, ThumbnailAssumption DEF LedgerFree
  <2>3. maker'[t] = [pc |-> "recovering", job |-> o] /\ \A u \in MakerTokens : u # t => maker'[u] = maker[u]
    BY <1>2 DEF BeginRecovery, ThumbTypes
  <2>4. CASE s # t
    <3>1. Unlocked(s)'
      BY <2>1, <2>2, <2>3, <2>4 DEF Unlocked, MakerOK
    <3> QED BY <2>3, <2>4, <3>1, UnlockedStaysOK DEF MakerOK
  <2>5. CASE s = t
    BY <2>1, <2>3, <2>5 DEF MakerOK, FreshToken, ThumbLeased
  <2> QED BY <2>4, <2>5
<1>3. ASSUME NEW t \in MakerTokens, ThumbLeaseExpires(t) PROVE MakerOK(s)'
  BY <1>3, MakerStays DEF ThumbLeaseExpires, thumbRows, thumbFiles
<1>4. CASE Elsewhere
  <2>1. UNCHANGED <<stagedThumb, ledgerHeldBy, maker, liveTokens>>
    BY <1>4, ElsewhereLeaves
  <2>2. linkedBy' \subseteq linkedBy
    BY <1>4 DEF Elsewhere, DiscoverThumbnail, CacheOriginal, EvictOriginal, RetryThumbnail, BeginEviction,
       UnlinkEvicted, EndEviction, UndoEviction, LoseThumbEvictor, thumbFiles
  <2>3. \A p \in Thumbs : thumb'[p].token = thumb[p].token /\ (ThumbLeased(p) => thumb'[p] = thumb[p])
    BY <1>4, LeasesElsewhere
  <2>4. ledgerHeldBy # NoToken => rendering' = rendering
    BY <1>4 DEF Elsewhere, DiscoverThumbnail, CacheOriginal, EvictOriginal, RetryThumbnail, BeginEviction,
       UnlinkEvicted, EndEviction, UndoEviction, LoseThumbEvictor, LedgerFree, thumbRows
  <2>5. CASE maker[s].pc \notin Locked
    <3>1. Unlocked(s)'
      BY <2>1, <2>2, <2>3, <2>5 DEF Unlocked, MakerOK, ThumbLeased
    <3> QED BY <2>1, <3>1, UnlockedStaysOK DEF MakerOK
  <2>6. CASE maker[s].pc \in Locked
    <3> PICK o \in Thumbs : o = maker[s].job
      BY <2>6 DEF Locked, MakerOK
    <3>1. ThumbLeased(o) /\ thumb'[o] = thumb[o]
      BY <2>3, <2>6 DEF MakerOK, Locked, ThumbLeased
    <3>2. rendering' = rendering
      BY <2>4, <2>6, ThumbnailAssumption DEF MakerOK, Locked
    <3> QED BY <2>1, <2>2, <2>3, <2>6, <3>1, <3>2 DEF MakerOK, Committed, Leaseholder, ThumbLeased, Locked
  <2> QED BY <2>5, <2>6
<1>5. CASE UNCHANGED thumbVars
  BY <1>5, MakerStays DEF thumbVars, thumbRows, thumbFiles
<1>6. ASSUME NEW t \in MakerTokens, Filing(t) \/ Turning(t) \/ Booking(t) PROVE MakerOK(s)'
  BY <1>6, MakersWhileFiling, OwnWhileFiling, MakersWhileTurning, MakersWhileBooking
<1>7. ASSUME NEW t \in MakerTokens, Trimming(t) PROVE MakerOK(s)'
  BY <1>7, TrimmingLeaves, MakerStays DEF thumbRows
<1> QED BY <1>1, <1>2, <1>3, <1>4, <1>5, <1>6, <1>7, ThumbStepsAre DEF Starting

-----------------------------------------------------------------------------
(* Files.                                                                  *)

LEMMA EvictionStays ==
  ASSUME ThumbInv, [ThumbnailNext]_thumbVars
  PROVE  EvictingOK'
<1> ThumbTypes /\ EvictingOK
  BY DEF ThumbInv
<1>1. CASE UNCHANGED <<evicting, rendering>>
  BY <1>1 DEF EvictingOK
<1>2. CASE evicting' = NoRendering
  BY <1>2 DEF EvictingOK
<1>3. ASSUME NEW t \in MakerTokens, Booking(t) PROVE EvictingOK'
  <2>1. evicting' = evicting
    BY <1>3, BookingLeaves DEF evictors
  <2>2. CASE CommitPublishing(t)
    <3> PICK o \in Thumbs : o = maker[t].job
      BY <2>2, AtWork DEF CommitPublishing
    <3>1. rendering[RenderedAs[o]] # "deleting" /\ \A c \in Renderings : c # RenderedAs[o] => rendering'[c] = rendering[c]
      BY <2>2, Published
    <3> QED BY <2>1, <3>1 DEF EvictingOK
  <2> QED BY <1>1, <1>3, <2>1, <2>2, Completed, SkipCommitted, RecoveryCommitted DEF Booking
<1>4. ASSUME NEW c \in Renderings, BeginEviction(c) PROVE EvictingOK'
  BY <1>4 DEF BeginEviction, EvictingOK, ThumbTypes
<1>5. CASE Elsewhere
  <2>1. ASSUME NEW o \in Thumbs, DiscoverThumbnail(o) \/ CacheOriginal(o) \/ EvictOriginal(o) \/ RetryThumbnail(o)
        PROVE  UNCHANGED <<evicting, rendering>>
    BY <2>1 DEF DiscoverThumbnail, CacheOriginal, EvictOriginal, RetryThumbnail, evictors
  <2>2. ASSUME NEW c \in Renderings, UnlinkEvicted(c) \/ EndEviction(c) \/ UndoEviction(c) PROVE EvictingOK'
    BY <1>1, <1>2, <2>2 DEF UnlinkEvicted, EndEviction, UndoEviction, thumbRows
  <2> QED BY <1>1, <1>2, <1>4, <1>5, <2>1, <2>2 DEF Elsewhere, LoseThumbEvictor
<1>6. ASSUME NEW t \in MakerTokens, Filing(t) \/ Trimming(t) \/ Turning(t) \/ ThumbLeaseExpires(t) PROVE EvictingOK'
  BY <1>1, <1>6, FilingLeaves, TrimmingLeaves, TurningLeaves DEF ThumbLeaseExpires, thumbRows, evictors
<1>7. ASSUME NEW t \in MakerTokens, NEW o \in Thumbs, ClaimThumbnail(t, o) \/ BeginRecovery(t, o) PROVE EvictingOK'
  BY <1>1, <1>7 DEF ClaimThumbnail, BeginRecovery, thumbRows, evictors
<1> QED BY <1>1, <1>3, <1>5, <1>6, <1>7, ThumbStepsAre DEF Starting, thumbVars, thumbRows, evictors

FilesOK == LinksOK /\ UncountedAreStaged

\* A staging name goes, of no file or of one that is counted: another's file stays staged.
LEMMA NameDropped ==
  ASSUME ThumbInv, NEW h \in MakerTokens, rendering' = rendering, DropStaging(h),
         h \in linkedBy => stagedThumb[h] \in Counted
  PROVE  FilesOK'
<1> ThumbTypes /\ LinksOK /\ UncountedAreStaged
  BY DEF ThumbInv
<1>1. /\ linkedBy' = linkedBy \ {h} /\ finalThumbs' = finalThumbs
      /\ \A s \in MakerTokens : s # h => stagedThumb'[s] = stagedThumb[s]
  BY DropsFile DEF DropStaging
<1>2. LinksOK'
  BY <1>1 DEF LinksOK, ThumbTypes
<1>3. UncountedAreStaged'
  <2> SUFFICES ASSUME NEW c \in finalThumbs \ Counted PROVE \E s \in linkedBy' : stagedThumb'[s] = c
    BY <1>1, CountedStays DEF UncountedAreStaged
  <2>1. PICK s \in linkedBy : stagedThumb[s] = c
    BY DEF UncountedAreStaged
  <2> QED BY <1>1, <2>1 DEF ThumbTypes
<1> QED BY <1>2, <1>3 DEF FilesOK

\* A final name goes, with the one token that made its file.
LEMMA FinalDropped ==
  ASSUME ThumbInv, NEW h \in linkedBy, UNCHANGED <<rendering, stagedThumb>>,
         finalThumbs' = finalThumbs \ {stagedThumb[h]}, linkedBy' = linkedBy \ {h}
  PROVE  FilesOK'
<1> ThumbTypes /\ LinksOK /\ UncountedAreStaged
  BY DEF ThumbInv
<1>1. LinksOK'
  BY DEF LinksOK
<1>2. UncountedAreStaged'
  BY CountedStays DEF UncountedAreStaged
<1> QED BY <1>1, <1>2 DEF FilesOK

\* A file the row was committed with is counted.
LEMMA CommittedCounted ==
  ASSUME ThumbInv, NEW h \in linkedBy, NEW o \in Thumbs, thumb[o].token = h, thumb[o].state = "staging"
  PROVE  stagedThumb[h] \in Counted
<1>1. stagedThumb[h] = RenderedAs[o]
  BY LinkedToken
<1> QED BY <1>1 DEF ThumbInv, ThumbOK

LEMMA FilesWhileFiling ==
  ASSUME ThumbInv, NEW t \in MakerTokens, Filing(t) PROVE FilesOK'
<1> ThumbTypes /\ LinksOK /\ UncountedAreStaged /\ MakerOK(t)
  BY DEF ThumbInv
<1>0. rendering' = rendering
  BY FilingLeaves DEF thumbRows
<1>1. CASE UNCHANGED thumbFiles
  BY <1>0, <1>1, CountedStays DEF thumbFiles, FilesOK, LinksOK, UncountedAreStaged
<1>2. CASE StageThumbnail(t)
  <2>1. t \notin linkedBy /\ UNCHANGED <<finalThumbs, linkedBy>>
    BY <1>2 DEF StageThumbnail, MakerOK
  <2>2. \A s \in MakerTokens : s # t => stagedThumb'[s] = stagedThumb[s]
    BY <1>2 DEF StageThumbnail, ThumbTypes
  <2>3. \A s \in linkedBy : stagedThumb'[s] = stagedThumb[s]
    BY <2>1, <2>2 DEF ThumbTypes
  <2> QED BY <1>0, <2>1, <2>3, CountedStays DEF FilesOK, LinksOK, UncountedAreStaged
<1>3. CASE LinkThumbnail(t)
  <2>1. /\ finalThumbs' = finalThumbs \union {stagedThumb[t]} /\ stagedThumb' = stagedThumb
        /\ linkedBy' = IF stagedThumb[t] \in finalThumbs THEN linkedBy ELSE linkedBy \union {t}
    BY <1>3 DEF LinkThumbnail
  <2>2. LinksOK'
    BY <2>1 DEF LinksOK
  <2>3. UncountedAreStaged'
    <3> SUFFICES ASSUME NEW c \in finalThumbs' \ Counted PROVE \E s \in linkedBy' : stagedThumb'[s] = c
      BY <1>0, CountedStays DEF UncountedAreStaged
    <3>1. CASE c \in finalThumbs
      BY <2>1, <3>1 DEF UncountedAreStaged
    <3>2. CASE c \notin finalThumbs
      BY <2>1, <3>2
    <3> QED BY <3>1, <3>2
  <2> QED BY <2>2, <2>3 DEF FilesOK
<1>6. CASE SettleThumbnail(t)
  <2>1. CASE DropStaging(t) /\ stagedThumb[t] \in finalThumbs
    <3> PICK o \in Thumbs : o = maker[t].job
      BY <1>6, AtWork DEF SettleThumbnail
    <3>1. thumb[o].state = "staging" /\ thumb[o].token = t
      BY <1>6, <2>1, NoRenderingIsNone DEF SettleThumbnail, MakerOK, ThumbTypes
    <3> QED BY <1>0, <2>1, <3>1, NameDropped, CommittedCounted
  <2> QED BY <1>1, <1>6, <2>1 DEF SettleThumbnail
<1>7. CASE CleanThumbnail(t)
  BY <1>0, <1>7, NameDropped DEF CleanThumbnail, SameFile
<1>8. CASE RecoverThumbnailFilesystem(t)
  <2> PICK o \in Thumbs : o = maker[t].job
    BY <1>8, AtWork DEF RecoverThumbnailFilesystem
  <2> PICK h \in MakerTokens : h = Leaseholder(t)
    BY <1>8, Recovering DEF RecoverThumbnailFilesystem
  <2>1. DropStaging(h) /\ thumb[o].token = h /\ (thumb[o].state = "staging" \/ h \notin linkedBy)
    BY <1>8 DEF RecoverThumbnailFilesystem, Leaseholder, Committed, SameFile
  <2> QED BY <1>0, <2>1, NameDropped, CommittedCounted
<1> QED BY <1>2, <1>3, <1>6, <1>7, <1>8 DEF Filing

LEMMA FilesStay ==
  ASSUME ThumbInv, [ThumbnailNext]_thumbVars
  PROVE  FilesOK'
<1> ThumbTypes /\ LinksOK /\ UncountedAreStaged
  BY DEF ThumbInv
<1>1. CASE UNCHANGED <<rendering, stagedThumb, finalThumbs, linkedBy>>
  BY <1>1, CountedStays DEF FilesOK, LinksOK, UncountedAreStaged
<1>2. ASSUME NEW t \in MakerTokens, Booking(t) PROVE FilesOK'
  <2>1. UNCHANGED <<stagedThumb, finalThumbs, linkedBy>>
    BY <1>2, BookingLeaves DEF thumbFiles
  <2>2. CASE CommitPublishing(t)
    <3>1. Counted \subseteq Counted'
      BY <2>2, Published
    <3> QED BY <2>1, <3>1 DEF FilesOK, LinksOK, UncountedAreStaged
  <2> QED BY <1>1, <1>2, <2>1, <2>2, Completed, SkipCommitted, RecoveryCommitted DEF Booking
<1>3. ASSUME NEW c \in Renderings, BeginEviction(c) \/ UndoEviction(c) PROVE FilesOK'
  <2>1. UNCHANGED <<stagedThumb, finalThumbs, linkedBy>> /\ Counted' = Counted
    BY <1>3 DEF BeginEviction, UndoEviction, Counted, ThumbTypes, thumbFiles
  <2> QED BY <2>1 DEF FilesOK, LinksOK, UncountedAreStaged
<1>4. ASSUME NEW c \in Renderings, EndEviction(c) PROVE FilesOK'
  <2>1. UNCHANGED <<stagedThumb, finalThumbs, linkedBy>>
    BY <1>4 DEF EndEviction, thumbFiles
  <2>2. Counted' = Counted \ {c} /\ c \notin finalThumbs
    BY <1>4, EvictionEnded
  <2> QED BY <2>1, <2>2 DEF FilesOK, LinksOK, UncountedAreStaged
<1>5. ASSUME NEW c \in Renderings, UnlinkEvicted(c) PROVE FilesOK'
  <2>1. /\ UNCHANGED <<rendering, stagedThumb>> /\ finalThumbs' = finalThumbs \ {c}
        /\ linkedBy' = {t \in linkedBy : stagedThumb[t] # c}
    BY <1>5 DEF UnlinkEvicted, thumbRows
  <2> QED BY <2>1, CountedStays DEF FilesOK, LinksOK, UncountedAreStaged
<1>6. CASE Elsewhere
  <2>1. ASSUME NEW o \in Thumbs, DiscoverThumbnail(o) \/ CacheOriginal(o) \/ EvictOriginal(o) \/ RetryThumbnail(o)
        PROVE  UNCHANGED <<rendering, stagedThumb, finalThumbs, linkedBy>>
    BY <2>1 DEF DiscoverThumbnail, CacheOriginal, EvictOriginal, RetryThumbnail, thumbFiles
  <2>2. CASE LoseThumbEvictor
    BY <1>1, <2>2 DEF LoseThumbEvictor, thumbRows, thumbFiles
  <2> QED BY <1>1, <1>3, <1>4, <1>5, <1>6, <2>1, <2>2 DEF Elsewhere
<1>7. ASSUME NEW t \in MakerTokens, Turning(t) \/ ThumbLeaseExpires(t) PROVE FilesOK'
  BY <1>1, <1>7, TurningLeaves DEF ThumbLeaseExpires, thumbRows, thumbFiles
<1>8. ASSUME NEW t \in MakerTokens, NEW o \in Thumbs, ClaimThumbnail(t, o) \/ BeginRecovery(t, o) PROVE FilesOK'
  BY <1>1, <1>8 DEF ClaimThumbnail, BeginRecovery, thumbRows, thumbFiles
<1>9. ASSUME NEW t \in MakerTokens, Trimming(t) PROVE FilesOK'
  BY <1>9, TrimmingLeaves, FinalDropped DEF thumbRows
<1> QED
  BY <1>1, <1>2, <1>6, <1>7, <1>8, <1>9, FilesWhileFiling, ThumbStepsAre DEF Starting, thumbVars, thumbRows, thumbFiles

-----------------------------------------------------------------------------
(* Room.                                                                   *)

Downloading == {o \in Thumbs : thumb[o].state = "downloading"}
DownloadsFit == cacheReady + SumFunctionOnSet(Reserved, Downloading) <= CacheMaxBytes
ReadyAddsUp == cacheReady = SumFunctionOnSet(RenderedSize, Counted) + OriginalSize * Cardinality(originals)
ReservedAddsUp == cacheReserved = SumFunctionOnSet(Reserved, Thumbs)

LEMMA RoomParts == RoomIsKept <=> ReadyAddsUp /\ ReservedAddsUp /\ DownloadsFit
BY DEF RoomIsKept, ReadyAddsUp, ReservedAddsUp, DownloadsFit, Downloading
LEMMA RoomPartsPrimed == RoomIsKept' <=> ReadyAddsUp' /\ ReservedAddsUp' /\ DownloadsFit'
BY DEF RoomIsKept, ReadyAddsUp, ReservedAddsUp, DownloadsFit, Downloading

LEMMA ThumbSetsFinite ==
  /\ IsFiniteSet(Thumbs) /\ IsFiniteSet(Renderings)
  /\ \A S \in SUBSET Thumbs : IsFiniteSet(S)
  /\ \A C \in SUBSET Renderings : IsFiniteSet(C)
  /\ \A c \in Renderings : RenderedSize[c] \in Nat /\ RenderedSize[c] <= ThumbnailMaxBytes
<1>1. IsFiniteSet(Thumbs)
  BY ThumbnailAssumption
<1>2. IsFiniteSet(Renderings)
  <2> DEFINE f == [o \in Thumbs |-> RenderedAs[o]]
  <2>1. f \in [Thumbs -> Renderings] /\ \A o \in Thumbs : f[o] = RenderedAs[o]
    BY DEF Renderings
  <2>2. f \in Surjection(Thumbs, Renderings)
    BY <2>1 DEF Surjection, Renderings
  <2> QED BY <1>1, <2>2, FS_Surjection
<1>3. \A c \in Renderings : RenderedSize[c] \in Nat /\ RenderedSize[c] <= ThumbnailMaxBytes
  BY ThumbnailAssumption DEF Renderings
<1> QED BY <1>1, <1>2, <1>3, FS_Subset

LEMMA ReservedIsNat == ASSUME ThumbTypes PROVE \A o \in Thumbs : Reserved[o] = thumb[o].reserved /\ Reserved[o] \in Nat
BY ThumbFields DEF Reserved

\* What is being downloaded has reserved no more than all have.
LEMMA DownloadsWithin ==
  ASSUME ThumbTypes PROVE /\ SumFunctionOnSet(Reserved, Downloading) \in Nat
                          /\ SumFunctionOnSet(Reserved, Downloading) <= SumFunctionOnSet(Reserved, Thumbs)
<1> PICK D \in SUBSET Thumbs : D = Downloading
  BY DEF Downloading
<1> PICK E \in SUBSET Thumbs : E = Thumbs \ D
  OBVIOUS
<1>1. IsFiniteSet(D) /\ IsFiniteSet(E) /\ D \intersect E = {} /\ D \union E = Thumbs
  BY ThumbSetsFinite
<1>2. \A o \in Thumbs : Reserved[o] \in Nat
  BY ReservedIsNat
<1>3. \A o \in D \union E : Reserved[o] \in Int
  BY <1>2
<1>4. SumFunctionOnSet(Reserved, D \union E) = SumFunctionOnSet(Reserved, D) + SumFunctionOnSet(Reserved, E)
  BY <1>1, <1>3, SumUnion
<1>5. SumFunctionOnSet(Reserved, D) \in Nat /\ SumFunctionOnSet(Reserved, E) \in Nat
  BY <1>1, <1>2, SumIsNat
<1>6. SumFunctionOnSet(Reserved, Thumbs) = SumFunctionOnSet(Reserved, D) + SumFunctionOnSet(Reserved, E)
  BY <1>1, <1>4
<1> QED BY <1>5, <1>6

\* The sums over rows that reserve as before, and after one row reserves otherwise.
LEMMA ReservedSame ==
  ASSUME ThumbTypes, \A o \in Thumbs : thumb'[o].reserved = thumb[o].reserved, NEW S \in SUBSET Thumbs
  PROVE  SumFunctionOnSet(Reserved', S) = SumFunctionOnSet(Reserved, S)
<1>1. \A o \in S : Reserved'[o] = Reserved[o]
  BY DEF Reserved
<1> QED BY <1>1, ThumbSetsFinite, SumsAgree

LEMMA ReservedOne ==
  ASSUME ThumbTypes, NEW o \in Thumbs, thumb'[o].reserved \in Nat, \A p \in Thumbs : p # o => thumb'[p] = thumb[p]
  PROVE  /\ SumFunctionOnSet(Reserved', Thumbs) = SumFunctionOnSet(Reserved, Thumbs) - thumb[o].reserved + thumb'[o].reserved
         /\ SumFunctionOnSet(Reserved, Thumbs) \in Nat
         /\ \A S \in SUBSET Thumbs : o \notin S => SumFunctionOnSet(Reserved', S) = SumFunctionOnSet(Reserved, S)
         /\ \A S \in SUBSET Thumbs : o \notin S =>
              /\ SumFunctionOnSet(Reserved, S \union {o}) = SumFunctionOnSet(Reserved, S) + thumb[o].reserved
              /\ SumFunctionOnSet(Reserved', S \union {o}) = SumFunctionOnSet(Reserved, S) + thumb'[o].reserved
              /\ SumFunctionOnSet(Reserved, S) \in Nat
<1>1. \A p \in Thumbs : Reserved[p] = thumb[p].reserved /\ Reserved[p] \in Nat
  BY ReservedIsNat
<1>2. Reserved'[o] = thumb'[o].reserved /\ \A p \in Thumbs : p # o => Reserved'[p] = Reserved[p]
  BY DEF Reserved
<1>3. \A p \in Thumbs : Reserved'[p] \in Nat
  BY <1>1, <1>2
<1>f. PICK f : f = Reserved
  OBVIOUS
<1>g. PICK g : g = Reserved'
  OBVIOUS
<1>4. \A p \in Thumbs : f[p] \in Nat /\ g[p] \in Nat
  BY <1>1, <1>3, <1>f, <1>g
<1>d. \A p \in Thumbs : p # o => f[p] = g[p]
  BY <1>2, <1>f, <1>g
<1>5. SumFunctionOnSet(g, Thumbs) = SumFunctionOnSet(f, Thumbs) - f[o] + g[o]
  <2>1. \A p \in Thumbs : f[p] \in Int /\ g[p] \in Int
    BY <1>4
  <2>2. \A p \in Thumbs \ {o} : f[p] = g[p]
    BY <1>d
  <2>3. IsFiniteSet(Thumbs)
    BY ThumbSetsFinite
  <2> QED BY <2>1, <2>2, <2>3, SumExcept
<1>6. SumFunctionOnSet(f, Thumbs) \in Nat
  BY <1>4, ThumbSetsFinite, SumIsNat
<1>7. ASSUME NEW S \in SUBSET Thumbs, o \notin S
      PROVE  /\ SumFunctionOnSet(g, S) = SumFunctionOnSet(f, S)
             /\ SumFunctionOnSet(f, S \union {o}) = SumFunctionOnSet(f, S) + f[o]
             /\ SumFunctionOnSet(g, S \union {o}) = SumFunctionOnSet(f, S) + g[o]
             /\ SumFunctionOnSet(f, S) \in Nat
  <2>1. IsFiniteSet(S) /\ \A p \in S : f[p] = g[p]
    BY <1>d, <1>7, ThumbSetsFinite
  <2>2. SumFunctionOnSet(g, S) = SumFunctionOnSet(f, S)
    BY <2>1, SumsAgree
  <2>3. \A p \in S \union {o} : f[p] \in Int /\ g[p] \in Int
    BY <1>4
  <2>4. SumFunctionOnSet(f, S \union {o}) = SumFunctionOnSet(f, S) + f[o]
    BY <1>7, <2>1, <2>3, SumAdd
  <2>5. SumFunctionOnSet(g, S \union {o}) = SumFunctionOnSet(g, S) + g[o]
    BY <1>7, <2>1, <2>3, SumAdd
  <2>6. \A p \in S : f[p] \in Nat
    BY <1>4
  <2>7. SumFunctionOnSet(f, S) \in Nat
    BY <2>1, <2>6, SumIsNat
  <2> QED BY <2>2, <2>4, <2>5, <2>7
<1> QED BY <1>1, <1>2, <1>5, <1>6, <1>7, <1>f, <1>g

\* Of the parts of the books.
LEMMA ReadySame ==
  ASSUME ReadyAddsUp, UNCHANGED <<cacheReady, originals>>, Counted' = Counted PROVE ReadyAddsUp'
BY DEF ReadyAddsUp
LEMMA ReservedSameAddsUp ==
  ASSUME ThumbTypes, ReservedAddsUp, cacheReserved' = cacheReserved, \A o \in Thumbs : thumb'[o].reserved = thumb[o].reserved
  PROVE  ReservedAddsUp'
BY ReservedSame DEF ReservedAddsUp
LEMMA DownloadsSameFit ==
  ASSUME ThumbTypes, DownloadsFit, cacheReady' \in Int, cacheReady' <= cacheReady,
         \A o \in Thumbs : thumb'[o].reserved = thumb[o].reserved, Downloading' = Downloading
  PROVE  DownloadsFit'
<1>1. Downloading \in SUBSET Thumbs
  BY DEF Downloading
<1>2. SumFunctionOnSet(Reserved', Downloading) = SumFunctionOnSet(Reserved, Downloading)
  BY <1>1, ReservedSame
<1>3. SumFunctionOnSet(Reserved, Downloading) \in Nat
  BY DownloadsWithin
<1>4. cacheReady \in Int /\ CacheMaxBytes \in Nat
  BY ThumbnailAssumption DEF ThumbTypes
<1> QED BY <1>2, <1>3, <1>4 DEF DownloadsFit

LEMMA RoomSame ==
  ASSUME ThumbInv, UNCHANGED <<cacheReady, cacheReserved, originals>>, Counted' = Counted,
         \A o \in Thumbs : thumb'[o].reserved = thumb[o].reserved
                           /\ (thumb'[o].state = "downloading" <=> thumb[o].state = "downloading")
  PROVE  RoomIsKept'
<1>1. ThumbTypes /\ ReadyAddsUp /\ ReservedAddsUp /\ DownloadsFit
  BY RoomParts DEF ThumbInv
<1>2. Downloading' = Downloading
  BY DEF Downloading
<1>3. cacheReady' \in Int /\ cacheReady' <= cacheReady
  BY <1>1 DEF ThumbTypes
<1> QED BY <1>1, <1>2, <1>3, ReadySame, ReservedSameAddsUp, DownloadsSameFit, RoomPartsPrimed

LEMMA RoomWhileClaiming ==
  ASSUME ThumbInv, NEW t \in MakerTokens, NEW o \in Thumbs, ClaimThumbnail(t, o) PROVE RoomIsKept'
<1>1. ThumbTypes /\ ReadyAddsUp /\ ReservedAddsUp /\ DownloadsFit
  BY RoomParts DEF ThumbInv
<1>2. /\ thumb[o].state \in {"discovered", "retry_wait"} /\ thumb'[o].state = "downloading"
      /\ thumb'[o].reserved = ThumbnailMaxBytes /\ \A p \in Thumbs : p # o => thumb'[p] = thumb[p]
  BY Claimed
<1>3. thumb[o].reserved = 0
  BY <1>2 DEF ThumbInv, ThumbOK, ThumbLeased
<1>4. /\ cacheReserved' = cacheReserved + ThumbnailMaxBytes /\ UNCHANGED <<rendering, originals, cacheReady>>
      /\ cacheReady + cacheReserved + ThumbnailMaxBytes <= CacheMaxBytes
  BY DEF ClaimThumbnail, HasRoom
<1>5. ThumbnailMaxBytes \in Nat /\ CacheMaxBytes \in Nat /\ cacheReady \in Int /\ cacheReserved \in Int
  BY <1>1, ThumbnailAssumption DEF ThumbTypes
<1> PICK D \in SUBSET Thumbs : D = Downloading
  BY DEF Downloading
<1>6. o \notin D /\ Downloading' = D \union {o}
  BY <1>2 DEF Downloading
<1>7. /\ SumFunctionOnSet(Reserved', Thumbs) = SumFunctionOnSet(Reserved, Thumbs) - thumb[o].reserved + thumb'[o].reserved
      /\ SumFunctionOnSet(Reserved, Thumbs) \in Nat
      /\ SumFunctionOnSet(Reserved', D \union {o}) = SumFunctionOnSet(Reserved, D) + thumb'[o].reserved
  BY <1>1, <1>2, <1>5, <1>6, ReservedOne
<1>8. SumFunctionOnSet(Reserved, D) \in Nat /\ SumFunctionOnSet(Reserved, D) <= SumFunctionOnSet(Reserved, Thumbs)
  BY <1>1, DownloadsWithin
<1>9. ReservedAddsUp'
  BY <1>1, <1>2, <1>3, <1>4, <1>5, <1>7 DEF ReservedAddsUp
<1>10. DownloadsFit'
  BY <1>1, <1>2, <1>4, <1>5, <1>6, <1>7, <1>8 DEF DownloadsFit, ReservedAddsUp
<1>11. ReadyAddsUp'
  BY <1>1, <1>4, CountedStays, ReadySame
<1> QED BY <1>9, <1>10, <1>11, RoomPartsPrimed

LEMMA RoomWhilePublishing ==
  ASSUME ThumbInv, NEW t \in MakerTokens, CommitPublishing(t) PROVE RoomIsKept'
<1>1. ThumbTypes /\ ReadyAddsUp /\ ReservedAddsUp /\ DownloadsFit
  BY RoomParts DEF ThumbInv
<1> PICK o \in Thumbs : o = maker[t].job
  BY AtWork DEF CommitPublishing
<1> PICK c \in Renderings : c = RenderedAs[o]
  BY <1>1, ThumbFields
<1>2. /\ thumb[o].state = "downloading" /\ thumb'[o].state = "staging" /\ thumb'[o].reserved = thumb[o].reserved
      /\ \A p \in Thumbs : p # o => thumb'[p] = thumb[p]
      /\ Counted' = Counted \union {c}
      /\ cacheReady' = cacheReady + (IF c \in Counted THEN 0 ELSE RenderedSize[c])
      /\ cacheReserved' = cacheReserved
  BY Published
<1>3. thumb[o].reserved = ThumbnailMaxBytes
  BY <1>2 DEF ThumbInv, ThumbOK, ThumbLeased
<1>4. originals' = originals
  BY BookingLeaves DEF Booking
<1>5. /\ ThumbnailMaxBytes \in Nat /\ CacheMaxBytes \in Nat /\ OriginalSize \in Nat /\ cacheReady \in Int
      /\ RenderedSize[c] \in Nat /\ RenderedSize[c] <= ThumbnailMaxBytes
  BY <1>1, ThumbnailAssumption, ThumbSetsFinite DEF ThumbTypes
<1>6. \A p \in Thumbs : thumb'[p].reserved = thumb[p].reserved
  BY <1>2
<1>7. ReservedAddsUp'
  BY <1>1, <1>2, <1>6, ReservedSameAddsUp
<1>8. ReadyAddsUp'
  <2> PICK C \in SUBSET Renderings : C = Counted
    BY DEF Counted
  <2>1. IsFiniteSet(C)
    BY ThumbSetsFinite
  <2>i. \A d \in C \union {c} : RenderedSize[d] \in Int
    BY ThumbSetsFinite
  <2>2. SumFunctionOnSet(RenderedSize, C \union {c}) =
          SumFunctionOnSet(RenderedSize, C) + (IF c \in C THEN 0 ELSE RenderedSize[c])
    <3>1. SumFunctionOnSet(RenderedSize, C) \in Int
      BY <2>1, <2>i, SumIsInt
    <3>2. CASE c \in C
      <4>1. C \union {c} = C
        BY <3>2
      <4> QED BY <3>1, <3>2, <4>1
    <3>3. CASE c \notin C
      BY <2>1, <2>i, <3>3, SumAdd
    <3> QED BY <3>2, <3>3
  <2>3. SumFunctionOnSet(RenderedSize, C) \in Int
    BY <2>1, <2>i, SumIsInt
  <2>4. OriginalSize * Cardinality(originals) \in Int
    BY <1>1, <1>5, FS_CardinalityType, ThumbSetsFinite DEF ThumbTypes
  <2> PICK n \in Int : n = OriginalSize * Cardinality(originals)
    BY <2>4
  <2>5. cacheReady = SumFunctionOnSet(RenderedSize, C) + n
    BY <1>1 DEF ReadyAddsUp
  <2>6. cacheReady' = SumFunctionOnSet(RenderedSize, Counted') + n
    BY <1>2, <1>5, <2>2, <2>3, <2>5
  <2> QED BY <1>4, <2>6 DEF ReadyAddsUp
<1>9. DownloadsFit'
  <2> PICK D \in SUBSET Thumbs : D = Downloading'
    BY DEF Downloading
  <2>1. o \notin D /\ Downloading = D \union {o}
    BY <1>2 DEF Downloading
  <2>2. /\ SumFunctionOnSet(Reserved', D) = SumFunctionOnSet(Reserved, D)
        /\ SumFunctionOnSet(Reserved, D \union {o}) = SumFunctionOnSet(Reserved, D) + thumb[o].reserved
        /\ SumFunctionOnSet(Reserved, D) \in Nat
    BY <1>1, <1>2, <1>3, <1>5, <2>1, ReservedOne
  <2> QED BY <1>1, <1>2, <1>3, <1>5, <2>1, <2>2 DEF DownloadsFit
<1> QED BY <1>7, <1>8, <1>9, RoomPartsPrimed

\* A row that frees what it has reserved.
LEMMA RoomWhileFreeing ==
  ASSUME ThumbInv, NEW o \in Thumbs, UNCHANGED <<rendering, originals, cacheReady>>, thumb'[o].reserved = 0,
         thumb'[o].state # "downloading", cacheReserved' = cacheReserved - thumb[o].reserved,
         \A p \in Thumbs : p # o => thumb'[p] = thumb[p]
  PROVE  RoomIsKept'
<1>1. ThumbTypes /\ ReadyAddsUp /\ ReservedAddsUp /\ DownloadsFit
  BY RoomParts DEF ThumbInv
<1>2. CacheMaxBytes \in Nat /\ cacheReady \in Int /\ cacheReserved \in Int /\ thumb[o].reserved \in Nat
  BY <1>1, ThumbnailAssumption, ThumbFields DEF ThumbTypes
<1> PICK D \in SUBSET Thumbs : D = Downloading'
  BY DEF Downloading
<1>3. o \notin D /\ (Downloading = D \/ Downloading = D \union {o})
  BY DEF Downloading
<1>4. /\ SumFunctionOnSet(Reserved', Thumbs) = SumFunctionOnSet(Reserved, Thumbs) - thumb[o].reserved + thumb'[o].reserved
      /\ SumFunctionOnSet(Reserved, Thumbs) \in Nat
      /\ SumFunctionOnSet(Reserved', D) = SumFunctionOnSet(Reserved, D)
      /\ SumFunctionOnSet(Reserved, D \union {o}) = SumFunctionOnSet(Reserved, D) + thumb[o].reserved
      /\ SumFunctionOnSet(Reserved, D) \in Nat
  BY <1>1, <1>3, ReservedOne
<1>5. ReservedAddsUp'
  BY <1>1, <1>2, <1>4 DEF ReservedAddsUp
<1>6. DownloadsFit'
  <2>1. cacheReady' + SumFunctionOnSet(Reserved', Downloading') = cacheReady + SumFunctionOnSet(Reserved, D)
    BY <1>4
  <2>2. SumFunctionOnSet(Reserved, D) <= SumFunctionOnSet(Reserved, Downloading)
    <3>1. CASE Downloading = D
      BY <1>4, <3>1
    <3>2. CASE Downloading = D \union {o}
      <4>1. SumFunctionOnSet(Reserved, Downloading) = SumFunctionOnSet(Reserved, D) + thumb[o].reserved
        BY <1>4, <3>2
      <4> QED BY <1>2, <1>4, <4>1
    <3> QED BY <1>3, <3>1, <3>2
  <2>3. SumFunctionOnSet(Reserved, Downloading) \in Nat
    BY <1>1, DownloadsWithin
  <2>4. cacheReady + SumFunctionOnSet(Reserved, Downloading) <= CacheMaxBytes
    BY <1>1 DEF DownloadsFit
  <2>5. cacheReady + SumFunctionOnSet(Reserved, D) <= CacheMaxBytes
    BY <1>2, <1>4, <2>2, <2>3, <2>4
  <2> QED BY <2>1, <2>5 DEF DownloadsFit
<1>7. ReadyAddsUp'
  BY <1>1, CountedStays, ReadySame
<1> QED BY <1>5, <1>6, <1>7, RoomPartsPrimed

LEMMA RoomWhileBooking ==
  ASSUME ThumbInv, NEW t \in MakerTokens, Booking(t) PROVE RoomIsKept'
<1> PICK o \in Thumbs : o = maker[t].job
  BY BookedRow
<1>1. originals' = originals /\ \A p \in Thumbs : p # o => thumb'[p] = thumb[p]
  BY BookingLeaves, BookedRow
<1>2. CASE CompleteThumbnail(t)
  <2>1. UNCHANGED <<rendering, cacheReady>>
    BY <1>2, Completed
  <2>2. CASE UNCHANGED <<thumb, cacheReserved>>
    BY <1>1, <2>1, <2>2, RoomSame, CountedStays
  <2>3. CASE /\ thumb'[o].state = "ready" /\ thumb'[o].reserved = 0 /\ cacheReserved' = cacheReserved - thumb[o].reserved
    BY <1>1, <2>1, <2>3, RoomWhileFreeing
  <2> QED BY <1>2, <2>2, <2>3, Completed
<1>3. CASE UNCHANGED <<rendering, cacheReady>> /\ GivenUp(o)
  BY <1>1, <1>3, RoomWhileFreeing DEF GivenUp
<1>4. CASE UNCHANGED <<rendering, cacheReady>> /\ Adopted(o, t)
  <2>1. \A p \in Thumbs : thumb'[p].reserved = thumb[p].reserved
                          /\ (thumb'[p].state = "downloading" <=> thumb[p].state = "downloading")
    BY <1>1, <1>4 DEF Adopted
  <2> QED BY <1>1, <1>4, <2>1, RoomSame, CountedStays DEF Adopted
<1> QED BY <1>2, <1>3, <1>4, RoomWhilePublishing, SkipCommitted, RecoveryCommitted DEF Booking

LEMMA RoomWhileOriginals ==
  ASSUME ThumbInv, NEW o \in Thumbs, CacheOriginal(o) \/ EvictOriginal(o) PROVE RoomIsKept'
<1>1. ThumbTypes /\ ReadyAddsUp /\ ReservedAddsUp /\ DownloadsFit
  BY RoomParts DEF ThumbInv
<1>2. UNCHANGED <<thumb, rendering, cacheReserved>>
  BY DEF CacheOriginal, EvictOriginal
<1>3. /\ OriginalSize \in Nat /\ CacheMaxBytes \in Nat /\ cacheReady \in Int /\ cacheReserved \in Int
      /\ IsFiniteSet(originals)
  BY <1>1, ThumbnailAssumption, ThumbSetsFinite DEF ThumbTypes
<1>4. ReservedAddsUp' /\ Downloading' = Downloading
  BY <1>1, <1>2, ReservedSameAddsUp DEF Downloading
<1>5. Cardinality(originals) \in Nat
  BY <1>3, FS_CardinalityType
<1> PICK n \in Nat : n = Cardinality(originals)
  BY <1>5
<1> PICK total \in Int : total = SumFunctionOnSet(RenderedSize, Counted)
  <2>1. Counted \in SUBSET Renderings
    BY DEF Counted
  <2> QED BY <2>1, SumIsInt, ThumbSetsFinite
<1>6. cacheReady = total + OriginalSize * n /\ Counted' = Counted
  BY <1>1, <1>2, CountedStays DEF ReadyAddsUp
<1>7. CASE CacheOriginal(o)
  <2>1. /\ cacheReady' = cacheReady + OriginalSize /\ originals' = originals \union {o} /\ o \notin originals
        /\ cacheReady + cacheReserved + OriginalSize <= CacheMaxBytes
    BY <1>7 DEF CacheOriginal
  <2>2. Cardinality(originals') = n + 1
    BY <1>3, <2>1, FS_AddElement
  <2>3. OriginalSize * (n + 1) = OriginalSize * n + OriginalSize
    BY <1>3
  <2>4. ReadyAddsUp'
    BY <1>3, <1>6, <2>1, <2>2, <2>3 DEF ReadyAddsUp
  <2>5. /\ SumFunctionOnSet(Reserved, Downloading) \in Nat
        /\ SumFunctionOnSet(Reserved, Downloading) <= cacheReserved
    BY <1>1, DownloadsWithin DEF ReservedAddsUp
  <2>6. Reserved' = Reserved
    BY <1>2 DEF Reserved
  <2>7. DownloadsFit'
    BY <1>3, <1>4, <2>1, <2>5, <2>6 DEF DownloadsFit
  <2> QED BY <1>4, <2>4, <2>7, RoomPartsPrimed
<1>8. CASE EvictOriginal(o)
  <2>1. cacheReady' = cacheReady - OriginalSize /\ originals' = originals \ {o} /\ o \in originals
    BY <1>8 DEF EvictOriginal
  <2>2. Cardinality(originals') = n - 1
    BY <1>3, <2>1, FS_RemoveElement
  <2>3. OriginalSize * (n - 1) = OriginalSize * n - OriginalSize
    BY <1>3
  <2>4. ReadyAddsUp'
    BY <1>3, <1>6, <2>1, <2>2, <2>3 DEF ReadyAddsUp
  <2>5. DownloadsFit'
    BY <1>1, <1>2, <1>3, <1>4, <2>1, DownloadsSameFit
  <2> QED BY <1>4, <2>4, <2>5, RoomPartsPrimed
<1> QED BY <1>7, <1>8

LEMMA RoomWhileEvicting ==
  ASSUME ThumbInv, NEW c \in Renderings, EndEviction(c) PROVE RoomIsKept'
<1>1. ThumbTypes /\ ReadyAddsUp /\ ReservedAddsUp /\ DownloadsFit
  BY RoomParts DEF ThumbInv
<1>2. /\ c \in Counted /\ Counted' = Counted \ {c} /\ cacheReady' = cacheReady - RenderedSize[c]
      /\ UNCHANGED <<originals, cacheReserved>>
  BY EvictionEnded DEF EndEviction
<1>3. \A p \in Thumbs : thumb'[p].reserved = thumb[p].reserved
                        /\ (thumb'[p].state = "downloading" <=> thumb[p].state = "downloading")
  BY EvictionEnded
<1>4. Downloading' = Downloading
  BY <1>3 DEF Downloading
<1>5. RenderedSize[c] \in Nat /\ cacheReady \in Int
  BY <1>1, ThumbSetsFinite DEF ThumbTypes
<1>6. ReadyAddsUp'
  <2> PICK C \in SUBSET Renderings : C = Counted
    BY DEF Counted
  <2>1. IsFiniteSet(C) /\ (\A d \in C : RenderedSize[d] \in Int) /\ c \in C
    BY <1>2, ThumbSetsFinite
  <2>2. SumFunctionOnSet(RenderedSize, C \ {c}) = SumFunctionOnSet(RenderedSize, C) - RenderedSize[c]
    BY <2>1, SumRemove
  <2>3. SumFunctionOnSet(RenderedSize, C) \in Int
    BY <2>1, SumIsInt
  <2>4. OriginalSize * Cardinality(originals) \in Int
    BY <1>1, ThumbnailAssumption, FS_CardinalityType, ThumbSetsFinite DEF ThumbTypes
  <2> PICK n \in Int : n = OriginalSize * Cardinality(originals)
    BY <2>4
  <2>5. cacheReady = SumFunctionOnSet(RenderedSize, C) + n
    BY <1>1 DEF ReadyAddsUp
  <2>6. cacheReady' = SumFunctionOnSet(RenderedSize, Counted') + n
    BY <1>2, <1>5, <2>2, <2>3, <2>5
  <2> QED BY <1>2, <2>6 DEF ReadyAddsUp
<1>7. ReservedAddsUp'
  BY <1>1, <1>2, <1>3, ReservedSameAddsUp
<1>8. DownloadsFit'
  <2>1. cacheReady' \in Int /\ cacheReady' <= cacheReady
    BY <1>2, <1>5
  <2> QED BY <1>1, <1>3, <1>4, <2>1, DownloadsSameFit
<1> QED BY <1>6, <1>7, <1>8, RoomPartsPrimed

LEMMA RoomStays ==
  ASSUME ThumbInv, [ThumbnailNext]_thumbVars
  PROVE  RoomIsKept'
<1> ThumbTypes
  BY DEF ThumbInv
<1>1. CASE UNCHANGED thumbRows
  BY <1>1, RoomSame, CountedStays DEF thumbRows
<1>2. ASSUME NEW o \in Thumbs, DiscoverThumbnail(o) \/ RetryThumbnail(o) PROVE RoomIsKept'
  <2>1. UNCHANGED <<rendering, cacheReady, cacheReserved, originals>>
    BY <1>2 DEF DiscoverThumbnail, RetryThumbnail
  <2>2. Moves(o, Idle, "discovered") \/ Moves(o, Idle, "retry_wait")
    BY <1>2, RowOpened
  <2>3. \A p \in Thumbs : thumb'[p].reserved = thumb[p].reserved
                          /\ (thumb'[p].state = "downloading" <=> thumb[p].state = "downloading")
    BY <2>2 DEF Moves, Idle
  <2> QED BY <2>1, <2>3, RoomSame, CountedStays
<1>3. ASSUME NEW c \in Renderings, BeginEviction(c) \/ UndoEviction(c) PROVE RoomIsKept'
  <2>1. UNCHANGED <<thumb, cacheReady, cacheReserved, originals>> /\ Counted' = Counted
    BY <1>3 DEF BeginEviction, UndoEviction, Counted, ThumbTypes
  <2> QED BY <2>1, RoomSame
<1>4. ASSUME NEW c \in Renderings, UnlinkEvicted(c) PROVE RoomIsKept'
  BY <1>1, <1>4 DEF UnlinkEvicted
<1>5. CASE Elsewhere
  BY <1>1, <1>2, <1>3, <1>4, <1>5, RoomWhileOriginals, RoomWhileEvicting DEF Elsewhere, LoseThumbEvictor
<1>6. ASSUME NEW t \in MakerTokens, Filing(t) \/ Turning(t) \/ ThumbLeaseExpires(t) PROVE RoomIsKept'
  BY <1>1, <1>6, FilingLeaves, TurningLeaves DEF ThumbLeaseExpires
<1>8. ASSUME NEW t \in MakerTokens, Trimming(t) PROVE RoomIsKept'
  BY <1>1, <1>8, TrimmingLeaves
<1>7. ASSUME NEW t \in MakerTokens, Starting(t) PROVE RoomIsKept'
  <2>1. ASSUME NEW o \in Thumbs, BeginRecovery(t, o) PROVE UNCHANGED thumbRows
    BY <2>1 DEF BeginRecovery
  <2> QED BY <1>1, <1>7, <2>1, RoomWhileClaiming DEF Starting
<1> QED BY <1>1, <1>5, <1>6, <1>7, <1>8, RoomWhileBooking, ThumbStepsAre DEF thumbVars

-----------------------------------------------------------------------------
LEMMA ThumbInvInit == ThumbnailInit => ThumbInv
<1> SUFFICES ASSUME ThumbnailInit PROVE ThumbInv
  OBVIOUS
<1> USE DEF ThumbnailInit
<1>0. \A o \in Thumbs : thumb[o] = NoThumb
  OBVIOUS
<1>1. ThumbTypes
  <2>1. NoThumb \in ThumbRecords
    BY DEF NoThumb, ThumbRecords, ThumbStates
  <2> QED BY <2>1, AtRestFields DEF ThumbTypes
<1>2. Counted = {}
  BY DEF Counted
<1>3. RoomIsKept
  <2>1. \A S \in SUBSET Thumbs : SumFunctionOnSet(Reserved, S) = 0
    <3>1. \A o \in Thumbs : Reserved[o] = 0
      BY <1>0 DEF Reserved, NoThumb
    <3> QED BY <3>1, SumOfZeros, ThumbSetsFinite
  <2>2. SumFunctionOnSet(RenderedSize, Counted) = 0
    BY <1>2, SumOfNone
  <2>3. OriginalSize * Cardinality(originals) = 0
    BY FS_EmptySet, ThumbnailAssumption
  <2>4. Downloading \in SUBSET Thumbs
    BY DEF Downloading
  <2>5. ReadyAddsUp
    BY <2>2, <2>3 DEF ReadyAddsUp
  <2>6. ReservedAddsUp
    BY <2>1 DEF ReservedAddsUp
  <2>7. DownloadsFit
    BY <2>1, <2>4, ThumbnailAssumption DEF DownloadsFit
  <2> QED BY <2>5, <2>6, <2>7, RoomParts
<1>4. EvictingOK /\ LinksOK /\ UncountedAreStaged
  BY DEF EvictingOK, LinksOK, UncountedAreStaged
<1>5. \A o \in Thumbs : ThumbOK(o)
  BY <1>0, <1>2 DEF ThumbOK, ThumbLeased, NoThumb
<1>6. \A t \in MakerTokens : MakerOK(t)
  BY AtRestFields DEF MakerOK
<1>7. \A t \in MakerTokens : \A o \in Thumbs : TokenOK(t, o)
  BY <1>0, ThumbnailAssumption DEF TokenOK, NoThumb
<1> QED BY <1>1, <1>3, <1>4, <1>5, <1>6, <1>7 DEF ThumbInv

LEMMA ThumbInvNext == ThumbInv /\ [ThumbnailNext]_thumbVars => ThumbInv'
BY TypesStay, RoomStays, EvictionStays, FilesStay, RowsStay, TokensStay, MakersStay DEF ThumbInv, FilesOK

LEMMA ThumbInvImplies == ThumbInv => ThumbnailsAddUp
<1> SUFFICES ASSUME ThumbInv PROVE ThumbnailsAddUp
  OBVIOUS
<1>1. LeasesReserve
  BY DEF ThumbInv, ThumbOK, ThumbLeased, LeasesReserve
<1>2. ShownAreCounted
  BY DEF ThumbInv, ThumbOK, ShownAreCounted
<1> QED BY <1>1, <1>2 DEF ThumbInv, ThumbnailsAddUp

\* The counters of the cache are the sums they stand for, leases reserve, a thumbnail that is shown
\* is counted, and a file that is not counted is somebody's to take back, however many workers and
\* crashes there are, whichever thumbnails share their bytes, whatever late evictors unlink and
\* syncs fail
\* (PostgresMediaCacheThumbnailLedgerRepository, generateThumbnail, recoverThumbnailFilesystem).
THEOREM ThumbnailsHold == ThumbnailSpec => []ThumbnailsAddUp
<1>1. ThumbnailSpec => []ThumbInv
  BY ThumbInvInit, ThumbInvNext, PTL DEF ThumbnailSpec
<1> QED BY <1>1, ThumbInvImplies, PTL
=============================================================================
