--------------------------- MODULE ArchiveValidation ---------------------------
(***************************************************************************)
(* Reading a portable archive: the container reader and its entry policy,  *)
(* the manifest, the checksum list, the shards record by record, the blobs,*)
(* and the cross-record checks, all in one pass over a stream that is      *)
(* never held whole (validateTarZstdArchive), and the same checks over     *)
(* records handed in by a caller (validateArchiveModel).  A fatal fault    *)
(* ends the reading; an issue is noted and the reading goes on.            *)
(***************************************************************************)
EXTENDS PortableArchive

CONSTANTS
  Archives,  \* the containers that may be read
  NoManifest, NoList, NoEntry  \* nothing read yet; no entry open

\* What is read has the shape of a container, and is none of the markers.
ASSUME ArchivesAssumption ==
  \A a \in Archives :
    /\ IsContainer(a)
    /\ \A e \in ToSet(a) : e.el = "file" =>
         /\ NoEntry # Entry(e.path, e.body)
         /\ NoManifest # e.body
         /\ e.body.form = "checksums" => NoList # e.body.list

VARIABLES
  tar,       \* the container, a sequence of elements
  mode,      \* "tar", or "model" when records come from a caller
  pos,       \* the next element (tar), the next envelope (model)
  entry,     \* the entry whose body is being read
  line,      \* the next line of an open shard
  manifest,  \* once read and found valid
  listed,    \* the checksum list, once read
  payload,   \* the entries to come, in order, once the list is known
  evidence,  \* of the payload entries read: path, length, hash
  seen, size,\* the policy's collision keys and byte total
  acc,       \* what is known of the records so far
  verdict,   \* "reading", "clean", "partial" (issues) or "fatal"
  why        \* of a fatal verdict

reading == <<pos, entry, line, manifest, listed, payload, evidence, seen, size, acc>>
validationVars == <<tar, mode, reading, verdict, why>>

-----------------------------------------------------------------------------
(* The accumulator.  A map is a function on the keys it holds.             *)

EmptyAcc ==
  [channels |-> {}, messages |-> <<>>, revisions |-> <<>>, observations |-> {},
   sources |-> {}, originals |-> <<>>, lastOrder |-> <<>>, lastRevision |-> <<>>,
   lastMedia |-> <<>>, lastObserved |-> <<>>, file |-> 1, line |-> 0, records |-> 0,
   channelRows |-> 0, revisionRows |-> 0, mediaRows |-> 0, provenanceRows |-> 0,
   visible |-> 0, hidden |-> 0, issues |-> {}]

Put(map, key, value) ==
  [k \in DOMAIN map \cup {key} |-> IF k = key THEN value ELSE map[k]]
Get(map, key, default) == IF key \in DOMAIN map THEN map[key] ELSE default
When(condition, issue) == IF condition THEN {issue} ELSE {}

AcceptChannel(a, r) ==
  [a EXCEPT !.channels = @ \cup {r.chat},
            !.channelRows = @ + 1,
            !.issues = @ \cup When(r.chat \in a.channels, "duplicate_channel")]

AcceptMessage(a, r) ==
  [a EXCEPT !.messages = Put(@, MessageKey(r), r.current),
            !.visible = @ + (IF r.hidden THEN 0 ELSE 1),
            !.hidden = @ + (IF r.hidden THEN 1 ELSE 0),
            !.issues = @ \cup When(r.chat \notin a.channels, "dangling_message_channel")
                         \cup When(MessageKey(r) \in DOMAIN a.messages, "duplicate_message")]

\* Mutant: revisions need not start at one and follow each other.
AcceptRevisionAnyNumber(a, r) ==
  [a EXCEPT !.revisions = Put(@, RevisionKey(r), [content |-> r.content, text |-> r.text,
                                                  entities |-> r.entities, media |-> 0]),
            !.revisionRows = @ + 1,
            !.issues = @ \cup When(MessageKey(r) \notin DOMAIN a.messages, "dangling_revision_message")
                         \cup When(~r.fits, "entity_range_invalid")]

AcceptRevision(a, r) ==
  [a EXCEPT
    !.lastRevision = Put(@, MessageKey(r), r.rev),
    !.revisionRows = @ + 1,
    !.revisions = Put(@, RevisionKey(r),
                      [content |-> r.content, text |-> r.text, entities |-> r.entities, media |-> 0]),
    !.issues = @ \cup When(MessageKey(r) \notin DOMAIN a.messages, "dangling_revision_message")
                 \cup When(r.rev # Get(a.lastRevision, MessageKey(r), 0) + 1, "revision_sequence_invalid")
                 \cup When(RevisionKey(r) \in DOMAIN a.revisions, "duplicate_revision")
                 \cup When(~r.fits, "entity_range_invalid")]

\* The first sight of an original fixes what later references must repeat.
NoteOriginal(a, r, m) ==
  LET o == r.original
      known == Get(a.originals, o[1], [is |-> o, references |-> 0])
  IN [a EXCEPT
       !.originals = Put(@, o[1], [known EXCEPT !.references = @ + 1]),
       !.issues = @ \cup When(o[4] /\ ~r.available, "included_media_not_available")
                    \cup When(o[4] /\ ~m.media, "disabled_media_contains_blob")
                    \cup When(known.is # o, "blob_identity_conflict")]

\* A revision that is known has one more medium.
CountMedium(revisions, key) ==
  IF key \in DOMAIN revisions THEN [revisions EXCEPT ![key].media = @ + 1] ELSE revisions

AcceptRevisionMedia(a, r, m) ==
  LET key == RevisionKey(r)
      b == [a EXCEPT
             !.lastMedia = Put(@, key, r.pos),
             !.revisions = CountMedium(@, key),
             !.mediaRows = @ + 1,
             !.issues = @ \cup When(key \notin DOMAIN a.revisions, "dangling_revision_media")
                          \cup When(r.pos # Get(a.lastMedia, key, -1) + 1, "media_position_invalid")
                          \cup When(~r.located, "media_source_locator_invalid")]
  IN IF r.original = <<>> THEN b ELSE NoteOriginal(b, r, m)

\* Mutant: an observation that names no revision dangles.
EveryReferenceIssue(a, r, m) ==
  When(~m.provenance, "disabled_provenance_contains_records")
  \cup When(MessageKey(r) \notin DOMAIN a.messages, "dangling_provenance_message")
  \cup When(RevisionKey(r) \notin DOMAIN a.revisions, "dangling_provenance_revision")

ReferenceIssues(a, r, m) ==
  When(~m.provenance, "disabled_provenance_contains_records")
  \cup When(MessageKey(r) \notin DOMAIN a.messages, "dangling_provenance_message")
  \cup When(r.rev # 0 /\ RevisionKey(r) \notin DOMAIN a.revisions, "dangling_provenance_revision")

AcceptObservation(a, r, m) ==
  [a EXCEPT
    !.observations = @ \cup {ProvenanceKey(r)},
    !.sources = @ \cup {Identity(r.source)},
    !.provenanceRows = @ + 1,
    !.issues = @ \cup ReferenceIssues(a, r, m)
                 \cup When(ProvenanceKey(r) \in a.observations, "duplicate_provenance_observation")
                 \cup When(Identity(r.source) \in a.sources, "duplicate_provenance_source_identity")]

AcceptObserved(a, r, m) ==
  LET key == ProvenanceKey(r) IN
  [a EXCEPT
    !.lastObserved = Put(@, key, r.pos),
    !.provenanceRows = @ + 1,
    !.issues = @ \cup ReferenceIssues(a, r, m)
                 \cup When(key \notin a.observations, "dangling_provenance_media_observation")
                 \cup When(r.pos # Get(a.lastObserved, key, -1) + 1, "provenance_media_position_invalid")
                 \cup When(~r.located, "provenance_media_locator_invalid")]

\* A record out of its place in the manifest's plan ends the reading.
Placed(a, m, path, n) ==
  /\ a.records + 1 <= MaxRecords
  /\ path.kind = "data"
  /\ a.file <= Len(m.files)
  /\ m.files[a.file].path = path
  /\ n = a.line + 1

Accept(a, m, r) ==
  LET shard == m.files[a.file]
      last == a.line + 1 = shard.records
      b == [a EXCEPT !.records = @ + 1,
                     !.file = IF last THEN @ + 1 ELSE @,
                     !.line = IF last THEN 0 ELSE @ + 1]
      ordered == IF r.type \in DOMAIN a.lastOrder
                 THEN Less(a.lastOrder[r.type], OrderParts(r)) ELSE TRUE
      c == [b EXCEPT !.lastOrder = Put(@, r.type, OrderParts(r)),
                     !.issues = @ \cup When(~ordered, "record_order_or_identity_invalid")]
  IN IF ~RecordValid(shard.family, r)
     THEN [b EXCEPT !.issues = @ \cup {"record_schema_invalid"}]
     ELSE CASE r.type = "channel" -> AcceptChannel(c, r)
            [] r.type = "message" -> AcceptMessage(c, r)
            [] r.type = "revision" -> AcceptRevision(c, r)
            [] r.type = "revision-media" -> AcceptRevisionMedia(c, r, m)
            [] r.type = "provenance-observation" -> AcceptObservation(c, r, m)
            [] r.type = "provenance-media" -> AcceptObserved(c, r, m)

-----------------------------------------------------------------------------
(* After the last record *)

PathsOf(es) == {es[i].path : i \in DOMAIN es}

EntryIssues(m, list, es) ==
  LET planned == PathsOf(m.files)
      sorted == ByPath(ToSet(list))
      blobs == ByPath({c \in ToSet(list) : c.path \notin planned})
      expected == [i \in DOMAIN m.files |-> m.files[i].path] \o [i \in DOMAIN blobs |-> blobs[i].path]
      misfit(e) == \E f \in ToSet(m.files) : f.path = e.path /\ f.bytes # e.bytes
      stray(e) == /\ e.path \notin planned
                  /\ e.path # BlobPath(e.hash)
  IN When(list # sorted, "checksum_order_mismatch")
     \cup When(m.checksums.list # sorted, "checksum_file_descriptor_mismatch")
     \cup When(PathsOf(list) # PathsOf(es), "checksum_inventory_mismatch")
     \cup When([i \in DOMAIN es |-> es[i].path] # expected, "entry_order_mismatch")
     \cup When(~(ToSet(es) \subseteq ToSet(list)), "entry_checksum_mismatch")
     \cup When(\E e \in ToSet(es) : misfit(e), "shard_length_mismatch")
     \cup When(\E e \in ToSet(es) : stray(e), "invalid_blob_entry")

RevisionIssues(a) ==
  LET all == {a.revisions[k] : k \in DOMAIN a.revisions} IN
  When(\E k \in DOMAIN a.messages : Append(k, a.messages[k]) \notin DOMAIN a.revisions,
       "dangling_current_revision")
  \cup When(\E r \in all : r.content = "text" /\ (~r.text \/ r.media # 0), "text_revision_invalid")
  \cup When(\E r \in all : r.content = "caption" /\ (~r.text \/ r.media = 0),
            "caption_revision_invalid")
  \cup When(\E r \in all : r.content = "none" /\ (r.text \/ r.entities \/ r.media = 0),
            "media_only_revision_invalid")

MediaIssues(a, m, es) ==
  LET blobs == {i \in DOMAIN es : es[i].path.kind = "blob"}
      Held(h) == {i \in blobs : es[i].path.hash = h}
      hashes == DOMAIN a.originals
      in == {h \in hashes : a.originals[h].is[4]}
      out == hashes \ in
      present == Total([h \in in |-> a.originals[h].references])
  IN When(\E h \in in : Held(h) = {} \/ \E i \in Held(h) : es[i].bytes # a.originals[h].is[2],
          "included_blob_missing_or_length_mismatch")
     \cup When(\E h \in out : Held(h) # {}, "excluded_blob_present")
     \cup When(\E i \in blobs : es[i].path.hash \notin hashes, "orphan_blob")
     \cup When(m.blobs # Cardinality(blobs), "blob_count_mismatch")
     \cup When(m.bytes.blobs # Total([i \in blobs |-> es[i].bytes]), "blob_bytes_mismatch")
     \cup When(m.missing # [references |-> a.mediaRows - present, objects |-> Cardinality(out),
                            bytes |-> Total([h \in out |-> a.originals[h].is[2]])],
               "missing_media_summary_mismatch")

CountIssues(a, m) ==
  LET observations == Cardinality(a.observations)
      actual == [channel |-> a.channelRows, message |-> a.visible + a.hidden,
                 revision |-> a.revisionRows] IN
  When(m.selection # <<>> /\ m.selection # Ascending(a.channels),
       "selection_mismatch")
  \cup When(\/ \E f \in DOMAIN actual : m.counts[f] # actual[f]
            \/ m.counts["revision-media"] # a.mediaRows
            \/ m.counts["provenance-observation"] # observations
            \/ m.counts["provenance-media"] # a.provenanceRows - observations,
            "manifest_record_count_mismatch")
  \cup When(m.visible # a.visible \/ m.hidden # a.hidden, "manifest_visibility_count_mismatch")

FinishIssues(a, m, list, es) ==
  a.issues \cup EntryIssues(m, list, es) \cup RevisionIssues(a) \cup MediaIssues(a, m, es)
  \cup CountIssues(a, m)
  \cup When(a.file # Len(m.files) + 1 \/ a.line # 0, "record_envelope_mismatch")

-----------------------------------------------------------------------------
(* The control entries *)

Repeats(list) ==
  \E i, j \in DOMAIN list : i # j /\ CollisionKey(list[i].path) = CollisionKey(list[j].path)

\* A list is refused for a path it has twice, or a length beyond the limit.
ListUnsound(list) ==
  \/ Repeats(list)
  \/ \E i \in DOMAIN list : list[i].bytes > MaxEntryBytes \/ ~Canonical(list[i].path)
  \/ Len(list) > MaxEntries

\* Parsing also demands the order of paths.
ListUnreadable(list) ==
  \/ ListUnsound(list)
  \/ \E i \in 2..Len(list) : ~PathLess(list[i - 1].path, list[i].path)

\* The list and the manifest plan the same entries.
Unplanned(m, list) ==
  \/ {ManifestPath, ChecksumPath} \cap PathsOf(list) # {}
  \/ \E f \in ToSet(m.files) : \A c \in ToSet(list) : c.path # f.path \/ c.bytes # f.bytes
  \/ \E c \in ToSet(list) : c.path \notin PathsOf(m.files) /\ c.path # BlobPath(c.hash)
  \/ Cardinality(PathsOf(m.files)) # Len(m.files)

\* The entries to come: shards as in the manifest, then blobs by name.
PayloadOf(m, list) ==
  [i \in DOMAIN m.files |->
    LET c == CHOOSE c \in ToSet(list) : c.path = m.files[i].path
    IN [path |-> c.path, bytes |-> c.bytes, hash |-> c.hash, records |-> m.files[i].records]]
  \o ByPath({c \in ToSet(list) : c.path \notin PathsOf(m.files)})

ManifestReadable(body) ==
  /\ body.form = "manifest"
  /\ Supported(body)
  /\ ManifestValid(body)

RecordCount(m) == Total([i \in DOMAIN FamilyOrder |-> m.counts[FamilyOrder[i]]])

-----------------------------------------------------------------------------
ValidationInit ==
  /\ tar \in Archives
  /\ mode \in {"tar", "model"}
  /\ mode = "model" => \* a caller has a manifest and a list, and no container
       LET files == Files(tar) IN
       /\ Framed(tar) /\ Len(files) >= 2
       /\ [i \in 1..2 |-> files[i].path] = <<ManifestPath, ChecksumPath>>
       /\ files[1].body.form = "manifest" /\ files[1].body.canonical
       /\ files[2].body.form = "checksums"
       /\ \A i \in DOMAIN files : Canonical(files[i].path)
       /\ \A i \in 3..Len(files) : files[i].path.kind = "data" => files[i].body.form = "lines"
  /\ pos = 1 /\ entry = NoEntry /\ line = 1
  /\ manifest = NoManifest /\ listed = NoList /\ payload = <<>> /\ evidence = <<>>
  /\ seen = {} /\ size = 0 /\ acc = EmptyAcc
  /\ verdict = "reading" /\ why = ""

Fail(reason) ==
  /\ verdict' = "fatal"
  /\ why' = reason
  /\ UNCHANGED <<tar, mode, reading>>

Conclude(issues) ==
  /\ acc' = [acc EXCEPT !.issues = issues]
  /\ verdict' = IF issues = {} THEN "clean" ELSE "partial"
  /\ UNCHANGED <<tar, mode, pos, entry, line, manifest, listed, payload, evidence, seen, size, why>>

Active(m) == verdict = "reading" /\ mode = m

\* What the boundary check refuses: another type of entry, padding that is not
\* zero, an entry after a zero block, anything after the second, their absence.
HeaderMalformed(i) ==
  /\ tar[i].el = "file"
  /\ \/ tar[i].type # "file"
     \/ i > 1 /\ tar[i - 1].el = "zero"

Malformed(i) ==
  \/ HeaderMalformed(i)
  \/ tar[i].el = "file" /\ ~tar[i].padded
  \/ i > 2 /\ tar[i - 1].el = "zero" /\ tar[i - 2].el = "zero"
  \/ i = Len(tar) /\ (tar[i].el # "zero" \/ i = 1 \/ tar[i - 1].el # "zero")

\* The boundary check runs ahead of the entries by as much as streams buffer.
FramingFails ==
  /\ Active("tar")
  /\ \E i \in DOMAIN tar : Malformed(i)
  /\ Fail("invalid")

Expected ==
  IF manifest = NoManifest THEN ManifestPath
  ELSE IF listed = NoList THEN ChecksumPath
  ELSE IF Len(evidence) < Len(payload) THEN payload[Len(evidence) + 1].path
  ELSE NoEntry

EntryRefused(path, bytes) ==
  \/ ~Canonical(path)
  \/ CollisionKey(path) \in seen
  \/ path # Expected
  \/ Cardinality(seen) + 1 > MaxEntries
  \/ bytes > MaxEntryBytes
  \/ size + bytes > MaxTotalBytes

OpenEntry ==
  /\ Active("tar") /\ entry = NoEntry
  /\ pos <= Len(tar) /\ tar[pos].el = "file" /\ ~HeaderMalformed(pos)
  /\ pos > 1 => tar[pos - 1].padded
  /\ LET e == tar[pos] IN
     \/ /\ EntryRefused(e.path, Bytes(e.body))
        /\ Fail("invalid")
     \/ /\ ~EntryRefused(e.path, Bytes(e.body))
        /\ entry' = Entry(e.path, e.body)
        /\ line' = 1
        /\ seen' = seen \cup {CollisionKey(e.path)}
        /\ size' = size + Bytes(e.body)
        /\ UNCHANGED <<tar, mode, pos, manifest, listed, payload, evidence, acc, verdict, why>>

CloseEntry == pos' = pos + 1 /\ entry' = NoEntry

Open(kind) == Active("tar") /\ entry # NoEntry /\ entry.path.kind = kind

ReadManifest ==
  /\ Open("manifest")
  /\ LET m == entry.body IN
     \/ /\ ~(ManifestReadable(m) /\ m.canonical)
        /\ Fail("invalid")
     \/ /\ ManifestReadable(m) /\ m.canonical
        /\ RecordCount(m) > MaxRecords
        /\ Fail("limit")
     \/ /\ ManifestReadable(m) /\ m.canonical
        /\ RecordCount(m) <= MaxRecords
        /\ manifest' = m
        /\ CloseEntry
        /\ UNCHANGED <<tar, mode, line, listed, payload, evidence, seen, size, acc, verdict, why>>

ReadChecksums ==
  /\ Open("checksums")
  /\ LET list == entry.body
         refused == list # manifest.checksums \/ ListUnreadable(list.list)
                    \/ Unplanned(manifest, list.list)
     IN \/ refused /\ Fail("invalid")
        \/ /\ ~refused
           /\ listed' = list.list
           /\ payload' = PayloadOf(manifest, list.list)
           /\ CloseEntry
           /\ UNCHANGED <<tar, mode, line, manifest, evidence, seen, size, acc, verdict, why>>

Planned == payload[Len(evidence) + 1]

Lengthy(e) == Bytes(e.body) # Planned.bytes

\* One line of a shard: not a record, one too many, out of place, or taken in.
ReadLine ==
  /\ Open("data")
  /\ LET b == entry.body IN
     \/ /\ Lengthy(entry) \/ b.form # "lines"
        /\ Fail("invalid")
     \/ /\ ~Lengthy(entry) /\ b.form = "lines" /\ line <= Len(b.lines)
        /\ LET r == b.lines[line]
               refused == "type" \notin DOMAIN r \/ line > Planned.records
                          \/ ~Placed(acc, manifest, entry.path, line)
           IN \/ refused /\ Fail("invalid")
              \/ /\ ~refused
                 /\ acc' = Accept(acc, manifest, r)
                 /\ line' = line + 1
                 /\ UNCHANGED <<tar, mode, pos, entry, manifest, listed, payload, evidence, seen,
                                size, verdict, why>>

TakeEvidence ==
  /\ evidence' = Append(evidence, ChecksumOf(entry))
  /\ CloseEntry
  /\ UNCHANGED <<tar, mode, line, manifest, listed, payload, seen, size, acc, verdict, why>>

CloseShard ==
  /\ Open("data")
  /\ entry.body.form = "lines" /\ ~Lengthy(entry) /\ line > Len(entry.body.lines)
  /\ LET refused == line - 1 # Planned.records \/ Hash(entry.body) # Planned.hash
     IN \/ refused /\ Fail("invalid")
        \/ ~refused /\ TakeEvidence

ReadBlob ==
  /\ Open("blob")
  /\ LET refused == Lengthy(entry) \/ Hash(entry.body) # Planned.hash
     IN \/ refused /\ Fail("invalid")
        \/ ~refused /\ TakeEvidence

\* The container has ended well: everything announced must have come.
EndOfContainer ==
  /\ Active("tar") /\ entry = NoEntry
  /\ pos <= Len(tar) /\ tar[pos].el = "zero" /\ \A i \in DOMAIN tar : ~Malformed(i)
  /\ LET missing == manifest = NoManifest \/ listed = NoList \/ Len(evidence) # Len(payload)
     IN \/ missing /\ Fail("invalid")
        \/ ~missing /\ Conclude(FinishIssues(acc, manifest, listed, evidence))

-----------------------------------------------------------------------------
(* Records handed in by a caller, with what the caller says of the entries *)
(* it made of them.  Here it says it of the very entries the records are   *)
(* in.  Nothing in the code ties the two: a clean verdict on records is    *)
(* worth as much as the caller's word, and so is what is proved of it.     *)

PayloadEntries == SubSeq(Files(tar), 3, Len(Files(tar)))

\* The lines of all shards, shard by shard.
Envelopes ==
  LET shards == {i \in DOMAIN PayloadEntries : PayloadEntries[i].path.kind = "data"}
      places == UNION {{<<i, n>> : n \in DOMAIN PayloadEntries[i].body.lines} : i \in shards}
      order == Arrange(places, [p \in places |-> p])
  IN [k \in DOMAIN order |->
       LET e == PayloadEntries[order[k][1]]
       IN [path |-> e.path, line |-> order[k][2], record |-> e.body.lines[order[k][2]]]]

OpenModel ==
  /\ Active("model") /\ manifest = NoManifest
  /\ LET m == Files(tar)[1].body
         list == Files(tar)[2].body.list
         admitted == /\ ManifestReadable(m)
                     /\ Len(PayloadEntries) <= MaxEntries - 2 /\ Len(list) <= MaxEntries - 2
     IN
     \/ /\ ~admitted
        /\ Fail("invalid")
     \/ /\ admitted /\ RecordCount(m) > MaxRecords
        /\ Fail("limit")
     \/ /\ admitted /\ RecordCount(m) <= MaxRecords
        /\ manifest' = m
        /\ UNCHANGED <<tar, mode, pos, entry, line, listed, payload, evidence, seen, size, acc,
                       verdict, why>>

NextRecord ==
  /\ Active("model") /\ manifest # NoManifest /\ pos <= Len(Envelopes)
  /\ LET e == Envelopes[pos] IN
     \/ /\ ~Placed(acc, manifest, e.path, e.line)
        /\ Fail("invalid")
     \/ /\ Placed(acc, manifest, e.path, e.line)
        /\ acc' = Accept(acc, manifest, IF "type" \in DOMAIN e.record THEN e.record
                                        ELSE [type |-> "none"])
        /\ pos' = pos + 1
        /\ UNCHANGED <<tar, mode, entry, line, manifest, listed, payload, evidence, seen, size,
                       verdict, why>>

FinishModel ==
  /\ Active("model") /\ manifest # NoManifest /\ pos > Len(Envelopes)
  /\ LET list == Files(tar)[2].body.list
         found == [i \in DOMAIN PayloadEntries |-> ChecksumOf(PayloadEntries[i])]
         refused == ListUnsound(list) \/ Repeats(found)
     IN \/ refused /\ Fail("invalid")
        \/ ~refused /\ Conclude(FinishIssues(acc, manifest, list, found))

\* The caller gives up, or nothing has come for as long as the reader waits.
Interrupt ==
  /\ verdict = "reading"
  /\ Fail("interrupted")

ValidationNext ==
  \/ FramingFails \/ OpenEntry \/ ReadManifest \/ ReadChecksums \/ ReadLine \/ CloseShard
  \/ ReadBlob \/ EndOfContainer \/ OpenModel \/ NextRecord \/ FinishModel \/ Interrupt

ValidationSpec == ValidationInit /\ [][ValidationNext]_validationVars

-----------------------------------------------------------------------------
(* Properties *)

\* Nothing is called clean that is not, entry for entry and record for record,
\* the archive of the records in it: checks that look at one record, one entry
\* and a few running maps add up to the whole (validator.ts, finish and onEntry;
\* docs/goals/G2.8.1-archive-format-v1.md:15).
CleanIsCoherent == verdict = "clean" => Coherent(tar)

\* The reader takes what the format's writer makes: unless it is interrupted or
\* a limit is passed, only an incoherent archive is refused or found at fault.
CoherentIsClean ==
  verdict \in {"partial", "fatal"} /\ why # "interrupted" /\ Coherent(tar) => ~WithinLimits(tar)
=============================================================================
