---------------------------- MODULE PortableArchive ----------------------------
(***************************************************************************)
(* The portable archive format (packages/archive-format): a USTAR stream   *)
(* of a manifest, a checksum list, record shards in a fixed family order   *)
(* and content-addressed blobs.  This module holds the format's pure       *)
(* definitions: the order of records and paths, the schemas that relate    *)
(* fields to each other, the writer's sharding, listing and packing, and,  *)
(* at the end, what a coherent archive is.  ArchiveValidation reads one.   *)
(*                                                                         *)
(* A hash is the content itself (no two contents share one); the length of *)
(* a record line is one unit.  A blob is named by its hash, which is a     *)
(* value of Blobs.  Chats, messages, revisions and positions are numbers;  *)
(* revision 0 stands for "none" in provenance records.                     *)
(***************************************************************************)
EXTENDS Integers, Sequences, SequencesExt, FiniteSets, FiniteSetsExt

CONSTANTS
  BlobBytes,       \* the length of each blob: a function on the hashes
  MaxShardRecords, MaxShardBytes, \* what a shard may hold
  MaxRecords,      \* records an archive may hold
  MaxEntries,      \* entries of the container
  MaxEntryBytes, MaxTotalBytes \* of one entry, of all entries

ASSUME FormatAssumption ==
  /\ BlobBytes \in [DOMAIN BlobBytes -> Nat] /\ IsFiniteSet(DOMAIN BlobBytes)
  /\ {MaxShardRecords, MaxShardBytes, MaxRecords, MaxEntries} \subseteq Nat \ {0}
  /\ {MaxEntryBytes, MaxTotalBytes} \subseteq Nat \ {0}
  /\ MaxEntryBytes <= MaxTotalBytes

FamilyOrder == <<"channel", "message", "revision", "revision-media",
                 "provenance-observation", "provenance-media">>

FamilyIndex(f) == CHOOSE i \in DOMAIN FamilyOrder : FamilyOrder[i] = f

Families == ToSet(FamilyOrder)
Provenance == {"provenance-observation", "provenance-media"}

-----------------------------------------------------------------------------
(* Order *)

\* a < b, part by part
Less(a, b) ==
  \E i \in 1..Len(a) : a[i] < b[i] /\ \A j \in 1..(i - 1) : a[j] = b[j]

\* The elements of S by the order of their keys, those of one key in any order: fewer than i
\* come before the i-th, at least i do not come after it.
Arrange(S, key) ==
  LET Before(x) == {y \in S : Less(key[y], key[x])}
      After(x) == {y \in S : Less(key[x], key[y])}
      Place(i) == CHOOSE x \in S : Cardinality(Before(x)) < i /\ i <= Cardinality(S \ After(x))
  IN [i \in 1..Cardinality(S) |->
       LET x == Place(i)
       IN SetToSeq({y \in S : key[y] = key[x]})[i - Cardinality(Before(x))]]

Ascending(S) == Arrange(S, [n \in S |-> <<n>>])

\* The elements of s at the places in I, in their order.
At(s, I) ==
  LET order == Ascending(I)
  IN [i \in DOMAIN order |-> s[order[i]]]

\* A source is <<0, update, type>> (Bot API) or <<1, item of an export, 0>>.
Identity(source) == <<source[1], source[2]>>

MessageKey(r) == <<r.chat, r.msg>>
RevisionKey(r) == <<r.chat, r.msg, r.rev>>
ProvenanceKey(r) == <<r.chat, r.msg, r.rev, r.source[1], r.source[2], r.source[3]>>

OrderParts(r) ==
  CASE r.type = "channel" -> <<r.chat>>
    [] r.type = "message" -> <<r.chat, r.msg>>
    [] r.type = "revision" -> <<r.chat, r.msg, r.rev>>
    [] r.type = "revision-media" -> <<r.chat, r.msg, r.rev, r.pos>>
    [] r.type = "provenance-observation" -> ProvenanceKey(r)
    [] r.type = "provenance-media" -> Append(ProvenanceKey(r), r.pos)

-----------------------------------------------------------------------------
(* Paths.  A foreign path is canonical and outside the layout; of two      *)
(* foreign paths that differ in case one is upper; an unsafe path is one   *)
(* the canonical form refuses.                                             *)

ManifestPath == [kind |-> "manifest"]
ChecksumPath == [kind |-> "checksums"]
ShardPath(f, i) == [kind |-> "data", family |-> f, shard |-> i]
BlobPath(h) == [kind |-> "blob", hash |-> h]
ForeignPath(upper) == [kind |-> "foreign", upper |-> upper]
UnsafePath == [kind |-> "unsafe"]

Canonical(path) == path.kind # "unsafe"

CollisionKey(path) == IF path.kind = "foreign" THEN ForeignPath(FALSE) ELSE path

\* The families in the order of their names in a path.
PathNames == <<"channel", "message", "provenance-media", "provenance-observation",
               "revision-media", "revision">>

BlobNames == SetToSeq(DOMAIN BlobBytes)

PathParts(path) ==
  CASE path.kind = "blob" -> <<0, CHOOSE i \in DOMAIN BlobNames : BlobNames[i] = path.hash, 0>>
    [] path.kind = "data" -> <<1, CHOOSE i \in DOMAIN PathNames :
                                    PathNames[i] = path.family, path.shard>>
    [] OTHER -> <<2, 0, 0>>

PathLess(p, q) == Less(PathParts(p), PathParts(q))

-----------------------------------------------------------------------------
(* Contents: what an entry of the container holds.                         *)

Lines(ls) == [form |-> "lines", lines |-> ls]
Blob(h) == [form |-> "blob", hash |-> h]

Bytes(body) ==
  CASE body.form = "manifest" -> 1
    [] body.form = "checksums" -> Len(body.list)
    [] body.form = "lines" -> Len(body.lines)
    [] body.form = "blob" -> BlobBytes[body.hash]

Hash(body) == IF body.form = "blob" THEN body.hash ELSE body

Entry(path, body) == [path |-> path, body |-> body]

Total(ns) == SumFunction(ns)

-----------------------------------------------------------------------------
(* Writing *)

\* Consecutive shards of a family: sizes[i] records in the i-th.
Shards(f, records, sizes) ==
  LET start == [i \in DOMAIN sizes |-> SumFunctionOnSet(sizes, 1..(i - 1))]
  IN [i \in DOMAIN sizes |->
       Entry(ShardPath(f, i - 1), Lines(SubSeq(records, start[i] + 1, start[i] + sizes[i])))]

\* How the encoder cuts n records, of one unit each: full shards, then the rest.
ShardSizes(n) ==
  LET full == IF MaxShardBytes < MaxShardRecords THEN MaxShardBytes ELSE MaxShardRecords
  IN [i \in 1..((n + full - 1) \div full) |-> IF i * full <= n THEN full ELSE n % full]

ChecksumOf(entry) ==
  [path |-> entry.path, bytes |-> Bytes(entry.body), hash |-> Hash(entry.body)]

ByPath(list) == Arrange(list, [c \in list |-> PathParts(c.path)])

RenderChecksums(entries) == ByPath({ChecksumOf(entries[i]) : i \in DOMAIN entries})

File(entry) == [el |-> "file", type |-> "file", padded |-> TRUE,
                path |-> entry.path, body |-> entry.body]
Zero == [el |-> "zero"]

\* The container: each entry's header, body and padding, and two zero blocks.
Pack(entries) ==
  [i \in 1..(Len(entries) + 2) |-> IF i <= Len(entries) THEN File(entries[i]) ELSE Zero]

-----------------------------------------------------------------------------
(* What a container may hold, as far as parsing has a shape for it: a line *)
(* is a record of one of the families or none at all.                      *)

Hashes == DOMAIN BlobBytes

Sources == (0..1) \X Int \X Int
OriginalsOf == {<<>>} \cup (Hashes \X Nat \X Int \X BOOLEAN)

Records ==
  [type : {"channel"}, chat : Int]
  \cup [type : {"message"}, chat : Int, msg : Int, current : Int, hidden : BOOLEAN,
        changed : BOOLEAN]
  \cup [type : {"revision"}, chat : Int, msg : Int, rev : Int, content : {"text", "caption", "none"},
        text : BOOLEAN, entities : BOOLEAN, fits : BOOLEAN]
  \cup [type : {"revision-media"}, chat : Int, msg : Int, rev : Int, pos : Int,
        original : OriginalsOf, available : BOOLEAN, located : BOOLEAN]
  \cup [type : {"provenance-observation"}, chat : Int, msg : Int, rev : Int, source : Sources]
  \cup [type : {"provenance-media"}, chat : Int, msg : Int, rev : Int, source : Sources, pos : Int,
        located : BOOLEAN]

Paths ==
  {ManifestPath, ChecksumPath, UnsafePath} \cup {ForeignPath(b) : b \in BOOLEAN}
  \cup [kind : {"data"}, family : Families, shard : Nat] \cup [kind : {"blob"}, hash : Hashes]

IsList(body) ==
  /\ "list" \in DOMAIN body /\ body \in [form : {"checksums"}, list : {body.list}]
  /\ \A c \in ToSet(body.list) : c \in [path : Paths, bytes : Nat, hash : {c.hash}]

IsManifest(body) ==
  /\ "checksums" \in DOMAIN body /\ IsList(body.checksums)
  /\ body \in [form : {"manifest"}, format : Nat, schema : Nat, timely : BOOLEAN, canonical : BOOLEAN,
       media : BOOLEAN, provenance : BOOLEAN, selection : Seq(Int), counts : [Families -> Nat],
       visible : Nat, hidden : Nat, blobs : Nat,
       files : Seq([path : Paths, family : Families, shard : Nat, records : Nat, bytes : Nat]),
       bytes : [data : Nat, provenance : Nat, blobs : Nat, total : Nat],
       missing : [references : Nat, objects : Nat, bytes : Nat], checksums : {body.checksums}]

\* A body that is not a blob's has no content in common with a blob.
IsBody(body) ==
  \/ body \in [form : {"blob"}, hash : Hashes]
  \/ /\ IsManifest(body) \/ IsList(body)
        \/ body \in [form : {"lines"}, lines : Seq(Records \cup [bad : STRING])]
     /\ body \notin Hashes

IsElement(e) ==
  \/ e = Zero
  \/ e \in [el : {"file"}, type : STRING, padded : BOOLEAN, path : Paths, body : {e.body}] /\ IsBody(e.body)

IsContainer(tar) == tar \in Seq(ToSet(tar)) /\ \A e \in ToSet(tar) : IsElement(e)

-----------------------------------------------------------------------------
(* Schemas *)

\* One record: it is of the family its shard says, and hidden messages (only
\* they) say since when.
RecordValid(f, r) ==
  /\ r.type = f
  /\ r.type = "message" => (r.hidden <=> r.changed)

CountOf(m, f) == m.counts[f]

\* The manifest: its parts agree with each other.
ManifestValid(m) ==
  LET files == m.files
      Of(fs) == {i \in DOMAIN files : files[i].family \in fs}
      Size(fs) == Total([i \in Of(fs) |-> files[i].bytes])
  IN /\ m.timely
     /\ m.visible + m.hidden = m.counts["message"]
     /\ m.bytes.data + m.bytes.provenance + m.bytes.blobs = m.bytes.total
     /\ \A i \in DOMAIN files :
          /\ files[i].records \in 1..MaxShardRecords
          /\ files[i].bytes > 0 /\ files[i].bytes <= MaxShardBytes
          /\ files[i].path = ShardPath(files[i].family, files[i].shard)
          /\ files[i].shard = Cardinality({j \in 1..(i - 1) : files[j].family = files[i].family})
          /\ i > 1 =>
               \/ FamilyIndex(files[i - 1].family) < FamilyIndex(files[i].family)
               \/ files[i - 1].family = files[i].family /\ PathLess(files[i - 1].path, files[i].path)
     /\ \A f \in Families : CountOf(m, f) = Total([i \in Of({f}) |-> files[i].records])
     /\ m.bytes.data = Size(Families \ Provenance)
     /\ m.bytes.provenance = Size(Provenance)
     /\ ~m.provenance => \A f \in Provenance : CountOf(m, f) = 0
     /\ ~m.media => m.blobs = 0 /\ m.bytes.blobs = 0
     /\ m.missing.objects <= m.missing.references
     /\ m.missing.objects = 0 => m.missing.bytes = 0
     /\ m.selection # <<>> =>
          \A i \in 1..(Len(m.selection) - 1) : m.selection[i] < m.selection[i + 1]

\* Formats of another version are refused before the schema is looked at.
Supported(m) == m.format = 1 /\ m.schema = 1

-----------------------------------------------------------------------------
(* The reference: a sound set of records, and the archive that is written  *)
(* for it.                                                                 *)

OfType(S, f) == {r \in S : r.type = f}

Originals(S) == {r \in OfType(S, "revision-media") : r.original # <<>>}

\* An original is <<hash, bytes, MIME type, included>>.
Included(S) == {r \in Originals(S) : r.original[4]}

Sound(S, media, provenance) ==
  LET channels == OfType(S, "channel")
      messages == OfType(S, "message")
      revisions == OfType(S, "revision")
      attached == OfType(S, "revision-media")
      observations == OfType(S, "provenance-observation")
      observed == OfType(S, "provenance-media")
  IN /\ \A r, s \in S : r.type = s.type /\ OrderParts(r) = OrderParts(s) => r = s
     /\ \A m \in messages :
          /\ \E c \in channels : c.chat = m.chat
          /\ \E r \in revisions : MessageKey(r) = MessageKey(m) /\ r.rev = m.current
          /\ m.hidden <=> m.changed
     /\ \A r \in revisions :
          LET own == {a \in attached : RevisionKey(a) = RevisionKey(r)} IN
          /\ \E m \in messages : MessageKey(m) = MessageKey(r)
          /\ r.rev \in 1..Cardinality({x \in revisions : MessageKey(x) = MessageKey(r)})
          /\ r.fits
          /\ r.content = "text" => r.text /\ own = {}
          /\ r.content = "caption" => r.text /\ own # {}
          /\ r.content = "none" => ~r.text /\ ~r.entities /\ own # {}
     /\ \A a \in attached :
          /\ \E r \in revisions : RevisionKey(r) = RevisionKey(a)
          /\ a.pos \in 0..(Cardinality({b \in attached : RevisionKey(b) = RevisionKey(a)}) - 1)
          /\ a.located
     /\ \A a \in Originals(S) :
          /\ \A b \in Originals(S) : a.original[1] = b.original[1] => a.original = b.original
          /\ a.original[4] => media /\ a.available /\ a.original[2] = BlobBytes[a.original[1]]
     /\ \A o \in observations \cup observed :
          /\ provenance
          /\ \E m \in messages : MessageKey(m) = MessageKey(o)
          /\ o.rev # 0 => \E r \in revisions : RevisionKey(r) = RevisionKey(o)
     /\ \A o, p \in observations : Identity(o.source) = Identity(p.source) => o = p
     /\ \A a \in observed :
          /\ \E o \in observations : ProvenanceKey(o) = ProvenanceKey(a)
          /\ a.pos \in 0..(Cardinality({b \in observed : ProvenanceKey(b) = ProvenanceKey(a)}) - 1)
          /\ a.located

Ordered(S, f) == Arrange(OfType(S, f), [r \in OfType(S, f) |-> OrderParts(r)])

\* The entries after the checksum list: shards by family, then blobs by name.
PayloadParts(entry) ==
  IF entry.path.kind = "data"
  THEN <<0, FamilyIndex(entry.path.family), entry.path.shard>>
  ELSE <<1, PathParts(entry.path)[2], 0>>

Payload(S, sizes) ==
  LET shards == UNION {ToSet(Shards(f, Ordered(S, f), sizes[f])) : f \in Families}
      blobs == {Entry(BlobPath(r.original[1]), Blob(r.original[1])) : r \in Included(S)}
  IN Arrange(shards \cup blobs, [e \in shards \cup blobs |-> PayloadParts(e)])

\* What the exporter is to say of its records.
ManifestFor(S, payload, media, provenance, selection) ==
  LET Shard(fs) == {i \in DOMAIN payload : payload[i].path.kind = "data" /\ payload[i].path.family \in fs}
      Size(I) == Total([i \in I |-> Bytes(payload[i].body)])
      shards == At(payload, Shard(Families))
      blobs == DOMAIN payload \ Shard(Families)
      data == Size(Shard(Families \ Provenance))
      absent == Originals(S) \ Included(S)
      hashes == {r.original[1] : r \in absent}
      length == [h \in hashes |-> (CHOOSE r \in absent : r.original[1] = h).original[2]]
  IN [form |-> "manifest", format |-> 1, schema |-> 1, timely |-> TRUE, canonical |-> TRUE,
      media |-> media, provenance |-> provenance, selection |-> selection,
      counts |-> [f \in Families |-> Cardinality(OfType(S, f))],
      visible |-> Cardinality({m \in OfType(S, "message") : ~m.hidden}),
      hidden |-> Cardinality({m \in OfType(S, "message") : m.hidden}),
      blobs |-> Cardinality(blobs),
      files |-> [i \in DOMAIN shards |->
                  [path |-> shards[i].path, family |-> shards[i].path.family,
                   shard |-> shards[i].path.shard, records |-> Len(shards[i].body.lines),
                   bytes |-> Bytes(shards[i].body)]],
      bytes |-> [data |-> data, provenance |-> Size(Shard(Provenance)), blobs |-> Size(blobs),
                 total |-> data + Size(Shard(Provenance)) + Size(blobs)],
      missing |-> [references |-> Cardinality(OfType(S, "revision-media") \ Included(S)),
                   objects |-> Cardinality(hashes),
                   bytes |-> Total(length)],
      checksums |-> [form |-> "checksums", list |-> RenderChecksums(payload)]]

ArchiveOf(S, sizes, media, provenance, selection) ==
  LET payload == Payload(S, sizes)
      manifest == ManifestFor(S, payload, media, provenance, selection)
  IN Pack(<<Entry(ManifestPath, manifest), Entry(ChecksumPath, manifest.checksums)>> \o payload)

\* What the exporter writes for S when it cuts shards as the encoder does.
Exported(S, media, provenance, selection) ==
  ArchiveOf(S, [f \in Families |-> ShardSizes(Cardinality(OfType(S, f)))],
            media, provenance, selection)

-----------------------------------------------------------------------------
\* Files and two zero blocks.
Files(tar) == SubSeq(tar, 1, Len(tar) - 2)
Framed(tar) == (\A e \in ToSet(Files(tar)) : e.el = "file") /\ tar = Pack(Files(tar))

RecordsIn(tar) ==
  UNION {ToSet(e.body.lines) : e \in {x \in ToSet(Files(tar)) : x.body.form = "lines"}}

\* An archive is coherent when it is the archive of the records in it.
Coherent(tar) ==
  LET files == Files(tar) IN
  /\ Framed(tar) /\ Len(files) >= 2
  /\ files[1].body.form = "manifest"
  /\ \A e \in ToSet(files) : e.body.form = "lines" =>
       \A r \in ToSet(e.body.lines) : "type" \in DOMAIN r
  /\ LET m == files[1].body
         S == RecordsIn(tar)
         Own(f) == At(m.files, {i \in DOMAIN m.files : m.files[i].family = f})
         sizes == [f \in Families |-> [i \in DOMAIN Own(f) |-> Own(f)[i].records]]
         chats == Ascending({c.chat : c \in OfType(S, "channel")})
     IN /\ Sound(S, m.media, m.provenance)
        /\ m.selection \in {<<>>, chats}
        /\ \A f \in Families :
             /\ \A i \in DOMAIN sizes[f] : sizes[f][i] \in 1..MaxShardRecords
             /\ Total(sizes[f]) = Cardinality(OfType(S, f))
        /\ tar = ArchiveOf(S, sizes, m.media, m.provenance, m.selection)

WithinLimits(tar) ==
  LET files == Files(tar) IN
  /\ Cardinality(RecordsIn(tar)) <= MaxRecords
  /\ Len(files) <= MaxEntries
  /\ \A i \in DOMAIN files : /\ Bytes(files[i].body) <= MaxEntryBytes
                             /\ files[i].body.form = "lines" => Bytes(files[i].body) <= MaxShardBytes
  /\ Total([i \in DOMAIN files |-> Bytes(files[i].body)]) <= MaxTotalBytes
=============================================================================
