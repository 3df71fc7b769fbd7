---------------------------- MODULE ArchiveSamples ----------------------------
(***************************************************************************)
(* Archives to read: what is written for every subset of a universe of     *)
(* records, sound or not, and a sound archive with one thing changed in    *)
(* it, as such or with its manifest and checksums made to agree again.     *)
(***************************************************************************)
EXTENDS PortableArchive

CONSTANTS b1, b2, b3 \* hashes of three blobs

Channel(c) == [type |-> "channel", chat |-> c]
Message(m, current, hidden, changed) ==
  [type |-> "message", chat |-> 1, msg |-> m, current |-> current, hidden |-> hidden,
   changed |-> changed]
Revision(m, n, content, text, entities, fits) ==
  [type |-> "revision", chat |-> 1, msg |-> m, rev |-> n, content |-> content, text |-> text,
   entities |-> entities, fits |-> fits]
Media(n, pos, original, available, located) ==
  [type |-> "revision-media", chat |-> 1, msg |-> 1, rev |-> n, pos |-> pos,
   original |-> original, available |-> available, located |-> located]
Observation(m, n, source) ==
  [type |-> "provenance-observation", chat |-> 1, msg |-> m, rev |-> n, source |-> source]
Observed(n, source, pos, located) ==
  [type |-> "provenance-media", chat |-> 1, msg |-> 1, rev |-> n, source |-> source,
   pos |-> pos, located |-> located]

\* A text, edited into a caption of two originals; its sources; a hidden message.
Sample ==
  {Channel(1), Message(1, 2, FALSE, FALSE), Message(2, 1, TRUE, TRUE),
   Revision(1, 1, "text", TRUE, TRUE, TRUE), Revision(1, 2, "caption", TRUE, FALSE, TRUE),
   Revision(2, 1, "text", TRUE, FALSE, TRUE),
   Media(2, 0, <<b1, 1, 0, TRUE>>, TRUE, TRUE), Media(2, 1, <<b2, 2, 0, FALSE>>, FALSE, TRUE),
   Observation(1, 1, <<0, 7, 0>>), Observation(1, 2, <<0, 8, 1>>), Observation(1, 0, <<1, 3, 0>>),
   Observed(2, <<0, 8, 1>>, 0, TRUE), Observed(2, <<0, 8, 1>>, 1, TRUE)}

\* A second record for each key, or a record that leads to nothing.
Universe ==
  {Channel(1), Message(1, 2, FALSE, FALSE),
   Revision(1, 1, "text", TRUE, TRUE, TRUE), Revision(1, 2, "caption", TRUE, FALSE, TRUE),
   Media(2, 0, <<b1, 1, 0, TRUE>>, TRUE, TRUE), Media(2, 1, <<b1, 1, 1, TRUE>>, TRUE, TRUE),
   Observation(1, 2, <<0, 8, 1>>), Observation(1, 1, <<0, 8, 0>>),
   Observed(2, <<0, 8, 1>>, 0, TRUE)}

\* Records of which one field is wrong.
Oddities ==
  {Message(2, 1, TRUE, FALSE), Message(1, 2, TRUE, TRUE), Revision(1, 3, "none", FALSE, TRUE, TRUE),
   Revision(1, 3, "text", TRUE, FALSE, FALSE), Revision(1, 3, "none", FALSE, FALSE, TRUE),
   Revision(1, 3, "text", FALSE, FALSE, TRUE), Revision(1, 4, "text", TRUE, FALSE, TRUE),
   Media(1, 0, <<>>, FALSE, TRUE), Media(2, 2, <<>>, FALSE, TRUE), Media(2, 3, <<>>, FALSE, TRUE),
   Media(2, 2, <<>>, FALSE, FALSE), Media(2, 2, <<b1, 1, 0, TRUE>>, FALSE, TRUE),
   Media(2, 2, <<b2, 2, 0, TRUE>>, TRUE, TRUE), Media(2, 2, <<b2, 1, 0, FALSE>>, TRUE, TRUE),
   Media(2, 2, <<b2, 2, 0, FALSE>>, TRUE, TRUE), Channel(2), Observation(1, 0, <<1, 4, 0>>),
   Observation(5, 0, <<1, 5, 0>>),
   Observation(1, 3, <<0, 9, 0>>), Observed(2, <<0, 8, 1>>, 2, FALSE), Observed(1, <<0, 7, 0>>, 1, TRUE)}

-----------------------------------------------------------------------------
Whole == Exported(Sample, TRUE, TRUE, <<1>>)

Swap(s, i, j) == [s EXCEPT ![i] = s[j], ![j] = s[i]]

\* Elements of the container lost, repeated, exchanged, added or malformed.
Reframed(whole) ==
  LET elements == DOMAIN whole IN
  {RemoveAt(whole, i) : i \in elements}
  \cup {InsertAt(whole, i, whole[i]) : i \in elements}
  \cup {Swap(whole, i, i + 1) : i \in elements \ {Len(whole)}}
  \cup {InsertAt(whole, i, File(Entry(p, Lines(<<Channel(3)>>)))) :
          i \in {1, 3, Len(whole) - 1, Len(whole) + 1},
          p \in {ForeignPath(TRUE), UnsafePath, ShardPath("message", 9)}}
  \cup {[whole EXCEPT ![i].type = "link"] : i \in {2, 4}}
  \cup {[whole EXCEPT ![i].padded = FALSE] : i \in {1, 5, Len(whole) - 2}}

\* The lines of a shard lost, repeated, exchanged, unreadable or of another
\* family; a blob of other content; a blob more.
Rewritten(whole) ==
  LET shards == {i \in DOMAIN whole : whole[i].el = "file" /\ whole[i].body.form = "lines"} IN
  UNION {LET ls == whole[i].body.lines
             variants == {RemoveAt(ls, j) : j \in DOMAIN ls} \cup {ls \o <<ls[1]>>}
                         \cup {Swap(ls, j, j + 1) : j \in 1..(Len(ls) - 1)}
                         \cup {[ls EXCEPT ![j] = [bad |-> "invalid_json"]] : j \in DOMAIN ls}
                         \cup {[ls EXCEPT ![1] = Observation(1, 1, <<0, 1, 0>>)]}
         IN {[whole EXCEPT ![i].body.lines = v] : v \in variants \ {<<>>}} : i \in shards}
  \cup {[whole EXCEPT ![Len(whole) - 2].body.hash = b2],
        RemoveAt(whole, Len(whole) - 2)}
  \cup {InsertAt(whole, Len(whole) - 1, File(Entry(BlobPath(b), Blob(b)))) : b \in {b2, b3}}

\* Manifest and list made to agree with the entries again.
Sealed(tar) ==
  LET files == Files(tar)
      payload == SubSeq(files, 3, Len(files))
      ShardsOf(fs) == {i \in DOMAIN payload : payload[i].path.kind = "data" /\ payload[i].path.family \in fs}
      Size(I) == Total([i \in I |-> Bytes(payload[i].body)])
      shards == At(payload, ShardsOf(Families))
      blobs == DOMAIN payload \ ShardsOf(Families)
      count == [f \in Families |-> Size(ShardsOf({f}))]
      m == files[1].body
      n == [m EXCEPT
             !.counts = count,
             !.visible = count["message"] - m.hidden,
             !.bytes = [data |-> Size(ShardsOf(Families \ Provenance)),
                        provenance |-> Size(ShardsOf(Provenance)), blobs |-> Size(blobs),
                        total |-> Size(DOMAIN payload)],
             !.blobs = Cardinality(blobs),
             !.files = [i \in DOMAIN shards |->
                         [path |-> shards[i].path, family |-> shards[i].path.family,
                          shard |-> shards[i].path.shard, records |-> Len(shards[i].body.lines),
                          bytes |-> Bytes(shards[i].body)]],
             !.checksums.list = RenderChecksums(payload)]
  IN Pack(<<Entry(ManifestPath, n), Entry(ChecksumPath, n.checksums)>> \o payload)

\* One claim of the manifest changed.
Claims(whole) ==
  LET m == whole[1].body IN
  {[m EXCEPT !.counts[f] = @ + d] : f \in Families, d \in {1, -1}}
  \cup {[m EXCEPT !.missing.references = @ + 1], [m EXCEPT !.missing.objects = @ - 1],
        [m EXCEPT !.missing.bytes = @ + 1], [m EXCEPT !.visible = 2, !.hidden = 0],
        [m EXCEPT !.blobs = @ + 1], [m EXCEPT !.bytes.blobs = 2, !.bytes.total = @ + 1],
        [m EXCEPT !.bytes.data = @ + 1], [m EXCEPT !.selection = <<2>>],
        [m EXCEPT !.selection = <<1, 2>>], [m EXCEPT !.selection = <<>>],
        [m EXCEPT !.media = FALSE], [m EXCEPT !.provenance = FALSE], [m EXCEPT !.format = 2],
        [m EXCEPT !.schema = 0], [m EXCEPT !.timely = FALSE], [m EXCEPT !.canonical = FALSE],
        [m EXCEPT !.files = RemoveAt(@, 1)], [m EXCEPT !.files = Swap(@, 1, 2)],
        [m EXCEPT !.files[1].records = 2, !.files[2].records = 1],
        [m EXCEPT !.checksums.list = RemoveAt(@, 1)]}

\* The list in another order, shorter, or with another length.
Relisted(whole) ==
  LET list == whole[2].body.list IN
  {RemoveAt(list, 1), Swap(list, 1, 2), [list EXCEPT ![2].bytes = 2], list \o <<list[1]>>,
   Append(list, [path |-> ManifestPath, bytes |-> 1, hash |-> b1])}

Small ==
  {Exported(S, TRUE, TRUE, <<>>) : S \in SUBSET Universe}
  \cup {Exported(Sample \cup {r}, TRUE, TRUE, <<>>) : r \in Oddities}
  \cup {Exported({r \in Sample : r.type \notin Provenance}, media, FALSE, <<1>>) :
          media \in {TRUE, FALSE}}
  \cup {Exported(Sample \cup {Channel(2), Channel(3)}, TRUE, TRUE, <<>>)} \* beyond MaxRecords

Damaged(whole) ==
  Reframed(whole) \cup Rewritten(whole) \cup {Sealed(t) : t \in Rewritten(whole)}
  \cup {[whole EXCEPT ![1].body = m] : m \in Claims(whole)}
  \cup {[whole EXCEPT ![1].body.checksums.list = l, ![2].body.list = l] : l \in Relisted(whole)}
  \cup {ArchiveOf(Sample, [f \in Families |-> cut[Cardinality(OfType(Sample, f))]],
                  TRUE, TRUE, <<1>>) :
          cut \in {[n \in 0..3 |-> [i \in 1..n |-> 1]], [n \in 0..3 |-> <<<<>>, <<1>>, <<2>>, <<1, 2>>>>[n + 1]]}}

AllArchives ==
  LET whole == Whole
  IN Small \cup Damaged(whole)
=============================================================================
