----------------------------- MODULE MCReadSide -----------------------------
(***************************************************************************)
(* What leaves the archive: an exported archive read back, the listings,   *)
(* the media, and the thumbnails made of them.  The four share no state; a *)
(* behaviour plays one of them, the scene, and the others stand still.     *)
(***************************************************************************)
EXTENDS ArchiveValidation, MessageReading, MediaReading, Thumbnails, TLC

CONSTANTS b1, b2, b3, o1, o2, c1

VARIABLE scene

-----------------------------------------------------------------------------
Samples == INSTANCE ArchiveSamples
MCArchives == Samples!AllArchives
EmptyArchive == Exported({}, TRUE, TRUE, <<>>)
MCBytes == (b1 :> 1) @@ (b2 :> 2) @@ (b3 :> 1)

\* Two messages of a channel and one of another, two of the three published at a time; an
\* edit changes how well a message matches.
MCChannels == <<"a", "a", "b">>
MCPublished == <<4, 5, 5>>
MCScore ==
  << 0 :> 0 @@ 1 :> 2 @@ 2 :> 1, 0 :> 0 @@ 1 :> 1 @@ 2 :> 2, 0 :> 0 @@ 1 :> 2 @@ 2 :> 0 >>

ListingOf(kind, channels) ==
  [kind |-> kind, channels |-> channels, from |-> 0, to |-> 9, short |-> FALSE, visibility |-> "all"]
MCListings ==
  { ListingOf("channel", {"a"}), ListingOf("latest", {}), ListingOf("latest", {"a"}),
    ListingOf("relevance", {}), ListingOf("newest", {}),
    [ListingOf("newest", {"a"}) EXCEPT !.from = 4, !.to = 5, !.short = TRUE],
    ListingOf("admin", {"a"}), [ListingOf("admin", {"a"}) EXCEPT !.visibility = "visible"],
    ListingOf("feed", {}), ListingOf("older", {"a"}), ListingOf("newer", {"a"}) }

MCReadPriority == <<"local", "s3-default">>

\* Two originals that look alike: one thumbnail for both.
MCRenderedAs == (o1 :> c1) @@ (o2 :> c1)
MCRenderedSize == (c1 :> 1)

-----------------------------------------------------------------------------
SceneInit ==
  /\ scene \in {"archive", "listings", "media", "thumbnails"}
  /\ scene # "archive" => tar = EmptyArchive /\ mode = "tar"
  /\ scene # "listings" => rows = [m \in Posts |-> NotStored]
  /\ ValidationInit /\ ReadingInit /\ MediaReadingInit /\ ThumbnailInit

ReadArchive ==
  /\ scene = "archive" /\ ValidationNext
  /\ UNCHANGED <<scene, readingVars, mediaReadingVars, thumbVars>>
ReadListings ==
  /\ scene = "listings" /\ ReadingNext
  /\ UNCHANGED <<scene, validationVars, mediaReadingVars, thumbVars>>
ReadMedia ==
  /\ scene = "media" /\ MediaReadingNext
  /\ UNCHANGED <<scene, validationVars, readingVars, thumbVars>>
MakeThumbnails ==
  /\ scene = "thumbnails" /\ ThumbnailNext
  /\ UNCHANGED <<scene, validationVars, readingVars, mediaReadingVars>>

SceneNext == ReadArchive \/ ReadListings \/ ReadMedia \/ MakeThumbnails
sceneVars == <<scene, validationVars, readingVars, mediaReadingVars, thumbVars>>
SceneSpec == SceneInit /\ [][SceneNext]_sceneVars
=============================================================================
