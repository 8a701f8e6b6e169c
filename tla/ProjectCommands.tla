-------------------------- MODULE ProjectCommands --------------------------
(***************************************************************************)
(* The commands on a video project and their inverses (commands.rs).       *)
(*                                                                         *)
(* What a command does is the set of its outcomes: the resulting state     *)
(* with the inverse commands, or nothing where the code returns an error.  *)
(* Commands that do the same to different fields or lists are one type     *)
(* here, with the field ("field") or the kind of item ("of").              *)
(***************************************************************************)
EXTENDS ProjectModel

CONSTANT MaxGroup   \* MAX_GROUP_COMMANDS

Done(s, inverse) == [state |-> s, inverse |-> inverse]

TrackKinds == {"video", "audio", "caption", "graphics"}
KindsOf == [clip |-> {"video", "audio"}, caption |-> {"caption"}, graphics |-> {"graphics"}]

SequencePlaces(s, c) == WithId(s.sequences, c.sequence)
TrackPlaces(s, c) ==
  UNION {{<<i, j>> : j \in WithId(s.sequences[i].tracks, c.track)} : i \in SequencePlaces(s, c)}
TrackAt(s, p) == s.sequences[p[1]].tracks[p[2]]
RateAt(s, p) == s.sequences[p[1]].rate
WithItems(s, p, items) == [s EXCEPT !.sequences[p[1]].tracks[p[2]].items = items]

\* locked_mutation_target and find_unlocked_track_mut.
OpenTracks(s, c, kinds) ==
  {p \in TrackPlaces(s, c) : TrackAt(s, p).kind \in kinds /\ ~TrackAt(s, p).locked}

\* <<sequence, track, item>> positions of the item a command names.
ItemPlaces(s, c, kinds) ==
  UNION {{<<p[1], p[2], k>> : k \in WithId(TrackAt(s, p).items, c.item)} : p \in OpenTracks(s, c, kinds)}
ItemAt(s, p) == TrackAt(s, p).items[p[3]]
WithItem(s, p, x) == [s EXCEPT !.sequences[p[1]].tracks[p[2]].items[p[3]] = x]

\* sort_by_key is stable: equal starts keep their order.
ByStart(xs) ==
  LET before(i, j) == xs[i].start < xs[j].start \/ (xs[i].start = xs[j].start /\ i < j)
      order == SetToSortSeq(DOMAIN xs, before)
  IN [k \in DOMAIN xs |-> xs[order[k]]]

\* insertion_index: at the index asked for, or last.
Insertions(xs, x, index) ==
  IF index = None THEN {Append(xs, x)}
  ELSE {InsertAt(xs, k + 1, x) : k \in {n \in 0 .. Len(xs) : n = index}}
SortedInsertions(xs, x, index) ==
  IF index = None THEN {ByStart(Append(xs, x))} ELSE Insertions(xs, x, index)

-----------------------------------------------------------------------------
(* Assets, sequences, tracks and markers *)

ImportAsset(s, c) ==
  {Done([s EXCEPT !.assets = xs], <<[type |-> "RemoveAsset", asset |-> c.asset.id]>>) :
     xs \in {xs \in Insertions(s.assets, c.asset, c.index) : c.asset.id \notin Ids(s.assets)}}

RemoveAsset(s, c) ==
  {Done([s EXCEPT !.assets = RemoveAt(@, i)],
        <<[type |-> "ImportAsset", index |-> i - 1, asset |-> s.assets[i]]>>) :
     i \in {i \in WithId(s.assets, c.asset) : Asset(c.asset) \notin Sources(s) /\ c.asset \notin Images(s)}}

RelinkAsset(s, c) ==
  {Done([s EXCEPT !.assets[i] = c.asset], <<[c EXCEPT !.asset = s.assets[i]]>>) :
     i \in WithId(s.assets, c.asset.id)}

CreateSequence(s, c) ==
  {Done([s EXCEPT !.sequences = qs,
                  !.active = IF c.active = None THEN c.value.id ELSE c.active],
        <<[type |-> "RemoveSequence", sequence |-> c.value.id, active |-> s.active]>>) :
     qs \in {qs \in Insertions(s.sequences, c.value, c.index) : c.value.id \notin Ids(s.sequences)}}

\* The active sequence after a removal: the one asked for, else the first left if it was
\* the one removed.
ActiveAfter(s, c, left) ==
  CASE c.active # None -> c.active
    [] c.active = None /\ s.active # c.sequence -> s.active
    [] OTHER -> IF left = <<>> THEN None ELSE left[1].id

RemoveSequence(s, c) ==
  {Done([s EXCEPT !.sequences = RemoveAt(@, i), !.active = ActiveAfter(s, c, RemoveAt(s.sequences, i))],
        <<[type |-> "CreateSequence", index |-> i - 1, active |-> s.active, value |-> s.sequences[i]]>>) :
     i \in {i \in SequencePlaces(s, c) :
              /\ Nested(c.sequence) \notin Sources(s)
              /\ c.active # None => c.active \in Ids(s.sequences) \ {c.sequence}}}

InsertTrack(s, c) ==
  UNION {{Done([s EXCEPT !.sequences[i].tracks = ts],
               <<[type |-> "RemoveTrack", sequence |-> c.sequence, track |-> c.value.id]>>) :
            ts \in Insertions(s.sequences[i].tracks, c.value, c.index)} :
         i \in {i \in SequencePlaces(s, c) : c.value.id \notin Ids(s.sequences[i].tracks)}}

RemoveTrack(s, c) ==
  {Done([s EXCEPT !.sequences[p[1]].tracks = RemoveAt(@, p[2])],
        <<[type |-> "InsertTrack", sequence |-> c.sequence, index |-> p[2] - 1, value |-> TrackAt(s, p)]>>) :
     p \in TrackPlaces(s, c)}

AddMarker(s, c) ==
  UNION {{Done([s EXCEPT !.sequences[i].markers = ms],
               <<[type |-> "RemoveMarker", sequence |-> c.sequence, marker |-> c.value.id]>>) :
            ms \in SortedInsertions(s.sequences[i].markers, c.value, c.index)} :
         i \in {i \in SequencePlaces(s, c) : c.value.id \notin Ids(s.sequences[i].markers)}}

RemoveMarker(s, c) ==
  UNION {{Done([s EXCEPT !.sequences[i].markers = RemoveAt(@, k)],
               <<[type |-> "AddMarker", sequence |-> c.sequence, index |-> k - 1,
                  value |-> s.sequences[i].markers[k]]>>) :
            k \in WithId(s.sequences[i].markers, c.marker)} :
         i \in SequencePlaces(s, c)}

-----------------------------------------------------------------------------
(* Settings: the inverse sets what was set before *)

\* SetSequenceFrameSize ("size"), SetSequenceLoudnessTarget ("loudness").
SetSequence(s, c) ==
  {Done([s EXCEPT !.sequences[i][c.field] = c.value], <<[c EXCEPT !.value = s.sequences[i][c.field]]>>) :
     i \in SequencePlaces(s, c)}

\* SetTrackLocked, SetTrackMuted, SetTrackHidden, SetTrackAudioRole: a lock protects
\* what a track contains, not these.
FieldKinds == [locked |-> TrackKinds, muted |-> KindsOf.clip, role |-> KindsOf.clip,
               hidden |-> TrackKinds \ {"audio"}]
SetTrack(s, c) ==
  {Done([s EXCEPT !.sequences[p[1]].tracks[p[2]][c.field] = c.value],
        <<[c EXCEPT !.value = TrackAt(s, p)[c.field]]>>) :
     p \in {p \in TrackPlaces(s, c) : TrackAt(s, p).kind \in FieldKinds[c.field]}}

\* ApplyCaptionArtifact, RestoreActiveCaptionArtifact.
ReplaceActiveCaptionArtifact(s, c) ==
  {Done([s EXCEPT !.sequences[p[1]].tracks[p[2]].artifact = c.value],
        <<[c EXCEPT !.value = TrackAt(s, p).artifact]>>) :
     p \in {p \in OpenTracks(s, c, {"caption"}) :
              c.value # None => c.value.sequence = c.sequence /\ c.value.track = c.track}}

\* SetClipGain ("gain"), SetClipTransform ("transform"), SetGraphicsClipLayers ("image").
ItemFieldKinds == [gain |-> KindsOf.clip, transform |-> {"video"}, image |-> {"graphics"}]
SetItem(s, c) ==
  {Done(WithItem(s, p, [ItemAt(s, p) EXCEPT ![c.field] = c.value]),
        <<[c EXCEPT !.value = ItemAt(s, p)[c.field]]>>) :
     p \in ItemPlaces(s, c, ItemFieldKinds[c.field])}

\* The opacity is a part of the transform.
SetClipOpacity(s, c) ==
  {Done(WithItem(s, p, [ItemAt(s, p) EXCEPT !.transform.opacity = c.value]),
        <<[c EXCEPT !.value = ItemAt(s, p).transform.opacity]>>) : p \in ItemPlaces(s, c, {"video"})}

\* set_clip_speed; normal speed is set by omitting it. A loaded state may spell it out,
\* and RestoreClipSpeed puts back what there was.
SetClipSpeed(s, c) ==
  LET desired == IF c.type = "SetClipSpeed" /\ c.value = Normal THEN None ELSE c.value
      Retimed(x) == [x EXCEPT !.speed = desired]
  IN {Done(WithItem(s, p, Retimed(ItemAt(s, p))),
           <<[c EXCEPT !.type = "RestoreClipSpeed", !.value = ItemAt(s, p).speed]>>) :
        p \in {p \in ItemPlaces(s, c, {"video"}) :
                 LET x == ItemAt(s, p) IN
                 /\ x.source.kind = "asset"
                 /\ ValidSpeed(SpeedOf(Retimed(x)))
                 /\ SpeedOf(x) # SpeedOf(Retimed(x)) => MayBeRetimed(s, s.sequences[p[1]], x)
                 /\ ClipEnd(Retimed(x), RateAt(s, p)) # {}}}

\* set_clip_fades; no fades are omitted fades. RestoreClipFades is refused like
\* SetClipFades when the clip is too short as it is.
SetClipFades(s, c) ==
  LET desired == IF c.type = "SetClipFades" /\ c.value = <<0, 0>> THEN None ELSE c.value
  IN {Done(WithItem(s, p, [ItemAt(s, p) EXCEPT !.fades = desired]),
           <<[c EXCEPT !.type = "RestoreClipFades", !.value = ItemAt(s, p).fades]>>) :
        p \in {p \in ItemPlaces(s, c, KindsOf.clip) : FadesFit(ItemAt(s, p), desired, RateAt(s, p))}}

-----------------------------------------------------------------------------
(* Items of a track *)

\* InsertClip, AddCaption, AddGraphicsClip: without an index the list is sorted.
InsertItem(s, c) ==
  UNION {{Done(WithItems(s, p, xs),
               <<[type |-> "RemoveItem", of |-> c.of, sequence |-> c.sequence, track |-> c.track,
                  item |-> c.value.id]>>) :
            xs \in SortedInsertions(TrackAt(s, p).items, c.value, c.index)} :
         p \in {p \in OpenTracks(s, c, KindsOf[c.of]) :
                  /\ c.value.id \notin Ids(TrackAt(s, p).items)
                  /\ c.of = "clip" => ClipEnd(c.value, RateAt(s, p)) # {}
                  /\ c.of = "graphics" => GraphicsEnd(c.value) # {}}}

\* RemoveClip, RemoveCaption, RemoveGraphicsClip.
RemoveItem(s, c) ==
  {Done(WithItems(s, p, RemoveAt(TrackAt(s, p).items, p[3])),
        <<[type |-> "InsertItem", of |-> c.of, sequence |-> c.sequence, track |-> c.track,
           index |-> p[3] - 1, value |-> ItemAt(s, p)]>>) :
     p \in ItemPlaces(s, c, KindsOf[c.of])}

\* The clips from place k on, earlier or later by a duration.
Earlier(clips, k, d) ==
  [i \in DOMAIN clips |-> IF i < k THEN clips[i] ELSE [clips[i] EXCEPT !.start = @ - d]]
Later(clips, k, d) ==
  [i \in DOMAIN clips |-> IF i < k THEN clips[i] ELSE [clips[i] EXCEPT !.start = @ + d]]

\* Mutant: the inverse puts the clip back where it was and moves nothing.
RippleDeleteInsertedBack(s, c) ==
  UNION {{Done(WithItems(s, p, Earlier(RemoveAt(TrackAt(s, p).items, p[3]), p[3], d)),
               <<[type |-> "InsertItem", of |-> "clip", sequence |-> c.sequence, track |-> c.track,
                  index |-> p[3] - 1, value |-> ItemAt(s, p)]>>) :
            d \in {d \in ClipDuration(ItemAt(s, p), RateAt(s, p)) :
                     \A i \in DOMAIN TrackAt(s, p).items : i > p[3] => TrackAt(s, p).items[i].start >= d}} :
         p \in ItemPlaces(s, c, KindsOf.clip)}

\* What follows the clip closes up.
RippleDeleteClip(s, c) ==
  UNION {{Done(WithItems(s, p, Earlier(RemoveAt(TrackAt(s, p).items, p[3]), p[3], d)),
               <<[type |-> "RestoreRippleDeletedClip", sequence |-> c.sequence, track |-> c.track,
                  index |-> p[3] - 1, value |-> ItemAt(s, p)]>>) :
            d \in {d \in ClipDuration(ItemAt(s, p), RateAt(s, p)) :
                     \A i \in DOMAIN TrackAt(s, p).items : i > p[3] => TrackAt(s, p).items[i].start >= d}} :
         p \in {p \in ItemPlaces(s, c, KindsOf.clip) :
                  ClipEnd(Last(TrackAt(s, p).items), RateAt(s, p)) # {}}}

RestoreRippleDeletedClip(s, c) ==
  UNION {UNION {{Done(WithItems(s, p, xs),
                      <<[type |-> "RippleDeleteClip", sequence |-> c.sequence, track |-> c.track,
                         item |-> c.value.id]>>) :
                   xs \in {xs \in Insertions(Later(TrackAt(s, p).items, c.index + 1, d), c.value, c.index) :
                            /\ \A i \in DOMAIN xs : xs[i].start <= MaxTime
                            /\ ClipEnd(Last(xs), RateAt(s, p)) # {}}} :
                d \in ClipDuration(c.value, RateAt(s, p))} :
         p \in {p \in OpenTracks(s, c, KindsOf.clip) : c.value.id \notin Ids(TrackAt(s, p).items)}}

\* Mutant: the right part starts as many frames later as the source was cut at.
SplitClipUnscaled(s, c) ==
  UNION {{Done(WithItems(s, p, InsertAt([TrackAt(s, p).items EXCEPT ![p[3]].out = c.at], p[3] + 1,
                                 [ItemAt(s, p) EXCEPT !.id = c.right, !.in = c.at,
                                    !.start = @ + c.at - ItemAt(s, p).in])),
               <<[type |-> "RemoveItem", of |-> "clip", sequence |-> c.sequence, track |-> c.track,
                  item |-> c.right],
                 [type |-> "TrimClip", sequence |-> c.sequence, track |-> c.track, item |-> c.item,
                  in |-> ItemAt(s, p).in, out |-> ItemAt(s, p).out]>>)} :
         p \in {p \in ItemPlaces(s, c, KindsOf.clip) :
                  c.at \in (ItemAt(s, p).in + 1) .. (ItemAt(s, p).out - 1)}}

\* Both parts keep the clip's speed, transform, gain and fades.
SplitClip(s, c) ==
  UNION {{Done(WithItems(s, p, InsertAt([TrackAt(s, p).items EXCEPT ![p[3]].out = c.at], p[3] + 1,
                                 [ItemAt(s, p) EXCEPT !.id = c.right, !.in = c.at, !.start = @ + n])),
               <<[type |-> "RemoveItem", of |-> "clip", sequence |-> c.sequence, track |-> c.track,
                  item |-> c.right],
                 [type |-> "TrimClip", sequence |-> c.sequence, track |-> c.track, item |-> c.item,
                  in |-> ItemAt(s, p).in, out |-> ItemAt(s, p).out]>>) :
            n \in {n \in SourceOffsetToTimeline(c.at - ItemAt(s, p).in, ItemAt(s, p), RateAt(s, p)) :
                     ItemAt(s, p).start + n <= MaxTime}} :
         p \in {p \in ItemPlaces(s, c, KindsOf.clip) :
                  /\ c.right \notin Ids(TrackAt(s, p).items)
                  /\ c.at \in (ItemAt(s, p).in + 1) .. (ItemAt(s, p).out - 1)
                  /\ ClipEnd(ItemAt(s, p), RateAt(s, p)) # {}}}

\* The clips are sorted again; nothing looks for overlaps before the group ends.
MoveClip(s, c) ==
  {Done(WithItems(s, p, ByStart([TrackAt(s, p).items EXCEPT ![p[3]].start = c.value])),
        <<[c EXCEPT !.value = ItemAt(s, p).start]>>) :
     p \in {p \in ItemPlaces(s, c, KindsOf.clip) :
              /\ ClipEnd(ItemAt(s, p), RateAt(s, p)) # {}
              /\ ClipEnd([ItemAt(s, p) EXCEPT !.start = c.value], RateAt(s, p)) # {}}}

\* Mutant: the inverse is read after the assignment.
TrimClipReadLate(s, c) ==
  LET Trimmed(x) == [x EXCEPT !.in = c.in, !.out = c.out]
  IN {Done(WithItem(s, p, Trimmed(ItemAt(s, p))), <<c>>) :
        p \in {p \in ItemPlaces(s, c, KindsOf.clip) : ClipEnd(Trimmed(ItemAt(s, p)), RateAt(s, p)) # {}}}

\* The clip stays where it starts, whichever end is trimmed.
TrimClip(s, c) ==
  LET Trimmed(x) == [x EXCEPT !.in = c.in, !.out = c.out]
  IN {Done(WithItem(s, p, Trimmed(ItemAt(s, p))),
           <<[c EXCEPT !.in = ItemAt(s, p).in, !.out = ItemAt(s, p).out]>>) :
        p \in {p \in ItemPlaces(s, c, KindsOf.clip) :
                 /\ ClipEnd(ItemAt(s, p), RateAt(s, p)) # {}
                 /\ ClipEnd(Trimmed(ItemAt(s, p)), RateAt(s, p)) # {}}}

MoveGraphicsClip(s, c) ==
  LET Moved(x) == [x EXCEPT !.start = c.start, !.duration = c.duration]
  IN {Done(WithItems(s, p, ByStart([TrackAt(s, p).items EXCEPT ![p[3]] = Moved(@)])),
           <<[c EXCEPT !.start = ItemAt(s, p).start, !.duration = ItemAt(s, p).duration]>>) :
        p \in {p \in ItemPlaces(s, c, {"graphics"}) : GraphicsEnd(Moved(ItemAt(s, p))) # {}}}

-----------------------------------------------------------------------------
(* Groups *)

Apply(s, c) ==
  CASE c.type = "ImportAsset" -> ImportAsset(s, c)
    [] c.type = "RemoveAsset" -> RemoveAsset(s, c)
    [] c.type = "RelinkAsset" -> RelinkAsset(s, c)
    [] c.type = "CreateSequence" -> CreateSequence(s, c)
    [] c.type = "RemoveSequence" -> RemoveSequence(s, c)
    [] c.type = "InsertTrack" -> InsertTrack(s, c)
    [] c.type = "RemoveTrack" -> RemoveTrack(s, c)
    [] c.type = "AddMarker" -> AddMarker(s, c)
    [] c.type = "RemoveMarker" -> RemoveMarker(s, c)
    [] c.type = "SetSequence" -> SetSequence(s, c)
    [] c.type = "SetTrack" -> SetTrack(s, c)
    [] c.type = "ReplaceActiveCaptionArtifact" -> ReplaceActiveCaptionArtifact(s, c)
    [] c.type = "SetItem" -> SetItem(s, c)
    [] c.type = "SetClipOpacity" -> SetClipOpacity(s, c)
    [] c.type \in {"SetClipSpeed", "RestoreClipSpeed"} -> SetClipSpeed(s, c)
    [] c.type \in {"SetClipFades", "RestoreClipFades"} -> SetClipFades(s, c)
    [] c.type = "InsertItem" -> InsertItem(s, c)
    [] c.type = "RemoveItem" -> RemoveItem(s, c)
    [] c.type = "RippleDeleteClip" -> RippleDeleteClip(s, c)
    [] c.type = "RestoreRippleDeletedClip" -> RestoreRippleDeletedClip(s, c)
    [] c.type = "SplitClip" -> SplitClip(s, c)
    [] c.type = "MoveClip" -> MoveClip(s, c)
    [] c.type = "TrimClip" -> TrimClip(s, c)
    [] c.type = "MoveGraphicsClip" -> MoveGraphicsClip(s, c)

\* A group may not detach managed captions first and retime their clip then.
KeepsManagedCaptions(base, g) ==
  \A c \in {d \in Range(g) : d.type = "SetClipSpeed"} :
    \A i \in SequencePlaces(base, c) : \A t \in Range(base.sequences[i].tracks) :
      \A x \in Range(t.items) :
        (t.id = c.track /\ t.kind = "video" /\ x.id = c.item /\ x.source.kind = "asset"
         /\ SpeedOf(x) # c.value) => MayBeRetimed(base, base.sequences[i], x)

\* One command after the other, the inverses in the opposite order.
InTurn(base, g) ==
  LET Then(outcomes, c) ==
        UNION {{Done(n.state, Reverse(n.inverse) \o o.inverse) : n \in Apply(o.state, c)} : o \in outcomes}
  IN FoldLeft(Then, {Done(base, <<>>)}, g)

\* Mutant: the captions are only looked at after the group.
ApplyGroupUnchecked(base, g) == {o \in InTurn(base, g) : ValidState(o.state)}

\* apply_group.
ApplyGroup(base, g) ==
  {o \in InTurn(base, g) :
     Len(g) \in 1 .. MaxGroup /\ KeepsManagedCaptions(base, g) /\ ValidState(o.state)}
=============================================================================
