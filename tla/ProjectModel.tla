---------------------------- MODULE ProjectModel ----------------------------
(***************************************************************************)
(* The state of a video project (types.rs), the timing of retimed clips    *)
(* (clip_timing.rs), the integrity every saved state has (integrity.rs)    *)
(* and the context in which a clip may be retimed (clip_speed.rs).         *)
(*                                                                         *)
(* Times are frame numbers: what is written at a place of the state has    *)
(* the rate of that place. Names, codecs, colours and texts are left out.  *)
(***************************************************************************)
EXTENDS Naturals, Sequences, FiniteSets, SequencesExt

CONSTANTS
  None,        \* an omitted value
  MaxTime      \* MAX_SAFE_INTEGER

\* asset     [id, content, frames, still]: content stands for the locator, the probe and
\*           the content identity (None: no identity), frames for source_duration_frames
\* clip      [id, source, start, in, out, rate, speed, fades, transform, gain]
\* caption   [id, start, end]
\* graphics  [id, start, duration, image]: image is the asset of an image layer
\* marker    [id, start]
\* track     [id, kind, locked, muted, hidden, role, artifact, items]
\* sequence  [id, rate, size, loudness, tracks, markers]
\* project   [assets, sequences, active]
Asset(id) == [kind |-> "asset", id |-> id]
Nested(id) == [kind |-> "sequence", id |-> id]

Ids(xs) == {xs[i].id : i \in DOMAIN xs}
WithId(xs, id) == {i \in DOMAIN xs : xs[i].id = id}

IsMedia(track) == track.kind \in {"video", "audio"}
MediaTracks(s) ==
  {t \in UNION {Range(q.tracks) : q \in Range(s.sequences)} : IsMedia(t)}
GraphicsTracks(s) ==
  {t \in UNION {Range(q.tracks) : q \in Range(s.sequences)} : t.kind = "graphics"}
Sources(s) == UNION {{x.source : x \in Range(t.items)} : t \in MediaTracks(s)}
Images(s) == UNION {{x.image : x \in Range(t.items)} : t \in GraphicsTracks(s)} \ {None}

-----------------------------------------------------------------------------
(* clip_timing.rs: rates and speeds are pairs <<numerator, denominator>> *)

Normal == <<1, 1>>
SpeedOf(clip) == IF clip.speed = None THEN Normal ELSE clip.speed

ValidSpeed(speed) ==
  /\ (speed[1] * 100) % speed[2] = 0
  /\ (speed[1] * 100) \div speed[2] \in 50..200

\* convert_frames: the product and what it is divided by.
Converted(value, from, to, factor) ==
  [over |-> value * from[2] * to[1] * factor[1], under |-> from[1] * to[2] * factor[2]]

\* source_offset_to_timeline with SamplePolicy::Exact: no timeline frame, no conversion.
SourceOffsetToTimeline(offset, clip, rate) ==
  LET speed == SpeedOf(clip)
      frames == Converted(offset, clip.rate, rate, <<speed[2], speed[1]>>)
  IN {n \in {frames.over \div frames.under} : frames.over % frames.under = 0 /\ n <= MaxTime}

\* timeline_offset_to_source with SamplePolicy::Floor: the source frame that is shown.
TimelineOffsetToSource(offset, clip, rate) ==
  LET frames == Converted(offset, rate, clip.rate, SpeedOf(clip))
  IN frames.over \div frames.under

\* project_clip_timeline_duration, {} if it fails.
ClipDuration(clip, rate) ==
  IF clip.out > clip.in THEN SourceOffsetToTimeline(clip.out - clip.in, clip, rate) \ {0} ELSE {}

\* clip_range, graphics_clip_range: where the item ends, {} if it fails.
ClipEnd(clip, rate) ==
  {e \in {clip.start + d : d \in ClipDuration(clip, rate)} : e <= MaxTime}
GraphicsEnd(item) ==
  {e \in {item.start + item.duration} : item.duration > 0 /\ e <= MaxTime}

FadesFit(clip, fades, rate) ==
  fades # None => \E d \in ClipDuration(clip, rate) : fades[1] + fades[2] <= d

-----------------------------------------------------------------------------
(* clip_speed.rs *)

\* managed_sources: whose captions are generated in the sequence.
ManagedSources(q) ==
  {t.artifact.content : t \in {u \in Range(q.tracks) : u.kind = "caption" /\ u.artifact # None}}

\* check_context: a clip of a nested sequence keeps its speed, and so does one whose
\* managed captions would come apart from it, or might for all that is known.
MayBeRetimed(s, q, clip) ==
  /\ Nested(q.id) \notin Sources(s)
  /\ \E a \in Range(s.assets) :
       /\ clip.source = Asset(a.id)
       /\ ManagedSources(q) # {} => a.content # None /\ a.content \notin ManagedSources(q)

\* validate_retimed_state.
RetimedClipsMayBe(s) ==
  \A q \in Range(s.sequences) : \A t \in Range(q.tracks) : IsMedia(t) =>
    \A c \in Range(t.items) : SpeedOf(c) # Normal =>
      t.kind = "video" /\ c.source.kind = "asset" /\ MayBeRetimed(s, q, c)

-----------------------------------------------------------------------------
(* integrity.rs; limits on the numbers of things are left out *)

IdList(xs) == [i \in DOMAIN xs |-> xs[i].id]
TrackIds(t) == <<t.id>> \o IdList(t.items)
SequenceIds(q) ==
  <<q.id>> \o IdList(q.markers) \o FlattenSeq([j \in DOMAIN q.tracks |-> TrackIds(q.tracks[j])])
\* register_id sees every id of the project once.
AllIds(s) ==
  IdList(s.assets) \o FlattenSeq([i \in DOMAIN s.sequences |-> SequenceIds(s.sequences[i])])

\* The items lie one behind the other in the order of the list; ends[i] is where the
\* i-th ends.
InOrder(items, ends) ==
  \A i \in DOMAIN items : /\ ends[i] # {}
                          /\ i > 1 => \A e \in ends[i - 1] : e <= items[i].start

ValidClip(s, clip, rate) ==
  /\ FadesFit(clip, clip.fades, rate)
  /\ ValidSpeed(SpeedOf(clip))
  /\ \/ \E a \in Range(s.assets) : clip.source = Asset(a.id) /\ ~a.still /\ clip.out <= a.frames
     \/ \E q \in Range(s.sequences) : clip.source = Nested(q.id)

ValidTrack(s, q, t) ==
  CASE IsMedia(t) ->
         /\ \A c \in Range(t.items) : ValidClip(s, c, q.rate)
         /\ InOrder(t.items, [i \in DOMAIN t.items |-> ClipEnd(t.items[i], q.rate)])
    [] t.kind = "caption" ->
         /\ \A c \in Range(t.items) : c.start < c.end
         /\ t.artifact # None => t.artifact.sequence = q.id /\ t.artifact.track = t.id
    [] t.kind = "graphics" ->
         /\ \A g \in Range(t.items) : g.image # None =>
              \E a \in Range(s.assets) : a.id = g.image /\ a.still
         /\ InOrder(t.items, [i \in DOMAIN t.items |-> GraphicsEnd(t.items[i])])

Nesting(s) ==
  {<<q, r>> \in Ids(s.sequences) \X Ids(s.sequences) :
     \E p \in Range(s.sequences) : p.id = q /\ \E t \in Range(p.tracks) :
       IsMedia(t) /\ \E c \in Range(t.items) : c.source = Nested(r)}

Acyclic(edges, nodes) ==
  \A ring \in SUBSET nodes \ {{}} : \E q \in ring : \A r \in ring : <<q, r>> \notin edges

\* validate_state.
ValidState(s) ==
  /\ IsInjective(AllIds(s))
  /\ \A q \in Range(s.sequences) : \A t \in Range(q.tracks) : ValidTrack(s, q, t)
  /\ IF s.active = None THEN s.sequences = <<>> ELSE s.active \in Ids(s.sequences)
  /\ RetimedClipsMayBe(s)
  /\ Acyclic(Nesting(s), Ids(s.sequences))
=============================================================================
