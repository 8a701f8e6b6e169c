-------------------------- MODULE MCProjectHistory --------------------------
\* One sequence at two frames a second with two clips, captions and a picture; the
\* sources have one and three frames a second.
EXTENDS ProjectHistory

Source(id, content, frames) == [id |-> id, content |-> content, frames |-> frames, still |-> FALSE]
Clip(id, source, rate, start, out) ==
  [id |-> id, source |-> source, start |-> start, in |-> 0, out |-> out, rate |-> rate,
   speed |-> None, fades |-> None, transform |-> [pose |-> "fill", opacity |-> 10], gain |-> 0]
Track(id, kind, items) ==
  [id |-> id, kind |-> kind, locked |-> FALSE, muted |-> FALSE, hidden |-> FALSE, role |-> None,
   artifact |-> None, items |-> items]
Sequence(id, tracks) ==
  [id |-> id, rate |-> <<2, 1>>, size |-> "wide", loudness |-> None, tracks |-> tracks, markers |-> <<>>]

Picture == [id |-> "p", content |-> None, frames |-> 1, still |-> TRUE]
MCProject ==
  [assets |-> <<Source("a", "x", 4), Source("b", "y", 6), Picture>>,
   sequences |-> <<Sequence("Q",
     <<Track("V", "video", <<Clip("A", Asset("a"), <<1, 1>>, 0, 4), Clip("B", Asset("b"), <<3, 1>>, 8, 6)>>),
       Track("C", "caption", <<[id |-> "k", start |-> 1, end |-> 3]>>),
       Track("G", "graphics", <<[id |-> "g", start |-> 2, duration |-> 2, image |-> "p"]>>)>>)>>,
   active |-> "Q"]

OnTrack(type, track) == [type |-> type, sequence |-> "Q", track |-> track]
OnItem(type, track, item) == OnTrack(type, track) @@ [item |-> item]

Split(item, at, right) == OnItem("SplitClip", "V", item) @@ [at |-> at, right |-> right]
Ripple(item) == OnItem("RippleDeleteClip", "V", item)
Move(item, start) == OnItem("MoveClip", "V", item) @@ [value |-> start]
Trim(item, in, out) == OnItem("TrimClip", "V", item) @@ [in |-> in, out |-> out]
Speed(item, speed) == OnItem("SetClipSpeed", "V", item) @@ [value |-> speed]
Fades(item, fades) == OnItem("SetClipFades", "V", item) @@ [value |-> fades]
Put(of, track, index, item) == OnTrack("InsertItem", track) @@ [of |-> of, index |-> index, value |-> item]
Take(of, track, item) == OnItem("RemoveItem", track, item) @@ [of |-> of]
Set(track, field, value) == OnTrack("SetTrack", track) @@ [field |-> field, value |-> value]
Captions(value) == OnTrack("ReplaceActiveCaptionArtifact", "C") @@ [value |-> value]
Generated == [sequence |-> "Q", track |-> "C", content |-> "x"]
Marker(id, time, index) ==
  [type |-> "AddMarker", sequence |-> "Q", index |-> index, value |-> [id |-> id, start |-> time]]

\* One command of each kind, in the timeline editor's and the inspector's use.
Single == {
  Split("A", 2, "A2"), Split("B", 3, "B2"), Split("B", 2, "B2"), Ripple("A"),
  Move("A", 12), Move("B", 9), Trim("A", 1, 3),
  Speed("A", <<2, 1>>), Speed("A", Normal), Fades("A", <<2, 2>>),
  Put("clip", "V", None, Clip("N", Asset("a"), <<1, 1>>, 12, 1)), Take("clip", "V", "A"),
  Take("caption", "C", "k"), Take("graphics", "G", "g"),
  OnItem("MoveGraphicsClip", "G", "g") @@ [start |-> 4, duration |-> 1],
  OnItem("SetItem", "G", "g") @@ [field |-> "image", value |-> None],
  OnItem("SetItem", "V", "A") @@ [field |-> "gain", value |-> 3],
  OnItem("SetClipOpacity", "V", "A") @@ [value |-> 5],
  Set("V", "locked", TRUE), Set("C", "hidden", TRUE), Captions(Generated), OnTrack("RemoveTrack", "C"),
  Marker("m", 7, 0), Marker("n", 5, None),
  [type |-> "SetSequence", sequence |-> "Q", field |-> "size", value |-> "tall"],
  [type |-> "RelinkAsset", asset |-> Source("a", "z", 4)],
  [type |-> "ImportAsset", index |-> None, asset |-> Source("d", None, 2)],
  [type |-> "RemoveAsset", asset |-> "p"],
  [type |-> "CreateSequence", index |-> 0, active |-> None,
   value |-> Sequence("R", <<Track("W", "video", <<Clip("M", Nested("Q"), <<2, 1>>, 0, 4)>>)>>)],
  [type |-> "RemoveSequence", sequence |-> "R", active |-> None]}

\* What the clients send as one edit: cuts, the trim of a left edge, bulk moves; and a
\* speed change that gets rid of the captions first.
Several == {
  <<Split("A", 2, "A2"), Ripple("A2")>>,
  <<Split("A", 1, "A2"), Split("A2", 3, "A3"), Ripple("A2")>>,
  <<Trim("A", 1, 4), Move("A", 2)>>,
  <<Move("A", 2), Move("B", 10)>>,
  <<OnTrack("RemoveTrack", "C"), Speed("A", <<2, 1>>)>>}

MCGroups == {<<c>> : c \in Single} \cup Several
=============================================================================
