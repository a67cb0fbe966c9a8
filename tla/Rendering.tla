------------------------------ MODULE Rendering ------------------------------
(***************************************************************************)
(* The artifacts of a post: the chapters of its description, its thumbnail *)
(* and its video, made one after the other from the tracks and the picture *)
(* that the GPU worker has delivered.  The chapters are computed from the  *)
(* template, the video from the tracks; nothing compares the two.          *)
(*                                                                         *)
(* A headline is a sequence of glyphs, and the width of a text the sum of  *)
(* their widths.  Left out: colours, fonts, the badge, where the lines are *)
(* drawn, and the picture under the waves.  The first texts of a           *)
(* description and the title are those of module Directives.               *)
(***************************************************************************)
EXTENDS Naturals, Sequences, FiniteSetsExt, SequencesExt

CONSTANTS Chapters, \* chapters.count of the template, and tracks of a post
          Lengths,  \* seconds of a track, and chapters.interval_seconds
          Fades,    \* crossfades a caller may ask for
          FadeMin, FadeMax, \* _CROSSFADE_MIN_SEC and _CROSSFADE_MAX_SEC
          MaxText,  \* bound on the length of a headline
          MaxWidth, MaxLines, \* of the headline, in layout.json
          QualityStart, QualityMin, QualityStep \* of the JPEG

Glyphs == {"thin", "wide", "space"}
Headlines == UNION {[1 .. n -> Glyphs] : n \in 0 .. MaxText}

\* The qualities that are tried, from the highest on.
Tried == {q \in QualityMin .. QualityStart : (QualityStart - q) % QualityStep = 0}

ASSUME RenderingAssumption ==
  /\ {Chapters, MaxText, MaxWidth, MaxLines, QualityStep} \subseteq Nat \ {0}
  /\ Chapters >= 2 /\ MaxWidth >= 2
  /\ Lengths \cup Fades \cup {FadeMin, FadeMax, QualityStart, QualityMin} \subseteq Nat
  /\ QualityMin \in Tried
  /\ \A n \in Lengths : Chapters * FadeMax < n

VARIABLES making,    \* the artifact that comes next, or how the post has failed
          seconds,   \* length of the tracks
          chapters,  \* timestamps in the description
          thumbnail, \* the file, or none
          video      \* the file, or none

renderVars == <<making, seconds, chapters, thumbnail, video>>

NoFile == [is |-> "none"]

RenderingInit ==
  /\ making = "description"
  /\ seconds \in Lengths
  /\ chapters = <<>>
  /\ thumbnail = NoFile
  /\ video = NoFile

\* A QualityError or RecoverableError skips the post, a broken layout stops the
\* cycle; in both cases none of the columns is committed.
RenderingFails ==
  /\ making \in {"description", "thumbnail", "video"}
  /\ \/ making' = "skipped"
     \/ making = "thumbnail" /\ making' = "halted"
  /\ UNCHANGED <<seconds, chapters, thumbnail, video>>

-----------------------------------------------------------------------------
(* Description. *)

\* _format_timestamp: hours only when there are any.
Timestamp(t) ==
  LET hours == t \div 3600
      minutes == (t % 3600) \div 60
      rest == t % 60
  IN IF hours > 0 THEN <<hours, minutes, rest>> ELSE <<minutes, rest>>

\* Mutant: chapters are counted from 1.
ChaptersFromOne == [i \in 1 .. Chapters |-> Timestamp(seconds * i)]

\* _build_chapters_block
ChaptersBlock == [i \in 1 .. Chapters |-> Timestamp(seconds * (i - 1))]

Describe ==
  /\ making = "description"
  /\ chapters' = ChaptersBlock
  /\ making' = "thumbnail"
  /\ UNCHANGED <<seconds, thumbnail, video>>

-----------------------------------------------------------------------------
(* Thumbnail. *)

TextWidth(text) ==
  Len(text) + Cardinality({i \in DOMAIN text : text[i] = "wide"})
TooWide(text) == TextWidth(text) > MaxWidth
First(text, n) == SubSeq(text, 1, n)

\* One turn of the loop of _tokenize_for_wrap: a token ends after a space.
TakeGlyph(cut, glyph) ==
  LET buffer == Append(cut.buffer, glyph)
  IN IF glyph = "space"
       THEN [tokens |-> Append(cut.tokens, buffer), buffer |-> <<>>]
       ELSE [cut EXCEPT !.buffer = buffer]

WordsOf(text) ==
  LET cut == FoldLeft(TakeGlyph, [tokens |-> <<>>, buffer |-> <<>>], text)
  IN IF cut.buffer = <<>> THEN cut.tokens ELSE Append(cut.tokens, cut.buffer)

\* _max_prefix_within looks at the proper prefixes: a text that is too wide only
\* with its last glyph stays whole.
MaxPrefix(text) ==
  LET over == {i \in 1 .. Len(text) - 1 : TooWide(First(text, i))}
  IN IF over = {} THEN Len(text) ELSE Max({1, Min(over) - 1})

\* One turn of the loop that cuts a token that is too wide.
CutOnce(wrap) ==
  IF TooWide(wrap.rest) /\ Len(wrap.rest) > 1
    THEN LET n == MaxPrefix(wrap.rest)
         IN [lines |-> Append(wrap.lines, First(wrap.rest, n)),
             rest |-> SubSeq(wrap.rest, n + 1, Len(wrap.rest))]
    ELSE wrap

AddWord(wrap, word) ==
  LET both == wrap.rest \o word
      added == IF ~ TooWide(both) \/ wrap.rest = <<>>
                 THEN [wrap EXCEPT !.rest = both]
                 ELSE [lines |-> Append(wrap.lines, wrap.rest), rest |-> word]
  IN FoldLeft(LAMBDA w, glyph : CutOnce(w), added, word)

\* Mutant: room is made for the text but not for the ellipsis.
EllipsisOver(line) ==
  Append(First(line, Max({0} \cup {n \in DOMAIN line : TextWidth(First(line, n)) <= MaxWidth})), "dots")

\* _truncate_with_ellipsis: the ellipsis is one wide.
Ellipsis(line) ==
  Append(First(line, Max({0} \cup {n \in DOMAIN line : TextWidth(First(line, n)) < MaxWidth})), "dots")

\* _wrap_text
Wrapped(text) ==
  LET wrap == FoldLeft(AddWord, [lines |-> <<>>, rest |-> <<>>], WordsOf(text))
      lines == IF wrap.rest = <<>> THEN wrap.lines ELSE Append(wrap.lines, wrap.rest)
  IN IF Len(lines) <= MaxLines THEN lines
     ELSE [First(lines, MaxLines) EXCEPT ![MaxLines] = Ellipsis(@)]

\* _encode_jpeg_within_limit, when "small" are the qualities at which the file
\* is within the limit.
Encoded(small) == IF Tried \cap small = {} THEN Min(Tried) ELSE Max(Tried \cap small)

\* compose_thumbnail.  The layout may be missing: the built-in one is the same.
ComposeThumbnail(text, small) ==
  /\ making = "thumbnail"
  /\ thumbnail' = [is |-> "file", text |-> text, lines |-> Wrapped(text),
                   small |-> small, quality |-> Encoded(small)]
  /\ making' = "video"
  /\ UNCHANGED <<seconds, chapters, video>>

-----------------------------------------------------------------------------
(* Video. *)

\* acrossfade: the second input begins when the first has "fade" seconds left.
Crossfaded(mix, track, fade) ==
  [parts |-> Append(mix.parts, [track |-> track, from |-> mix.length - fade]),
   length |-> mix.length + seconds - fade]

\* _build_acrossfade_filter: every track is faded into all that come before it.
Mix(fade) ==
  FoldLeft(LAMBDA mix, track : Crossfaded(mix, track, fade),
           [parts |-> <<[track |-> 1, from |-> 0]>>, length |-> seconds],
           [i \in 1 .. Chapters - 1 |-> i + 1])

\* _estimate_duration_sec
Estimate(fade) == Max({0, Chapters * seconds - fade * (Chapters - 1)})

\* compose_video: the crossfade is checked before anything is read, the file is
\* stored after ffmpeg has succeeded.
ComposeVideo(fade) ==
  /\ making = "video"
  /\ IF fade \notin FadeMin .. FadeMax
       THEN /\ making' = "skipped"
            /\ UNCHANGED video
       ELSE /\ video' = [is |-> "file", mix |-> Mix(fade), duration |-> Estimate(fade)]
            /\ making' = "done"
  /\ UNCHANGED <<seconds, chapters, thumbnail>>

RenderingNext ==
  \/ Describe
  \/ \E text \in Headlines, small \in SUBSET Tried : ComposeThumbnail(text, small)
  \/ \E fade \in Fades : ComposeVideo(fade)
  \/ RenderingFails

RenderingSpec == RenderingInit /\ [][RenderingNext]_renderVars

-----------------------------------------------------------------------------
(* Properties *)

RenderingTypeOK ==
  /\ making \in {"description", "thumbnail", "video", "done", "skipped", "halted"}
  /\ seconds \in Lengths
  /\ chapters \in Seq(Seq(Nat))
  /\ thumbnail.is \in {"none", "file"} /\ video.is \in {"none", "file"}

\* What a viewer reads in a timestamp.
AsSeconds(stamp) ==
  FoldLeft(LAMBDA total, part : 60 * total + part, 0, stamp)

\* The chapters ignore the crossfades, so they drift from the music; still, in a
\* finished post every chapter points into its own track, before the next one
\* is faded in, is written as a time of day is, and the video is as long as it
\* is said to be.
ChapterIsInItsTrack ==
  making = "done" =>
    /\ Len(chapters) = Len(video.mix.parts)
    /\ \A i \in DOMAIN chapters :
         LET at == AsSeconds(chapters[i])
             heard == video.mix.parts
         IN /\ heard[i].track = i
            /\ heard[i].from <= at
            /\ at < IF i = Len(heard) THEN video.mix.length ELSE heard[i + 1].from
            /\ \A k \in DOMAIN chapters[i] : k > 1 => chapters[i][k] < 60
            /\ Len(chapters[i]) = 3 => chapters[i][1] > 0
    /\ video.duration = video.mix.length

\* What of a line, and of all lines, is text.
Bare(line) == IF line # <<>> /\ Last(line) = "dots" THEN Front(line) ELSE line
Shown(lines) == FoldLeft(LAMBDA all, line : all \o Bare(line), <<>>, lines)

\* Lines that are no more than the layout allows, show the beginning of the text,
\* all of it unless they end with an ellipsis, and each fits, except for the one
\* glyph that MaxPrefix leaves over.
LinesFit(lines, text) ==
  LET shown == Shown(lines)
      cut == \E i \in DOMAIN lines : Bare(lines[i]) # lines[i]
  IN /\ Len(lines) <= MaxLines
     /\ IsPrefix(shown, text)
     /\ cut <=> Len(shown) < Len(text)
     /\ \A i \in DOMAIN lines :
          /\ Bare(lines[i]) # lines[i] => i = Len(lines) /\ ~ TooWide(lines[i])
          /\ Bare(lines[i]) = lines[i] => ~ TooWide(First(lines[i], Len(lines[i]) - 1))

\* The headline of a thumbnail fits; the file is the best one that is small
\* enough, if there is one among those tried.
ThumbnailFits ==
  thumbnail.is = "file" =>
    /\ LinesFit(thumbnail.lines, thumbnail.text)
    /\ thumbnail.quality \in thumbnail.small \/ Tried \cap thumbnail.small = {}
    /\ \A q \in Tried \cap thumbnail.small : q <= thumbnail.quality

=============================================================================
