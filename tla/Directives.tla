------------------------------ MODULE Directives ------------------------------
(***************************************************************************)
(* Titles and descriptions from templates with directives.  A template is  *)
(* parsed into literals, variables and generative slots; the finisher, a   *)
(* language model, answers each slot; the pieces are put in their places.  *)
(* A title takes its variables from the genre, a description from shared   *)
(* texts that no model may rewrite, from the chapters and from fields that *)
(* the finisher fills in.                                                  *)
(*                                                                         *)
(* A template is a sequence of tokens: the two braces, words that are      *)
(* identifiers, "free" for text that is not, and "blank" for space.  An    *)
(* escaped brace is set aside before the braces are looked for, and is     *)
(* free text.  Two words side by side are one longer identifier.           *)
(***************************************************************************)
EXTENDS Naturals, Sequences, FiniteSets

CONSTANTS Words,     \* identifiers that occur in templates
          Titled,    \* variables of a title: genre and duration
          Shared,    \* texts of the description that are taken as they are
          Fields,    \* llm_fields of the description
          MaxTokens, \* bound on the length of a template
          TitleMax,  \* MAX_TITLE_CHARS, in tokens
          EmojiMax   \* _MAX_TITLE_EMOJI

Marks == {"open", "close", "free", "blank"}
Tokens == Marks \cup Words
Templates == UNION {[1 .. n -> Tokens] : n \in 1 .. MaxTokens}

\* What the finisher may answer for a slot: nothing, a text, an emoji, or more
\* than the slot has room for.
Texts == {"nothing", "text", "emoji", "long"}

ASSUME WordAssumption == /\ Words \cap (Marks \cup Texts) = {}
                         /\ Titled \cup Shared \cup Fields \subseteq Words
                         /\ Shared \cap Fields = {}
ASSUME TitleAssumption == {MaxTokens, TitleMax, EmojiMax} \subseteq Nat

VARIABLES template, \* the template and what it is for
          stage,    \* how far it has come, or why it was refused
          segments, \* ParsedTemplate.segments
          slotText, \* texts of the generative slots answered so far
          rendered  \* the text, as a sequence of tokens and values

directiveVars == <<template, stage, segments, slotText, rendered>>

DirectivesInit ==
  /\ template \in [kind : {"title", "description"}, body : Templates]
  /\ stage = "new"
  /\ segments = <<>> /\ slotText = <<>> /\ rendered = <<>>

-----------------------------------------------------------------------------
(* The parser. *)

\* Position of the first such token from i on, one past the end without one.
Find(t, token, i) ==
  CHOOSE k \in i .. Len(t) + 1 :
    /\ k = Len(t) + 1 \/ t[k] = token
    /\ \A j \in i .. k - 1 : t[j] # token

Bad == <<[type |-> "bad"]>>

\* The body of a directive without the space around it.
Stripped(t) ==
  LET solid == {i \in DOMAIN t : t[i] # "blank"}
      first == CHOOSE i \in solid : \A j \in solid : i <= j
      last == CHOOSE i \in solid : \A j \in solid : j <= i
  IN IF solid = {} THEN <<>> ELSE SubSeq(t, first, last)

Literal(t) == IF t = <<>> THEN <<>> ELSE <<[type |-> "lit", text |-> t]>>

\* Mutant: the body is not stripped before it is classified.
DirectiveUnstripped(body) ==
  IF Stripped(body) = <<>> THEN Bad
  ELSE IF \A i \in DOMAIN body : body[i] \in Words
    THEN <<[type |-> "var", name |-> body]>> ELSE <<[type |-> "gen", text |-> body]>>

\* An identifier is a variable, anything else a slot; nothing is an error.
Directive(body) ==
  LET text == Stripped(body)
  IN IF text = <<>> THEN Bad
     ELSE IF \A i \in DOMAIN text : text[i] \in Words
       THEN <<[type |-> "var", name |-> text]>> ELSE <<[type |-> "gen", text |-> text]>>

\* _split_directives and parse_template: from each position, up to the next
\* opening brace and from there to the next closing one.
Split(t) ==
  LET from[i \in 1 .. Len(t) + 1] ==
        LET open == Find(t, "open", i)
            close == Find(t, "close", open + 1)
            literal == SubSeq(t, i, open - 1)
            body == SubSeq(t, open + 1, close - 1)
        IN IF Find(t, "close", i) < open THEN Bad
           ELSE IF open > Len(t) THEN Literal(literal)
           ELSE IF close > Len(t) \/ Find(body, "open", 1) <= Len(body) THEN Bad
           ELSE Literal(literal) \o Directive(body) \o from[close + 1]
  IN from[1]

IsBad(segs) == \E i \in DOMAIN segs : segs[i].type = "bad"
Slots(segs) == {i \in DOMAIN segs : segs[i].type = "gen"}
VarNames(segs) == {segs[i].name : i \in {i \in DOMAIN segs : segs[i].type = "var"}}
SlotId(segs, i) == Cardinality({j \in Slots(segs) : j <= i})

Refuse(why) == stage' = why /\ UNCHANGED <<template, segments, slotText, rendered>>

ParseTemplate ==
  /\ stage = "new"
  /\ LET segs == Split(template.body)
     IN IF IsBad(segs)
          THEN Refuse("syntax")
          ELSE /\ stage' = "parsed"
               /\ segments' = segs
               /\ UNCHANGED <<template, slotText, rendered>>

-----------------------------------------------------------------------------
(* The finisher. *)

Missing == Cardinality(Slots(segments)) - Len(slotText)

\* LlmFinisher.render: a text that is longer than the slot allows is refused.
SlotAnswered(text) ==
  IF text = "long"
    THEN Refuse("slot")
    ELSE /\ slotText' = Append(slotText, text)
         /\ UNCHANGED <<template, stage, segments, rendered>>

\* render_title asks for one slot after the other.
RenderSlot(text) ==
  /\ stage = "parsed" /\ template.kind = "title" /\ Missing > 0
  /\ SlotAnswered(text)

\* LlmFinisher.finish asks for all at once; other identifiers in the answer
\* are ignored, a missing one is an error.
FinishBatch(ids, text) ==
  /\ stage = "parsed" /\ template.kind = "title" /\ slotText = <<>> /\ Missing > 0
  /\ IF \E i \in 1 .. Missing : i \notin ids
       THEN Refuse("slot")
       ELSE /\ slotText' = [i \in 1 .. Missing |-> text]
            /\ UNCHANGED <<template, stage, segments, rendered>>

-----------------------------------------------------------------------------
(* Rendering. *)

\* A piece of the text: where it comes from, and what it is or stands for.
Plain(token) == [from |-> "template", of |-> <<token>>]
Made(text) == [from |-> "slot", of |-> <<text>>]

Value(name) ==
  [of |-> name,
   from |-> CASE template.kind = "title" -> "genre"
              [] template.kind # "title" /\ name[1] \in Shared -> "shared"
              [] OTHER -> "finisher"]

\* The text of a template, from the values of its variables and slots.
Join(segs, texts) ==
  LET upto[i \in 0 .. Len(segs)] ==
        IF i = 0 THEN <<>>
        ELSE upto[i - 1] \o
             CASE segs[i].type = "lit" ->
                    [k \in DOMAIN segs[i].text |-> Plain(segs[i].text[k])]
               [] segs[i].type = "var" -> <<Value(segs[i].name)>>
               [] segs[i].type = "gen" -> <<Made(texts[SlotId(segs, i)])>>
  IN upto[Len(segs)]

Emoji(text) == Cardinality({i \in DOMAIN text : text[i] = Made("emoji")})
Length(text) == Cardinality({i \in DOMAIN text : text[i] # Made("nothing")})

RenderTitle ==
  /\ stage = "parsed" /\ template.kind = "title" /\ Missing = 0
  /\ IF \E name \in VarNames(segments) : Len(name) # 1 \/ name[1] \notin Titled
       THEN Refuse("undefined")
       ELSE LET text == Join(segments, slotText)
            IN IF Length(text) > TitleMax \/ Emoji(text) > EmojiMax
                 THEN Refuse("title")
                 ELSE /\ rendered' = text
                      /\ stage' = "done"
                      /\ UNCHANGED <<template, segments, slotText>>

HasUnknown(names) == \/ \E name \in VarNames(segments) : Len(name) # 1
                     \/ ~ (names \subseteq Shared \cup Fields)
SharedMissing(names, present) == ~ (names \cap Shared \subseteq present)
FieldFails(names, fits) == ~ fits /\ names \cap Fields # {}

\* The shared texts have to be there, every other name has to be a field; a
\* slot in the body of a description has no text.  A field, like a slot, may
\* come back too long.
RenderDescription(present, fits) ==
  /\ stage = "parsed" /\ template.kind = "description"
  /\ LET names == {name[1] : name \in {n \in VarNames(segments) : Len(n) = 1}}
     IN IF HasUnknown(names) \/ Slots(segments) # {} \/ SharedMissing(names, present)
          THEN Refuse("undefined")
          ELSE IF FieldFails(names, fits)
            THEN Refuse("slot")
            ELSE /\ rendered' = Join(segments, slotText)
                 /\ stage' = "done"
                 /\ UNCHANGED <<template, segments, slotText>>

DirectivesNext ==
  \/ ParseTemplate
  \/ \E text \in Texts : RenderSlot(text)
  \/ \E ids \in SUBSET (1 .. MaxTokens), text \in {"text", "emoji"} : FinishBatch(ids, text)
  \/ RenderTitle
  \/ \E present \in SUBSET Shared, fits \in BOOLEAN : RenderDescription(present, fits)

DirectivesSpec == DirectivesInit /\ [][DirectivesNext]_directiveVars

-----------------------------------------------------------------------------
(* Properties *)

DirectivesTypeOK ==
  /\ template.body \in Templates
  /\ stage \in {"new", "parsed", "syntax", "slot", "undefined", "title", "done"}
  /\ slotText \in Seq(Texts)

\* The grammar of a template, said of whole positions: braces take turns,
\* opening first, closing last, with something between them.
Braces(t) == {i \in DOMAIN t : t[i] \in {"open", "close"}}
BracesBefore(t, i) == Cardinality({j \in Braces(t) : j < i})
Grammatical(t) ==
  /\ \A i \in Braces(t) : t[i] = IF BracesBefore(t, i) % 2 = 0 THEN "open" ELSE "close"
  /\ Cardinality(Braces(t)) % 2 = 0
  /\ \A i \in Braces(t) : t[i] = "open" =>
       \E j \in i .. Len(t) : BracesBefore(t, j) = BracesBefore(t, i) + 1 /\ t[j] \notin {"blank", "close"}

\* The same of the text: what stands outside of directives, and one value for
\* each directive, in the order of the template.
Outside(t) == {i \in DOMAIN t : BracesBefore(t, i) % 2 = 0 /\ t[i] # "open"}
Inside(t, i) == SubSeq(t, i + 1, Find(t, "close", i) - 1)
IsSlot(t, i) == t[i] = "open" /\ \E j \in DOMAIN Inside(t, i) : \E k \in DOMAIN Inside(t, i) :
                  /\ j <= k /\ Inside(t, i)[j] # "blank" /\ Inside(t, i)[k] # "blank"
                  /\ \E x \in j .. k : Inside(t, i)[x] \notin Words
OnlyWord(t, i) == CHOOSE x \in Words : \E j \in DOMAIN Inside(t, i) : Inside(t, i)[j] = x
Places(t) == {i \in DOMAIN t : i \in Outside(t) \/ t[i] = "open"}
RankAmong(S, i) == Cardinality({j \in S : j <= i})
PieceAt(t, texts, i) ==
  IF t[i] # "open" THEN Plain(t[i])
  ELSE IF IsSlot(t, i)
    THEN Made(texts[RankAmong({j \in DOMAIN t : IsSlot(t, j)}, i)])
    ELSE Value(<<OnlyWord(t, i)>>)
Expected(t, texts) ==
  [n \in 1 .. Cardinality(Places(t)) |->
     PieceAt(t, texts, CHOOSE i \in Places(t) : RankAmong(Places(t), i) = n)]

\* A template is refused for its syntax exactly when it breaks the grammar, and
\* the text that is delivered is the template with every directive replaced in
\* its place by its own value: no text of a slot gets to another one, and a
\* shared text, which states that the music is made by an AI, comes from the
\* shared file and never from the finisher.
RendersByGrammar ==
  /\ stage = "syntax" => ~ Grammatical(template.body)
  /\ stage \notin {"new", "syntax"} => Grammatical(template.body)
  /\ stage = "done" => rendered = Expected(template.body, slotText)

=============================================================================
