-------------------------------- MODULE Texts --------------------------------
(***************************************************************************)
(* Text as a sequence of characters: normalize_text (text_normalize.cpp),  *)
(* the edit distance of the stable-id tracker, and the merging of OCR line *)
(* boxes into visual lines.                                                *)
(***************************************************************************)
EXTENDS Rects, SequencesExt

\* A character is an ASCII letter or one of the classes that normalization
\* tells apart: "wide_a" the fullwidth form of "a", "wide_space" U+3000, "del"
\* and "c1" control characters, "vt" a control character that is white space
\* too, "stray" a byte of 0x80..0x9F that belongs to no sequence.
White == {" ", "tab", "vt"}
Control == {"vt", "del", "c1", "stray"}

Folded(ch) ==
  CASE ch = "wide_a" -> "a" [] ch = "wide_space" -> " " [] OTHER -> ch

TransformCharacters(text, flags) ==
  LET Fold(ch) == IF "fold" \in flags THEN Folded(ch) ELSE ch
      Stays(ch) == "strip" \in flags => ch \notin Control
  IN  SelectSeq([i \in DOMAIN text |-> Fold(text[i])], Stays)

\* A run of white space becomes the blank before the character that ends it.
CollapseWhitespace(text) ==
  LET After(out, i) ==
        IF text[i] \in White THEN out
        ELSE IF i > 1 /\ text[i - 1] \in White /\ out # <<>> THEN out \o <<" ", text[i]>>
        ELSE Append(out, text[i])
  IN  FoldLeftDomain(After, <<>>, text)

Trim(text) ==
  LET ink == {i \in DOMAIN text : text[i] \notin White}
  IN  IF ink = {} THEN <<>> ELSE SubSeq(text, Min(ink), Max(ink))

NormalizeText(text, flags) ==
  LET shown == TransformCharacters(text, flags)
      folded == IF "collapse" \in flags THEN CollapseWhitespace(shown) ELSE shown
  IN  IF "trim" \in flags THEN Trim(folded) ELSE folded

AllFlags == {"trim", "collapse", "strip", "fold"}
MaxTextBytes == 1024

NormalizedText(text) ==
  LET normalized == NormalizeText(text, AllFlags)
  IN  SubSeq(normalized, 1, Min({Len(normalized), MaxTextBytes}))

(***************************************************************************)
(* text_similarity: Levenshtein over one rolling row.                      *)
(***************************************************************************)
NextRow(row, i, ch, b) ==
  LET new[j \in 0 .. Len(b)] ==
        IF j = 0 THEN i
        ELSE Min({row[j] + 1, new[j - 1] + 1, row[j - 1] + (IF ch = b[j] THEN 0 ELSE 1)})
  IN  new

EditDistance(a, b) ==
  FoldLeftDomain(LAMBDA row, i : NextRow(row, i, a[i], b), [j \in 0 .. Len(b) |-> j], a)[Len(b)]

TextSimilarity(a, b) ==
  IF a = <<>> \/ b = <<>> THEN Zero
  ELSE LET longest == Max({Len(a), Len(b)})
       IN  <<longest - EditDistance(a, b), longest>>

(***************************************************************************)
(* merge_text_lines.  A line is [bounds, text, confidence], `params' holds *)
(* the two ratios, the cap and the separator.                              *)
(***************************************************************************)
SameLine(a, b, params) ==
  LET height == Min({a.bounds.h, b.bounds.h})
      offset == Center2(a.bounds)[2] - Center2(b.bounds)[2]
      gap == Max({0, Max({a.bounds.x, b.bounds.x})
                       - Min({a.bounds.x + a.bounds.w, b.bounds.x + b.bounds.w})})
  IN  /\ height > 0
      /\ AtLeast(<<params.center[1] * height, params.center[2]>>, <<Max({offset, -offset}), 2>>)
      /\ AtLeast(<<params.gap[1] * height, params.gap[2]>>, <<gap, 1>>)

Absorb(current, other, separator) ==
  [bounds |-> Union(current.bounds, other.bounds),
   text |-> current.text \o separator \o other.text,
   confidence |-> Min({current.confidence, other.confidence})]

\* Boxes with the same corner keep the order of the input.
ReadingOrder(lines) ==
  LET Above(i, j) ==
        \/ lines[i].bounds.y < lines[j].bounds.y
        \/ lines[i].bounds.y = lines[j].bounds.y /\ lines[i].bounds.x < lines[j].bounds.x
        \/ lines[i].bounds.y = lines[j].bounds.y /\ lines[i].bounds.x = lines[j].bounds.x /\ i < j
  IN  SetToSortSeq(DOMAIN lines, Above)

\* One pass over the boxes that are left; each box it takes widens the line.
AbsorbPass(lines, order, params, grown) ==
  LET Take(state, i) ==
        IF i \in state.consumed \/ ~SameLine(state.current, lines[i], params) THEN state
        ELSE [current |-> Absorb(state.current, lines[i], params.separator),
              consumed |-> state.consumed \cup {i}]
  IN  FoldLeft(Take, grown, order)

\* Passes until one takes nothing: each of them but the last takes a box.
AbsorbLines(lines, order, params, seed) ==
  FoldLeft(LAMBDA grown, pass : AbsorbPass(lines, order, params, grown), seed, order)

MergeTextLines(lines, params) ==
  IF Len(lines) > params.max_lines THEN [status |-> "kBudgetExceeded", lines |-> <<>>]
  ELSE
    LET order == ReadingOrder(lines)
        Start(state, i) ==
          IF i \in state.consumed THEN state
          ELSE LET grown == AbsorbLines(lines, order, params,
                              [current |-> lines[i], consumed |-> state.consumed \cup {i}])
               IN  [merged |-> Append(state.merged, grown.current), consumed |-> grown.consumed]
        done == FoldLeft(Start, [merged |-> <<>>, consumed |-> {}], order)
    IN  [status |-> "kOk", lines |-> done.merged]
=============================================================================
