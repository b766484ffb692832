----------------------------- MODULE EditorView -----------------------------
(***************************************************************************)
(* What the editor derives from the lines of the program: fold regions and  *)
(* hidden lines, label positions, jump arrows and their levels, search      *)
(* matches (AsmEditor.tsx, foldRegions.ts), the linter's complaints about   *)
(* identifiers (linter.ts), and the breadcrumb (App.tsx).                   *)
(*                                                                         *)
(* A line is what the regular expressions of this code tell apart: its      *)
(* label and whether that is indented, what follows it (a section           *)
(* directive, a jump, the definition of data or a single unknown word), and *)
(* the identifier of that.  The lines change by edits, the set of folded    *)
(* lines by the toggles in the gutter; everything else is computed.         *)
(***************************************************************************)
EXTENDS Integers, Sequences, SequencesExt

CONSTANTS Name,      \* identifiers, compared in lower case
          Dotted,    \* those that begin with a dot
          Register,  \* those that are registers
          Line,      \* the lines that edits put in
          Sought,    \* bound: those that the search bar replaces, and puts in their place
          None,      \* no identifier
          MaxLines   \* bound: lines of the program

Jumps   == { "jump" }

\* A section directive is only seen at the start of its line.
AnyLine ==
  { line \in [label : Name \cup {None}, indented : BOOLEAN,
              op : {"none", "section", "data", "word", "other"} \cup Jumps, to : Name \cup {None}]
    : line.op = "section" => line.label = None }
EmptyLine == [label |-> None, indented |-> FALSE, op |-> "none", to |-> None]

ASSUME MaxLinesAssumption == MaxLines \in Nat \ {0}
ASSUME LineAssumption == Line \subseteq AnyLine
ASSUME NameAssumption ==
  Dotted \cup Register \cup Sought \subseteq Name /\ None \notin Name /\ "section" \notin Name

VARIABLES
  lines,   \* code.split('\n')
  folded   \* foldedLines

vars == <<lines, folded>>

TypeOK ==
  /\ lines \in Seq(AnyLine)
  /\ Len(lines) \in 1..MaxLines
  /\ folded \subseteq 1..MaxLines

Init == lines = << EmptyLine >> /\ folded = {}

----------------------------------------------------------------------------
(* Folding                                                                 *)

IsSection(line) == line.op = "section"
IsBlockLabel(line) == line.label # None /\ ~line.indented

\* Mutant: a label's block runs through the next section.
EndsBlock_IgnoresSections(line) == IsBlockLabel(line)

EndsBlock(line) == IsSection(line) \/ IsBlockLabel(line)

\* The lines below a line up to the next one that ends its region.
Below(start, Ends(_)) ==
  { j \in (start + 1)..Len(lines) : \A i \in (start + 1)..j : ~Ends(lines[i]) }

SectionBody(start) == Below(start, IsSection)
BlockBody(start)   == Below(start, EndsBlock)

\* computeFoldRegions: sections, and the blocks of labels that are not indented;
\* one without a line below it is no region.
FoldRegions ==
  { region \in
      { [start |-> i, body |-> SectionBody(i)]
          : i \in { i \in 1..Len(lines) : IsSection(lines[i]) } }
      \cup
      { [start |-> i, body |-> BlockBody(i)]
          : i \in { i \in 1..Len(lines) : IsBlockLabel(lines[i]) } }
    : region.body # {} }

HiddenLines == UNION { region.body : region \in { r \in FoldRegions : r.start \in folded } }

\* The gutter has a toggle at the first line of a region, when it is shown.
ToggleFold ==
  /\ \E region \in FoldRegions :
       /\ region.start \notin HiddenLines
       /\ folded' = (folded \ {region.start}) \cup ({region.start} \ folded)
  /\ UNCHANGED lines

----------------------------------------------------------------------------
(* Labels and jump arrows                                                  *)

\* labelPositions: of two definitions the later one counts.
Definitions(name) == { i \in 1..Len(lines) : lines[i].label = name }
LabelPosition(name) == Max(Definitions(name))

\* A jump behind a label on its line is not seen.
RawArrows ==
  { [from |-> i, to |-> LabelPosition(lines[i].to)]
      : i \in { i \in 1..Len(lines) :
                  /\ lines[i].op \in Jumps
                  /\ lines[i].label = None
                  /\ Definitions(lines[i].to) # {} } }

Low(arrow)  == Min({arrow.from, arrow.to})
High(arrow) == Max({arrow.from, arrow.to})
Span(arrow) == High(arrow) - Low(arrow)

Overlap(a, b) == Low(a) <= High(b) /\ Low(b) <= High(a)

\* Mutant: the arrows get their levels in the order of the lines.
Before_ByLine(a, b) == a.from < b.from

\* The order in which arrows get their levels; the sort is stable.
Before(a, b) ==
  \/ Span(a) < Span(b)
  \/ Span(a) = Span(b) /\ a.from < b.from

\* An arrow gets the first level that no arrow overlapping it has been given before.
Level ==
  LET level[a \in RawArrows] ==
        Min((0..Len(lines)) \
              { level[b] : b \in { b \in RawArrows : Before(b, a) /\ Overlap(a, b) } })
  IN  level

JumpArrows == { [from |-> a.from, to |-> a.to, level |-> Level[a]] : a \in RawArrows }

----------------------------------------------------------------------------
(* The linter.  Operand counts and brackets are left aside                 *)

DataNames == { lines[i].to : i \in { i \in 1..Len(lines) : lines[i].op = "data" /\ lines[i].label = None } }

\* Mutant: data defined without a colon is no label.
LabelDefs_ColonOnly == { name \in Name : Definitions(name) # {} }

\* labelDefs: with a colon, or before a data pseudo-instruction at the start of a line.
LabelDefs == { name \in Name : Definitions(name) # {} } \cup DataNames

\* A jump is looked at behind a label too; where its target is defined does not matter.
UndefinedLabels ==
  { i \in 1..Len(lines) :
      lines[i].op \in Jumps /\ lines[i].to \in Name \ (LabelDefs \cup Register) }

\* A word that is no instruction, unless it is a label whose colon was forgotten.
UnknownInstructions ==
  { i \in 1..Len(lines) : lines[i].op = "word" /\ lines[i].to \in Name \ (LabelDefs \cup Register) }

\* The lines that the gutter marks.
LintLines == UndefinedLabels \cup UnknownInstructions

----------------------------------------------------------------------------
(* The breadcrumb above the editor                                         *)

\* Mutant: the section is put behind the label.
Walk_Appends(line, parts) ==
  IF Len(parts) >= 2 THEN parts
  ELSE IF IsSection(line) THEN Append(parts, "section")
       ELSE IF line.label # None THEN Append(parts, line.label) ELSE parts

\* One line on the way up from the active one.  A part that begins with a dot is
\* taken for a section; the walk ends at two parts.
Walk(line, parts) ==
  IF Len(parts) >= 2 THEN parts
  ELSE LET sectionSeen == \E i \in 1..Len(parts) : parts[i] \in Dotted \cup {"section"}
       IN  IF IsSection(line) /\ ~sectionSeen THEN << "section" >> \o parts
           ELSE IF line.label # None /\ \A i \in 1..Len(parts) : parts[i] # line.label
                THEN Append(parts, line.label)
                ELSE parts

Breadcrumb(activeLine) ==
  LET parts[up \in 0..activeLine] ==
        IF up = 0 THEN << >> ELSE Walk(lines[activeLine + 1 - up], parts[up - 1])
  IN  parts[activeLine]

----------------------------------------------------------------------------
(* Edits                                                                   *)

\* Lines are inserted, removed and changed; an empty editor has one empty line.
InsertLine ==
  /\ Len(lines) < MaxLines
  /\ \E i \in 1..(Len(lines) + 1), line \in Line : lines' = InsertAt(lines, i, line)
  /\ UNCHANGED folded

\* Mutant: the last line can be removed.
DeleteLine_Last ==
  /\ \E i \in 1..Len(lines) : lines' = RemoveAt(lines, i)
  /\ UNCHANGED folded

DeleteLine ==
  /\ \E i \in 1..Len(lines) :
       lines' = IF Len(lines) = 1 THEN << EmptyLine >> ELSE RemoveAt(lines, i)
  /\ UNCHANGED folded

ChangeLine ==
  /\ \E i \in 1..Len(lines), line \in Line : lines' = [lines EXCEPT ![i] = line]
  /\ UNCHANGED folded

\* findMatches, for a whole identifier: where each line has it.
FindMatches(name) == { i \in 1..Len(lines) : name \in {lines[i].label, lines[i].to} }

Renamed(line, old, new) ==
  [line EXCEPT !.label = IF @ = old THEN new ELSE @, !.to = IF @ = old THEN new ELSE @]

\* On a line that has the identifier twice, the first is the label's.
RenamedFirst(line, old, new) ==
  IF line.label = old THEN [line EXCEPT !.label = new] ELSE [line EXCEPT !.to = new]

\* handleReplaceOne.  The lines above the match are joined, and kept only if that
\* is not the empty text: a single empty line is lost.
HandleReplaceOne(old, new) ==
  /\ \E at \in FindMatches(old) :
       /\ \A i \in FindMatches(old) : at <= i
       /\ LET all  == [lines EXCEPT ![at] = RenamedFirst(@, old, new)]
              lost == at = 2 /\ lines[1] = EmptyLine
          IN  lines' = IF lost THEN Tail(all) ELSE all
  /\ UNCHANGED folded

HandleReplaceAll(old, new) ==
  /\ lines' = [i \in 1..Len(lines) |-> Renamed(lines[i], old, new)]
  /\ UNCHANGED folded

Next == \/ ToggleFold
        \/ InsertLine \/ DeleteLine \/ ChangeLine
        \/ \E old, new \in Sought : HandleReplaceOne(old, new) \/ HandleReplaceAll(old, new)

Spec == Init /\ [][Next]_vars

----------------------------------------------------------------------------
(* Properties                                                              *)

\* Nothing is hidden for good: whatever was folded and however the lines have
\* moved since under the remembered line numbers (AsmEditor.tsx:87, 108), each hidden
\* line lies in a folded region whose toggle is on display.
Unfoldable ==
  \A line \in HiddenLines :
    \E region \in FoldRegions :
      /\ line \in region.body
      /\ region.start \in folded \ HiddenLines

\* Arrows that share a line have different levels, and one that lies within
\* another has the inner level, so that those two do not cross (AsmEditor.tsx:511).
Nested ==
  LET arrows == JumpArrows
  IN  \A a, b \in arrows :
        a # b /\ Overlap(a, b) =>
          /\ a.level # b.level
          /\ Low(b) <= Low(a) /\ High(a) <= High(b) /\ Span(a) < Span(b) => a.level < b.level

\* The arrows and the linter, which read labels differently, do not contradict each
\* other: a jump at the start of its line is complained of exactly when no arrow leaves
\* it and it goes neither to data nor through a register (AsmEditor.tsx:496,
\* linter.ts:118-121).
Accounted ==
  LET drawn == { arrow.from : arrow \in JumpArrows }
  IN  \A i \in DOMAIN lines :
        lines[i].op \in Jumps /\ lines[i].label = None /\ lines[i].to \in Name =>
          (i \in LintLines <=> i \notin drawn /\ lines[i].to \notin DataNames \cup Register)

\* Through every edit and replacement of identifiers, each jump is shown as what it
\* is, drawn or complained of, and of two arrows that overlap neither hides the
\* other: they run apart, and an enclosed one runs inside.
JumpsShown == Accounted /\ Nested

\* Under a section and its only label, unless that is a local one, the breadcrumb is
\* that section and that label, whatever lies above the section and however often the
\* label is defined (App.tsx:400-411).  With two labels there may be no room left for
\* the section, and a local label is taken for one.
BreadcrumbEncloses ==
  \A at \in DOMAIN lines :
    \A top \in { i \in 1..at : IsSection(lines[i]) /\ \A j \in (i + 1)..at : ~IsSection(lines[j]) } :
      \A name \in Name \ Dotted :
        { lines[i].label : i \in top..at } \ {None} = {name} => Breadcrumb(at) = << "section", name >>
=============================================================================
