----------------------------- MODULE GenerateDS -----------------------------
(***************************************************************************)
(* What the generated classes do with a document.  doxyxml imports         *)
(* compound.py, whose subclasses replace the generated classes, builds an  *)
(* object graph and asks text.py for the descriptions in it.  Run as a     *)
(* script, compoundsuper.py (or indexsuper.py) builds the graph with its   *)
(* own classes and exports it as XML again.                                *)
(*                                                                         *)
(* Text is a sequence of characters [c, esc, cdata]: c stands for a piece  *)
(* of text, "<" for one that needs quoting, "wide" for one outside ASCII,  *)
(* "layout" for the line breaks and the indentation that export adds; esc  *)
(* says how many times it is quoted (quote_xml adds one, an XML parser     *)
(* takes one away); cdata marks what came from a CDATA section.  Left out  *)
(* are text that itself spells the marks of a CDATA section and text that  *)
(* a document can hold only as a character reference.                      *)
(***************************************************************************)
EXTENDS Naturals, Sequences, SequencesExt, DoxySchema

CONSTANTS Documents    \* the elements a file may hold: [class, root] records

VARIABLES stage,       \* "file", "built", "printed", "reread", "described",
                       \* or "raised" when an exception ends the work
          user,        \* "doxyxml" or "script"
          stdout,      \* what sys.stdout can take: "ascii" (a file or a
                       \* pipe) or "utf-8" (a terminal)
          doc,         \* the document, a member of Documents
          obj,         \* the object graph built from it
          out,         \* the document export wrote
          again,       \* the object graph built from that
          text         \* the description text.py extracted

graphVars == <<stage, user, stdout, doc, obj, out, again, text>>

-----------------------------------------------------------------------------
(* DOM nodes, as minidom gives them. *)

Char(c, esc, cdata) == [c |-> c, esc |-> esc, cdata |-> cdata]

Special(ch) == ch.c = "<"

Wide(ch) == ch.c = "wide"

Element(tag, attrs, kids) ==
    [type |-> "element", tag |-> tag, attrs |-> attrs, kids |-> kids,
     val |-> <<>>]

NoAttrs == [a \in {} |-> <<>>]

Leaf(type, val) ==
    [type |-> type, tag |-> "", attrs |-> NoAttrs, kids |-> <<>>, val |-> val]

(* Objects.  A string is an object of class "text". *)

NoKids == [t \in {} |-> <<>>]

String(val) ==
    [class |-> "text", attrs |-> NoAttrs, kids |-> NoKids, content_ |-> <<>>,
     content |-> <<>>, valueOf_ |-> val]

MixedContainer(category, name, value) ==
    [category |-> category, name |-> name, value |-> value]

Null == String(<<>>)

-----------------------------------------------------------------------------
(* build *)

(* The children that docParaTypeSub takes besides those of docParaType. *)
docParaTypeSub ==
    <<Slot("ref", "docRefTextType", "content", "none"),
      Slot("parameterlist", "docParamListType", "many", "none"),
      Slot("simplesect", "docSimpleSectType", "many", "none")>>

Slots(class, sub) ==
    Class[class].slots \o
        (IF sub /\ class = "docParaType" THEN docParaTypeSub ELSE <<>>)

(* The slot that buildChildren finds for a child node: none for text and   *)
(* for an element it does not know.                                        *)
SlotsFor(class, sub, n) ==
    {s \in ToSet(Slots(class, sub)) : n.type = "element" /\ s.tag = n.tag}

ConcatMap(f(_), s) == FlattenSeq([i \in DOMAIN s |-> f(s[i])])

(* text__content_.nodeValue, put together. *)
TextContent(n) == ConcatMap(LAMBDA k : k.val, n.kids)

(* What makes build raise: int() of something else than a number, and an   *)
(* element, whose nodeValue is None, inside an element taken as text.      *)
RECURSIVE BuildRaises(_, _, _)
BuildRaises(class, sub, n) ==
    IF class = "text"
    THEN \E k \in ToSet(n.kids) : k.type = "element"
    ELSE \/ \E a \in Class[class].attrs :
               /\ a.type = "integer" /\ a.name \in DOMAIN n.attrs
               /\ n.attrs[a.name][1].c # "1"
         \/ \E k \in ToSet(n.kids) : \E s \in SlotsFor(class, sub, k) :
               BuildRaises(s.class, sub, k)

buildAttributes(class, n) ==
    [a \in {x.name : x \in Class[class].attrs} \cap DOMAIN n.attrs |->
        n.attrs[a]]

RECURSIVE build(_, _, _)
build(class, sub, n) ==
    IF class = "text" THEN String(TextContent(n)) ELSE
    LET C == Class[class]
        Built(s, k) == build(s.class, sub, k)
        InSlot(s) == SelectSeq(n.kids, LAMBDA k : s \in SlotsFor(class, sub, k))
        Collected(s) ==
            LET all == [i \in DOMAIN InSlot(s) |-> Built(s, InSlot(s)[i])]
            IN  IF s.card = "one" /\ all # <<>> THEN <<Last(all)>> ELSE all
        Contained(k, cards) ==
            IF k.type = "text"
            THEN <<MixedContainer("text", "", String(k.val))>>
            ELSE LET slots == {s \in SlotsFor(class, sub, k) : s.card \in cards}
                     s == CHOOSE x \in slots : TRUE
                 IN  IF slots = {} THEN <<>>
                     ELSE <<MixedContainer(
                              IF s.class = "text" THEN "simple" ELSE "complex",
                              IF s.card = "item" THEN k.tag ELSE "",
                              Built(s, k))>>
        Marked(k) ==
            IF k.type = "cdata" THEN [i \in DOMAIN k.val |->
                                        [k.val[i] EXCEPT !.cdata = TRUE]]
                                ELSE k.val
    IN  [class |-> class,
         attrs |-> buildAttributes(class, n),
         kids |-> [t \in {s.tag : s \in {x \in ToSet(Slots(class, sub)) :
                                            x.card \in {"one", "many"}}} |->
                      Collected(CHOOSE s \in ToSet(Slots(class, sub)) :
                                    s.tag = t)],
         content_ |-> IF C.text \in {"both", "mixed"}
                      THEN ConcatMap(LAMBDA k : Contained(k, {"item"}), n.kids)
                      ELSE <<>>,
         content |-> IF sub /\ class = "docParaType"
                     THEN ConcatMap(LAMBDA k : Contained(k, {"content"}), n.kids)
                     ELSE <<>>,
         valueOf_ |-> IF C.text \in {"value", "both"}
                      THEN ConcatMap(Marked, n.kids) ELSE <<>>]

-----------------------------------------------------------------------------
(* export, and minidom reading what it wrote *)

quote_xml(val) ==
    [i \in DOMAIN val |->
        IF Special(val[i]) THEN [val[i] EXCEPT !.esc = @ + 1] ELSE val[i]]

quote_attrib(val) == quote_xml(val)

(* '%s' of an object is its address and class, '%s' of None is None. *)
Repr == <<Char("<", 0, FALSE), Char("instance", 0, FALSE)>>

NoneText == <<Char("None", 0, FALSE)>>

(* encode(ExternalEncoding), which raises at a character outside ASCII. *)
encode(val) ==
    [i \in DOMAIN val |-> IF Wide(val[i]) THEN Char("error", 0, FALSE)
                                          ELSE val[i]]

exportAttributes(o) ==
    LET attrs == Class[o.class].attrs
        Quoted(a) == quote_attrib(IF a.name \in DOMAIN o.attrs
                                  THEN o.attrs[a.name] ELSE NoneText)
        Written_(a) == IF a.type = "string" THEN encode(Quoted(a)) ELSE Quoted(a)
    IN  [n \in DOMAIN o.attrs \cup {a.name : a \in {x \in attrs : x.always}} |->
            Written_(CHOOSE a \in attrs : a.name = n)]

(* '\n' and showIndent. *)
Layout == Leaf("text", <<Char("layout", 0, FALSE)>>)

(* The export method of an object begins with showIndent and ends with     *)
(* '\n', whatever the object is written into.                              *)
Laid(w) == <<Layout, w, Layout>>

\* Mutant of exportValue: the value is written without quoting it.
ExportRaw(class, val) ==
    [i \in DOMAIN val |->
        Leaf(IF val[i].cdata THEN "cdata" ELSE "text", <<val[i]>>)]

(* export and exportChildren of the classes with a value: the text is      *)
(* quoted, CDATA included, and the marks put around CDATA become a section *)
(* again.  A class that has only the value lays it out on a line of its    *)
(* own.                                                                    *)
exportValue(class, val) ==
    LET quoted == quote_xml(val)
        written == [i \in DOMAIN val |->
                      Leaf(IF val[i].cdata THEN "cdata" ELSE "text", <<quoted[i]>>)]
    IN  IF Class[class].text = "value" THEN <<Layout>> \o written \o <<Layout>>
                                       ELSE written

(* The text of mixed content and its simple items are written as they are. *)
RECURSIVE export(_, _)
export(o, name_) ==
    LET C == Class[o.class]
        AsString(s, k) ==
            Element(s.tag, NoAttrs,
                <<Leaf("text", encode(quote_xml(IF k.class = "text"
                                                THEN k.valueOf_ ELSE Repr)))>>)
        Children(s) ==
            ConcatMap(LAMBDA k : Laid(IF s.export = "string" THEN AsString(s, k)
                                                             ELSE export(k, s.tag)),
                      o.kids[s.tag])
        Contained(m) ==
            CASE m.category = "text" -> <<Leaf("text", m.value.valueOf_)>>
              [] m.category = "simple" ->
                    <<Element(m.name, NoAttrs, <<Leaf("text", m.value.valueOf_)>>)>>
              [] OTHER -> Laid(export(m.value, m.name))
        exportChildren ==
            CASE C.text = "none" -> ConcatMap(Children, C.slots)
              [] C.text = "mixed" -> ConcatMap(Contained, o.content_)
              [] OTHER -> exportValue(o.class, o.valueOf_)
    IN  Element(name_, exportAttributes(o), exportChildren)

(* Writing raises where encode did, and at a character that stdout does    *)
(* not take.                                                               *)
RECURSIVE WriteRaises(_)
WriteRaises(w) ==
    \/ \E val \in {w.val} \cup {w.attrs[a] : a \in DOMAIN w.attrs} :
          \E ch \in ToSet(val) : ch.c = "error" \/ (Wide(ch) /\ stdout = "ascii")
    \/ \E k \in ToSet(w.kids) : WriteRaises(k)

(* A parser refuses an unquoted "<". *)
RECURSIVE WellFormed(_)
WellFormed(w) ==
    /\ w.type = "text" => \A ch \in ToSet(w.val) : Special(ch) => ch.esc > 0
    /\ \A k \in ToSet(w.kids) : WellFormed(k)

Unquoted(val) ==
    [i \in DOMAIN val |->
        IF Special(val[i]) THEN [val[i] EXCEPT !.esc = @ - 1] ELSE val[i]]

(* minidom: it joins the text nodes that follow each other. *)
RECURSIVE Read(_)
Read(w) ==
    LET Joined(nodes, k) ==
            IF nodes # <<>> /\ k.type = "text" /\ Last(nodes).type = "text"
            THEN Front(nodes) \o <<Leaf("text", Last(nodes).val \o k.val)>>
            ELSE Append(nodes, k)
    IN  CASE w.type = "text" -> Leaf("text", Unquoted(w.val))
          [] w.type = "cdata" -> w
          [] OTHER -> Element(w.tag, [a \in DOMAIN w.attrs |-> Unquoted(w.attrs[a])],
                        FoldLeft(Joined, <<>>,
                            SelectSeq([i \in DOMAIN w.kids |-> Read(w.kids[i])],
                                LAMBDA k : k.type # "text" \/ k.val # <<>>)))

-----------------------------------------------------------------------------
(* text.py *)

Break == <<Char("break", 0, FALSE)>>

\* Mutant of description_bit: content_ is looked at before content.
RECURSIVE BitOfContent_(_)
BitOfContent_(o) ==
    LET Bit(m) == BitOfContent_(m.value)
                    \o (IF m.name = "para" THEN Break ELSE <<>>)
    IN  IF o.class = "text" THEN o.valueOf_ ELSE ConcatMap(Bit, o.content_)

(* description_bit: content before content_ before the string itself; an   *)
(* item named para ends with a paragraph break.                            *)
RECURSIVE description_bit(_)
description_bit(o) ==
    LET items == IF o.class = "docParaType" THEN o.content ELSE o.content_
        Bit(m) == description_bit(m.value)
                    \o (IF m.name = "para" THEN Break ELSE <<>>)
    IN  IF o.class = "text" THEN o.valueOf_ ELSE ConcatMap(Bit, items)

-----------------------------------------------------------------------------
GraphInit ==
    /\ stage = "file"
    /\ user \in {"doxyxml", "script"}
    /\ stdout \in {"ascii", "utf-8"}
    /\ doc \in Documents
    /\ obj = Null /\ again = Null
    /\ out = Leaf("text", <<>>)
    /\ text = <<>>

Parse ==
    /\ stage = "file"
    /\ IF BuildRaises(doc.class, user = "doxyxml", doc.root)
       THEN stage' = "raised" /\ obj' = obj
       ELSE stage' = "built" /\ obj' = build(doc.class, user = "doxyxml", doc.root)
    /\ UNCHANGED <<user, stdout, doc, out, again, text>>

Export ==
    /\ stage = "built" /\ user = "script"
    /\ out' = export(obj, doc.root.tag)
    /\ stage' = IF WriteRaises(out') THEN "raised" ELSE "printed"
    /\ UNCHANGED <<user, stdout, doc, obj, again, text>>

Reread ==
    /\ stage = "printed"
    /\ IF WellFormed(out) /\ ~BuildRaises(doc.class, FALSE, Read(out))
       THEN stage' = "reread" /\ again' = build(doc.class, FALSE, Read(out))
       ELSE stage' = "raised" /\ again' = again
    /\ UNCHANGED <<user, stdout, doc, obj, out, text>>

Describe ==
    /\ stage = "built" /\ user = "doxyxml"
    /\ doc.class \in {"descriptionType", "docTitleType"}
    /\ text' = description_bit(obj)
    /\ stage' = "described"
    /\ UNCHANGED <<user, stdout, doc, obj, out, again>>

GraphNext == Parse \/ Export \/ Reread \/ Describe

-----------------------------------------------------------------------------
(* The values each variable may take; what is built has the class of the   *)
(* document.                                                               *)
GraphTypeOK ==
    /\ stage \in {"file", "built", "printed", "reread", "described", "raised"}
    /\ user \in {"doxyxml", "script"}
    /\ stdout \in {"ascii", "utf-8"}
    /\ doc.class \in DOMAIN Class
    /\ stage \in {"built", "printed", "reread", "described"} =>
           obj.class = doc.class
    /\ stage = "reread" => again.class = doc.class

(* The object without the accident of where text was cut into pieces.      *)
RECURSIVE Normal(_)
Normal(o) ==
    LET Joined(items, m) ==
            IF items # <<>> /\ m.category = "text" /\ Last(items).category = "text"
            THEN Append(Front(items), [m EXCEPT !.value.valueOf_ =
                                         Last(items).value.valueOf_ \o @])
            ELSE Append(items, m)
    IN  [o EXCEPT !.kids = [t \in DOMAIN o.kids |->
                              [i \in DOMAIN o.kids[t] |-> Normal(o.kids[t][i])]],
                  !.content_ = FoldLeft(Joined, <<>>,
                                  [i \in DOMAIN o.content_ |->
                                     [o.content_[i] EXCEPT !.value = Normal(@)]])]

(* What export does not write so that it can be read back: an attribute    *)
(* that is written although it is None; the title of a compound; an object *)
(* in mixed content, whose line breaks and indentation become text; text   *)
(* of mixed content that needs quoting, which is written as it is; a value *)
(* that is laid out on a line of its own; text of a CDATA section that     *)
(* needs quoting, which is quoted inside the section; and a character      *)
(* outside ASCII in a text child or in an attribute that is no token, or   *)
(* anywhere when stdout takes ASCII only, which ends the script.           *)
RECURSIVE Distorted(_)
Distorted(o) ==
    LET C == Class[o.class]
        HasWide(val) == \E ch \in ToSet(val) : Wide(ch)
        Attribute(a) ==
            IF a.name \in DOMAIN o.attrs
            THEN HasWide(o.attrs[a.name]) /\ (a.type = "string" \/ stdout = "ascii")
            ELSE a.always
        Mixed_(m) ==
            \/ m.category = "complex"
            \/ \E ch \in ToSet(m.value.valueOf_) :
                  Special(ch) \/ (Wide(ch) /\ stdout = "ascii")
    IN  IF o.class = "text" THEN HasWide(o.valueOf_) ELSE
        \/ \E a \in C.attrs : Attribute(a)
        \/ o.class = "compounddefType" /\ o.kids["title"] # <<>>
        \/ C.text = "mixed" /\ \E m \in ToSet(o.content_) : Mixed_(m)
        \/ C.text = "value"
        \/ \E ch \in ToSet(o.valueOf_) :
              (ch.cdata /\ Special(ch)) \/ (Wide(ch) /\ stdout = "ascii")
        \/ \E t \in DOMAIN o.kids : \E k \in ToSet(o.kids[t]) : Distorted(k)

(* What compoundsuper.py and indexsuper.py print is read back as the same  *)
(* object graph exactly when nothing in it is distorted: no class, slot or *)
(* attribute is written under another name, in another place or as another *)
(* class than build takes it, and nothing distorted ever survives (export  *)
(* and build of every class, over the pieces of text named above).         *)
RoundTrip ==
    /\ GraphTypeOK
    /\ out.type = "element" /\ stage # "printed" =>
          (~Distorted(obj) <=> stage = "reread" /\ Normal(again) = Normal(obj))

(* The text of a description, by the tags of the document alone.           *)
OwnText(n) ==
    ConcatMap(LAMBDA k : IF k.type = "text" THEN k.val ELSE <<>>, n.kids)

ParaText(n) ==
    ConcatMap(LAMBDA k : CASE k.type = "text" -> k.val
                           [] k.type = "element" /\ k.tag = "ref" -> OwnText(k)
                           [] OTHER -> <<>>, n.kids)

RECURSIVE DescriptionText(_)
DescriptionText(n) ==
    LET Part(k) ==
            CASE k.type = "text" -> k.val
              [] k.type = "cdata" -> <<>>
              [] k.tag = "title" -> OwnText(k)
              [] k.tag = "para" -> ParaText(k) \o Break
              [] k.tag \in {"sect1", "sect2", "sect3", "sect4", "internal"} ->
                    DescriptionText(k)
              [] OTHER -> <<>>
    IN  ConcatMap(Part, n.kids)

(* A description is the text of its paragraphs, titles, sections and       *)
(* references, in the order of the document and each piece once, a break   *)
(* after each paragraph; nothing of markup, lists, parameter lists or      *)
(* CDATA (description_bit over what buildChildren kept).                   *)
DescriptionInOrder ==
    stage = "described" =>
        text = (IF doc.class = "docTitleType" THEN OwnText(doc.root)
                                              ELSE DescriptionText(doc.root))

=============================================================================
