---------------------------- MODULE MCGenerateDS ----------------------------
(* Documents for GenerateDS: every class as the root, with up to two       *)
(* children of every kind the class may meet, known and unknown.           *)
EXTENDS GenerateDS

CONSTANTS MaxDepth      \* how deep a known child is filled in

Plain == <<Char("t", 0, FALSE)>>

Special_ == <<Char("<", 0, FALSE)>>

Wide_ == <<Char("wide", 0, FALSE)>>

Markup == Element("bold", NoAttrs, <<Leaf("text", Plain)>>)

Filled(class, int, val) ==
    [n \in {a.name : a \in Class[class].attrs} |->
        IF \E a \in Class[class].attrs : a.name = n /\ a.type = "integer"
        THEN <<Char(int, 0, FALSE)>> ELSE val]

(* An element with all its attributes and, down to a depth, all its        *)
(* children; val is the text of the attributes and of the text children.   *)
RECURSIVE Sample(_, _, _, _)
Sample(tag, class, depth, val) ==
    IF class = "text" THEN Element(tag, NoAttrs, <<Leaf("text", val)>>)
    ELSE Element(tag, Filled(class, "1", val),
            <<Leaf("text", Plain)>>
            \o (IF depth = 0 THEN <<>>
                ELSE [i \in DOMAIN Slots(class, TRUE) |->
                        Sample(Slots(class, TRUE)[i].tag,
                               Slots(class, TRUE)[i].class, depth - 1, val)])
            \o <<Markup, Leaf("text", Plain)>>)

Samples(class, depths, val) ==
    {Sample(x[1].tag, x[1].class, x[2], val) :
        x \in ToSet(Slots(class, TRUE)) \X depths}

Kids(class) ==
    {Leaf(t, v) : t \in {"text", "cdata"}, v \in {Plain, Special_, Wide_}}
    \cup {Markup}
    \cup Samples(class, {0, MaxDepth}, Special_)
    \cup {Element(s.tag, NoAttrs, <<Markup>>) :
             s \in {x \in ToSet(Slots(class, TRUE)) : x.class = "text"}}

Document(class, attrs, kids) ==
    [class |-> class, root |-> Element(class, attrs, kids)]

(* No child; one child, with and without attributes; one child, or one     *)
(* attribute, with text outside ASCII; two children; three in a            *)
(* description.                                                            *)
DocumentsOf(class) ==
    {Document(class, NoAttrs, <<>>)}
    \cup {Document(class, a, <<k>>) :
             a \in {NoAttrs, Filled(class, "1", Special_),
                    Filled(class, "x", Special_)}, k \in Kids(class)}
    \cup {Document(class, Filled(class, "1", Plain), <<k>>) :
             k \in Samples(class, {0, MaxDepth}, Wide_)}
    \cup {Document(class, [Filled(class, "1", Plain) EXCEPT ![a.name] = Wide_], <<>>) :
             a \in {x \in Class[class].attrs : x.type # "integer"}}
    \cup {Document(class, Filled(class, "1", Special_), <<k[1], k[2]>>) :
             k \in Kids(class) \X Kids(class)}

MCDocuments ==
    UNION {DocumentsOf(c) : c \in DOMAIN Class}
    \cup {Document("descriptionType", NoAttrs, <<k[1], k[2], k[3]>>) :
             k \in Kids("descriptionType") \X Kids("descriptionType")
                   \X Kids("descriptionType")}

=============================================================================
