----------------------------- MODULE DoxySchema -----------------------------
(***************************************************************************)
(* The classes of doxyxml/generated: what each one takes from an XML       *)
(* element when it is built, and what it writes when it is exported.  The  *)
(* classes were generated from doxygen's schemas by generateDS and differ  *)
(* only in the data this module lists: the attributes of the element, its  *)
(* children, and what becomes of its text.  Only the classes an object     *)
(* graph can contain are listed, those reachable from DoxygenType and from *)
(* IndexRoot (DoxygenType of indexsuper.py).                               *)
(* Their get_, set_, add_ and insert_ methods are assignments, and         *)
(* exportLiteral, which nothing calls, walks the same data as export.      *)
(*                                                                         *)
(* The operations on them are in module GenerateDS.                        *)
(***************************************************************************)
EXTENDS Sequences, TLC

(***************************************************************************)
(* Attributes.  A string or a token of an enumeration is kept as it is; a  *)
(* number goes through int().  A string is encoded as ASCII when it is     *)
(* written, a token is not.  All are written when they are not None; one   *)
(* that is Written always is.                                              *)
(***************************************************************************)
Attributes(names, type) == [name : names, type : {type}, always : {FALSE}]

Strings(names) == Attributes(names, "string")

Tokens(names) == Attributes(names, "token")

Numbers(names) == Attributes(names, "integer")

Written(attrs) == {[a EXCEPT !.always = TRUE] : a \in attrs}

(***************************************************************************)
(* Children, in the order in which they are exported.  "one": a later      *)
(* element replaces an earlier one; "many": they are collected in a list;  *)
(* "item": it joins the ordered content of a mixed class.  A child of      *)
(* class "text" is not built: the values of its own child nodes are put    *)
(* together in a string.  A child is exported by its own export method or  *)
(* as the string it is; the title of a compound is an object that is       *)
(* exported as if it were a string.                                        *)
(***************************************************************************)
Slot(tag, class, card, export) ==
    [tag |-> tag, class |-> class, card |-> card, export |-> export]

One(tag, class) == Slot(tag, class, "one", "object")

Many(tag, class) == Slot(tag, class, "many", "object")

Item(tag, class) == Slot(tag, class, "item", "object")

Text(tag) == Slot(tag, "text", "one", "string")

Texts(tag) == Slot(tag, "text", "many", "string")

OneAsString(tag, class) == Slot(tag, class, "one", "string")

(***************************************************************************)
(* The four templates of a class.  Struct ignores text.  Value collects    *)
(* text and CDATA in valueOf_; ValueAndContent also lists the text nodes   *)
(* in content_.  Mixed keeps text and children in content_ and ignores     *)
(* CDATA.  Struct and Value write what they hold on lines of its own, the  *)
(* other two right after the tag.                                          *)
(***************************************************************************)
Struct(attrs, slots) == [attrs |-> attrs, slots |-> slots, text |-> "none"]

Value(attrs) == [attrs |-> attrs, slots |-> <<>>, text |-> "value"]

ValueAndContent(attrs) == [attrs |-> attrs, slots |-> <<>>, text |-> "both"]

Mixed(attrs, slots) == [attrs |-> attrs, slots |-> slots, text |-> "mixed"]

-----------------------------------------------------------------------------
(* compoundsuper.py *)

DoxygenType ==
    Struct(Written(Tokens({"version"})),
        <<One("compounddef", "compounddefType")>>)

compounddefType ==
    Struct(Tokens({"kind", "prot"}) \cup Strings({"id"}),
        <<Text("compoundname"), OneAsString("title", "docTitleType"),
          Many("basecompoundref", "compoundRefType"),
          Many("derivedcompoundref", "compoundRefType"),
          Many("includes", "incType"), Many("includedby", "incType"),
          One("incdepgraph", "graphType"), One("invincdepgraph", "graphType"),
          Many("innerdir", "refType"), Many("innerfile", "refType"),
          Many("innerclass", "refType"), Many("innernamespace", "refType"),
          Many("innerpage", "refType"), Many("innergroup", "refType"),
          One("templateparamlist", "templateparamlistType"),
          Many("sectiondef", "sectiondefType"),
          One("briefdescription", "descriptionType"),
          One("detaileddescription", "descriptionType"),
          One("inheritancegraph", "graphType"),
          One("collaborationgraph", "graphType"),
          One("programlisting", "listingType"),
          One("location", "locationType"),
          One("listofallmembers", "listofallmembersType")>>)

listofallmembersType == Struct({}, <<Many("member", "memberRefType")>>)

memberRefType ==
    Struct(Tokens({"virt", "prot"}) \cup Strings({"refid", "ambiguityscope"}),
        <<Text("scope"), Text("name")>>)

compoundRefType ==
    ValueAndContent(Tokens({"virt", "prot"}) \cup Strings({"refid"}))

reimplementType == ValueAndContent(Strings({"refid"}))

incType == ValueAndContent(Tokens({"local"}) \cup Strings({"refid"}))

refType == ValueAndContent(Tokens({"prot"}) \cup Strings({"refid"}))

sectiondefType ==
    Struct(Tokens({"kind"}),
        <<Text("header"), One("description", "descriptionType"),
          Many("memberdef", "memberdefType")>>)

memberdefType ==
    Struct(
        Tokens({"initonly", "kind", "volatile", "const", "raise", "virt",
                "readable", "prot", "explicit", "new", "final", "writable",
                "add", "static", "remove", "sealed", "mutable", "gettable",
                "inline", "settable"}) \cup Strings({"id"}),
        <<One("templateparamlist", "templateparamlistType"),
          One("type", "linkedTextType"), Text("definition"),
          Text("argsstring"), Text("name"), Text("read"), Text("write"),
          Text("bitfield"), Many("reimplements", "reimplementType"),
          Many("reimplementedby", "reimplementType"),
          Many("param", "paramType"), Many("enumvalue", "enumvalueType"),
          One("initializer", "linkedTextType"),
          One("exceptions", "linkedTextType"),
          One("briefdescription", "descriptionType"),
          One("detaileddescription", "descriptionType"),
          One("inbodydescription", "descriptionType"),
          One("location", "locationType"),
          Many("references", "referenceType"),
          Many("referencedby", "referenceType")>>)

descriptionType ==
    Mixed({},
        <<Item("title", "docTitleType"), Item("para", "docParaType"),
          Item("sect1", "docSect1Type"),
          Item("internal", "docInternalType")>>)

enumvalueType ==
    Mixed(Tokens({"prot"}) \cup Strings({"id"}),
        <<Item("name", "text"), Item("initializer", "linkedTextType"),
          Item("briefdescription", "descriptionType"),
          Item("detaileddescription", "descriptionType")>>)

templateparamlistType == Struct({}, <<Many("param", "paramType")>>)

paramType ==
    Struct({},
        <<One("type", "linkedTextType"), Text("declname"), Text("defname"),
          Text("array"), One("defval", "linkedTextType"),
          One("briefdescription", "descriptionType")>>)

linkedTextType == Mixed({}, <<Item("ref", "docRefTextType")>>)

graphType == Struct({}, <<Many("node", "nodeType")>>)

nodeType ==
    Struct(Strings({"id"}),
        <<Text("label"), One("link", "linkType"),
          Many("childnode", "childnodeType")>>)

childnodeType ==
    Struct(Tokens({"relation"}) \cup Strings({"refid"}),
        <<Texts("edgelabel")>>)

linkType == Value(Strings({"refid", "external"}))

listingType == Struct({}, <<Many("codeline", "codelineType")>>)

codelineType ==
    Struct(Tokens({"external", "refkind"}) \cup Strings({"refid"})
        \cup Numbers({"lineno"}),
        <<Many("highlight", "highlightType")>>)

highlightType ==
    Mixed(Tokens({"class"}),
        <<Item("sp", "text"), Item("ref", "docRefTextType")>>)

referenceType ==
    ValueAndContent(Strings({"refid", "compoundref"})
        \cup Numbers({"endline", "startline"}))

locationType ==
    Value(Strings({"bodyfile", "file"})
        \cup Numbers({"bodystart", "line", "bodyend"}))

docSect1Type ==
    Mixed(Strings({"id"}),
        <<Item("title", "docTitleType"), Item("para", "docParaType"),
          Item("sect2", "docSect2Type"),
          Item("internal", "docInternalS1Type")>>)

docSect2Type ==
    Mixed(Strings({"id"}),
        <<Item("title", "docTitleType"), Item("para", "docParaType"),
          Item("sect3", "docSect3Type"),
          Item("internal", "docInternalS2Type")>>)

docSect3Type ==
    Mixed(Strings({"id"}),
        <<Item("title", "docTitleType"), Item("para", "docParaType"),
          Item("sect4", "docSect4Type"),
          Item("internal", "docInternalS3Type")>>)

docSect4Type ==
    Mixed(Strings({"id"}),
        <<Item("title", "docTitleType"), Item("para", "docParaType"),
          Item("internal", "docInternalS4Type")>>)

docInternalType ==
    Mixed({},
        <<Item("para", "docParaType"), Item("sect1", "docSect1Type")>>)

docInternalS1Type ==
    Mixed({},
        <<Item("para", "docParaType"), Item("sect2", "docSect2Type")>>)

docInternalS2Type ==
    Mixed({},
        <<Item("para", "docParaType"), Item("sect3", "docSect3Type")>>)

(* The section inside the internal part of a sect3 is called sect3 again. *)
docInternalS3Type ==
    Mixed({},
        <<Item("para", "docParaType"), Item("sect3", "docSect4Type")>>)

docInternalS4Type == Mixed({}, <<Item("para", "docParaType")>>)

docTitleType == ValueAndContent({})

(* docParaTypeSub of compound.py adds children: see module GenerateDS. *)
docParaType == ValueAndContent({})

docSimpleSectType ==
    Struct(Tokens({"kind"}),
        <<One("title", "docTitleType"), Many("para", "docParaType")>>)

docRefTextType ==
    ValueAndContent(Tokens({"kindref"}) \cup Strings({"refid", "external"}))

docParamListType ==
    Struct(Tokens({"kind"}),
        <<Many("parameteritem", "docParamListItem")>>)

docParamListItem ==
    Struct({},
        <<Many("parameternamelist", "docParamNameList"),
          One("parameterdescription", "descriptionType")>>)

docParamNameList == Struct({}, <<Many("parametername", "docParamName")>>)

docParamName ==
    Mixed(Tokens({"direction"}),
        <<Item("ref", "docRefTextType")>>)

-----------------------------------------------------------------------------
(* indexsuper.py: DoxygenType, CompoundType and MemberType *)

IndexRoot ==
    Struct(Written(Strings({"version"})),
        <<Many("compound", "IndexCompound")>>)

IndexCompound ==
    Struct(Written(Tokens({"kind"}) \cup Strings({"refid"})),
        <<Text("name"), Many("member", "IndexMember")>>)

IndexMember ==
    Struct(Written(Tokens({"kind"}) \cup Strings({"refid"})), <<Text("name")>>)

-----------------------------------------------------------------------------
(* The class objects, by name. *)
Class ==
    "DoxygenType" :> DoxygenType
    @@ "compounddefType" :> compounddefType
    @@ "listofallmembersType" :> listofallmembersType
    @@ "memberRefType" :> memberRefType
    @@ "compoundRefType" :> compoundRefType
    @@ "reimplementType" :> reimplementType
    @@ "incType" :> incType
    @@ "refType" :> refType
    @@ "sectiondefType" :> sectiondefType
    @@ "memberdefType" :> memberdefType
    @@ "descriptionType" :> descriptionType
    @@ "enumvalueType" :> enumvalueType
    @@ "templateparamlistType" :> templateparamlistType
    @@ "paramType" :> paramType
    @@ "linkedTextType" :> linkedTextType
    @@ "graphType" :> graphType
    @@ "nodeType" :> nodeType
    @@ "childnodeType" :> childnodeType
    @@ "linkType" :> linkType
    @@ "listingType" :> listingType
    @@ "codelineType" :> codelineType
    @@ "highlightType" :> highlightType
    @@ "referenceType" :> referenceType
    @@ "locationType" :> locationType
    @@ "docSect1Type" :> docSect1Type
    @@ "docSect2Type" :> docSect2Type
    @@ "docSect3Type" :> docSect3Type
    @@ "docSect4Type" :> docSect4Type
    @@ "docInternalType" :> docInternalType
    @@ "docInternalS1Type" :> docInternalS1Type
    @@ "docInternalS2Type" :> docInternalS2Type
    @@ "docInternalS3Type" :> docInternalS3Type
    @@ "docInternalS4Type" :> docInternalS4Type
    @@ "docTitleType" :> docTitleType
    @@ "docParaType" :> docParaType
    @@ "docSimpleSectType" :> docSimpleSectType
    @@ "docRefTextType" :> docRefTextType
    @@ "docParamListType" :> docParamListType
    @@ "docParamListItem" :> docParamListItem
    @@ "docParamNameList" :> docParamNameList
    @@ "docParamName" :> docParamName
    @@ "IndexRoot" :> IndexRoot
    @@ "IndexCompound" :> IndexCompound
    @@ "IndexMember" :> IndexMember

=============================================================================
