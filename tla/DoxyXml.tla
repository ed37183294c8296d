------------------------------ MODULE DoxyXml -------------------------------
(***************************************************************************)
(* doxyxml: the objects that stand for the entities of a doxygen XML       *)
(* directory.  They are parsed when they are first used, they cache what   *)
(* they found, and the index keeps one object for each refid.              *)
(*                                                                         *)
(* A method is an operator from a heap and its arguments to the heap it    *)
(* leaves, the exception it raises ("" for none) and its value.  Python    *)
(* keeps what a method did before it raised, and so does the heap.         *)
(***************************************************************************)
EXTENDS Naturals, Sequences, SequencesExt, FiniteSets

CONSTANTS Directories    \* the directories doxygen may have written

VARIABLES dir,           \* the directory: [index, files]
          heap           \* the objects: [objs, refs, reads]

(***************************************************************************)
(* A directory: index is the sequence of compounds of index.xml, each a    *)
(* record [kind, refid, name]; files gives for each refid the state of     *)
(* refid.xml ("ok", "badxml", or "unreadable" for everything that is not   *)
(* an ExpatError) and what it holds: desc (is there a description), the    *)
(* memberdefs [kind, name, desc] of all its sections, and the refids of    *)
(* the inner groups and classes.                                           *)
(*                                                                         *)
(* A name is [path, base, form]: the part before the last '::', cut at     *)
(* each '::'; the rest; and what is added to it: "" for nothing, "make",   *)
(* ".h", or "operator" when the name has "operator " in it.                *)
(***************************************************************************)
Name(path, base, form) == [path |-> path, base |-> base, form |-> form]

-----------------------------------------------------------------------------
(* Objects.  None is the object number 0; the index is number 1.           *)

None == 0

Index == 1

Object(cls, refid, name, known, desc) ==
    [cls |-> cls, refid |-> refid, name |-> name, known |-> known,
     desc |-> desc, parsed |-> FALSE, error |-> FALSE, members |-> <<>>,
     in_category |-> [c \in {} |-> <<>>], dict_members |-> [c \in {} |-> <<>>]]

NoName == Name(<<>>, "", "")

(* Base.__init__ of the index: there is no other object yet. *)
NewHeap ==
    [objs |-> <<Object("DoxyIndex", "", NoName, TRUE, FALSE)>>,
     refs |-> [r \in {} |-> None],
     reads |-> <<>>]

Ret(h, val) == [h |-> h, raised |-> "", val |-> val]

Raise(h, exception) == [h |-> h, raised |-> exception, val |-> None]

(* What comes after a call, unless it raised. *)
Then(r, f(_, _)) == IF r.raised # "" THEN r ELSE f(r.h, r.val)

New(h, object) == Ret([h EXCEPT !.objs = Append(@, object)], Len(h.objs) + 1)

add_ref(h, o) ==
    [h EXCEPT !.refs = [r \in DOMAIN @ \cup {h.objs[o].refid} |->
                           IF r = h.objs[o].refid THEN o ELSE @[r]]]

\* Mutant of from_refid: the references are not looked at.
FromRefidAnew(h, cls, refid) ==
    LET made == New(h, Object(cls, refid, NoName, FALSE, FALSE))
    IN  Ret(add_ref(made.h, made.val), made.val)

(* The object of a refid that a group mentions; without parse data it does *)
(* not know its name.                                                      *)
from_refid(h, cls, refid) ==
    IF refid \in DOMAIN h.refs THEN Ret(h, h.refs[refid])
    ELSE LET made == New(h, Object(cls, refid, NoName, FALSE, FALSE))
         IN  Ret(add_ref(made.h, made.val), made.val)

(* The object of a compound of the index. *)
from_parse_data(h, cls, mem) ==
    IF mem.refid \in DOMAIN h.refs THEN Ret(h, h.refs[mem.refid])
    ELSE LET made == New(h, Object(cls, mem.refid, mem.name, TRUE, FALSE))
         IN  Ret(add_ref(made.h, made.val), made.val)

(* mem_classes and can_parse. *)
DoxyOtherKinds ==
    {"variable", "struct", "union", "define", "typedef", "enum", "dir", "page"}

get_cls(kind) ==
    CASE kind = "function" -> "DoxyFunction"
      [] kind = "class" -> "DoxyClass"
      [] kind = "file" -> "DoxyFile"
      [] kind = "namespace" -> "DoxyNamespace"
      [] kind = "group" -> "DoxyGroup"
      [] kind = "friend" -> "DoxyFriend"
      [] kind \in DoxyOtherKinds -> "DoxyOther"
      [] OTHER -> ""

(* convert_mem of a compound: the exception for an unknown kind is printed *)
(* and None returned.                                                      *)
convert_mem(h, mem) ==
    IF get_cls(mem.kind) = "" THEN Ret(h, None)
    ELSE from_parse_data(h, get_cls(mem.kind), mem)

(* A memberdef has an id and no refid: every conversion makes an object. *)
ConvertMember(h, mem) ==
    IF get_cls(mem.kind) = "" THEN Ret(h, None)
    ELSE New(h, Object(get_cls(mem.kind), "", mem.name, TRUE, mem.desc))

-----------------------------------------------------------------------------
(* Parsing *)

(* Of the memberdefs with one name only the first is kept: all of them are *)
(* of one Python class.                                                    *)
process_memberdefs(h, o) ==
    LET defs == dir.files[h.objs[o].refid].memberdefs
        First(i) == \A j \in 1..(i - 1) : defs[j].name # defs[i].name
        Step(g, i) ==
            LET conv == ConvertMember(g, defs[i])
            IN  [conv.h EXCEPT !.objs[o].members = Append(@, conv.val)]
    IN  FoldLeft(Step, h, SelectSeq([i \in DOMAIN defs |-> i], First))

\* Mutant of retrieve_data: every exception is caught, none is remembered.
RetrieveQuietly(h, o) ==
    Ret([h EXCEPT !.reads = Append(@, h.objs[o].refid)],
        IF dir.files[h.objs[o].refid].status = "ok" THEN o ELSE None)

(* compound.parse of refid.xml; an ExpatError is caught, nothing else is. *)
retrieve_data(h, o) ==
    LET refid == h.objs[o].refid
        g == [h EXCEPT !.reads = Append(@, refid)]
    IN  CASE dir.files[refid].status = "ok" -> Ret(g, o)
          [] dir.files[refid].status = "badxml" ->
                Ret([g EXCEPT !.objs[o].error = TRUE], None)
          [] OTHER -> Raise(g, "IOError")

set_descriptions(h, o) ==
    [h EXCEPT !.objs[o].desc = dir.files[h.objs[o].refid].desc]

ParseClass(h, o) ==
    Then(retrieve_data(h, o), LAMBDA g, data :
        IF data = None THEN Ret(g, None)
        ELSE Ret(process_memberdefs(set_descriptions(g, o), o), o))

(* DoxyFile looks at the data before it looks at the error. *)
ParseFile(h, o) ==
    Then(retrieve_data(h, o), LAMBDA g, data :
        IF data = None THEN Raise(g, "AttributeError")
        ELSE Ret(process_memberdefs(set_descriptions(g, o), o), o))

ParseGroup(h, o) ==
    LET file == dir.files[h.objs[o].refid]
        Adding(conv) ==
            [conv.h EXCEPT !.objs[o].members = Append(@, conv.val)]
        Groups(g, refid) == Adding(from_refid(g, "DoxyGroup", refid))
        Classes(g, refid) == Adding(from_refid(g, "DoxyClass", refid))
    IN  Then(retrieve_data(h, o), LAMBDA g, data :
            IF data = None THEN Ret(g, None)
            ELSE Ret(process_memberdefs(
                        FoldLeft(Classes, FoldLeft(Groups, g, file.innergroup),
                                 file.innerclass), o), o))

(* _parse of everything but the index.  _parsed is set first, so that a    *)
(* parse that raises is not tried again.  A namespace, a friend and the    *)
(* other kinds have nothing to parse, a function nothing that can fail.    *)
ParseMember(h, o) ==
    LET g == [h EXCEPT !.objs[o].parsed = TRUE]
    IN  CASE h.objs[o].parsed -> Ret(h, o)
          [] h.objs[o].cls = "DoxyClass" -> ParseClass(g, o)
          [] h.objs[o].cls = "DoxyFile" -> ParseFile(g, o)
          [] h.objs[o].cls = "DoxyGroup" -> ParseGroup(g, o)
          [] OTHER -> Ret(g, o)

(* DoxyIndex._parse: the members of a header come before the header, other *)
(* files are left out; get_cls raises for a kind that convert_mem only     *)
(* complained about.                                                       *)
ParseIndex(h) ==
    LET Adding(g, members) ==
            Ret([g EXCEPT !.objs[Index].members = @ \o members], None)
        Header(g, m) ==
            Then(ParseMember(g, m), LAMBDA g2, parsed :
                Adding(g2, Append(g2.objs[m].members, m)))
        Step(r, mem) ==
            Then(r, LAMBDA g, none :
            Then(convert_mem(g, mem), LAMBDA g2, m :
                CASE m = None -> Raise(g2, "StandardError")
                  [] m # None /\ mem.kind # "file" -> Adding(g2, <<m>>)
                  [] m # None /\ mem.kind = "file" ->
                        IF mem.name.form = ".h" THEN Header(g2, m)
                                                ELSE Ret(g2, None)))
    IN  FoldLeft(Step, Ret([h EXCEPT !.objs[Index].parsed = TRUE], None), dir.index)

check_parsed(h, o) ==
    IF o = Index /\ ~h.objs[o].parsed THEN ParseIndex(h) ELSE ParseMember(h, o)

confirm_no_error(h, o) ==
    Then(check_parsed(h, o), LAMBDA g, val :
        IF g.objs[o].error THEN Raise(g, "ParsingError") ELSE Ret(g, val))

-----------------------------------------------------------------------------
(* What the objects answer *)

(* Without parse data the name is looked up in the compound, which has a   *)
(* compoundname and no name.                                               *)
name(h, o) ==
    IF h.objs[o].known THEN Ret(h, h.objs[o].name)
    ELSE Then(check_parsed(h, o), LAMBDA g, val : Raise(g, "AttributeError"))

members(h, o) ==
    Then(confirm_no_error(h, o), LAMBDA g, val : Ret(g, g.objs[o].members))

(* The members of a category as they are now: None is not an instance of   *)
(* any class, "all" is every member.                                       *)
OfCategory(h, o, cat) ==
    SelectSeq(h.objs[o].members,
              LAMBDA m : cat = "all" \/ (m # None /\ h.objs[m].cls = cat))

Cached(f, key, val) == [k \in DOMAIN f \cup {key} |-> IF k = key THEN val ELSE f[k]]

\* Mutant of in_category: it does not ask for the object to be parsed.
InCategoryUnparsed(h, o, cat) ==
    IF cat \in DOMAIN h.objs[o].in_category
    THEN Ret(h, h.objs[o].in_category[cat])
    ELSE Ret([h EXCEPT !.objs[o].in_category =
                Cached(@, cat, OfCategory(h, o, cat))], OfCategory(h, o, cat))

in_category(h, o, cat) ==
    Then(confirm_no_error(h, o), LAMBDA g, val :
        CASE cat = "all" -> Ret(g, g.objs[o].members)
          [] cat \in DOMAIN g.objs[o].in_category ->
                Ret(g, g.objs[o].in_category[cat])
          [] OTHER ->
                LET list == OfCategory(g, o, cat)
                IN  Ret([g EXCEPT !.objs[o].in_category = Cached(@, cat, list)],
                        list))

Duplicate == 0

(* The members of a list by name; the members of a list that do not know   *)
(* their name, or are None, make it raise.                                 *)
ByName(h, list) ==
    [n \in {h.objs[m].name : m \in ToSet(list)} |->
        LET those == {i \in DOMAIN list : h.objs[list[i]].name = n}
        IN  IF Cardinality(those) = 1 THEN list[CHOOSE i \in those : TRUE]
                                      ELSE Duplicate]

Nameless(h, m) == m = None \/ ~h.objs[m].known

(* _get_dict_members.  Asking a nameless member for its name may parse it  *)
(* before it raises.                                                       *)
get_dict_members(h, o, cat) ==
    Then(in_category(h, o, cat), LAMBDA g, list :
        LET bad == SelectSeq(list, LAMBDA m : Nameless(g, m))
            byname == ByName(g, list)
        IN  IF cat \in DOMAIN g.objs[o].dict_members
            THEN Ret(g, g.objs[o].dict_members[cat])
            ELSE CASE bad = <<>> ->
                        Ret([g EXCEPT !.objs[o].dict_members =
                                Cached(@, cat, byname)], byname)
                   [] bad # <<>> /\ bad[1] = None -> Raise(g, "AttributeError")
                   [] bad # <<>> /\ bad[1] # None -> name(g, bad[1]))

RECURSIVE get_member(_, _, _, _)
get_member(h, o, n, cat) ==
    LET first == IF n.path = <<>> THEN n ELSE Name(<<>>, Head(n.path), "")
    IN  Then(get_dict_members(h, o, cat), LAMBDA g, dict :
            CASE first \notin DOMAIN dict -> Raise(g, "NoSuchMember")
              [] first \in DOMAIN dict /\ dict[first] = Duplicate ->
                    Raise(g, "Duplicate")
              [] OTHER -> IF n.path = <<>> THEN Ret(g, dict[first])
                          ELSE get_member(g, dict[first],
                                          [n EXCEPT !.path = Tail(@)], cat))

(* Only NoSuchMember means no. *)
Whether(r) == CASE r.raised = "" -> Ret(r.h, TRUE)
                [] r.raised = "NoSuchMember" -> Ret(r.h, FALSE)
                [] OTHER -> r

has_member(h, o, n, cat) == Whether(get_member(h, o, n, cat))

error(h, o) ==
    Then(check_parsed(h, o), LAMBDA g, val : Ret(g, g.objs[o].error))

=============================================================================
