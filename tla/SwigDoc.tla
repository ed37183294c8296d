------------------------------ MODULE SwigDoc -------------------------------
(***************************************************************************)
(* The two users of doxyxml.  swig_doc.py goes through the index once and  *)
(* writes the docstrings of blocks, functions and classes.  An interactive *)
(* user, like the example in the documentation of doxyxml, calls any       *)
(* method of any object, catches what it raises and goes on.               *)
(***************************************************************************)
EXTENDS DoxyXml

CONSTANTS Browsed,       \* the directories the interactive user looks at
          Categories,    \* the categories it asks for
          Wanted,        \* the names it looks up
          MaxCalls       \* the bound on the calls it makes

VARIABLES pc,            \* "user"; or where swig_doc.py is: "start", "blocks",
                         \* "functions", "classes", "written", "died"
          blocks,        \* the blocks found, None before
          todo,          \* the objects the current loop has before it
          make_funcs,    \* the names of the make functions
          output,        \* the entries made: [scope, name]
          hand,          \* the objects the user has been given
          complained,    \* the objects whose parse ended in an exception
                         \* that reached the user (history)
          calls          \* the calls the user has made

vars == <<dir, heap, pc, blocks, todo, make_funcs, output, hand, complained,
          calls>>

make_name(n) == [n EXCEPT !.form = "make"]

file_name(n) == [n EXCEPT !.form = ".h"]

-----------------------------------------------------------------------------
Init ==
    /\ \/ pc = "start" /\ dir \in Directories
       \/ pc = "user" /\ dir \in Browsed
    /\ heap = NewHeap
    /\ blocks = <<>> /\ todo = <<>> /\ make_funcs = {} /\ output = <<>>
    /\ hand = {Index} /\ complained = {} /\ calls = 0

(* Block.includes: a class without a parsing error that has its make       *)
(* function among its friends.                                             *)
BlockIncludes(h, m) ==
    IF m = None \/ h.objs[m].cls # "DoxyClass" THEN Ret(h, FALSE)
    ELSE Then(error(h, m), LAMBDA g, bad :
            IF bad THEN Ret(g, FALSE)
            ELSE has_member(g, m, make_name(g.objs[m].name), "DoxyFriend"))

(* di.in_category(Block). *)
InCategoryBlock(h) ==
    LET Step(r, m) ==
            Then(r, LAMBDA g, found :
                Then(BlockIncludes(g, m), LAMBDA g2, is :
                    Ret(g2, IF is THEN Append(found, m) ELSE found)))
        all == members(h, Index)
    IN  Then(all, LAMBDA g, ms : FoldLeft(Step, Ret(g, <<>>), ms))

(* make_entry: no entry for an operator, or for want of a description.     *)
Entry(scope, n, described) ==
    IF n.form = "operator" \/ ~described THEN <<>>
    ELSE <<[scope |-> scope, name |-> n]>>

(* A function always has its parameters for a description. *)
make_func_entry(scope, n) == Entry(scope, n, TRUE)

make_class_entry(h, k, described) ==
    Then(in_category(h, k, "DoxyFunction"), LAMBDA g, funcs :
        Ret(g, Entry(NoName, g.objs[k].name, described)
               \o FlattenSeq([i \in DOMAIN funcs |->
                    make_func_entry(g.objs[k].name, g.objs[funcs[i]].name)])))

\* Mutant of FileDescribed: a missing header is an error.
FileRequired(h, block) ==
    Then(get_member(h, Index, file_name(h.objs[block].name), "DoxyFile"),
         LAMBDA g, f : Ret(g, g.objs[f].desc))

(* A header of the name of the block may be missing, not ambiguous. *)
Optional(r) == IF r.raised = "NoSuchMember" THEN Ret(r.h, None) ELSE r

FileDescribed(h, block) ==
    Then(Optional(get_member(h, Index, file_name(h.objs[block].name), "DoxyFile")),
         LAMBDA g, f : Ret(g, f # None /\ g.objs[f].desc))

make_block_entry(h, block) ==
    LET n == h.objs[block].name
    IN  Then(get_member(h, Index, make_name(n), "DoxyFunction"), LAMBDA g, make :
        Then(FileDescribed(g, block), LAMBDA g2, filedesc :
        Then(make_class_entry(g2, block,
                g2.objs[block].desc \/ g2.objs[make].desc \/ filedesc),
             LAMBDA g3, entries :
        Then(get_member(g3, block, n, "DoxyFunction"), LAMBDA g4, creator :
        Ret(g4, entries \o make_func_entry(NoName, make_name(n)))))))

-----------------------------------------------------------------------------
(* make_swig_interface_file *)

Dies(h) ==
    /\ heap' = h /\ pc' = "died"
    /\ UNCHANGED <<blocks, todo, make_funcs, output>>

Script == UNCHANGED <<dir, hand, complained, calls>>

BlocksFound(r) ==
    IF r.raised # "" THEN Dies(r.h)
    ELSE /\ heap' = r.h /\ blocks' = r.val /\ todo' = r.val
         /\ pc' = "blocks"
         /\ UNCHANGED <<make_funcs, output>>

FindBlocks ==
    /\ pc = "start"
    /\ BlocksFound(InCategoryBlock(heap))
    /\ Script

(* Only a ParsingError lets the loops go on. *)
Documented(r, makers) ==
    IF r.raised \notin {"", "ParsingError"} THEN Dies(r.h)
    ELSE /\ heap' = r.h
         /\ make_funcs' = make_funcs \cup makers
         /\ output' = IF r.raised = "" THEN output \o r.val ELSE output
         /\ todo' = Tail(todo)
         /\ UNCHANGED <<pc, blocks>>

DocumentBlock ==
    /\ pc = "blocks" /\ todo # <<>>
    /\ LET maker == make_name(heap.objs[Head(todo)].name)
       IN  Documented(Then(get_member(heap, Index, maker, "DoxyFunction"),
                           LAMBDA g, make : make_block_entry(g, Head(todo))),
                      {maker})
    /\ Script

\* Mutant of BlocksDone: the make functions are not left out.
BlocksDoneAll ==
    /\ pc = "blocks" /\ todo = <<>>
    /\ LET r == in_category(heap, Index, "DoxyFunction")
       IN  heap' = r.h /\ todo' = r.val
    /\ pc' = "functions"
    /\ UNCHANGED <<blocks, make_funcs, output>>
    /\ Script

BlocksDone ==
    /\ pc = "blocks" /\ todo = <<>>
    /\ LET r == in_category(heap, Index, "DoxyFunction")
       IN  /\ heap' = r.h
           /\ todo' = SelectSeq(r.val,
                        LAMBDA f : r.h.objs[f].name \notin make_funcs)
    /\ pc' = "functions"
    /\ UNCHANGED <<blocks, make_funcs, output>>
    /\ Script

DocumentFunction ==
    /\ pc = "functions" /\ todo # <<>>
    /\ output' = output \o make_func_entry(NoName, heap.objs[Head(todo)].name)
    /\ todo' = Tail(todo)
    /\ UNCHANGED <<heap, pc, blocks, make_funcs>>
    /\ Script

FunctionsDone ==
    /\ pc = "functions" /\ todo = <<>>
    /\ LET r == in_category(heap, Index, "DoxyClass")
           names == {r.h.objs[b].name : b \in ToSet(blocks)}
       IN  /\ heap' = r.h
           /\ todo' = SelectSeq(r.val, LAMBDA k : r.h.objs[k].name \notin names)
    /\ pc' = "classes"
    /\ UNCHANGED <<blocks, make_funcs, output>>
    /\ Script

DocumentClass ==
    /\ pc = "classes" /\ todo # <<>>
    /\ Documented(Then(confirm_no_error(heap, Head(todo)), LAMBDA g, k :
                      make_class_entry(g, Head(todo), g.objs[Head(todo)].desc)), {})
    /\ Script

Write ==
    /\ pc = "classes" /\ todo = <<>>
    /\ pc' = "written"
    /\ UNCHANGED <<heap, blocks, todo, make_funcs, output>>
    /\ Script

-----------------------------------------------------------------------------
(* The interactive user.  given is what the answer puts in its hands. *)

Answered(r, given) ==
    /\ heap' = r.h
    /\ calls' = calls + 1
    /\ hand' = hand \cup IF r.raised = "" THEN given \ {None} ELSE {}
    /\ complained' = complained \cup
          IF r.raised = "" THEN {}
          ELSE {o \in DOMAIN r.h.objs : r.h.objs[o].parsed
                    /\ (o \in DOMAIN heap.objs => ~heap.objs[o].parsed)}
    /\ UNCHANGED <<dir, pc, blocks, todo, make_funcs, output>>

Members(o) == LET r == members(heap, o) IN Answered(r, ToSet(r.val))

InCategory(o, cat) ==
    LET r == in_category(heap, o, cat) IN Answered(r, ToSet(r.val))

GetMember(o, n, cat) ==
    LET r == get_member(heap, o, n, cat) IN Answered(r, {r.val})

HasMember(o, n, cat) == Answered(has_member(heap, o, n, cat), {})

Error(o) == Answered(error(heap, o), {})

AskName(o) == o # Index /\ Answered(name(heap, o), {})

User ==
    /\ pc = "user" /\ calls < MaxCalls
    /\ \E o \in hand :
          \/ Members(o) \/ Error(o) \/ AskName(o)
          \/ \E cat \in Categories :
                \/ InCategory(o, cat)
                \/ \E n \in Wanted : GetMember(o, n, cat) \/ HasMember(o, n, cat)

Next ==
    \/ FindBlocks \/ DocumentBlock \/ BlocksDone \/ DocumentFunction
    \/ FunctionsDone \/ DocumentClass \/ Write
    \/ User

Spec == Init /\ [][Next]_vars

-----------------------------------------------------------------------------
(* The values each variable may take; no list holds an object that is not  *)
(* there.                                                                  *)
TypeOK ==
    /\ pc \in {"user", "start", "blocks", "functions", "classes", "written",
               "died"}
    /\ calls \in 0..MaxCalls
    /\ hand \subseteq DOMAIN heap.objs /\ complained \subseteq DOMAIN heap.objs
    /\ ToSet(blocks) \cup ToSet(todo) \subseteq DOMAIN heap.objs
    /\ \A r \in DOMAIN heap.refs : heap.refs[r] \in DOMAIN heap.objs
    /\ \A o \in DOMAIN heap.objs :
          ToSet(heap.objs[o].members) \subseteq {None} \cup DOMAIN heap.objs

(* There is one object for each refid, however it was met first            *)
(* (from_refid, from_parse_data and top._refs).                            *)
OneObjectPerRefid ==
    \A o, p \in DOMAIN heap.objs :
        heap.objs[o].refid # "" /\ heap.objs[o].refid = heap.objs[p].refid
            => o = p

(* No file is read twice, not even one whose parse failed (check_parsed).  *)
ReadOnce == IsInjective(heap.reads)

(* Whatever is asked in whatever order, there is one object for a refid    *)
(* and one reading of its file.                                            *)
ObjectsShared == TypeOK /\ OneObjectPerRefid /\ ReadOnce

(* A cached list of a category, or a cached dictionary, is what would be   *)
(* computed now: nothing was cached before the members were all there      *)
(* (in_category and _get_dict_members).                                    *)
CachesFresh ==
    \A o \in DOMAIN heap.objs :
        /\ \A cat \in DOMAIN heap.objs[o].in_category :
              heap.objs[o].in_category[cat] = OfCategory(heap, o, cat)
        /\ \A cat \in DOMAIN heap.objs[o].dict_members :
              heap.objs[o].dict_members[cat] =
                  ByName(heap, OfCategory(heap, o, cat))

(* What the directory says, without any object: the memberdefs that are    *)
(* the first of their name in their compound.                              *)
FirstDefs(refid) ==
    LET defs == dir.files[refid].memberdefs
        first == SelectSeq([i \in DOMAIN defs |-> i], LAMBDA i :
                    \A j \in 1..(i - 1) : defs[j].name # defs[i].name)
    IN  [k \in DOMAIN first |-> defs[first[k]]]

HowMany(o) ==
    LET x == heap.objs[o]
        Listed(c) == CASE c.kind # "file" -> 1
                       [] c.kind = "file" /\ c.name.form = ".h" ->
                            Len(FirstDefs(c.refid)) + 1
                       [] OTHER -> 0
    IN  CASE x.cls = "DoxyIndex" ->
                FoldLeft(LAMBDA n, c : n + Listed(c), 0, dir.index)
          [] x.cls \in {"DoxyClass", "DoxyFile"} -> Len(FirstDefs(x.refid))
          [] x.cls = "DoxyGroup" ->
                Len(FirstDefs(x.refid)) + Len(dir.files[x.refid].innergroup)
                    + Len(dir.files[x.refid].innerclass)
          [] OTHER -> 0

(* An object that answers with fewer members than its file has, and does   *)
(* not say ParsingError, is one whose parse has raised an exception that   *)
(* the user got to see: the first answer is never silently incomplete      *)
(* (_parse sets _parsed before the work; a later call finds it set).       *)
NeverSilentlyPartial ==
    pc = "user" =>
        \A o \in DOMAIN heap.objs :
            heap.objs[o].parsed /\ ~heap.objs[o].error
                /\ Len(heap.objs[o].members) # HowMany(o)
            => o \in complained

Compounds(kind) == SelectSeq(dir.index, LAMBDA c : c.kind = kind)

Headers == SelectSeq(Compounds("file"), LAMBDA c : c.name.form = ".h")

Functions(c) == SelectSeq(FirstDefs(c.refid), LAMBDA d : d.kind = "function")

Readable == SelectSeq(Compounds("class"),
                      LAMBDA c : dir.files[c.refid].status = "ok")

HeaderFunctions == FlattenSeq([i \in DOMAIN Headers |-> Functions(Headers[i])])

MakeFunctions(c) ==
    SelectSeq(HeaderFunctions, LAMBDA d : d.name = make_name(c.name))

HeadersOf(c) == SelectSeq(Headers, LAMBDA f : f.name = file_name(c.name))

IsBlock(c) ==
    /\ c.name.path = <<>>
    /\ \E d \in ToSet(FirstDefs(c.refid)) :
          d.kind = "friend" /\ d.name = make_name(c.name)

(* What swig_doc.py needs of a directory. *)
Sound ==
    /\ \A c \in ToSet(dir.index) : get_cls(c.kind) # ""
    /\ \A c \in ToSet(Headers) : dir.files[c.refid].status = "ok"
    /\ \A c \in ToSet(Compounds("class")) :
          dir.files[c.refid].status # "unreadable"
    /\ \A c \in {x \in ToSet(Readable) : IsBlock(x)} :
          /\ Len(MakeFunctions(c)) = 1
          /\ Len(HeadersOf(c)) <= 1
          /\ \E d \in ToSet(Functions(c)) : d.name = c.name

(* swig_doc.py dies of an exception exactly for a directory that is not    *)
(* sound: a kind it does not know, a header it cannot read, a class file   *)
(* that is missing, a block whose make function, header or constructor is  *)
(* missing or ambiguous; a class with bad XML is only left out.            *)
DiesOnlyUnsound ==
    /\ pc = "written" => Sound
    /\ pc = "died" => ~Sound

(* The entries that a sound directory asks for. *)
ClassEntries(c) ==
    Entry(NoName, c.name,
          \/ dir.files[c.refid].desc
          \/ IsBlock(c) /\ \/ \E d \in ToSet(MakeFunctions(c)) : d.desc
                           \/ \E f \in ToSet(HeadersOf(c)) : dir.files[f.refid].desc)
    \o FlattenSeq([i \in DOMAIN Functions(c) |->
                      make_func_entry(c.name, Functions(c)[i].name)])

Expected ==
    FlattenSeq([i \in DOMAIN HeaderFunctions |->
                  make_func_entry(NoName, HeaderFunctions[i].name)])
    \o FlattenSeq([i \in DOMAIN Readable |-> ClassEntries(Readable[i])])

BagOf(seq) ==
    [e \in ToSet(seq) |-> Cardinality({i \in DOMAIN seq : seq[i] = e})]

(* The file written has one entry for every function of a header, for      *)
(* every described class and for every member function of a class, and no  *)
(* other: nothing is documented twice, as a block and as a class or as a   *)
(* make function and as a function, and nothing is forgotten               *)
(* (make_swig_interface_file).                                             *)
DocumentedOnce == pc = "written" => BagOf(output) = BagOf(Expected)

=============================================================================
