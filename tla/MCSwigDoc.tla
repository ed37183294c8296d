----------------------------- MODULE MCSwigDoc ------------------------------
(* Directories for SwigDoc: up to three compounds out of a catalogue, in   *)
(* any order, and blocks with the headers that may go with them.           *)
EXTENDS SwigDoc

Simple(base) == Name(<<>>, base, "")

Def(kind, n) == [kind |-> kind, name |-> n, desc |-> FALSE]

File(status, desc, memberdefs, innergroup, innerclass) ==
    [status |-> status, desc |-> desc, memberdefs |-> memberdefs,
     innergroup |-> innergroup, innerclass |-> innerclass]

Operator == Name(<<>>, "eq", "operator")

MCFiles == [
    block   |-> File("ok", TRUE, <<Def("function", Simple("b")),
                     Def("friend", Name(<<>>, "b", "make")),
                     Def("function", Operator)>>, <<>>, <<>>),
    noctor  |-> File("ok", FALSE, <<Def("friend", Name(<<>>, "d", "make"))>>,
                     <<>>, <<>>),
    plain   |-> File("ok", FALSE, <<Def("function", Simple("f")),
                     Def("signal", Simple("s")), Def("function", Simple("f"))>>,
                     <<>>, <<>>),
    scoped  |-> File("ok", TRUE, <<Def("function", Simple("q")),
                     Def("friend", Name(<<"gr">>, "q", "make"))>>, <<>>, <<>>),
    bad     |-> File("badxml", TRUE, <<Def("function", Simple("f"))>>, <<>>, <<>>),
    gone    |-> File("unreadable", TRUE, <<Def("function", Simple("f"))>>,
                     <<>>, <<>>),
    header  |-> File("ok", FALSE, <<Def("function", Name(<<>>, "b", "make")),
                     Def("function", Simple("g"))>>, <<>>, <<>>),
    header2 |-> File("ok", TRUE, <<Def("function", Simple("g"))>>, <<>>, <<>>),
    header3 |-> File("ok", FALSE,
                     <<[Def("function", Name(<<>>, "b", "make")) EXCEPT !.desc = TRUE],
                       Def("property", Simple("p"))>>, <<>>, <<>>),
    header4 |-> File("ok", FALSE, <<Def("function", Name(<<>>, "d", "make"))>>,
                     <<>>, <<>>),
    badhdr  |-> File("badxml", TRUE, <<Def("function", Simple("g"))>>, <<>>, <<>>),
    source  |-> File("unreadable", TRUE, <<>>, <<>>, <<>>),
    group   |-> File("ok", TRUE, <<Def("function", Simple("g"))>>, <<"group2">>,
                     <<"block", "gone", "block">>),
    group2  |-> File("ok", TRUE, <<>>, <<>>, <<"bad">>),
    space   |-> File("ok", TRUE, <<Def("function", Simple("q"))>>, <<>>, <<>>),
    page    |-> File("ok", TRUE, <<>>, <<>>, <<>>),
    concept |-> File("ok", TRUE, <<>>, <<>>, <<>>)]

C(kind, refid, n) == [kind |-> kind, refid |-> refid, name |-> n]

Catalogue == {
    C("class", "block", Simple("b")), C("class", "noctor", Simple("d")),
    C("class", "plain", Simple("k")), C("class", "scoped", Name(<<"gr">>, "q", "")),
    C("class", "bad", Simple("x")), C("class", "gone", Simple("y")),
    C("file", "header", Name(<<>>, "b", ".h")),
    C("file", "header2", Name(<<>>, "b", ".h")),
    C("file", "header3", Name(<<>>, "o", ".h")),
    C("file", "header4", Name(<<>>, "d", ".h")),
    C("file", "badhdr", Name(<<>>, "z", ".h")), C("file", "source", Simple("c")),
    C("group", "group", Simple("m")), C("group", "group2", Simple("m2")),
    C("namespace", "space", Simple("gr")), C("page", "page", Simple("p")),
    C("concept", "concept", Simple("t"))}

Distinct(s) == Cardinality(ToSet(s)) = Len(s)

MCDirectories ==
    {[index |-> s, files |-> MCFiles] :
        s \in {t \in UNION {[1..n -> Catalogue] : n \in 0..2} : Distinct(t)}
            \cup {t \in [1..3 -> Catalogue] :
                    /\ Distinct(t)
                    /\ \E i \in 1..3 : t[i].refid \in {"block", "noctor", "group"}}}

Browsable == {c \in Catalogue :
    c.refid \in {"block", "header3", "badhdr", "gone", "group", "concept"}}

MCBrowsed ==
    {[index |-> s, files |-> MCFiles] :
        s \in {t \in UNION {[1..n -> Browsable] : n \in 1..2} : Distinct(t)}}

MCCategories == {"all", "DoxyFunction"}

MCWanted == {Simple("b"), Name(<<"b">>, "b", "")}

=============================================================================
