----------------------------- MODULE MCDocTools -----------------------------
(* The two programs of docs/doxygen, of which a developer starts one: a    *)
(* generated module, which reads a file and writes it out again, or        *)
(* swig_doc.py and whoever else uses doxyxml.  The other one never runs.   *)
EXTENDS MCGenerateDS, MCSwigDoc

VARIABLE program    \* "generated" or "doxyxml"

GraphAtRest ==
    /\ stage = "file" /\ user = "script" /\ stdout = "ascii"
    /\ doc = Document("DoxygenType", NoAttrs, <<>>)
    /\ obj = Null /\ again = Null /\ out = Leaf("text", <<>>) /\ text = <<>>

DoxyxmlAtRest ==
    /\ pc = "start" /\ dir = [index |-> <<>>, files |-> MCFiles]
    /\ heap = NewHeap
    /\ blocks = <<>> /\ todo = <<>> /\ make_funcs = {} /\ output = <<>>
    /\ hand = {Index} /\ complained = {} /\ calls = 0

ToolsInit ==
    \/ program = "generated" /\ GraphInit /\ DoxyxmlAtRest
    \/ program = "doxyxml" /\ Init /\ GraphAtRest

ToolsNext ==
    \/ program = "generated" /\ GraphNext /\ UNCHANGED <<vars, program>>
    \/ program = "doxyxml" /\ Next /\ UNCHANGED <<graphVars, program>>

ToolsSpec == ToolsInit /\ [][ToolsNext]_<<graphVars, vars, program>>

=============================================================================
