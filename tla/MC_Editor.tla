------------------------------ MODULE MC_Editor ------------------------------
\* The editor, and an arbitrary module with one or two pages of memory, each
\* alone on the kernel; two more modules are refused.
EXTENDS Editor

Exports == {"handle_request", "get_response_ptr", "memory"}
Anything(pages) == [name |-> "any", size |-> 1, parses |-> TRUE, pages |-> pages,
               starts |-> TRUE, exports |-> Exports, data |-> << >>]
TheEditor == [Anything(5) EXCEPT !.name = "editor", !.data = (DOC :> "doc")]
MCModules == {TheEditor, Anything(1), Anything(2), Anything(9), [Anything(2) EXCEPT !.size = 9]}

MCPaths == {<< "doc", "a" >>, << "doc", "b" >>, << "doc", "a", "a" >>}
MCDisks == {[p \in MCPaths |-> IF p = << "doc", "b" >> THEN << "o", "p", "q", "r" >> ELSE Absent]}

Of(path, bodies) == {[path |-> << path >>, body |-> b] : b \in bodies}
MCRequests ==
    Of("read", {<< "a" >>, << "b" >>, << "a", "a", "a" >>, << "bad" >>})
    \cup Of("save", {<< "a", "nl", "x", "y", "z", "w", "v", "u" >>, << "b", "nl", "x", "nl" >>,
                     << "a", "a", "a", "nl" >>, << "nl", "x" >>})
    \cup Of("files", {<< >>}) \cup {[path |-> << "read", "x" >>, body |-> << "doc", "a" >>]}

\* A client saves a file with a quote in its name, and another lists the files.
EditorOnly == {TheEditor}
QuotePaths == {<< "doc", "a", "quote" >>, << "doc", "b" >>}
QuoteDisks == {[p \in QuotePaths |-> IF p = << "doc", "b" >> THEN << "o" >> ELSE Absent]}
QuoteRequests == Of("save", {<< "a", "quote", "nl", "x" >>}) \cup Of("files", {<< >>})

MCFeed == << "f", "e", "d" >>
MCTorn == << >>
MCPtrs == {-1, 13, 19}
MCLens == {-1, 0, 2, 7}
MCMaxRequests == [editor |-> 3, any |-> 1]
=============================================================================
