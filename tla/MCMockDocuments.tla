--------------------------- MODULE MCMockDocuments ---------------------------
(* A small instance of MockDocuments for TLC. *)
EXTENDS MockDocuments

Rule(sequence, host) == [sequence |-> sequence, proxy_host |-> host]

Values ==
    [body |-> {Null, "text"},
     status_code |-> {Null, 404},
     headers |-> {Null, {"x"}},
     methods |-> {Null, {}, {"GET"}},
     proxy_host |-> {Null, NoHost, "relative", "http://upstream"},
     rules |-> {Null, << >>, <<Rule(FALSE, "http://rule")>>, <<Rule(TRUE, Null)>>, <<Rule(TRUE, "http://rule")>>, <<Rule(FALSE, "relative")>>},
     sequence |-> {Null, "responses"},
     recording |-> {Null, "record", "replay"}]

\* Up to three arguments at a time; several calls reach every combination.
Passed(f) == {[x \in {f} |-> value] : value \in Values[f]}
MCGiven ==
    {<< >>} \union UNION {{Merge(Merge(a, b), c) : a \in Passed(f), b \in Passed(g), c \in Passed(h)} :
                            f \in Fields, g \in Fields, h \in Fields}

\* The properties are of what is stored and of single calls.
SavedView == saved
===============================================================================
