---------------------------- MODULE MCMockRegistry ----------------------------
(* Small instances of MockRegistry for TLC. *)
EXTENDS MockRegistry, TLC

Spelled(base, tail) == [base |-> base, tail |-> tail]
A == Plain("a")
B == Plain("b")
Everything == Plain(Wildcard)
AdminOnceMore == Spelled(AdminPrefix, <<"space", "slash">>)
AdminTwiceMore == Spelled(AdminPrefix, <<"space", "slash", "space", "slash">>)

Static == [kind |-> "static", methods |-> {"GET", "POST"}]
Sequenced == [kind |-> "sequence", methods |-> {"GET"}]
Recorded == [kind |-> "recording", methods |-> {"GET", "POST"}]
AllMocks == {Static, Sequenced, Recorded}

MCPaths == {A, Spelled("a", <<"slash">>), Spelled("a", <<"space", "slash">>), Everything, AdminOnceMore, AdminTwiceMore}
MCUrls == {A, Slashed(A), Plain(Root), Plain(AdminPrefix), Slashed(Plain(AdminPrefix)), Spelled(AdminPrefix, <<"space">>)}

Item(path, mock, recordings) == [path |-> path, mock |-> mock, recordings |-> recordings]
MCDocuments ==
    {<< >>,
     <<Item(A, Recorded, 1)>>,
     <<Item(Plain(Root), Static, 0)>>,
     <<Item(A, Recorded, 1), Item(Everything, Sequenced, 0)>>,
     <<Item(Everything, Recorded, 0), Item(A, Sequenced, 0)>>,
     <<Item(Everything, Static, 0), Item(Plain(Root), Static, 0), Item(A, Static, 0)>>,
     \* two spellings of one path pass the check for duplicates
     <<Item(A, Recorded, 1), Item(Spelled("a", <<"space", "slash">>), Sequenced, 0)>>,
     \* the second path turns out to be reserved when the first is in place
     <<Item(A, Static, 0), Item(AdminTwiceMore, Static, 0)>>,
     \* refused: a duplicate, a reserved path, recordings of a static mock, too many recordings
     <<Item(A, Static, 0), Item(Slashed(A), Sequenced, 0)>>,
     <<Item(A, Static, 0), Item(AdminOnceMore, Static, 0)>>,
     <<Item(A, Static, 1)>>,
     <<Item(A, Recorded, MaxProgress + 1)>>}

\* Every property is of the mocks and of single steps, so states that differ in the
\* last event only need not be told apart.
MocksView == app

\* Documents whose second mock is refused only after the first is in place.
DeepDocuments == {<<Item(A, Static, 0), Item(AdminTwiceMore, Static, 0)>>, <<Item(A, Static, 0)>>}
===============================================================================
