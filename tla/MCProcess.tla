------------------------------ MODULE MCProcess ------------------------------
(* TLC instances of Process.                                               *)
EXTENDS Process

\* Roots without and with parts of the path to the migrations, and in them the
\* directories on that path, in the middle of it and beside it.
Roots == {<<>>, <<"srv", "app">>, <<"pg", "app">>, <<"internal", "app">>,
          <<"srv", "internal">>, <<"store", "pg", "app">>}

Belows == {SubSeq(StoreMigrationRelativePath, 1, n) : n \in 0 .. 4}
            \cup {<<"cmd">>, <<"internal", "store", "mocks">>,
                  <<"store">>, <<"pg", "migrations">>}

Directories == {[root |-> r, below |-> b] : r \in Roots, b \in Belows}
=============================================================================
