------------------------------ MODULE MCService ------------------------------
(* TLC instances of Service.                                               *)
EXTENDS Service, TLC

\* Two hashes in a query string, three in a path.
TwoOrThree == [query |-> 2, rlp |-> 3]

Named(spelling) == [tx : Tx, spelling : {spelling}]

\* Valid lists of up to two hashes, proper or without 0x; the rest of the
\* spellings; and one request for each reason to refuse it.
Queries ==
    LET proper == Named("lower") \cup Named("bare")
        lists  == {<<n>> : n \in proper} \cup {<<m, n>> : m \in proper, n \in proper}
        ask(path, enc, list) == [route |-> path, encoding |-> enc, names |-> list]
    IN  {ask("query", "hex", l) : l \in lists \cup {<<>>}}
        \cup {ask("query", "hex", <<n>>) : n \in Named("mixed") \cup Named("other")}
        \cup {ask("rlp", "hex", <<n>>) : n \in Named("other")}
        \cup {ask("query", "hex", <<n, n, n>>) : n \in Named("lower")}
        \cup {ask("rlp", "hex", <<>>)}
        \cup {ask("rlp", e, <<n>>) : e \in {"0xhex", "broken"}, n \in Named("lower")}

DataSymmetry == Permutations(Tx) \cup Permutations(User) \cup Permutations(Request)
=============================================================================
