------------------------ MODULE MC_RemoteFileLoader ------------------------
EXTENDS RemoteFileLoader, TLC

CONSTANTS c1, c2, c3, c4, c5, ld, f1, f2, req

\* Ranks of the node asking for the two files of one checkpoint, several
\* ranks asking for the same file.
MCWant4 == (c1 :> f1) @@ (c2 :> f1) @@ (c3 :> f2) @@ (c4 :> f2)
MCWant5 == MCWant4 @@ (c5 :> f1)
MCClients4 == {c1, c2, c3, c4}
MCClients5 == {c1, c2, c3, c4, c5}
MCFiles == {f1, f2}
MCThreads4 == MCClients4 \cup {ld}
MCThreads5 == MCClients5 \cup {ld}
MCChans == {req}
\* req_ch_{4}
MCCap == req :> 4
=============================================================================
