---------------------------- MODULE MC_BatchPool ----------------------------
EXTENDS BatchPool, TLC

CONSTANTS w1, w2, fd, hd, m1, m2, ch, resch

MCWorkers == {w1, w2}
MCThreads == {w1, w2, fd, hd}
MCTasks == {m1, m2}
MCTaskSeq == <<m1, m2>>
MCChans == {ch, resch}
MCValues == {m1, m2, TRUE, FALSE}
\* Both channels are default-constructed: cap_ = 0, no bound.
MCCap == [c \in MCChans |-> 0]
=============================================================================
