------------------------------ MODULE PriceFeed ------------------------------
(***************************************************************************)
(* What a reader of the oracle is promised: an append-only list of         *)
(* positive answers, each with the time it was published, in time order.   *)
(* Entry n is round n.  Nothing is said of accounts, storage or events.    *)
(***************************************************************************)
EXTENDS Integers, Sequences

VARIABLE feed

Entry == [answer : Nat \ {0}, at : Nat]

FeedInit == Len(feed) = 1 /\ feed[1] \in Entry

\* One entry is added at the end, not back in time; the others stay.
Publish ==
    LET n == Len(feed)
    IN  /\ Len(feed') = n + 1
        /\ \A i \in 1..n : feed'[i] = feed[i]
        /\ feed'[n + 1] \in Entry
        /\ feed[n].at <= feed'[n + 1].at

FeedSpec == FeedInit /\ [][Publish]_feed
=============================================================================
