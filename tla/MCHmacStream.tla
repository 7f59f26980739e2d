---------------------------- MODULE MCHmacStream ---------------------------
(* Context slots, keys and digest names for the HMAC model. *)
EXTENDS HmacStream, TLC

CONSTANTS c1, c2

MCOneCtx == {c1}
MCTwoCtxs == {c1, c2}
MCShortKey == {[id |-> "k1", long |-> FALSE]}
MCTwoKeys == {[id |-> "k1", long |-> FALSE], [id |-> "k2", long |-> FALSE]}
MCLongKey == {[id |-> "k1", long |-> TRUE]}
MCSymmetry == Permutations(MCTwoCtxs)
====
