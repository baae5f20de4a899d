--------------------------- MODULE MCServiceTrust ---------------------------
(* Two result keys: the document that lists the first expires early, and    *)
(* the one published after it may withdraw that key.                        *)
EXTENDS ServiceTrust, TLC

Key(id, until) == [id |-> id, from |-> 0, until |-> until]

MCKeyPool == {Key("old", 1), Key("new", 9)}

MCOffers == {[keys |-> {Key("old", 1)}, lifetime |-> 1], [keys |-> {Key("new", 9)}, lifetime |-> 3]}

\* The service begins with the document that expires early.
MCInit == Init /\ documents[1].expires = 1
MCSpec == MCInit /\ [][Next]_vars
=============================================================================
