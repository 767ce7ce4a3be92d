------------------------------ MODULE MCRelay -------------------------------
EXTENDS Relay

Start(had, inv, push, drop, start) ==
    [have |-> had, budget |-> [inv |-> inv, push |-> push, drop |-> drop, start |-> start]]

\* The node lacks everything, or has it all and synchronises headers; what happens
\* unasked is taken two at a time, and a second synchronisation replaces the first.
MCStarts == {
    Start({}, 1, 0, 1, 0), Start({}, 1, 1, 0, 0), Start({}, 0, 1, 1, 0),
    Start(Items, 0, 0, 1, 1), Start(Items, 0, 0, 0, 2), Start({}, 0, 0, 0, 1)}
=============================================================================
