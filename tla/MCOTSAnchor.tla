----------------------------- MODULE MCOTSAnchor ----------------------------
(* Small instance of OTSAnchor: two heads over one tree, and two calendars of which the first *)
(* promises nothing.                                                                          *)
EXTENDS OTSAnchor

MCHeads == {[root |-> "r1", ts |-> 1], [root |-> "r1", ts |-> 2]}

MCCalendars == <<"flaky", "steady">>
=============================================================================
