----------------------------- MODULE MCInbound -----------------------------
(* The Super Admin, an official with two tasks to submit, and a member who  *)
(* is registered as an official on the way; one more task to be created.    *)
EXTENDS Inbound

CONSTANTS hope, david, ruth, poster, song, video

Mail(from, words) ==
    [from |-> from, place |-> "direct", invokes |-> FALSE, quotes |-> None, words |-> words,
     names |-> {}, number |-> None, media |-> FALSE, subject |-> None]

MCMails ==
    {[Mail(hope, {"change"}) EXCEPT !.names = {song}],
     [Mail(hope, {"complete"}) EXCEPT !.names = {poster}],
     [Mail(hope, {"register"}) EXCEPT !.subject = ruth],
     Mail(david, {"done"}), Mail(david, {"blocked"}),
     [Mail(david, {"started"}) EXCEPT !.names = {song}],
     [Mail(david, {}) EXCEPT !.number = 1],
     [Mail(david, {}) EXCEPT !.quotes = poster, !.media = TRUE, !.place = "officials"],
     [Mail(ruth, {}) EXCEPT !.place = "community"],
     [Mail(ruth, {"interests"}) EXCEPT !.place = "community", !.invokes = TRUE],
     [Mail(ruth, {"seen"}) EXCEPT !.quotes = song, !.place = "officials"]}

MCRoles == [u \in Users |-> IF u = hope THEN "SUPER_ADMIN"
                            ELSE IF u = david THEN "OFFICIAL" ELSE "none"]
MCRows == [t \in {poster, song} |-> {david}]
MCLimit == [r \in Roles |-> IF r = "COMMUNITY_MEMBER" THEN 1 ELSE 2]
=============================================================================
