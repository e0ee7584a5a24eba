---------------------------- MODULE MCConnection ----------------------------
(* Two requests on a connection, of the kinds that differ in what the server    *)
(* does with them; the content of the one for a program fills a pipe.           *)
EXTENDS Connection

Page == [known |-> TRUE, keep |-> TRUE, body |-> 1, kind |-> "page", most |-> 1]
Program == [known |-> TRUE, keep |-> FALSE, body |-> 2, kind |-> "cgi", most |-> 2]
Verbatim == [known |-> TRUE, keep |-> FALSE, body |-> 0, kind |-> "nph", most |-> 0]
Unknown == [known |-> FALSE, keep |-> TRUE, body |-> 1, kind |-> "page", most |-> 0]

Two ==
  {<<Page, Page>>, <<Page, Program>>,
   <<[Program EXCEPT !.keep = TRUE, !.body = 0], [Program EXCEPT !.body = 0]>>,
   <<Page, Verbatim>>, <<Page, Unknown>>,
   <<[Page EXCEPT !.body = 0, !.most = 2], [Program EXCEPT !.body = 0, !.most = 1]>>}

=============================================================================
