------------------------------ MODULE MCSubmit ------------------------------
EXTENDS Submit

Png(size) ==
  [type |-> "screenshot", mime |-> "png", url |-> "base64", size |-> size, sniffed |-> "png"]

Request(hint, email, atts) == [hint |-> hint, email |-> email, atts |-> atts, invalid |-> FALSE]

(* A list for each way to be refused *)
Refused ==
  { <<Png(2), Png(2)>>, <<Png(1), Png(3)>>,
    <<[Png(1) EXCEPT !.type = "file"]>>,
    <<[Png(1) EXCEPT !.mime = "svg", !.sniffed = "svg"]>>,
    <<[Png(1) EXCEPT !.url = "malformed"]>>,
    <<[Png(1) EXCEPT !.sniffed = "svg"]>> }

Various ==
  {Request(hint, NoEmail, atts) : hint \in Adapters, atts \in {<<>>, <<Png(2), Png(1)>>}}
    \cup {Request(NoAdapter, NoEmail, atts) : atts \in Refused}
    \cup {Request(NoAdapter, NoEmail, <<Png(1)>>),
          [Request(NoAdapter, NoEmail, <<>>) EXCEPT !.invalid = TRUE]}

Signed == {Request("chatwoot", email, <<>>) : email \in Emails}

(* The first submission is anybody's, the second a signed-in user's. *)
MCRequests ==
  [r \in Submissions |->
     IF r = CHOOSE s \in Submissions : TRUE THEN Various \cup Signed ELSE Signed]

MCRules == << [class |-> {"other"}, severity |-> {}, to |-> "linear"] >>

=============================================================================
