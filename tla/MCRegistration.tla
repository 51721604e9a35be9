--------------------------- MODULE MCRegistration ---------------------------
(***************************************************************************)
(* Instances of Registration for TLC.                                       *)
(***************************************************************************)
EXTENDS Registration

Entry(id, transport, enabled) ==
  [id |-> id, username |-> TRUE, server |-> id # "noserver",
   transport |-> transport, enabled |-> enabled]

Missing == [kind |-> "missing", entries |-> <<>>]
Broken == [kind |-> "broken", entries |-> <<>>]
Holding(entries) == [kind |-> "accounts", entries |-> entries]

\* Two accounts, among entries that are refused: one without a server, one
\* beyond the limit, and a second one of the same id.
Plain == <<Entry("a", "udp", TRUE), Entry("b", "TLS", TRUE)>>
Crowded == <<Entry("noserver", "udp", TRUE), Entry("a", "tls", FALSE),
             Entry("b", "tcp", TRUE), Entry("c", "udp", TRUE)>>
Doubled == <<Entry("a", "tls", TRUE), Entry("a", "udp", TRUE)>>

MCFiles == {<<Holding(Plain)>>, <<Missing, Holding(Crowded), Broken>>,
            <<Missing, Missing, Holding(Doubled)>>, <<Broken, Missing, Missing>>}

MCOptions == [account : {"a", "b", NoId}, unregister : BOOLEAN, timed : BOOLEAN]
=============================================================================
