------------------------------ MODULE Deliver -------------------------------
(***************************************************************************)
(* A request from its URL to its end: Locate finds what the URL names, and *)
(* if that is a program, Gateway passes the request through it.  The two   *)
(* are parts of one function: the second begins where the first leaves off *)
(* with the file found, the client admitted and the posted data read.      *)
(***************************************************************************)
EXTENDS Locate, Gateway

vars == <<locateVars, gatewayVars>>

Init == LocateInit /\ GatewayInit

\* The program that was found gets what the client posted (SCGI with a header in
\* front).  The files and the lines of -auth are not looked at any more.
Begin ==
  /\ pc \in {"cgi", "scgi"} /\ gpc = "idle"
  /\ proto' = pc
  /\ gpc' = IF pc = "cgi" THEN "pipes" ELSE "spec"
  /\ \E nPostData \in 0..MaxPost :
       size' = IF pc = "cgi" THEN nPostData ELSE nPostData + 1
  /\ pc' = "program"
  /\ url' = Root /\ tree' = <<>> /\ useHttps' = FALSE /\ zHttpScheme' = "http"
  /\ level' = 0 /\ zFile' = NoFile /\ zPathInfo' = <<>>
  /\ authFile' = "none" /\ auth' = <<>> /\ line' = 0 /\ came' = 0 /\ hops' = 0
  /\ UNCHANGED <<tag, to, zRelight, zFallback, addr, held, polite, relit, tries,
                 traffic, prog, result>>

Process ==
  \/ Lookup /\ UNCHANGED gatewayVars
  \/ Begin
  \/ Server /\ UNCHANGED locateVars

Client == (Follow \/ StayOnHttp) /\ UNCHANGED gatewayVars
Peer == Program /\ UNCHANGED locateVars
Timer == Alarm /\ UNCHANGED locateVars

Settled == pc = "replied" \/ gpc = "ended"
Stop == Settled /\ UNCHANGED vars

Next == Process \/ Client \/ Peer \/ Timer \/ Stop

\* The process runs unless it waits.  A polite program runs too, and no alarm is
\* needed for it; from any other nothing is expected, and the alarm goes off.
Spec ==
  /\ Init /\ [][Next]_vars
  /\ WF_vars(Process)
  /\ WF_vars(polite /\ Peer) /\ WF_vars(~polite /\ Timer)

-----------------------------------------------------------------------------
(* Properties. *)

\* Every request comes to an end, up to what the client has still to take of its
\* reply: the walk and its search upwards end, the relight loop ends, server and
\* program never wait for each other if the program is polite, and an alarm ends
\* any other wait.
EveryRequestEnds == (pc = "request") ~> Settled

=============================================================================
