----------------------------- MODULE MCAdmission -----------------------------
(***************************************************************************)
(* Instances of Admission.  The policy allows plain HTTP and one listed    *)
(* host; one spec meets every rule, one fails that of the host, one does   *)
(* not parse.                                                              *)
(***************************************************************************)
EXTENDS Admission

Allowed == [scheme |-> "http", credentials |-> FALSE, host |-> "listed"]
Good    == [parses |-> TRUE, url |-> Allowed, complete |-> TRUE]

MCPolicy == [allowed_hosts |-> {"listed", "internal"}, allow_http |-> TRUE,
             allow_private_networks |-> FALSE]
MCSpecs  == {Good,
             [Good EXCEPT !.url.host = "internal"],
             [Good EXCEPT !.parses = FALSE]}
=============================================================================
