-------------------------- MODULE MCRequestHandler --------------------------
(* Instances of RequestHandler for TLC: one kind of data; the client sends *)
(* requests of every type, pulls data only, or sets the clock only.        *)
EXTENDS RequestHandler

MCKinds == {"microphone"}
MCRequests == RequestTypes
DataRequests == {"data"} \X MCKinds
StatusRequests == {<<"status", None>>, <<"stop", None>>}
=============================================================================
