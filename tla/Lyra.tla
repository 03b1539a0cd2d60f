-------------------------------- MODULE Lyra --------------------------------
(***************************************************************************)
(* What the controllers may rely on when they call LyraClient: how a call  *)
(* ends, and whether the Lyra service did what it was asked.  LyraClient   *)
(* shows that its calls end so.                                            *)
(***************************************************************************)

\* answered : a response that names what Lyra did
\* empty    : no error, and a response without content: an error body decodes
\*            to one, whether Lyra did its work before it failed or refused it
\* error    : an error, before or after Lyra did its work
\* panic    : the client is nil, or could not be made
Calls == [how : {"answered"}, took : {TRUE}]
    \cup [how : {"empty", "error"}, took : BOOLEAN]
    \cup [how : {"panic"}, took : {FALSE}]

=============================================================================
