----------------------------- MODULE MCWorkers -----------------------------
(* Constants for model checking Workers. *)
EXTENDS Workers

NoneOrAll == {{}, Workers}
=============================================================================
